-------------------------------- MODULE MCMtp --------------------------------
(* Values for the constants of Mtp that a .cfg cannot write down.            *)
EXTENDS Mtp

MCChunks == <<1, 2, 3>>
=============================================================================
