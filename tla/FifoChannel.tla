----------------------------- MODULE FifoChannel -----------------------------
(***************************************************************************)
(* What a reliable channel of the network layer promises to the code above  *)
(* it (Connection::Send and the events of Connection::waitEvent): messages  *)
(* come out in the order they were sent, each once, until one side drops    *)
(* the other.  While both keep the connection, every message arrives.       *)
(***************************************************************************)
EXTENDS Naturals, Sequences

CONSTANT Count       \* how many messages are sent: 1 .. Count

VARIABLES asked,     \* messages given to Connection::Send
          delivered, \* messages handed out, in order
          link       \* "up", or "down" once a side has dropped the other

vars == <<asked, delivered, link>>

Init == asked = 0 /\ delivered = <<>> /\ link = "up"

Send == asked < Count /\ asked' = asked + 1 /\ UNCHANGED <<delivered, link>>

\* The next message, and no other, is handed out.
Deliver ==
  /\ Len(delivered) < asked
  /\ delivered' = Append(delivered, Len(delivered) + 1)
  /\ UNCHANGED <<asked, link>>

DeliverUp == link = "up" /\ Deliver

Drop == link = "up" /\ link' = "down" /\ UNCHANGED <<asked, delivered>>

Next == Send \/ Deliver \/ Drop

Spec == Init /\ [][Next]_vars

FairSpec == Spec /\ WF_vars(DeliverUp)
=============================================================================
