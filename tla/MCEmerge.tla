------------------------------ MODULE MCEmerge ------------------------------
(* A chunk of two blocks and a chunk of one, or each block a chunk of its    *)
(* own; the first three in a row: a chunk has what is next to it as border. *)
EXTENDS Emerge

CONSTANTS p1, b1, b2, b3, b4, b5
MCChunk == [b \in Blocks |-> IF b = b2 THEN b1 ELSE b]
MCAlone == [b \in Blocks |-> b]
Adjacent(a, b) == {a, b} \in {{b1, b2}, {b2, b3}}
MCArea == [c \in Blocks |->
  {b \in Blocks : Chunk[b] = c \/ \E a \in Blocks : Chunk[a] = c /\ Adjacent(a, b)}]
=============================================================================
