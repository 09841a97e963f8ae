------------------------------- MODULE SeqNum -------------------------------
(***************************************************************************)
(* The arithmetic of the reliable channels' 16-bit sequence numbers         *)
(* (src/src/network/mtp/internal.h and the uses of it in impl.cpp and       *)
(* threads.cpp).  SeqSpace is SEQNUM_MAX + 1.  Every comparison the code    *)
(* makes is written here as the code makes it; Distance is the reference    *)
(* the properties and the theorems of SeqNumProofs measure them against.    *)
(***************************************************************************)
EXTENDS Integers

CONSTANT SeqSpace    \* how many sequence numbers there are: 65536 in the code

ASSUME SeqSpaceAssumption == SeqSpace \in Nat \ {0} /\ SeqSpace % 2 = 0

SeqNums == 0 .. SeqSpace - 1

\* MAX_RELIABLE_WINDOW_SIZE: what a receiver accepts, half of the numbers.
MaxWindow == SeqSpace \div 2

\* An assignment to a u16.
U16(n) == n % SeqSpace

\* How many steps lead from one number to the other, counting upwards.
Distance(from, to) == U16(to - from)

\* C++'s remainder of a number that may be negative.
Rem(a, b) == IF a >= 0 THEN a % b ELSE -((-a) % b)

seqnum_higher(totest, base) ==
  IF totest > base THEN totest - base <= (SeqSpace - 1) \div 2
                   ELSE base - totest > (SeqSpace - 1) \div 2

seqnum_in_window(seqnum, next, size) ==
  LET end == U16(next + size)
  IN  IF next < end THEN next <= seqnum /\ seqnum < end
                    ELSE next <= seqnum \/ seqnum < end

\* The lower end of the numbers a sent buffer accepts, as
\* sendAsPacketReliable computes it ("wtf is this calculation??").
SentBase(next) == U16(Rem(next - MaxWindow, MaxWindow + 1))

\* Whether getOutgoingSequenceNumber hands out the number "next" while "lowest"
\* is the first number of a sent buffer that is not empty.
WindowAllows(lowest, next, window) ==
  IF lowest < next THEN next - lowest <= window
                   ELSE next + (SeqSpace - 1 - lowest) <= window

\* Mutant: numbers are put back without wrapping around.
PutBackFits_NoWrap(initial, k, next) == initial + k + 1 = next

\* Whether putBackSequenceNumber takes back the k-th number (from 0) of a
\* command whose first number was "initial".
PutBackFits(initial, k, next) ==
  (U16(initial + (k % SeqSpace)) + 1) % SeqSpace = next

\* Mutant: the order of the buffer ignores the wrap-around.
StaysInFront_NoWrap(s, seqnum, next_expected) == s < seqnum /\ s >= next_expected

\* The loop condition of ReliablePacketBuffer::insert: the entry with number
\* "s" stays in front of the new one.
StaysInFront(s, seqnum, next_expected) ==
  IF seqnum < next_expected THEN s < seqnum \/ s >= next_expected
                            ELSE s < seqnum /\ s >= next_expected
=============================================================================
