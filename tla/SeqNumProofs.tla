---------------------------- MODULE SeqNumProofs ----------------------------
(* What the comparisons of SeqNum compute, for every even number of sequence *)
(* numbers: each is a statement about Distance, the wrap-around included.   *)
EXTENDS SeqNum, TLAPS

\* The remainder of a number at most one lap away, which is all U16 is given.
LEMMA OneLap ==
  ASSUME NEW N \in Nat \ {0}, NEW a \in Int
  PROVE  /\ a \in 0 .. N - 1 => a % N = a
         /\ a \in N .. 2 * N - 1 => a % N = a - N
         /\ a \in -N .. -1 => a % N = a + N
BY SMT

\* Adding a multiple of N does not change the remainder, ...
LEMMA Quotient ==
  ASSUME NEW N \in Nat \ {0}, NEW q \in Int, NEW r \in 0 .. N - 1
  PROVE  (q * N + r) % N = r
<1> DEFINE x == q * N + r
           d == x \div N
           m == x % N
<1>1. x \in Int /\ d \in Int /\ m \in 0 .. N - 1
  BY SMT
<1>2. x = d * N + m
  BY SMT
<1>3. (q - d) * N = m - r
  BY <1>1, <1>2, SMT
<1>4. q = d
  <2>1. CASE q - d >= 1
    <3>1. (q - d) * N >= N
      BY <2>1, <1>1, SMT
    <3> QED
      BY <3>1, <1>1, <1>3, SMT
  <2>2. CASE q - d <= -1
    <3>1. (q - d) * N <= -N
      BY <2>2, <1>1, SMT
    <3> QED
      BY <3>1, <1>1, <1>3, SMT
  <2> QED
    BY <2>1, <2>2, <1>1, SMT
<1> QED
  BY <1>1, <1>2, <1>4, SMT

LEMMA DivisionLaw ==
  ASSUME NEW N \in Nat \ {0}, NEW x \in Int
  PROVE  /\ (x % N) \in 0 .. N - 1 /\ (x \div N) \in Int
         /\ x = (x \div N) * N + (x % N)
BY SMT

\* ... so that a summand may be reduced before it is added.
LEMMA SumOfRemainder ==
  ASSUME NEW N \in Nat \ {0}, NEW a \in Int, NEW b \in Int
  PROVE  (a + (b % N)) % N = (a + b) % N
<1> DEFINE qb == b \div N
           c == a + (b % N)
           qc == c \div N
<1>1. b = qb * N + (b % N) /\ qb \in Int /\ (b % N) \in 0 .. N - 1
  BY DivisionLaw
<1>2. c \in Int
  BY <1>1
<1>3. c = qc * N + (c % N) /\ qc \in Int /\ (c % N) \in 0 .. N - 1
  BY <1>2, DivisionLaw
<1>4. a + b = (qb + qc) * N + (c % N)
  BY <1>1, <1>2, <1>3, SMT
<1>5. qb + qc \in Int
  BY <1>1, <1>3
<1>6. ((qb + qc) * N + (c % N)) % N = c % N
  BY <1>3, <1>5, Quotient
<1> QED
  BY <1>4, <1>6

\* U16 in the cases that occur, and the two halves of the sequence space.
LEMMA U16Cases ==
  /\ SeqSpace \in Nat \ {0} /\ MaxWindow \in Nat \ {0} /\ SeqSpace = 2 * MaxWindow
  /\ \A n \in 0 .. SeqSpace - 1 : U16(n) = n
  /\ \A n \in SeqSpace .. 2 * SeqSpace - 1 : U16(n) = n - SeqSpace
  /\ \A n \in -SeqSpace .. -1 : U16(n) = n + SeqSpace
<1>1. SeqSpace \in Nat \ {0} /\ MaxWindow \in Nat \ {0} /\ SeqSpace = 2 * MaxWindow
  BY SeqSpaceAssumption DEF MaxWindow
<1>2. ASSUME NEW n \in 0 .. SeqSpace - 1 PROVE U16(n) = n
  BY <1>1, OneLap DEF U16
<1>3. ASSUME NEW n \in SeqSpace .. 2 * SeqSpace - 1 PROVE U16(n) = n - SeqSpace
  BY <1>1, OneLap DEF U16
<1>4. ASSUME NEW n \in -SeqSpace .. -1 PROVE U16(n) = n + SeqSpace
  <2>1. n \in Int /\ -SeqSpace <= n /\ n <= -1
    BY <1>1, <1>4
  <2>2. n % SeqSpace = n + SeqSpace
    BY <1>1, <2>1, OneLap
  <2> QED
    BY <2>2 DEF U16
<1> QED
  BY <1>1, <1>2, <1>3, <1>4

\* Distance is what one adds to get from one number to the other.
LEMMA DistanceCases ==
  ASSUME NEW from \in SeqNums, NEW to \in SeqNums
  PROVE  Distance(from, to) = IF from <= to THEN to - from ELSE to - from + SeqSpace
BY U16Cases DEF Distance, SeqNums

\* seqnum_in_window accepts exactly the "size" numbers that start with "next".
THEOREM InWindow ==
  ASSUME NEW s \in SeqNums, NEW next \in SeqNums, NEW size \in 1 .. SeqSpace - 1
  PROVE  seqnum_in_window(s, next, size) <=> Distance(next, s) < size
<1>1. U16(next + size) = IF next + size < SeqSpace THEN next + size
                                                   ELSE next + size - SeqSpace
  BY U16Cases DEF SeqNums
<1> QED
  BY <1>1, DistanceCases, U16Cases DEF seqnum_in_window, SeqNums

\* seqnum_higher tells newer from older numbers, except for two that are exactly
\* half of the sequence space apart, where only the wrapped one counts as higher.
THEOREM HigherIsNewer ==
  ASSUME NEW s \in SeqNums, NEW base \in SeqNums
  PROVE  /\ Distance(base, s) \in 1 .. MaxWindow - 1 => seqnum_higher(s, base)
         /\ Distance(base, s) = MaxWindow => (seqnum_higher(s, base) <=> s < base)
         /\ Distance(base, s) \notin 1 .. MaxWindow => ~seqnum_higher(s, base)
<1>1. (SeqSpace - 1) \div 2 = MaxWindow - 1
  BY U16Cases
<1> QED
  BY <1>1, DistanceCases, U16Cases DEF seqnum_higher, SeqNums

\* A packet the receiver has handled already, less than half of the sequence space
\* ago, is taken for an old one and acknowledged again, never for a future one.
THEOREM OldIsAcknowledged ==
  ASSUME NEW s \in SeqNums, NEW next \in SeqNums, Distance(s, next) \in 1 .. MaxWindow - 1
  PROVE  /\ ~seqnum_in_window(s, next, MaxWindow)
         /\ ~seqnum_higher(s, next)
         /\ seqnum_higher(next, s)
<1>0. /\ Distance(s, next) = IF s <= next THEN next - s ELSE next - s + SeqSpace
      /\ Distance(next, s) = IF next <= s THEN s - next ELSE s - next + SeqSpace
  BY DistanceCases
<1>1. Distance(next, s) = SeqSpace - Distance(s, next)
  BY <1>0, U16Cases DEF SeqNums
<1>2. Distance(next, s) \notin 0 .. MaxWindow
  BY <1>1, U16Cases
<1>3. MaxWindow \in 1 .. SeqSpace - 1
  BY U16Cases
<1>4. Distance(next, s) \in Nat
  BY DistanceCases, U16Cases DEF SeqNums
<1> QED
  BY <1>2, <1>3, <1>4, InWindow, HigherIsNewer, U16Cases

\* The lower end of the sent buffer's window, which sendAsPacketReliable computes
\* with a remainder its author wonders about, is half of the sequence space behind
\* the next number: the buffer takes any number given out since then.
THEOREM SentBaseIsHalfBehind ==
  ASSUME NEW s \in SeqNums, NEW next \in SeqNums
  PROVE  /\ SentBase(next) = U16(next + MaxWindow)
         /\ seqnum_in_window(s, SentBase(next), MaxWindow)
              <=> Distance(s, next) \in 1 .. MaxWindow
<1>1. Rem(next - MaxWindow, MaxWindow + 1) = next - MaxWindow
  <2>1. CASE next - MaxWindow >= 0
    BY <2>1, U16Cases, OneLap DEF Rem, SeqNums
  <2>2. CASE next - MaxWindow < 0
    <3>1. -(next - MaxWindow) \in 0 .. MaxWindow
      BY <2>2, U16Cases DEF SeqNums
    <3>2. (-(next - MaxWindow)) % (MaxWindow + 1) = -(next - MaxWindow)
      BY <3>1, U16Cases, OneLap
    <3>3. ~(next - MaxWindow >= 0)
      BY <2>2, U16Cases DEF SeqNums
    <3> QED
      BY <3>2, <3>3, U16Cases DEF Rem, SeqNums
  <2> QED
    BY <2>1, <2>2, U16Cases DEF SeqNums
<1>2. SentBase(next) = U16(next - MaxWindow)
  BY <1>1 DEF SentBase
<1>3. SentBase(next) = IF next < MaxWindow THEN next + MaxWindow ELSE next - MaxWindow
  BY <1>2, U16Cases DEF SeqNums
<1>4. SentBase(next) \in SeqNums
  BY <1>3, U16Cases DEF SeqNums
<1>5. SentBase(next) = U16(next + MaxWindow)
  BY <1>3, U16Cases DEF SeqNums
<1>6. Distance(SentBase(next), s) < MaxWindow <=> Distance(s, next) \in 1 .. MaxWindow
  <2>1. /\ Distance(s, next) = IF s <= next THEN next - s ELSE next - s + SeqSpace
        /\ Distance(SentBase(next), s) = IF SentBase(next) <= s THEN s - SentBase(next)
                                         ELSE s - SentBase(next) + SeqSpace
    BY <1>4, DistanceCases
  <2> QED
    BY <1>3, <2>1, U16Cases DEF SeqNums
<1>7. MaxWindow \in 1 .. SeqSpace - 1
  BY U16Cases
<1> QED
  BY <1>4, <1>5, <1>6, <1>7, InWindow

\* The numbers given out while the sent buffer is not empty are at most "window"
\* ahead of its first, or one more when they have wrapped around.
THEOREM WindowIsKept ==
  ASSUME NEW lowest \in SeqNums, NEW next \in SeqNums, NEW window \in Nat,
         WindowAllows(lowest, next, window)
  PROVE  Distance(lowest, next) <= IF lowest < next THEN window ELSE window + 1
BY DistanceCases, U16Cases DEF WindowAllows, SeqNums

\* ReliablePacketBuffer::insert sorts by distance from the next number expected,
\* so that the front is the oldest whether the numbers have wrapped or not.
THEOREM InsertSortsByAge ==
  ASSUME NEW s \in SeqNums, NEW seqnum \in SeqNums, NEW next_expected \in SeqNums
  PROVE  StaysInFront(s, seqnum, next_expected)
           <=> Distance(next_expected, s) < Distance(next_expected, seqnum)
BY DistanceCases, U16Cases DEF StaysInFront, SeqNums

\* The next number is the one after, however far they have been counted.
LEMMA U16Successor ==
  ASSUME NEW first \in Int, NEW k \in Nat
  PROVE  U16(U16(first + k) + 1) = U16(first + k + 1) /\ U16(first + k) \in SeqNums
<1>1. (1 + ((first + k) % SeqSpace)) % SeqSpace = (1 + (first + k)) % SeqSpace
  <2>1. SeqSpace \in Nat \ {0} /\ 1 \in Int /\ first + k \in Int
    BY U16Cases
  <2> QED
    BY <2>1, SumOfRemainder, Zenon
<1>2. (first + k) % SeqSpace \in 0 .. SeqSpace - 1
  BY DivisionLaw, U16Cases
<1>3. 1 + ((first + k) % SeqSpace) = ((first + k) % SeqSpace) + 1 /\ 1 + (first + k) = first + k + 1
  BY <1>2
<1> QED
  BY <1>1, <1>2, <1>3 DEF U16, SeqNums

\* putBackSequenceNumber takes back the k-th number after "initial" when it was the
\* last one given out, for every k, also where the u16 arithmetic wraps.
THEOREM PutBackMatches ==
  ASSUME NEW initial \in SeqNums, NEW k \in Nat
  PROVE  PutBackFits(initial, k, U16(initial + k + 1))
<1>1. initial \in Int /\ SeqSpace \in Nat \ {0}
  BY U16Cases DEF SeqNums
<1>2. U16(initial + (k % SeqSpace)) = U16(initial + k)
  <2>1. k \in Int
    OBVIOUS
  <2> QED
    BY <1>1, <2>1, SumOfRemainder, Zenon DEF U16
<1>3. U16(U16(initial + k) + 1) = U16(initial + k + 1)
  BY <1>1, U16Successor
<1>4. (U16(initial + (k % SeqSpace)) + 1) % SeqSpace = U16(initial + k + 1)
  BY <1>2, <1>3 DEF U16
<1> QED
  BY <1>4 DEF PutBackFits

\* Distances stay within one turn, and tell numbers apart.
LEMMA DistanceRange ==
  ASSUME NEW from \in SeqNums, NEW to \in SeqNums
  PROVE  Distance(from, to) \in 0 .. SeqSpace - 1 /\ (Distance(from, to) = 0 <=> from = to)
BY DistanceCases, U16Cases DEF SeqNums

LEMMA DistanceTellsApart ==
  ASSUME NEW base \in SeqNums, NEW a \in SeqNums, NEW b \in SeqNums,
         Distance(base, a) = Distance(base, b)
  PROVE  a = b
BY DistanceCases, U16Cases DEF SeqNums

\* The counter goes on by one: what is behind it gets older, ...
LEMMA OneOlder ==
  ASSUME NEW n \in SeqNums, NEW next \in SeqNums
  PROVE  /\ U16(next + 1) \in SeqNums
         /\ Distance(n, next) < SeqSpace - 1 => Distance(n, U16(next + 1)) = Distance(n, next) + 1
         /\ Distance(next, U16(next + 1)) = 1
<1>1. U16(next + 1) = IF next + 1 < SeqSpace THEN next + 1 ELSE 0
  BY U16Cases DEF SeqNums
<1>2. U16(next + 1) \in SeqNums
  BY <1>1, U16Cases DEF SeqNums
<1>3. /\ Distance(n, next) = IF n <= next THEN next - n ELSE next - n + SeqSpace
      /\ Distance(n, U16(next + 1)) = IF n <= U16(next + 1) THEN U16(next + 1) - n
                                                          ELSE U16(next + 1) - n + SeqSpace
      /\ Distance(next, U16(next + 1)) = IF next <= U16(next + 1) THEN U16(next + 1) - next
                                                                ELSE U16(next + 1) - next + SeqSpace
  BY <1>2, DistanceCases
<1> QED
  BY <1>1, <1>2, <1>3, U16Cases DEF SeqNums

\* ... and what is ahead of it comes nearer.
LEMMA OneNearer ==
  ASSUME NEW n \in SeqNums, NEW next \in SeqNums, n # next
  PROVE  Distance(U16(next + 1), n) = Distance(next, n) - 1
<1>1. U16(next + 1) = IF next + 1 < SeqSpace THEN next + 1 ELSE 0
  BY U16Cases DEF SeqNums
<1>2. U16(next + 1) \in SeqNums
  BY <1>1, U16Cases DEF SeqNums
<1> QED
  BY <1>1, <1>2, DistanceCases, U16Cases DEF SeqNums

\* Numbers are put back: what is older than the first of them gets younger.
LEMMA Younger ==
  ASSUME NEW n \in SeqNums, NEW first \in SeqNums, NEW taken \in 0 .. SeqSpace - 1,
         Distance(n, U16(first + taken)) > taken
  PROVE  Distance(n, first) = Distance(n, U16(first + taken)) - taken
<1>1. U16(first + taken) = IF first + taken < SeqSpace THEN first + taken
                                                      ELSE first + taken - SeqSpace
  BY U16Cases DEF SeqNums
<1>2. U16(first + taken) \in SeqNums
  BY <1>1, U16Cases DEF SeqNums
<1>3. /\ Distance(n, first) = IF n <= first THEN first - n ELSE first - n + SeqSpace
      /\ Distance(n, U16(first + taken)) = IF n <= U16(first + taken) THEN U16(first + taken) - n
                                             ELSE U16(first + taken) - n + SeqSpace
  BY <1>2, DistanceCases
<1> QED
  BY <1>1, <1>2, <1>3, U16Cases DEF SeqNums

\* Seen from a sent buffer's lower end, the older a number is the nearer it is.
LEMMA OlderIsNearer ==
  ASSUME NEW n \in SeqNums, NEW next \in SeqNums, Distance(n, next) \in 1 .. MaxWindow
  PROVE  /\ SentBase(next) \in SeqNums
         /\ Distance(SentBase(next), n) = MaxWindow - Distance(n, next)
<1>1. SentBase(next) = U16(next + MaxWindow)
  BY SentBaseIsHalfBehind
<1>2. U16(next + MaxWindow) = IF next + MaxWindow < SeqSpace THEN next + MaxWindow
                                                            ELSE next + MaxWindow - SeqSpace
  BY U16Cases DEF SeqNums
<1>3. SentBase(next) \in SeqNums
  BY <1>1, <1>2, U16Cases DEF SeqNums
<1>4. /\ Distance(n, next) = IF n <= next THEN next - n ELSE next - n + SeqSpace
      /\ Distance(SentBase(next), n) = IF SentBase(next) <= n THEN n - SentBase(next)
                                        ELSE n - SentBase(next) + SeqSpace
  BY <1>3, DistanceCases
<1> QED
  BY <1>1, <1>2, <1>3, <1>4, U16Cases DEF SeqNums
=============================================================================
