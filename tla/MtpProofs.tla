------------------------------ MODULE MtpProofs ------------------------------
(* The safety of a reliable channel, for every message length, window and     *)
(* first number, whatever the network does.  In this order:                  *)
(*  - numbers are put back exactly as they were taken, so that the fatal error *)
(*    in processReliableSendCommand cannot fire;                             *)
(*  - the numbers in use stay together (Aged: each list is older than the      *)
(*    next) and both buffers are sorted;                                     *)
(*  - no number is forgotten and the channel implements FifoChannel: the       *)
(*    Ledger says, for each number given out, whether it is done, kept by the   *)
(*    receiver or still with the sender.                                     *)
EXTENDS Mtp, SeqNumProofs, SequenceTheorems, FiniteSetTheorems, WellFoundedInduction

\* The numbers the message being split has taken are consecutive and end right
\* before the next number; no step between two of them touches that counter,
\* because pings are sent by the same thread and only outside of the loop.
Consecutive ==
  /\ nextOut \in SeqNums
  /\ spc # "split" => got = <<>>
  /\ got \in Seq(Packet)
  /\ got # <<>> => nextOut = U16(got[1].seq + Len(got))

\* What the send thread's queues of messages hold.
CommandsTyped ==
  /\ asked \in 0 .. Len(Chunks) /\ taken \in 0 .. asked
  /\ commands \in Seq(Messages) /\ cmd \in Messages \cup {0}
  /\ spc = "split" => cmd \in Messages

PutBackInv == CommandsTyped /\ Consecutive /\ ~fatal

LEMMA PutBackInit == Init => PutBackInv
<1> SUFFICES ASSUME Init PROVE PutBackInv
  OBVIOUS
<1>1. Len(Chunks) \in Nat /\ FirstSeqnum \in SeqNums
  BY MtpAssumption
<1> QED
  BY <1>1 DEF Init, PutBackInv, CommandsTyped, Consecutive, Messages

LEMMA FirstNumber ==
  ASSUME got \in Seq(Packet), got # <<>>
  PROVE  /\ Len(got) \in Nat \ {0} /\ Head(got) = got[1]
         /\ got[1].seq \in SeqNums /\ got[1].seq \in Int
<1>1. Len(got) \in Nat \ {0} /\ Head(got) = got[1] /\ got[1] \in Packet
  OBVIOUS
<1>2. got[1].seq \in SeqNums
  BY <1>1 DEF Packet
<1> QED
  BY <1>1, <1>2, U16Cases DEF SeqNums

\* A chunk gets its number.
LEMMA TakeSeqnumKeeps ==
  ASSUME PutBackInv, TakeSeqnum
  PROVE  Consecutive'
<1> DEFINE p == [seq |-> nextOut, msg |-> cmd, chunk |-> Len(got) + 1]
<1>1. p \in Packet
  BY DEF PutBackInv, Consecutive, CommandsTyped, Messages, Packet
<1>2. got' = Append(got, p) /\ got' \in Seq(Packet) /\ Len(got') = Len(got) + 1 /\ spc' = "split"
  BY <1>1 DEF PutBackInv, Consecutive, TakeSeqnum
<1>3. nextOut' = U16(nextOut + 1)
  BY DEF TakeSeqnum
<1>4. nextOut \in SeqNums /\ nextOut \in Int
  BY U16Cases DEF PutBackInv, Consecutive, SeqNums
<1>5. CASE got = <<>>
  <2>1. got'[1].seq = nextOut /\ Len(got') = 1
    BY <1>2, <1>5
  <2>2. U16(nextOut + 0 + 1) = U16(nextOut + 1) /\ U16(nextOut + 1) \in SeqNums
    BY <1>4, U16Successor
  <2> QED
    BY <1>2, <1>3, <2>1, <2>2 DEF Consecutive
<1>6. CASE got # <<>>
  <2>1. got'[1] = got[1] /\ Len(got) \in Nat /\ got[1].seq \in Int
    BY <1>2, <1>6, FirstNumber DEF PutBackInv, Consecutive
  <2>2. nextOut = U16(got[1].seq + Len(got))
    BY <1>6 DEF PutBackInv, Consecutive
  <2>3. U16(U16(got[1].seq + Len(got)) + 1) = U16(got[1].seq + Len(got) + 1)
    BY <2>1, U16Successor
  <2>4. U16(nextOut + 1) \in SeqNums
    BY <1>4, U16Successor
  <2>5. got[1].seq + Len(got) + 1 = got'[1].seq + Len(got')
    BY <1>2, <2>1
  <2> QED
    BY <1>2, <1>3, <2>2, <2>3, <2>4, <2>5 DEF Consecutive
<1> QED
  BY <1>5, <1>6

\* Every number of an unfinished message can be put back.
LEMMA PutBackKeeps ==
  ASSUME PutBackInv, PutBack
  PROVE  Consecutive' /\ ~fatal'
<1>1. got' = <<>> /\ spc' = "commands"
  BY DEF PutBack
<1>2. CASE got = <<>>
  BY <1>1, <1>2 DEF PutBack, PutBackInv, Consecutive
<1>3. CASE got # <<>>
  <2> DEFINE first == Head(got).seq
             after(k) == U16(first + k + 1)
  <2>1. first = got[1].seq /\ first \in SeqNums /\ first \in Int /\ Len(got) \in Nat \ {0}
    BY <1>3, FirstNumber DEF PutBackInv, Consecutive
  <2>2. nextOut = after(Len(got) - 1)
    BY <1>3, <2>1 DEF PutBackInv, Consecutive
  <2>3. ASSUME NEW k \in 0 .. Len(got) - 1
        PROVE  PutBackFits(first, k, IF k = Len(got) - 1 THEN nextOut ELSE after(k))
    <3>1. k \in Nat
      BY <2>1
    <3>2. PutBackFits(first, k, U16(first + k + 1))
      BY <2>1, <3>1, PutBackMatches
    <3> QED
      BY <2>2, <3>2
  <2> HIDE DEF first
  <2>4. nextOut' = Head(got).seq /\ fatal' = fatal
    BY <1>3, <2>3 DEF PutBack, first
  <2> QED
    BY <1>1, <2>1, <2>4 DEF PutBackInv, Consecutive, first
<1> QED
  BY <1>2, <1>3

LEMMA PutBackNext == PutBackInv /\ [Next]_vars => PutBackInv'
<1> SUFFICES ASSUME PutBackInv, [Next]_vars PROVE PutBackInv'
  OBVIOUS
<1> USE DEF PutBackInv, CommandsTyped
<1>0. Len(Chunks) \in Nat /\ asked \in Nat /\ taken \in Nat
  BY MtpAssumption
<1>1. CASE Send
  BY <1>0, <1>1 DEF Send, sender, Consecutive
<1>2. ASSUME NEW resent, RunTimeouts(resent) PROVE PutBackInv'
  <2>1. got = <<>> /\ got' = <<>> /\ fatal' = fatal /\ UNCHANGED <<user, commands, cmd>>
      /\ spc' = "queues"
    BY <1>2 DEF RunTimeouts, Consecutive
  <2>2. nextOut' = nextOut \/ nextOut' = U16(nextOut + 1)
    BY <1>2 DEF RunTimeouts, SendPing
  <2>3. nextOut' \in SeqNums
    <3>1. nextOut \in SeqNums /\ nextOut \in Int
      BY U16Cases DEF Consecutive, SeqNums
    <3>2. U16(nextOut + 1) \in SeqNums
      BY <3>1, U16Successor
    <3> QED
      BY <2>2, <3>1, <3>2
  <2> QED
    BY <2>1, <2>3 DEF Consecutive, user
<1>3. CASE PeerTimedOut
  BY <1>3 DEF PeerTimedOut, Consecutive, user
<1>4. CASE RunCommandQueues
  <2>1. Consecutive' /\ ~fatal' /\ UNCHANGED user
    BY <1>4 DEF RunCommandQueues, Consecutive, user
  <2>2. commands # <<>> => Head(commands) \in Messages /\ Tail(commands) \in Seq(Messages)
    OBVIOUS
  <2> QED
    BY <1>4, <2>1, <2>2 DEF RunCommandQueues, user
<1>5. CASE TakeCommand
  <2>1. Consecutive' /\ ~fatal'
    BY <1>5 DEF TakeCommand, Consecutive
  <2>2. taken + 1 \in Messages /\ taken' \in 0 .. asked /\ asked' = asked
    BY <1>0, <1>5 DEF TakeCommand, Messages
  <2>3. commands' \in Seq(Messages)
    <3>1. Append(commands, taken + 1) \in Seq(Messages)
      BY <2>2
    <3> QED
      BY <1>5, <3>1 DEF TakeCommand
  <2>4. cmd' \in Messages \cup {0} /\ (spc' = "split" => cmd' \in Messages)
    BY <1>5, <2>2 DEF TakeCommand
  <2> QED
    BY <2>1, <2>2, <2>3, <2>4
<1>6. CASE DisconnectPeer
  BY <1>6 DEF DisconnectPeer, Consecutive, user
<1>7. CASE NoMoreCommands
  BY <1>7 DEF NoMoreCommands, Consecutive, user
<1>8. CASE TakeSeqnum
  BY <1>8, TakeSeqnumKeeps DEF TakeSeqnum, user
<1>9. CASE QueuePackets
  <2>1. Consecutive' /\ ~fatal' /\ UNCHANGED user /\ cmd' = 0 /\ spc' = "commands"
    BY <1>9 DEF QueuePackets, Consecutive, user
  <2>2. commands' \in Seq(Messages)
    BY <1>9 DEF QueuePackets
  <2> QED
    BY <2>1, <2>2 DEF user
<1>10. CASE PutBack
  <2>1. Consecutive' /\ ~fatal'
    BY <1>10, PutBackKeeps
  <2>2. cmd \in Messages /\ <<cmd>> \in Seq(Messages)
    BY <1>10 DEF PutBack
  <2> QED
    BY <1>10, <2>1, <2>2 DEF PutBack, user
<1>11. CASE SendPacket \/ EndSending
  BY <1>11 DEF SendPacket, EndSending, Consecutive, user
<1>12. ASSUME NEW s, HandleAck(s) PROVE PutBackInv'
  BY <1>12 DEF HandleAck, Consecutive, user
<1>13. ASSUME NEW p, Receive(p) PROVE PutBackInv'
  BY <1>13 DEF Receive, Consecutive, sender, user
<1>14. CASE CheckIncomingBuffers
  BY <1>14 DEF CheckIncomingBuffers, Consecutive, sender, user
<1>15. CASE ReceiverDeletesPeer
  BY <1>15 DEF ReceiverDeletesPeer, Consecutive, sender, user
<1>16. CASE UNCHANGED vars
  BY <1>16 DEF vars, Consecutive, sender, user
<1> QED
  BY <1>1, <1>2, <1>3, <1>4, <1>5, <1>6, <1>7, <1>8, <1>9, <1>10, <1>11, <1>12,
     <1>13, <1>14, <1>15, <1>16 DEF Next, SendThread

\* FATAL_ERROR_IF in processReliableSendCommand does not fire.
THEOREM PutBackAlwaysSucceeds == Spec => []PutBackSucceeds
<1>1. PutBackInv => PutBackSucceeds
  BY DEF PutBackInv, PutBackSucceeds
<1> QED
  BY <1>1, PutBackInit, PutBackNext, PTL DEF Spec
-----------------------------------------------------------------------------
(* Lemmas on numbers and lists.                                             *)

LEMMA Least ==
  ASSUME NEW S, S \subseteq Nat, S # {}
  PROVE  \E x \in S : \A y \in S : x <= y
<1> DEFINE R == OpToRel(<, Nat)
<1>1. \A x, y \in Nat : <<x, y>> \in R <=> x < y
  BY DEF OpToRel
<1>2. IsWellFoundedOn(R, Nat)
  BY NatLessThanWellFounded, Zenon
<1> HIDE DEF R
<1>3. PICK x \in S : \A y \in S : ~(<<y, x>> \in R)
  BY <1>2, WFMin, Zenon
<1>4. \A y \in S : ~(y < x)
  BY <1>1, <1>3
<1> QED
  BY <1>4

LEMMA LeastIsMin ==
  ASSUME NEW S, S \subseteq Nat, S # {}
  PROVE  Min(S) \in S /\ \A y \in S : Min(S) <= y
BY Least DEF Min

LEMMA MaxOfTwo ==
  ASSUME NEW a \in Int, NEW b \in Int
  PROVE  Max({a, b}) \in Int /\ Max({a, b}) >= a /\ Max({a, b}) >= b /\ Max({a, b}) \in {a, b}
<1>1. CASE a >= b
  <2>1. a \in {a, b} /\ \A y \in {a, b} : a >= y
    BY <1>1
  <2> QED
    BY <2>1 DEF Max
<1>2. CASE b >= a
  <2>1. b \in {a, b} /\ \A y \in {a, b} : b >= y
    BY <1>2
  <2> QED
    BY <2>1 DEF Max
<1> QED
  BY <1>1, <1>2

\* The longest message: there is one, as there are only so many messages.
LEMMA Longest ==
  /\ MaxChunks \in Nat \ {0}
  /\ \A m \in Messages : Chunks[m] \in Nat \ {0} /\ Chunks[m] <= MaxChunks
<1> DEFINE Bounds(n, c) == \A m \in 1 .. n : Chunks[m] <= c
           Unbounded == {n \in 0 .. Len(Chunks) : \A c \in Nat : ~Bounds(n, c)}
<1>1. /\ Len(Chunks) \in Nat \ {0} /\ Messages = 1 .. Len(Chunks) /\ 1 \in Messages
      /\ \A m \in Messages : Chunks[m] \in Nat \ {0}
  BY MtpAssumption DEF Messages
<1>2. Unbounded = {}
  <2> SUFFICES ASSUME Unbounded # {} PROVE FALSE
    OBVIOUS
  <2>1. PICK n \in Unbounded : \A k \in Unbounded : n <= k
    <3>1. Unbounded \subseteq Nat
      BY <1>1
    <3> HIDE DEF Unbounded
    <3> QED
      BY <3>1, Least
  <2>1a. \A c \in Nat : ~Bounds(n, c)
    BY <2>1
  <2>2. n # 0
    <3>1. Bounds(0, 0)
      OBVIOUS
    <3> QED
      BY <2>1, <3>1
  <2>3. n \in Messages /\ n - 1 \in 0 .. Len(Chunks) /\ n - 1 \notin Unbounded
    <3>1. n \in 0 .. Len(Chunks)
      OBVIOUS
    <3>2. n \in Messages /\ n - 1 \in 0 .. Len(Chunks) /\ ~(n <= n - 1)
      BY <1>1, <2>2, <3>1
    <3> HIDE DEF Unbounded
    <3> QED
      BY <2>1, <3>2
  <2>4. PICK c \in Nat : Bounds(n - 1, c)
    BY <2>3
  <2> HIDE DEF Unbounded
  <2>5. PICK d \in Nat : d >= c /\ d >= Chunks[n]
    <3>1. Chunks[n] \in Nat
      BY <1>1, <2>3
    <3> QED
      BY <3>1, MaxOfTwo
  <2>6. \A m \in 1 .. n : Chunks[m] <= d
    <3> TAKE m \in 1 .. n
    <3>1. CASE m = n
      BY <2>5, <3>1
    <3>2. CASE m # n
      <4>1. m \in 1 .. n - 1 /\ m \in Messages
        BY <1>1, <2>3, <3>2
      <4> QED
        BY <1>1, <2>4, <2>5, <4>1
    <3> QED
      BY <3>1, <3>2
  <2> QED
    BY <2>1a, <2>6
<1>3. PICK c \in Nat : Bounds(Len(Chunks), c)
  <2>1. Len(Chunks) \in 0 .. Len(Chunks)
    BY <1>1
  <2>2. Len(Chunks) \notin Unbounded
    <3> HIDE DEF Unbounded
    <3> QED
      BY <1>2
  <2> QED
    BY <2>1, <2>2
<1> DEFINE Uppers == {d \in Nat : Bounds(Len(Chunks), d)}
<1>4. PICK d \in Uppers : \A e \in Uppers : d <= e
  <2>1. Uppers \subseteq Nat /\ Uppers # {}
    BY <1>3
  <2> HIDE DEF Uppers
  <2> QED
    BY <2>1, Least
<1>5. \E m \in Messages : Chunks[m] = d
  <2> SUFFICES ASSUME \A m \in Messages : Chunks[m] # d PROVE FALSE
    OBVIOUS
  <2>1. \A m \in Messages : Chunks[m] <= d - 1
    BY <1>1, <1>4
  <2>2. d - 1 \in Nat
    BY <1>1, <2>1
  <2>3. d - 1 \in Uppers
    BY <1>1, <2>1, <2>2
  <2> QED
    BY <1>4, <2>3
<1>6. d \in {Chunks[m] : m \in Messages} /\ \A y \in {Chunks[m] : m \in Messages} : d >= y
  BY <1>1, <1>4, <1>5
<1>7. MaxChunks \in {Chunks[m] : m \in Messages} /\ \A y \in {Chunks[m] : m \in Messages} : MaxChunks >= y
  BY <1>6 DEF MaxChunks, Max
<1> QED
  BY <1>1, <1>7

LEMMA Joined ==
  ASSUME NEW S, NEW s \in Seq(S), NEW t \in Seq(S), NEW n, n = Len(s)
  PROVE  /\ s \o t \in Seq(S) /\ Len(s \o t) = n + Len(t)
         /\ \A i \in 1 .. n : (s \o t)[i] = s[i]
         /\ \A k \in 1 .. Len(t) : (s \o t)[n + k] = t[k]
<1>1. n \in Nat /\ Len(t) \in Nat
  OBVIOUS
<1>2. \A k \in 1 .. Len(t) : n + k \in 1 .. n + Len(t) /\ ~(n + k <= n) /\ n + k - n = k
  BY <1>1
<1> QED
  BY <1>1, <1>2, ConcatProperties

\* What is where after an insertion, ...
LEMMA AfterInsertAt ==
  ASSUME NEW S, NEW list \in Seq(S), NEW at \in 1 .. Len(list) + 1, NEW p \in S
  PROVE  /\ InsertAt(list, at, p) \in Seq(S) /\ Len(InsertAt(list, at, p)) = Len(list) + 1
         /\ \A i \in 1 .. Len(list) + 1 :
              InsertAt(list, at, p)[i] = IF i < at THEN list[i]
                                         ELSE IF i = at THEN p ELSE list[i - 1]
<1> DEFINE front == SubSeq(list, 1, at - 1)
           back == SubSeq(list, at, Len(list))
<1>1. /\ front \in Seq(S) /\ Len(front) = at - 1
      /\ \A i \in 1 .. at - 1 : front[i] = list[i]
  BY SubSeqProperties
<1>2. /\ back \in Seq(S) /\ Len(back) = Len(list) - at + 1
      /\ \A i \in 1 .. Len(list) - at + 1 : back[i] = list[at + i - 1]
  BY SubSeqProperties
<1> HIDE DEF front, back
<1>3. /\ front \o <<p>> \in Seq(S) /\ Len(front \o <<p>>) = at
      /\ \A i \in 1 .. at : (front \o <<p>>)[i] = IF i < at THEN list[i] ELSE p
  BY <1>1
<1> DEFINE new == (front \o <<p>>) \o back
<1>4. /\ new \in Seq(S) /\ Len(new) = Len(list) + 1
      /\ \A i \in 1 .. at : new[i] = (front \o <<p>>)[i]
      /\ \A k \in 1 .. Len(list) - at + 1 : new[at + k] = back[k]
  BY <1>2, <1>3, Joined
<1> HIDE DEF new
<1>5. ASSUME NEW i \in 1 .. Len(list) + 1
      PROVE  new[i] = IF i < at THEN list[i] ELSE IF i = at THEN p ELSE list[i - 1]
  <2>1. CASE i <= at
    BY <1>3, <1>4, <2>1
  <2>2. CASE i > at
    <3>1. i - at \in 1 .. Len(list) - at + 1 /\ at + (i - at) = i /\ at + (i - at) - 1 = i - 1
      BY <2>2
    <3>2. new[i] = back[i - at] /\ back[i - at] = list[i - 1]
      BY <1>2, <1>4, <3>1
    <3> QED
      BY <2>2, <3>2
  <2> QED
    BY <2>1, <2>2
<1> QED
  BY <1>4, <1>5 DEF InsertAt, front, back, new

\* ... and after a removal.
LEMMA AfterRemoveAt ==
  ASSUME NEW S, NEW list \in Seq(S), NEW at \in 1 .. Len(list)
  PROVE  /\ RemoveAt(list, at) \in Seq(S) /\ Len(RemoveAt(list, at)) = Len(list) - 1
         /\ \A i \in 1 .. Len(list) - 1 :
              RemoveAt(list, at)[i] = IF i < at THEN list[i] ELSE list[i + 1]
<1> DEFINE front == SubSeq(list, 1, at - 1)
           back == SubSeq(list, at + 1, Len(list))
<1>1. /\ front \in Seq(S) /\ Len(front) = at - 1
      /\ \A i \in 1 .. at - 1 : front[i] = list[i]
  BY SubSeqProperties
<1>2. /\ back \in Seq(S) /\ Len(back) = Len(list) - at
      /\ \A i \in 1 .. Len(list) - at : back[i] = list[at + i]
  BY SubSeqProperties
<1> HIDE DEF front, back
<1> DEFINE new == front \o back
<1>2a. PICK n \in Nat : n = at - 1
  OBVIOUS
<1>2b. /\ new \in Seq(S) /\ Len(new) = n + Len(back)
       /\ \A i \in 1 .. n : new[i] = front[i]
       /\ \A k \in 1 .. Len(back) : new[n + k] = back[k]
  <2>1. n = Len(front) /\ front \in Seq(S)
    BY <1>1, <1>2a
  <2>2. back \in Seq(S)
    BY <1>2
  <2> QED
    BY <2>1, <2>2, Joined
<1>3. /\ new \in Seq(S) /\ Len(new) = Len(list) - 1
      /\ \A i \in 1 .. at - 1 : new[i] = front[i]
      /\ \A k \in 1 .. Len(list) - at : new[at - 1 + k] = back[k]
  <2> HIDE DEF new
  <2> QED
    BY <1>2, <1>2a, <1>2b
<1> HIDE DEF new
<1>4. ASSUME NEW i \in 1 .. Len(list) - 1
      PROVE  new[i] = IF i < at THEN list[i] ELSE list[i + 1]
  <2>1. CASE i < at
    BY <1>1, <1>3, <2>1
  <2>2. CASE i >= at
    <3>1. i - at + 1 \in 1 .. Len(list) - at /\ at - 1 + (i - at + 1) = i /\ at + (i - at + 1) = i + 1
      BY <2>2
    <3>2. new[i] = back[i - at + 1] /\ back[i - at + 1] = list[i + 1]
      BY <1>2, <1>3, <3>1
    <3> QED
      BY <2>2, <3>2
  <2> QED
    BY <2>1, <2>2
<1> QED
  BY <1>3, <1>4 DEF RemoveAt, front, back, new

-----------------------------------------------------------------------------
(* ReliablePacketBuffer: a list that is in order stays in order.            *)

InOrder(list, base) ==
  \A i, j \in DOMAIN list : i < j => Distance(base, list[i].seq) < Distance(base, list[j].seq)

LEMMA PacketNumbers ==
  ASSUME NEW list \in Seq(Packet)
  PROVE  /\ DOMAIN list = 1 .. Len(list) /\ Len(list) \in Nat
         /\ \A i \in DOMAIN list : list[i] \in Packet /\ list[i].seq \in SeqNums
<1>1. \A p \in Packet : p.seq \in SeqNums
  BY DEF Packet
<1> QED
  BY <1>1

LEMMA InsertKeepsOrder ==
  ASSUME NEW list \in Seq(Packet), NEW p \in Packet, NEW base \in SeqNums, InOrder(list, base)
  PROVE  LET new == Insert(list, p, base)
         IN  /\ new \in Seq(Packet) /\ InOrder(new, base)
             /\ \A i \in DOMAIN new :
                  \/ \E j \in DOMAIN list : new[i] = list[j]
                  \/ new[i] = p
<1> DEFINE after == {i \in DOMAIN list : ~StaysInFront(list[i].seq, p.seq, base)}
           at == IF after = {} THEN Len(list) + 1 ELSE Min(after)
           D(i) == Distance(base, list[i].seq)
           dp == Distance(base, p.seq)
<1>1. /\ DOMAIN list = 1 .. Len(list) /\ Len(list) \in Nat /\ p.seq \in SeqNums
      /\ \A i \in DOMAIN list : list[i] \in Packet /\ list[i].seq \in SeqNums
  BY PacketNumbers DEF Packet
<1>2. \A i \in DOMAIN list : (i \in after <=> ~(D(i) < dp)) /\ D(i) \in Int
  BY <1>1, InsertSortsByAge, DistanceRange
<1>3. dp \in Int
  BY <1>1, DistanceRange
<1>4. /\ at \in 1 .. Len(list) + 1 /\ (after # {} => at \in after)
      /\ \A i \in DOMAIN list : i < at => i \notin after
  <2>1. after \subseteq Nat
    BY <1>1
  <2>2. after # {} => Min(after) \in after /\ \A i \in after : Min(after) <= i
    BY <2>1, LeastIsMin
  <2>3. after \subseteq 1 .. Len(list)
    BY <1>1
  <2> HIDE DEF after
  <2>4. CASE after = {}
    BY <1>1, <2>4
  <2>5. CASE after # {}
    <3>1. at = Min(after) /\ at \in after /\ at \in 1 .. Len(list)
      BY <2>2, <2>3, <2>5
    <3>2. \A i \in DOMAIN list : i < at => i \notin after
      BY <1>1, <2>2, <3>1
    <3> QED
      BY <1>1, <3>1, <3>2
  <2> QED
    BY <2>4, <2>5
<1>5. CASE Insert(list, p, base) = list
  BY <1>1, <1>5
<1>6. CASE Insert(list, p, base) # list
  <2>1. Insert(list, p, base) = InsertAt(list, at, p) /\ ~(after # {} /\ list[at].seq = p.seq)
    BY <1>6 DEF Insert
  <2> DEFINE new == InsertAt(list, at, p)
  <2>2. /\ new \in Seq(Packet) /\ Len(new) = Len(list) + 1
        /\ \A i \in 1 .. Len(list) + 1 :
             new[i] = IF i < at THEN list[i] ELSE IF i = at THEN p ELSE list[i - 1]
    <3> HIDE DEF at
    <3> QED
      BY <1>4, AfterInsertAt
  <2>3. \A i \in DOMAIN list : i < at => D(i) < dp
    BY <1>2, <1>4
  <2>4. \A i \in DOMAIN list : i >= at => D(i) > dp
    <3> SUFFICES ASSUME NEW i \in DOMAIN list, i >= at PROVE D(i) > dp
      OBVIOUS
    <3>1. at \in DOMAIN list /\ after # {} /\ at \in after
      BY <1>1, <1>4
    <3>2. D(at) > dp
      <4>1. D(at) >= dp
        BY <1>2, <1>3, <3>1
      <4>2. D(at) # dp
        BY <1>1, <2>1, <3>1, DistanceTellsApart
      <4>3. D(at) \in Int
        BY <1>2, <3>1
      <4> HIDE DEF at
      <4> QED
        BY <1>3, <4>1, <4>2, <4>3
    <3>3. i = at \/ D(at) < D(i)
      BY <1>1, <1>4, <3>1 DEF InOrder
    <3>4. D(at) \in Int /\ D(i) \in Int
      BY <1>2, <3>1
    <3> HIDE DEF at
    <3> QED
      BY <1>3, <3>2, <3>3, <3>4
  <2> HIDE DEF new, at, after
  <2>5. \A i, j \in 1 .. Len(list) + 1 : i < j => Distance(base, new[i].seq) < Distance(base, new[j].seq)
    <3> SUFFICES ASSUME NEW i \in 1 .. Len(list) + 1, NEW j \in 1 .. Len(list) + 1, i < j
                 PROVE  Distance(base, new[i].seq) < Distance(base, new[j].seq)
      OBVIOUS
    <3>1. CASE j < at
      BY <1>1, <1>4, <2>2, <3>1 DEF InOrder
    <3>2. CASE j = at
      BY <1>1, <1>4, <2>2, <2>3, <3>2
    <3>3. CASE j > at /\ i = at
      BY <1>1, <1>4, <2>2, <2>4, <3>3
    <3>4. CASE j > at /\ i < at
      <4>1. new[i] = list[i] /\ new[j] = list[j - 1] /\ i \in DOMAIN list /\ j - 1 \in DOMAIN list
            /\ j - 1 >= at
        BY <1>1, <1>4, <2>2, <3>4
      <4>2. D(i) < dp /\ D(j - 1) > dp /\ D(i) \in Int /\ D(j - 1) \in Int
        BY <1>2, <2>3, <2>4, <3>4, <4>1
      <4> QED
        BY <1>3, <4>1, <4>2
    <3>5. CASE j > at /\ i > at
      <4>1. new[i] = list[i - 1] /\ new[j] = list[j - 1] /\ i - 1 \in DOMAIN list /\ j - 1 \in DOMAIN list
        BY <1>1, <1>4, <2>2, <3>5
      <4> QED
        BY <4>1 DEF InOrder
    <3> QED
      BY <1>4, <3>1, <3>2, <3>3, <3>4, <3>5
  <2>6. \A i \in 1 .. Len(list) + 1 : (\E j \in DOMAIN list : new[i] = list[j]) \/ new[i] = p
    <3> TAKE i \in 1 .. Len(list) + 1
    <3>1. CASE i < at
      BY <1>1, <1>4, <2>2, <3>1
    <3>2. CASE i = at
      BY <2>2, <3>2
    <3>3. CASE i > at
      <4>1. i - 1 \in DOMAIN list /\ new[i] = list[i - 1]
        BY <1>1, <1>4, <2>2, <3>3
      <4> QED
        BY <4>1
    <3> QED
      BY <1>4, <3>1, <3>2, <3>3
  <2>7. DOMAIN new = 1 .. Len(list) + 1 /\ Insert(list, p, base) = new
    BY <2>1, <2>2 DEF new
  <2> QED
    BY <2>2, <2>5, <2>6, <2>7 DEF InOrder
<1> QED
  BY <1>5, <1>6

\* What is left of a list stays as it was.
LEMMA WithoutKeeps ==
  ASSUME NEW list \in Seq(Packet), NEW seqnum
  PROVE  /\ Without(list, seqnum) \in Seq(Packet)
         /\ \E at \in Nat :
              \A i \in DOMAIN Without(list, seqnum) :
                 Without(list, seqnum)[i] = list[IF i < at THEN i ELSE i + 1]
                 /\ (IF i < at THEN i ELSE i + 1) \in DOMAIN list
<1> DEFINE found == {i \in DOMAIN list : list[i].seq = seqnum}
<1>1. DOMAIN list = 1 .. Len(list) /\ Len(list) \in Nat
  OBVIOUS
<1>2. CASE found = {}
  <2>1. Without(list, seqnum) = list
    BY <1>2 DEF Without
  <2>2. \A i \in DOMAIN list : i < Len(list) + 1
    BY <1>1
  <2>3. Len(list) + 1 \in Nat
    BY <1>1
  <2> QED
    BY <2>1, <2>2, <2>3
<1>3. CASE found # {}
  <2> DEFINE at == Min(found)
  <2>1. at \in 1 .. Len(list)
    <3>1. found \subseteq Nat
      BY <1>1
    <3>2. at \in found
      BY <1>3, <3>1, LeastIsMin
    <3> QED
      BY <1>1, <3>2
  <2>2. Without(list, seqnum) = RemoveAt(list, at)
    BY <1>3 DEF Without
  <2> HIDE DEF at
  <2>3. /\ RemoveAt(list, at) \in Seq(Packet) /\ Len(RemoveAt(list, at)) = Len(list) - 1
        /\ \A i \in 1 .. Len(list) - 1 : RemoveAt(list, at)[i] = IF i < at THEN list[i] ELSE list[i + 1]
    BY <2>1, AfterRemoveAt
  <2>4. DOMAIN RemoveAt(list, at) = 1 .. Len(list) - 1
    BY <2>3
  <2>5. \A i \in 1 .. Len(list) - 1 : /\ (IF i < at THEN i ELSE i + 1) \in DOMAIN list
                                      /\ RemoveAt(list, at)[i] = list[IF i < at THEN i ELSE i + 1]
    BY <1>1, <2>1, <2>3
  <2>6. at \in Nat
    BY <2>1
  <2> QED
    BY <2>2, <2>3, <2>4, <2>5, <2>6
<1> QED
  BY <1>2, <1>3

-----------------------------------------------------------------------------
(* A list whose packets are the older the further they are in front, each   *)
(* from lo to hi numbers behind the next one.                               *)
Aged(list, next, lo, hi) ==
  /\ list \in Seq(Packet)
  /\ \A i \in DOMAIN list : Distance(list[i].seq, next) \in lo .. hi
  /\ \A i, j \in DOMAIN list :
       i < j => Distance(list[j].seq, next) < Distance(list[i].seq, next)

LEMMA AgedWider ==
  ASSUME NEW list, NEW next, NEW lo \in Int, NEW hi \in Int, Aged(list, next, lo, hi),
         NEW low \in Int, NEW high \in Int, low <= lo, hi <= high
  PROVE  Aged(list, next, low, high)
BY DEF Aged

\* The first packet is the oldest.
LEMMA AgedByHead ==
  ASSUME NEW list, NEW next, NEW lo \in Int, NEW hi \in Int, Aged(list, next, lo, hi),
         list # <<>>, NEW limit \in Int, Distance(Head(list).seq, next) <= limit
  PROVE  Aged(list, next, lo, limit)
<1>1. /\ list \in Seq(Packet) /\ 1 \in DOMAIN list /\ Head(list) = list[1]
      /\ \A i \in DOMAIN list : i = 1 \/ 1 < i
  BY DEF Aged
<1>2. ASSUME NEW i \in DOMAIN list PROVE Distance(list[i].seq, next) \in lo .. limit
  <2>1. /\ Distance(list[i].seq, next) \in lo .. hi /\ Distance(list[1].seq, next) \in lo .. hi
        /\ Distance(list[i].seq, next) <= Distance(list[1].seq, next)
    BY <1>1 DEF Aged
  <2> QED
    BY <1>1, <2>1
<1> QED
  BY <1>2 DEF Aged

\* The next number is given out, ...
LEMMA AgedOneMore ==
  ASSUME NEW list, NEW next \in SeqNums, NEW lo \in Int, NEW hi \in Int,
         Aged(list, next, lo, hi), hi < SeqSpace - 1
  PROVE  Aged(list, U16(next + 1), lo + 1, hi + 1)
<1>1. \A i \in DOMAIN list :
        /\ Distance(list[i].seq, U16(next + 1)) = Distance(list[i].seq, next) + 1
        /\ Distance(list[i].seq, next) \in lo .. hi
  <2> TAKE i \in DOMAIN list
  <2>1. list[i].seq \in SeqNums /\ Distance(list[i].seq, next) \in lo .. hi
    BY PacketNumbers DEF Aged
  <2>2. Distance(list[i].seq, next) < SeqSpace - 1
    BY <2>1, U16Cases
  <2> QED
    BY <2>1, <2>2, OneOlder
<1> QED
  BY <1>1 DEF Aged

\* ... or some are put back.
LEMMA AgedPutBack ==
  ASSUME NEW list, NEW first \in SeqNums, NEW count \in 0 .. SeqSpace - 1, NEW hi \in Int,
         Aged(list, U16(first + count), count + 1, hi)
  PROVE  Aged(list, first, 1, hi - count)
<1> DEFINE next == U16(first + count)
<1> HIDE DEF next
<1>0. count \in Nat
  BY U16Cases
<1>1. \A i \in DOMAIN list :
        /\ Distance(list[i].seq, first) = Distance(list[i].seq, next) - count
        /\ Distance(list[i].seq, next) \in count + 1 .. hi
  <2> TAKE i \in DOMAIN list
  <2>1. list[i].seq \in SeqNums /\ Distance(list[i].seq, next) \in count + 1 .. hi
    BY PacketNumbers DEF Aged, next
  <2>2. Distance(list[i].seq, next) > count
    BY <1>0, <2>1
  <2> QED
    BY <2>1, <2>2, Younger DEF next
<1>2. /\ list \in Seq(Packet)
      /\ \A i, j \in DOMAIN list :
           i < j => Distance(list[j].seq, next) < Distance(list[i].seq, next)
  BY DEF Aged, next
<1> QED
  BY <1>0, <1>1, <1>2 DEF Aged

LEMMA AgedAppend ==
  ASSUME NEW list, NEW next, NEW lo \in Int, NEW hi \in Int, Aged(list, next, lo, hi),
         NEW p \in Packet, NEW age \in Int, Distance(p.seq, next) = age, age < lo, age <= hi
  PROVE  Aged(Append(list, p), next, age, hi)
<1>1. /\ list \in Seq(Packet) /\ Append(list, p) \in Seq(Packet) /\ Len(list) \in Nat
      /\ DOMAIN list = 1 .. Len(list) /\ DOMAIN Append(list, p) = 1 .. Len(list) + 1
      /\ \A i \in DOMAIN list : Append(list, p)[i] = list[i]
      /\ Append(list, p)[Len(list) + 1] = p
  BY DEF Aged
<1>2. \A i \in DOMAIN list : Distance(list[i].seq, next) \in lo .. hi
  BY DEF Aged
<1>3. \A i \in 1 .. Len(list) + 1 : i \in DOMAIN list \/ i = Len(list) + 1
  BY <1>1
<1>4. \A i \in DOMAIN Append(list, p) : Distance(Append(list, p)[i].seq, next) \in age .. hi
  BY <1>1, <1>2, <1>3
<1>5. ASSUME NEW i \in DOMAIN Append(list, p), NEW j \in DOMAIN Append(list, p), i < j
      PROVE  Distance(Append(list, p)[j].seq, next) < Distance(Append(list, p)[i].seq, next)
  <2>1. i \in DOMAIN list
    BY <1>1, <1>5
  <2>2. CASE j \in DOMAIN list
    BY <1>1, <1>5, <2>1, <2>2 DEF Aged
  <2>3. CASE j = Len(list) + 1
    BY <1>1, <1>2, <2>1, <2>3
  <2> QED
    BY <1>1, <1>3, <2>2, <2>3
<1> QED
  BY <1>1, <1>4, <1>5 DEF Aged

LEMMA AgedTail ==
  ASSUME NEW list, NEW next, NEW lo \in Int, NEW hi \in Int, Aged(list, next, lo, hi), list # <<>>
  PROVE  /\ Aged(Tail(list), next, lo, hi - 1) /\ Len(Tail(list)) = Len(list) - 1
         /\ Head(list) \in Packet /\ Distance(Head(list).seq, next) \in lo .. hi
<1>1. /\ list \in Seq(Packet) /\ Tail(list) \in Seq(Packet) /\ Len(list) \in Nat \ {0}
      /\ Len(Tail(list)) = Len(list) - 1 /\ Head(list) = list[1] /\ list[1] \in Packet
      /\ DOMAIN Tail(list) = 1 .. Len(list) - 1 /\ DOMAIN list = 1 .. Len(list)
  BY DEF Aged
<1>2. \A i \in DOMAIN Tail(list) : i + 1 \in DOMAIN list /\ Tail(list)[i] = list[i + 1] /\ 1 < i + 1
  BY <1>1
<1>3. 1 \in DOMAIN list /\ \A i \in DOMAIN list : Distance(list[i].seq, next) \in lo .. hi
  BY <1>1 DEF Aged
<1>4. \A i \in DOMAIN Tail(list) : Distance(Tail(list)[i].seq, next) \in lo .. hi - 1
  <2> TAKE i \in DOMAIN Tail(list)
  <2>1. Distance(list[i + 1].seq, next) < Distance(list[1].seq, next)
    BY <1>2, <1>3 DEF Aged
  <2>2. Distance(list[i + 1].seq, next) \in lo .. hi /\ Distance(list[1].seq, next) \in lo .. hi
    BY <1>2, <1>3
  <2> QED
    BY <1>2, <2>1, <2>2
<1>5. \A i, j \in DOMAIN Tail(list) :
        i < j => Distance(Tail(list)[j].seq, next) < Distance(Tail(list)[i].seq, next)
  BY <1>1, <1>2 DEF Aged
<1> QED
  BY <1>1, <1>3, <1>4, <1>5 DEF Aged

LEMMA AgedJoined ==
  ASSUME NEW s, NEW t, NEW next, NEW lo \in Int, NEW mid \in Int, NEW hi \in Int,
         Aged(s, next, mid + 1, hi), Aged(t, next, lo, mid), lo <= mid + 1, mid <= hi
  PROVE  Aged(s \o t, next, lo, hi)
<1> DEFINE new == s \o t
<1>0. s \in Seq(Packet) /\ t \in Seq(Packet)
  BY DEF Aged
<1>1. PICK n \in Nat : n = Len(s)
  BY <1>0
<1>2. PICK m \in Nat : m = Len(t)
  BY <1>0
<1>3. /\ new \in Seq(Packet) /\ Len(new) = n + m
      /\ \A i \in 1 .. n : new[i] = s[i]
      /\ \A k \in 1 .. m : new[n + k] = t[k]
  BY <1>0, <1>1, <1>2, Joined
<1> HIDE DEF new
<1>4. DOMAIN s = 1 .. n /\ DOMAIN t = 1 .. m /\ DOMAIN new = 1 .. n + m
  BY <1>0, <1>1, <1>2, <1>3
<1>5. \A i \in DOMAIN new : \/ i \in DOMAIN s /\ new[i] = s[i]
                            \/ i > n /\ i - n \in DOMAIN t /\ new[i] = t[i - n]
  <2> TAKE i \in DOMAIN new
  <2>1. CASE i \in DOMAIN s
    BY <1>3, <1>4, <2>1
  <2>2. CASE i \notin DOMAIN s
    <3>1. i > n /\ i - n \in 1 .. m /\ n + (i - n) = i
      BY <1>4, <2>2
    <3> QED
      BY <1>3, <1>4, <3>1
  <2> QED
    BY <2>1, <2>2
<1>6. /\ \A i \in DOMAIN s : Distance(s[i].seq, next) \in mid + 1 .. hi
      /\ \A i \in DOMAIN t : Distance(t[i].seq, next) \in lo .. mid
  BY DEF Aged
<1>7. \A i \in DOMAIN new : Distance(new[i].seq, next) \in lo .. hi
  BY <1>5, <1>6
<1>8. ASSUME NEW i \in DOMAIN new, NEW j \in DOMAIN new, i < j
      PROVE  Distance(new[j].seq, next) < Distance(new[i].seq, next)
  <2>1. CASE i \in DOMAIN s /\ j \in DOMAIN s
    BY <1>4, <1>5, <1>8, <2>1 DEF Aged
  <2>2. CASE i \in DOMAIN s /\ j \notin DOMAIN s
    <3>1. new[i] = s[i] /\ j - n \in DOMAIN t /\ new[j] = t[j - n]
      BY <1>4, <1>5, <2>2
    <3> QED
      BY <1>6, <2>2, <3>1
  <2>3. CASE i \notin DOMAIN s
    <3>1. /\ j \notin DOMAIN s /\ i - n \in DOMAIN t /\ j - n \in DOMAIN t /\ i - n < j - n
          /\ new[i] = t[i - n] /\ new[j] = t[j - n]
      BY <1>4, <1>5, <1>8, <2>3
    <3> QED
      BY <3>1 DEF Aged
  <2> QED
    BY <2>1, <2>2, <2>3
<1> QED
  BY <1>3, <1>7, <1>8 DEF Aged, new

\* A packet is sent: the buffer it is put into is sorted by age.
LEMMA AgedSent ==
  ASSUME NEW list, NEW next \in SeqNums, NEW lo \in Nat \ {0}, NEW hi \in Int,
         Aged(list, next, lo, hi), hi <= MaxWindow,
         NEW p \in Packet, Distance(p.seq, next) \in lo .. hi
  PROVE  Aged(Sent(list, p, next), next, lo, hi)
<1> DEFINE base == SentBase(next)
           new == Sent(list, p, next)
           Ages(q) == q \in Packet /\ Distance(q.seq, next) \in lo .. hi
<1>1. list \in Seq(Packet) /\ \A i \in DOMAIN list : Ages(list[i])
  BY PacketNumbers DEF Aged
<1>2. ASSUME NEW q, Ages(q)
      PROVE  /\ Distance(base, q.seq) = MaxWindow - Distance(q.seq, next)
             /\ Distance(q.seq, next) \in Int /\ base \in SeqNums
  <2>1. q.seq \in SeqNums /\ Distance(q.seq, next) \in 1 .. MaxWindow
    BY <1>2, U16Cases DEF Packet
  <2> QED
    BY <2>1, OlderIsNearer
<1>3. Ages(p) /\ base \in SeqNums /\ MaxWindow \in Int
  BY <1>2, U16Cases
<1> HIDE DEF base, Ages
<1>4. InOrder(list, base)
  <2> SUFFICES ASSUME NEW i \in DOMAIN list, NEW j \in DOMAIN list, i < j
               PROVE  Distance(base, list[i].seq) < Distance(base, list[j].seq)
    BY DEF InOrder
  <2>1. Distance(list[j].seq, next) < Distance(list[i].seq, next)
    BY DEF Aged
  <2> QED
    BY <1>1, <1>2, <1>3, <2>1
<1>5. /\ new \in Seq(Packet) /\ InOrder(new, base)
      /\ \A i \in DOMAIN new : (\E j \in DOMAIN list : new[i] = list[j]) \/ new[i] = p
  BY <1>1, <1>3, <1>4, InsertKeepsOrder DEF Sent, base
<1> HIDE DEF new
<1>6. \A i \in DOMAIN new : Ages(new[i])
  BY <1>1, <1>3, <1>5
<1>7. ASSUME NEW i \in DOMAIN new, NEW j \in DOMAIN new, i < j
      PROVE  Distance(new[j].seq, next) < Distance(new[i].seq, next)
  <2>1. Distance(base, new[i].seq) < Distance(base, new[j].seq)
    BY <1>5, <1>7 DEF InOrder
  <2> QED
    BY <1>2, <1>3, <1>6, <2>1
<1> QED
  BY <1>5, <1>6, <1>7 DEF Aged, new, Ages

LEMMA AgedWithout ==
  ASSUME NEW list, NEW next, NEW lo, NEW hi, Aged(list, next, lo, hi), NEW seqnum
  PROVE  Aged(Without(list, seqnum), next, lo, hi)
<1> DEFINE new == Without(list, seqnum)
<1>1. list \in Seq(Packet)
  BY DEF Aged
<1>2. /\ new \in Seq(Packet)
      /\ \E at \in Nat : \A i \in DOMAIN new :
            new[i] = list[IF i < at THEN i ELSE i + 1] /\ (IF i < at THEN i ELSE i + 1) \in DOMAIN list
  BY <1>1, WithoutKeeps
<1> HIDE DEF new
<1>3. PICK at \in Nat : \A i \in DOMAIN new :
        new[i] = list[IF i < at THEN i ELSE i + 1] /\ (IF i < at THEN i ELSE i + 1) \in DOMAIN list
  BY <1>2
<1>4. DOMAIN new \subseteq Nat
  BY <1>2
<1>5. ASSUME NEW i \in DOMAIN new, NEW j \in DOMAIN new, i < j
      PROVE  (IF i < at THEN i ELSE i + 1) < (IF j < at THEN j ELSE j + 1)
  BY <1>4, <1>5
<1> QED
  BY <1>2, <1>3, <1>5 DEF Aged, new

-----------------------------------------------------------------------------
(* The sending side.                                                        *)

SpreadLimit == Max({Window + 2, QueuedBefore + MaxChunks + MaxPings})
QueuedLimit == QueuedBefore + pings + (IF spc = "split" THEN Len(got) ELSE MaxChunks)

\* The inductive form of SpreadBound: each list is sorted by age.  What is queued
\* is young because a message is only split when little is queued; a number is
\* only given out when the oldest packet sent is within the window.
SenderInv ==
  /\ pings \in 0 .. MaxPings
  /\ spc = "split" => Len(got) <= Chunks[cmd] /\ Len(queued) <= QueuedBefore
  /\ Aged(got, nextOut, 1, Len(got))
  /\ Aged(queued, nextOut, Len(got) + 1, Len(queued) + Len(got) + pings)
  /\ Aged(queued, nextOut, Len(got) + 1, QueuedLimit)
  /\ Aged(sent, nextOut, Len(got) + 1, SpreadLimit)

LEMMA Limits ==
  /\ Window \in Nat /\ MaxRequeued \in Nat /\ MaxPings \in Nat /\ MaxChunks \in Nat \ {0}
  /\ MaxWindow \in Nat /\ SeqSpace \in Nat
  /\ QueuedBefore \in Int /\ QueuedBefore >= -1
  /\ QueuedBefore >= MaxRequeued - 1 /\ QueuedBefore >= Window \div 2 - 2
  /\ SpreadLimit \in Nat /\ SpreadLimit >= Window + 2
  /\ SpreadLimit >= QueuedBefore + MaxChunks + MaxPings
  /\ SpreadLimit <= MaxWindow /\ MaxWindow < SeqSpace - 1
<1>1. /\ Window \in Nat /\ MaxRequeued \in Nat /\ MaxPings \in Nat /\ MaxChunks \in Nat \ {0}
      /\ MaxWindow \in Nat /\ SeqSpace \in Nat
      /\ Window + MaxRequeued + MaxChunks + MaxPings < MaxWindow
  BY MtpAssumption, Longest, U16Cases
<1>2. Window \div 2 \in Nat /\ Window \div 2 <= Window
  BY <1>1
<1>3. /\ QueuedBefore \in Int
      /\ QueuedBefore >= MaxRequeued - 1 /\ QueuedBefore >= Window \div 2 - 2
      /\ QueuedBefore \in {MaxRequeued - 1, Window \div 2 - 2}
  <2>1. MaxRequeued - 1 \in Int /\ Window \div 2 - 2 \in Int
    BY <1>1, <1>2
  <2> QED
    BY <2>1, MaxOfTwo DEF QueuedBefore
<1>4. /\ SpreadLimit \in Int /\ SpreadLimit >= Window + 2
      /\ SpreadLimit >= QueuedBefore + MaxChunks + MaxPings
      /\ SpreadLimit \in {Window + 2, QueuedBefore + MaxChunks + MaxPings}
  <2>1. Window + 2 \in Int /\ QueuedBefore + MaxChunks + MaxPings \in Int
    BY <1>1, <1>3
  <2> QED
    BY <2>1, MaxOfTwo DEF SpreadLimit
<1>5. QueuedBefore + MaxChunks + MaxPings < MaxWindow /\ Window + 2 <= MaxWindow
  BY <1>1, <1>2, <1>3, U16Cases
<1>6. MaxWindow < SeqSpace - 1
  BY <1>1, U16Cases
<1> QED
  BY <1>1, <1>3, <1>4, <1>5, <1>6, U16Cases

LEMMA SenderTyped ==
  ASSUME SenderInv, PutBackInv
  PROVE  /\ got \in Seq(Packet) /\ queued \in Seq(Packet) /\ sent \in Seq(Packet)
         /\ Len(got) \in Nat /\ Len(queued) \in Nat /\ Len(sent) \in Nat
         /\ pings \in Nat /\ QueuedLimit \in Int /\ nextOut \in SeqNums
         /\ (spc # "split" => got = <<>> /\ Len(got) = 0)
         /\ (spc = "split" => Len(got) <= MaxChunks)
         /\ QueuedLimit <= QueuedBefore + MaxChunks + MaxPings
         /\ QueuedLimit <= MaxWindow /\ QueuedLimit <= SpreadLimit
<1>1. /\ got \in Seq(Packet) /\ queued \in Seq(Packet) /\ sent \in Seq(Packet)
      /\ nextOut \in SeqNums /\ (spc # "split" => got = <<>>) /\ pings \in 0 .. MaxPings
      /\ (spc = "split" => Len(got) <= Chunks[cmd] /\ cmd \in Messages)
  BY DEF SenderInv, PutBackInv, Consecutive, CommandsTyped, Aged
<1>2. Len(got) \in Nat /\ Len(queued) \in Nat /\ Len(sent) \in Nat /\ pings \in Nat
  BY <1>1, Limits
<1>3. spc = "split" => Len(got) <= MaxChunks
  BY <1>1, <1>2, Longest
<1>4. QueuedLimit \in Int /\ QueuedLimit <= QueuedBefore + MaxChunks + MaxPings
  <2>1. pings <= MaxPings
    BY <1>1, Limits
  <2>2. CASE spc = "split"
    BY <1>2, <1>3, <2>1, <2>2, Limits DEF QueuedLimit
  <2>3. CASE spc # "split"
    BY <1>2, <2>1, <2>3, Limits DEF QueuedLimit
  <2> QED
    BY <2>2, <2>3
<1> QED
  BY <1>1, <1>2, <1>3, <1>4, Limits

LEMMA SenderInit == Init => SenderInv
<1> SUFFICES ASSUME Init PROVE SenderInv
  OBVIOUS
<1>1. Aged(<<>>, nextOut, 1, 0) /\ Aged(<<>>, nextOut, 1, QueuedLimit) /\ Aged(<<>>, nextOut, 1, SpreadLimit)
  BY DEF Aged
<1> QED
  BY <1>1, Limits DEF Init, SenderInv

\* A number is given out: what is sent stays within the bound, as the oldest of
\* it was within the window.
LEMMA SentOneMore ==
  ASSUME SenderInv, PutBackInv, HaveSeqnum
  PROVE  Aged(sent, U16(nextOut + 1), Len(got) + 2, SpreadLimit)
<1>0. /\ Aged(sent, nextOut, Len(got) + 1, SpreadLimit) /\ sent \in Seq(Packet)
      /\ Len(got) \in Nat /\ nextOut \in SeqNums
  BY SenderTyped DEF SenderInv
<1>1. CASE sent = <<>>
  BY <1>0, <1>1 DEF Aged
<1>2. CASE sent # <<>>
  <2>1. Head(sent).seq \in SeqNums
    <3>1. Head(sent) \in Packet
      BY <1>0, <1>2
    <3> QED
      BY <3>1 DEF Packet
  <2>2. Distance(Head(sent).seq, nextOut) <= Window + 1
    <3>1. Distance(Head(sent).seq, nextOut) <= IF Head(sent).seq < nextOut THEN Window ELSE Window + 1
      BY <1>0, <1>2, <2>1, WindowIsKept, Limits DEF HaveSeqnum
    <3> QED
      BY <1>0, <2>1, <3>1, DistanceRange, Limits
  <2>3. Aged(sent, nextOut, Len(got) + 1, Window + 1)
    BY <1>0, <1>2, <2>2, AgedByHead, Limits
  <2>4. Aged(sent, U16(nextOut + 1), Len(got) + 1 + 1, Window + 1 + 1)
    BY <1>0, <2>3, AgedOneMore, Limits
  <2> QED
    BY <1>0, <2>4, AgedWider, Limits
<1> QED
  BY <1>1, <1>2

LEMMA QueuedOneMore ==
  ASSUME SenderInv, PutBackInv
  PROVE  /\ Aged(queued, U16(nextOut + 1), Len(got) + 2, Len(queued) + Len(got) + pings + 1)
         /\ Aged(queued, U16(nextOut + 1), Len(got) + 2, QueuedLimit + 1)
<1>0. /\ Aged(queued, nextOut, Len(got) + 1, Len(queued) + Len(got) + pings)
      /\ Aged(queued, nextOut, Len(got) + 1, QueuedLimit)
      /\ Len(got) \in Nat /\ Len(queued) \in Nat /\ pings \in Nat /\ nextOut \in SeqNums
      /\ QueuedLimit \in Int /\ QueuedLimit < SeqSpace - 1
  BY SenderTyped, Limits DEF SenderInv
<1>1. Aged(queued, U16(nextOut + 1), Len(got) + 1 + 1, QueuedLimit + 1)
  <2>1. Len(got) + 1 \in Int
    BY <1>0
  <2> QED
    BY <1>0, <2>1, AgedOneMore
<1>2. CASE queued = <<>>
  BY <1>2 DEF Aged
<1>3. CASE queued # <<>>
  <2>1. /\ Head(queued).seq \in SeqNums
        /\ Distance(Head(queued).seq, nextOut) <= Len(queued) + Len(got) + pings
        /\ Distance(Head(queued).seq, nextOut) < SeqSpace - 1
    <3>1. /\ Distance(Head(queued).seq, nextOut) \in Len(got) + 1 .. Len(queued) + Len(got) + pings
          /\ Distance(Head(queued).seq, nextOut) \in Len(got) + 1 .. QueuedLimit
          /\ Head(queued) \in Packet
      BY <1>0, <1>3, AgedTail
    <3> QED
      BY <1>0, <3>1, Limits DEF Packet
  <2>2. /\ Head(queued).seq \in SeqNums
        /\ Distance(Head(queued).seq, U16(nextOut + 1)) <= Len(queued) + Len(got) + pings + 1
    <3>1. Distance(Head(queued).seq, nextOut) \in Int
      BY <1>0, <2>1, DistanceRange
    <3>2. Distance(Head(queued).seq, U16(nextOut + 1)) = Distance(Head(queued).seq, nextOut) + 1
      BY <1>0, <2>1, OneOlder
    <3> QED
      BY <1>0, <2>1, <3>1, <3>2
  <2>3. Aged(queued, U16(nextOut + 1), Len(got) + 1 + 1, Len(queued) + Len(got) + pings + 1)
    BY <1>0, <1>1, <1>3, <2>2, AgedByHead
  <2> QED
    BY <1>0, <1>1, <2>3
<1> QED
  BY <1>0, <1>1, <1>2, <1>3

LEMMA PingKeeps ==
  ASSUME SenderInv, PutBackInv, NEW resent, RunTimeouts(resent)
  PROVE  SenderInv'
<1>1. /\ spc # "split" /\ spc' = "queues" /\ got = <<>> /\ got' = got /\ Len(got) = 0
  BY SenderTyped DEF RunTimeouts
<1>2. CASE UNCHANGED <<queued, sent, nextOut>> /\ (pings' = pings \/ (pings < MaxPings /\ pings' = pings + 1))
  <2>1. pings' \in 0 .. MaxPings /\ pings' >= pings /\ pings \in Nat
    BY <1>2, SenderTyped, Limits DEF SenderInv
  <2>2. QueuedLimit' = QueuedBefore + pings' + MaxChunks /\ QueuedLimit = QueuedBefore + pings + MaxChunks
    BY <1>1 DEF QueuedLimit
  <2>3. /\ Aged(queued, nextOut, 1, Len(queued) + Len(got) + pings')
        /\ Aged(queued, nextOut, 1, QueuedLimit')
    <3>1. /\ Aged(queued, nextOut, 1, Len(queued) + Len(got) + pings) /\ Len(queued) \in Nat
          /\ Aged(queued, nextOut, 1, QueuedLimit)
      BY <1>1, SenderTyped DEF SenderInv
    <3> QED
      BY <1>1, <2>1, <2>2, <3>1, AgedWider, Limits
  <2> QED
    BY <1>1, <1>2, <2>1, <2>3 DEF SenderInv
<1>3. CASE HaveSeqnum /\ pings < MaxPings /\ pings' = pings + 1 /\ nextOut' = U16(nextOut + 1)
           /\ \/ sent' = Sent(sent, NewPing, nextOut') /\ queued' = queued
              \/ queued' = Append(queued, NewPing) /\ sent' = sent
  <2>1. /\ pings \in Nat /\ pings' \in 0 .. MaxPings /\ nextOut \in SeqNums /\ nextOut' \in SeqNums
        /\ Len(queued) \in Nat /\ queued \in Seq(Packet) /\ QueuedLimit \in Int
        /\ QueuedLimit' = QueuedLimit + 1 /\ QueuedLimit' = QueuedBefore + pings' + MaxChunks
    <3>1. QueuedLimit' = QueuedBefore + pings' + MaxChunks /\ QueuedLimit = QueuedBefore + pings + MaxChunks
      BY <1>1 DEF QueuedLimit
    <3>2. pings \in Nat /\ nextOut \in SeqNums /\ Len(queued) \in Nat /\ queued \in Seq(Packet)
      BY SenderTyped
    <3> QED
      BY <1>3, <3>1, <3>2, OneOlder, Limits DEF SenderInv
  <2>2. NewPing \in Packet /\ NewPing.seq = nextOut /\ Distance(NewPing.seq, nextOut') = 1
    BY <1>3, <2>1, OneOlder DEF NewPing, Packet
  <2>3. /\ Aged(sent, nextOut', 2, SpreadLimit)
        /\ Aged(queued, nextOut', 2, Len(queued) + pings')
        /\ Aged(queued, nextOut', 2, QueuedLimit')
    <3>1. Len(queued) + Len(got) + pings + 1 = Len(queued) + pings' /\ Len(got) + 2 = 2
      BY <1>1, <1>3, <2>1
    <3> QED
      BY <1>3, <2>1, <3>1, SentOneMore, QueuedOneMore
  <2>4. Aged(sent', nextOut', 1, SpreadLimit)
    <3>1. Aged(sent, nextOut', 1, SpreadLimit)
      BY <2>3, AgedWider, Limits
    <3>2. Distance(NewPing.seq, nextOut') \in 1 .. SpreadLimit
      BY <2>2, Limits
    <3>3. Aged(Sent(sent, NewPing, nextOut'), nextOut', 1, SpreadLimit)
      BY <2>1, <2>2, <3>1, <3>2, AgedSent, Limits
    <3> QED
      BY <1>3, <3>1, <3>3
  <2>5. Aged(queued', nextOut', 1, Len(queued') + pings') /\ Aged(queued', nextOut', 1, QueuedLimit')
    <3>0. QueuedLimit' \in Int /\ QueuedLimit' >= 1
      BY <2>1, <1>3, Limits
    <3>1. CASE queued' = queued
      BY <2>1, <2>3, <3>0, <3>1, AgedWider
    <3>2. CASE queued' = Append(queued, NewPing)
      <4>1. Len(queued') = Len(queued) + 1 /\ Len(queued) + pings' >= 1
        BY <2>1, <1>3, <2>2, <3>2
      <4>2. Aged(queued', nextOut', 1, Len(queued) + pings') /\ Aged(queued', nextOut', 1, QueuedLimit')
        BY <2>1, <2>2, <2>3, <3>0, <3>2, <4>1, AgedAppend
      <4> QED
        BY <2>1, <4>1, <4>2, AgedWider
    <3> QED
      BY <1>3, <3>1, <3>2
  <2>6. Aged(got', nextOut', 1, Len(got'))
    BY <1>1 DEF Aged
  <2> QED
    BY <1>1, <2>1, <2>4, <2>5, <2>6 DEF SenderInv
<1> QED
  BY <1>2, <1>3 DEF RunTimeouts, SendPing

LEMMA TakeSeqnumAges ==
  ASSUME SenderInv, PutBackInv, TakeSeqnum
  PROVE  SenderInv'
<1> DEFINE p == [seq |-> nextOut, msg |-> cmd, chunk |-> Len(got) + 1]
<1>1. /\ spc = "split" /\ spc' = spc /\ Len(got) < Chunks[cmd] /\ HaveSeqnum /\ cmd \in Messages
      /\ got' = Append(got, p) /\ nextOut' = U16(nextOut + 1)
      /\ UNCHANGED <<cmd, queued, sent, pings>>
  BY DEF TakeSeqnum, PutBackInv, CommandsTyped
<1>2. /\ got \in Seq(Packet) /\ Len(got) \in Nat /\ Len(queued) \in Nat /\ pings \in Nat
      /\ nextOut \in SeqNums /\ QueuedLimit \in Int
  BY SenderTyped
<1>3. p \in Packet /\ p.seq = nextOut /\ Distance(p.seq, nextOut') = 1 /\ nextOut' \in SeqNums
  BY <1>1, <1>2, OneOlder DEF Packet
<1> HIDE DEF p
<1>4. Len(got') = Len(got) + 1
  BY <1>1, <1>2, <1>3
<1>5. QueuedLimit' = QueuedLimit + 1
  BY <1>1, <1>2, <1>4, Limits DEF QueuedLimit
<1>6. Aged(sent', nextOut', Len(got') + 1, SpreadLimit)
  <2>1. Len(got) + 2 = Len(got') + 1
    BY <1>2, <1>4
  <2> QED
    BY <1>1, <2>1, SentOneMore
<1>7. /\ Aged(queued', nextOut', Len(got') + 1, Len(queued') + Len(got') + pings')
      /\ Aged(queued', nextOut', Len(got') + 1, QueuedLimit')
  <2>1. Len(got) + 2 = Len(got') + 1 /\ Len(queued) + Len(got) + pings + 1 = Len(queued') + Len(got') + pings'
    BY <1>1, <1>2, <1>4
  <2> QED
    BY <1>1, <1>5, <2>1, QueuedOneMore
<1>8. Aged(got', nextOut', 1, Len(got'))
  <2>1. Len(got) < SeqSpace - 1
    BY <1>1, <1>2, SenderTyped, Limits, Longest, MtpAssumption
  <2>2. Aged(got, nextOut', 1 + 1, Len(got) + 1)
    <3>1. Aged(got, nextOut, 1, Len(got))
      BY DEF SenderInv
    <3>2. 1 \in Int /\ Len(got) \in Int /\ nextOut \in SeqNums
      BY <1>2
    <3>3. Aged(got, U16(nextOut + 1), 1 + 1, Len(got) + 1)
      BY <2>1, <3>1, <3>2, AgedOneMore
    <3> QED
      BY <1>1, <3>3
  <2>3. 1 + 1 \in Int /\ Len(got) + 1 \in Int /\ 1 \in Int /\ 1 < 1 + 1 /\ 1 <= Len(got) + 1
    BY <1>2
  <2>4. Aged(Append(got, p), nextOut', 1, Len(got) + 1)
    BY <1>3, <2>2, <2>3, AgedAppend
  <2> QED
    BY <1>1, <1>4, <2>4
<1>9. spc' = "split" => Len(got') <= Chunks[cmd]' /\ Len(queued') <= QueuedBefore'
  <2>1. Chunks[cmd] \in Nat
    BY <1>1, Longest
  <2> QED
    BY <1>1, <1>2, <1>4, <2>1 DEF SenderInv, QueuedBefore
<1> QED
  BY <1>1, <1>6, <1>7, <1>8, <1>9 DEF SenderInv

LEMMA QueuePacketsAges ==
  ASSUME SenderInv, PutBackInv, QueuePackets
  PROVE  SenderInv'
<1>1. /\ spc = "split" /\ spc' = "commands" /\ Len(got) = Chunks[cmd] /\ got' = <<>>
      /\ queued' = queued \o got /\ UNCHANGED <<sent, nextOut, pings>>
  BY DEF QueuePackets
<1>2. /\ got \in Seq(Packet) /\ Len(got) \in Nat /\ queued \in Seq(Packet) /\ Len(queued) \in Nat
      /\ pings \in Nat /\ Len(got) <= MaxChunks /\ QueuedLimit \in Int
      /\ QueuedBefore >= 0 /\ QueuedBefore \in Int
  BY <1>1, SenderTyped, Limits DEF SenderInv
<1>3. Len(queued') = Len(queued) + Len(got) /\ Len(got') = 0
  BY <1>1, <1>2
<1>4. QueuedLimit = QueuedBefore + pings + Len(got) /\ QueuedLimit' = QueuedBefore + pings + MaxChunks
  BY <1>1 DEF QueuedLimit
<1>5. /\ Aged(queued', nextOut, 1, Len(queued) + Len(got) + pings)
      /\ Aged(queued', nextOut, 1, QueuedLimit)
  BY <1>1, <1>2, <1>4, AgedJoined, Limits DEF SenderInv
<1>6. /\ Aged(queued', nextOut', Len(got') + 1, Len(queued') + Len(got') + pings')
      /\ Aged(queued', nextOut', Len(got') + 1, QueuedLimit')
  <2>1. QueuedLimit <= QueuedLimit' /\ QueuedLimit' \in Int
    BY <1>2, <1>4, Limits
  <2>2. Aged(queued', nextOut, 1, QueuedLimit')
    BY <1>2, <1>5, <2>1, AgedWider
  <2>3. Len(got') + 1 = 1 /\ Len(queued') + Len(got') + pings' = Len(queued) + Len(got) + pings
    BY <1>1, <1>2, <1>3
  <2> QED
    BY <1>1, <1>5, <2>2, <2>3
<1>7. Aged(sent', nextOut', Len(got') + 1, SpreadLimit)
  <2>1. Aged(sent, nextOut, 1, SpreadLimit)
    BY <1>2, AgedWider, Limits DEF SenderInv
  <2> QED
    BY <1>1, <1>3, <2>1
<1>8. Aged(got', nextOut', 1, Len(got'))
  BY <1>1 DEF Aged
<1> QED
  BY <1>1, <1>6, <1>7, <1>8 DEF SenderInv

LEMMA PutBackAges ==
  ASSUME SenderInv, PutBackInv, PutBack
  PROVE  SenderInv'
<1>1. /\ spc = "split" /\ spc' = "commands" /\ got' = <<>> /\ UNCHANGED <<queued, sent, pings>>
  BY DEF PutBack
<1>2. /\ got \in Seq(Packet) /\ Len(got) \in Nat /\ queued \in Seq(Packet) /\ Len(queued) \in Nat
      /\ pings \in Nat /\ Len(got) <= MaxChunks /\ QueuedLimit \in Int /\ nextOut \in SeqNums
      /\ Len(got') = 0 /\ Len(got) \in 0 .. SeqSpace - 1
  BY <1>1, SenderTyped, Limits, MtpAssumption
<1>3. nextOut' \in SeqNums /\ nextOut = U16(nextOut' + Len(got))
  <2>1. CASE got = <<>>
    <3>1. nextOut' = nextOut /\ Len(got) = 0 /\ U16(nextOut) = nextOut
      BY <1>2, <2>1, U16Cases DEF PutBack, SeqNums
    <3>2. nextOut + 0 = nextOut
      BY <1>2, U16Cases DEF SeqNums
    <3> QED
      BY <1>2, <3>1, <3>2
  <2>2. CASE got # <<>>
    <3>1. ~fatal' /\ ~fatal
      BY PutBackKeeps DEF PutBackInv
    <3>2. nextOut' = Head(got).seq
      BY <2>2, <3>1 DEF PutBack
    <3> QED
      BY <1>2, <2>2, <3>2, FirstNumber DEF PutBackInv, Consecutive
  <2> QED
    BY <2>1, <2>2
<1>4. QueuedLimit = QueuedBefore + pings + Len(got) /\ QueuedLimit' = QueuedBefore + pings + MaxChunks
  BY <1>1 DEF QueuedLimit
<1>5. /\ Aged(queued, nextOut', 1, Len(queued) + Len(got) + pings - Len(got))
      /\ Aged(queued, nextOut', 1, QueuedLimit - Len(got))
      /\ Aged(sent, nextOut', 1, SpreadLimit - Len(got))
  <2>1. /\ Aged(queued, nextOut, Len(got) + 1, Len(queued) + Len(got) + pings)
        /\ Aged(queued, nextOut, Len(got) + 1, QueuedLimit)
        /\ Aged(sent, nextOut, Len(got) + 1, SpreadLimit)
        /\ Len(queued) + Len(got) + pings \in Int /\ SpreadLimit \in Int
    BY <1>2, Limits DEF SenderInv
  <2> QED
    BY <1>2, <1>3, <2>1, AgedPutBack
<1>6. Aged(queued, nextOut', 1, QueuedLimit') /\ Aged(sent, nextOut', 1, SpreadLimit)
  <2>1. QueuedLimit - Len(got) <= QueuedLimit' /\ QueuedLimit' \in Int /\ QueuedLimit - Len(got) \in Int
        /\ SpreadLimit - Len(got) <= SpreadLimit /\ SpreadLimit - Len(got) \in Int
    BY <1>2, <1>4, Limits
  <2> QED
    BY <1>5, <2>1, AgedWider, Limits
<1>7. Len(queued) + Len(got) + pings - Len(got) = Len(queued') + Len(got') + pings' /\ Len(got') + 1 = 1
  BY <1>1, <1>2
<1>8. Aged(got', nextOut', 1, Len(got'))
  BY <1>1 DEF Aged
<1> QED
  BY <1>1, <1>5, <1>6, <1>7, <1>8 DEF SenderInv

LEMMA SendPacketAges ==
  ASSUME SenderInv, PutBackInv, SendPacket
  PROVE  SenderInv'
<1>1. /\ spc # "split" /\ spc' = "sending" /\ queued # <<>> /\ queued' = Tail(queued)
      /\ sent' = Sent(sent, Head(queued), nextOut) /\ UNCHANGED <<got, nextOut, pings>>
  BY DEF SendPacket
<1>2. /\ got = <<>> /\ Len(got) = 0 /\ Len(queued) \in Nat /\ pings \in Nat /\ QueuedLimit \in Int
      /\ nextOut \in SeqNums /\ QueuedLimit <= SpreadLimit
  BY <1>1, SenderTyped
<1>3. /\ Aged(queued, nextOut, 1, Len(queued) + pings) /\ Aged(queued, nextOut, 1, QueuedLimit)
      /\ Aged(sent, nextOut, 1, SpreadLimit)
  <2>1. Len(got) + 1 = 1 /\ Len(queued) + Len(got) + pings = Len(queued) + pings
    BY <1>2
  <2> QED
    BY <2>1 DEF SenderInv
<1>4. /\ Aged(queued', nextOut, 1, Len(queued) + pings - 1) /\ Aged(queued', nextOut, 1, QueuedLimit - 1)
      /\ Len(queued') = Len(queued) - 1
      /\ Head(queued) \in Packet /\ Distance(Head(queued).seq, nextOut) \in 1 .. QueuedLimit
  <2>1. Len(queued) + pings \in Int
    BY <1>2
  <2> QED
    BY <1>1, <1>2, <1>3, <2>1, AgedTail
<1>5. Aged(sent', nextOut, 1, SpreadLimit)
  <2>1. Distance(Head(queued).seq, nextOut) \in 1 .. SpreadLimit
    BY <1>2, <1>4, Limits
  <2> QED
    BY <1>1, <1>2, <1>3, <1>4, <2>1, AgedSent, Limits
<1>6. Aged(queued', nextOut, 1, QueuedLimit)
  <2>1. QueuedLimit - 1 <= QueuedLimit /\ QueuedLimit - 1 \in Int
    BY <1>2
  <2> QED
    BY <1>2, <1>4, <2>1, AgedWider
<1>7. /\ QueuedLimit' = QueuedLimit /\ Len(got') + 1 = 1
      /\ Len(queued') + Len(got') + pings' = Len(queued) + pings - 1
  BY <1>1, <1>2, <1>4 DEF QueuedLimit
<1>8. Aged(got', nextOut', 1, Len(got'))
  BY <1>1, <1>2 DEF Aged
<1> QED
  BY <1>1, <1>4, <1>5, <1>6, <1>7, <1>8 DEF SenderInv

\* A message is only split when little is queued.
LEMMA SplitStarts ==
  ASSUME SenderInv, PutBackInv, RunCommandQueues \/ TakeCommand
  PROVE  SenderInv'
<1>1. spc # "split" /\ UNCHANGED <<got, queued, sent, nextOut, pings>>
  BY DEF RunCommandQueues, TakeCommand
<1>2. /\ got = <<>> /\ Len(got) = 0 /\ Len(queued) \in Nat /\ pings \in Nat /\ QueuedLimit \in Int
      /\ queued \in Seq(Packet)
  BY <1>1, SenderTyped
<1>3. CASE spc' # "split"
  BY <1>1, <1>3 DEF SenderInv, QueuedLimit
<1>4. CASE spc' = "split"
  <2>1. Len(queued) <= QueuedBefore
    <3>1. Len(queued) < MaxRequeued \/ Len(queued) + 1 < Window \div 2
      BY <1>2, <1>4, Limits DEF RunCommandQueues, TakeCommand
    <3> QED
      BY <1>2, <3>1, Limits
  <2>2. cmd' \in Messages
    <3>1. PutBackInv'
      BY PutBackNext DEF Next, SendThread
    <3> QED
      BY <1>4, <3>1 DEF PutBackInv, CommandsTyped
  <2>3. Len(got') <= Chunks[cmd'] /\ Len(queued') <= QueuedBefore
    BY <1>1, <1>2, <2>1, <2>2, Longest
  <2>4. QueuedLimit' = QueuedBefore + pings
    BY <1>1, <1>2, <1>4, Limits DEF QueuedLimit
  <2>5. Aged(queued, nextOut, Len(got) + 1, QueuedBefore + pings)
    <3>1. Aged(queued, nextOut, Len(got) + 1, Len(queued) + Len(got) + pings)
      BY DEF SenderInv
    <3>2. Len(queued) + Len(got) + pings <= QueuedBefore + pings
          /\ Len(queued) + Len(got) + pings \in Int /\ QueuedBefore + pings \in Int /\ Len(got) + 1 \in Int
      BY <1>2, <2>1, Limits
    <3> QED
      BY <3>1, <3>2, AgedWider
  <2> QED
    BY <1>1, <2>3, <2>4, <2>5 DEF SenderInv, QueuedBefore
<1> QED
  BY <1>3, <1>4

LEMMA SenderNext == PutBackInv /\ SenderInv /\ [Next]_vars => SenderInv'
<1> SUFFICES ASSUME PutBackInv, SenderInv, [Next]_vars PROVE SenderInv'
  OBVIOUS
<1>1. ASSUME UNCHANGED <<spc, cmd, got, queued, sent, nextOut, pings>> PROVE SenderInv'
  BY <1>1 DEF SenderInv, QueuedLimit
<1>2. ASSUME /\ UNCHANGED <<got, queued, sent, nextOut, pings>>
             /\ spc # "split" /\ spc' # "split"
      PROVE SenderInv'
  BY <1>2 DEF SenderInv, QueuedLimit
<1>3. CASE Send \/ CheckIncomingBuffers \/ ReceiverDeletesPeer \/ DisconnectPeer \/ UNCHANGED vars
  BY <1>1, <1>3 DEF Send, CheckIncomingBuffers, ReceiverDeletesPeer, DisconnectPeer, vars, sender
<1>4. ASSUME NEW p, Receive(p) PROVE SenderInv'
  BY <1>1, <1>4 DEF Receive, sender
<1>5. CASE PeerTimedOut \/ NoMoreCommands \/ EndSending
  BY <1>2, <1>5 DEF PeerTimedOut, NoMoreCommands, EndSending
<1>6. ASSUME NEW seqnum, HandleAck(seqnum) PROVE SenderInv'
  <2>1. /\ sent' = sent \/ sent' = Without(sent, seqnum)
        /\ UNCHANGED <<spc, cmd, got, queued, nextOut, pings>>
    BY <1>6 DEF HandleAck
  <2>2. Aged(sent', nextOut, Len(got) + 1, SpreadLimit)
    BY <2>1, AgedWithout DEF SenderInv
  <2> QED
    BY <2>1, <2>2 DEF SenderInv, QueuedLimit
<1> QED
  BY <1>3, <1>4, <1>5, <1>6, PingKeeps, TakeSeqnumAges, QueuePacketsAges, PutBackAges,
     SendPacketAges, SplitStarts DEF Next, SendThread

\* The numbers in use at the sender stay together, and so within the half of the
\* sequence space that the comparisons can tell apart.
THEOREM SpreadIsBounded == Spec => []SpreadBound
<1>1. ASSUME SenderInv, PutBackInv PROVE SpreadBound
  <2>1. SpreadLimit \in Int /\ QueuedLimit \in Int /\ QueuedLimit <= SpreadLimit
        /\ Len(got) \in Nat /\ Len(got) <= SpreadLimit
    <3>1. Len(got) <= MaxChunks \/ Len(got) = 0
      BY <1>1, SenderTyped
    <3>2. spc = "split" => QueuedBefore >= 0
      BY <1>1, SenderTyped, Limits DEF SenderInv
    <3> QED
      BY <1>1, <3>1, <3>2, SenderTyped, Limits
  <2>2. \A i \in DOMAIN got : Distance(got[i].seq, nextOut) \in 1 .. Len(got)
    BY <1>1 DEF SenderInv, Aged
  <2>3. \A i \in DOMAIN queued : Distance(queued[i].seq, nextOut) \in Len(got) + 1 .. QueuedLimit
    BY <1>1 DEF SenderInv, Aged
  <2>4. \A i \in DOMAIN sent : Distance(sent[i].seq, nextOut) \in Len(got) + 1 .. SpreadLimit
    BY <1>1 DEF SenderInv, Aged
  <2>5. \A n \in Numbers(sent) \cup Numbers(queued) \cup Numbers(got) : Distance(n, nextOut) <= SpreadLimit
    BY <2>1, <2>2, <2>3, <2>4 DEF Numbers
  <2> QED
    BY <2>5 DEF SpreadBound, SpreadLimit
<1> QED
  BY <1>1, PutBackInit, PutBackNext, SenderInit, SenderNext, PTL DEF Spec

-----------------------------------------------------------------------------
(* The network and the receiving side.                                      *)

ReceiverInv ==
  /\ net \subseteq Packet /\ acks \subseteq SeqNums
  /\ nextIn \in SeqNums /\ inbuf \in Seq(Packet) /\ InOrder(inbuf, nextIn)
  /\ splits \subseteq Packet /\ delivered \in Seq(Messages)

ThreadsTyped ==
  /\ speer \in {"open", "closing", "gone"} /\ rpeer \in {"open", "gone"}
  /\ spc \in {"timeouts", "queues", "commands", "split", "send", "sending"}
  /\ drained \in BOOLEAN

\* The front of the buffer is taken out, and the next number expected.
LEMMA NextKeepsOrder ==
  ASSUME NEW list \in Seq(Packet), NEW next \in SeqNums, InOrder(list, next)
  PROVE  LET rest == IF list # <<>> /\ Head(list).seq = next THEN Tail(list) ELSE list
         IN  rest \in Seq(Packet) /\ InOrder(rest, U16(next + 1))
<1> DEFINE rest == IF list # <<>> /\ Head(list).seq = next THEN Tail(list) ELSE list
<1>1. /\ DOMAIN list = 1 .. Len(list) /\ Len(list) \in Nat
      /\ \A i \in DOMAIN list : list[i].seq \in SeqNums
  BY PacketNumbers
<1>2. \A i \in DOMAIN list : Distance(next, list[i].seq) \in Nat
                             /\ (Distance(next, list[i].seq) = 0 <=> list[i].seq = next)
  <2> TAKE i \in DOMAIN list
  <2>1. list[i].seq \in SeqNums
    BY <1>1
  <2> QED
    BY <2>1, DistanceRange, U16Cases
<1>3. ASSUME NEW i \in DOMAIN list, i > 1 PROVE list[i].seq # next
  <2>1. 1 \in DOMAIN list
    BY <1>1, <1>3
  <2>2. Distance(next, list[1].seq) < Distance(next, list[i].seq)
    BY <1>1, <1>3, <2>1 DEF InOrder
  <2> QED
    BY <1>2, <1>3, <2>1, <2>2
<1>4. ASSUME NEW i \in DOMAIN list, NEW j \in DOMAIN list, i < j, list[i].seq # next, list[j].seq # next
      PROVE  Distance(U16(next + 1), list[i].seq) < Distance(U16(next + 1), list[j].seq)
  <2>1. Distance(next, list[i].seq) < Distance(next, list[j].seq)
    BY <1>4 DEF InOrder
  <2>2. /\ Distance(U16(next + 1), list[i].seq) = Distance(next, list[i].seq) - 1
        /\ Distance(U16(next + 1), list[j].seq) = Distance(next, list[j].seq) - 1
    BY <1>1, <1>4, OneNearer
  <2> QED
    BY <1>2, <2>1, <2>2
<1>5. CASE list # <<>> /\ Head(list).seq = next
  <2>1. /\ Tail(list) \in Seq(Packet) /\ DOMAIN Tail(list) = 1 .. Len(list) - 1
        /\ \A i \in DOMAIN Tail(list) : i + 1 \in DOMAIN list /\ i + 1 > 1 /\ Tail(list)[i] = list[i + 1]
    BY <1>1, <1>5
  <2>2. InOrder(Tail(list), U16(next + 1))
    <3> SUFFICES ASSUME NEW i \in DOMAIN Tail(list), NEW j \in DOMAIN Tail(list), i < j
                 PROVE  Distance(U16(next + 1), Tail(list)[i].seq) < Distance(U16(next + 1), Tail(list)[j].seq)
      BY DEF InOrder
    <3>1. i + 1 < j + 1
      BY <2>1
    <3>2. list[i + 1].seq # next /\ list[j + 1].seq # next
      BY <1>3, <2>1
    <3> QED
      BY <1>4, <2>1, <3>1, <3>2
  <2> QED
    BY <1>5, <2>1, <2>2
<1>6. CASE ~(list # <<>> /\ Head(list).seq = next)
  <2>1. ASSUME NEW i \in DOMAIN list PROVE list[i].seq # next
    <3>1. CASE i = 1
      BY <1>1, <1>6, <3>1
    <3>2. CASE i > 1
      BY <1>3, <3>2
    <3> QED
      BY <1>1, <3>1, <3>2
  <2>2. InOrder(list, U16(next + 1))
    BY <1>4, <2>1 DEF InOrder
  <2> QED
    BY <1>6, <2>2
<1> QED
  BY <1>5, <1>6

LEMMA ProcessTyped ==
  ASSUME ReceiverInv, NEW p \in Packet, Process(p)
  PROVE  splits' \subseteq Packet /\ delivered' \in Seq(Messages)
<1>1. p.msg = 0 \/ p.msg \in Messages
  BY DEF Packet
<1>2. splits \subseteq Packet /\ delivered \in Seq(Messages)
  BY DEF ReceiverInv
<1>3. \/ UNCHANGED <<splits, delivered>>
      \/ p.msg # 0 /\ delivered' = Append(delivered, p.msg) /\ splits' \subseteq splits
      \/ splits' = splits \cup {p} /\ delivered' = delivered
  BY DEF Process
<1> QED
  BY <1>1, <1>2, <1>3

LEMMA ReceiveKeeps ==
  ASSUME ReceiverInv, NEW p \in net, Receive(p)
  PROVE  ReceiverInv'
<1>1. /\ p \in Packet /\ p.seq \in SeqNums /\ nextIn \in SeqNums /\ inbuf \in Seq(Packet)
      /\ InOrder(inbuf, nextIn)
  BY DEF ReceiverInv, Packet
<1>2. net' = net /\ acks' \subseteq acks \cup {p.seq}
  BY DEF Receive
<1>3. CASE UNCHANGED <<nextIn, inbuf, splits, delivered>>
  BY <1>1, <1>2, <1>3 DEF ReceiverInv
<1>4. CASE inbuf' = Insert(inbuf, p, nextIn) /\ UNCHANGED <<nextIn, splits, delivered>>
  <2>1. inbuf' \in Seq(Packet) /\ InOrder(inbuf', nextIn)
    BY <1>1, <1>4, InsertKeepsOrder
  <2> QED
    BY <1>1, <1>2, <1>4, <2>1 DEF ReceiverInv
<1>5. CASE /\ p.seq = nextIn
           /\ inbuf' = IF inbuf # <<>> /\ Head(inbuf).seq = p.seq THEN Tail(inbuf) ELSE inbuf
           /\ nextIn' = U16(nextIn + 1) /\ Process(p)
  <2>1. inbuf' \in Seq(Packet) /\ InOrder(inbuf', nextIn')
    BY <1>1, <1>5, NextKeepsOrder
  <2>2. nextIn' \in SeqNums
    BY <1>1, <1>5, OneOlder
  <2> QED
    BY <1>1, <1>2, <1>5, <2>1, <2>2, ProcessTyped DEF ReceiverInv
<1> QED
  BY <1>3, <1>4, <1>5 DEF Receive

LEMMA CheckKeeps ==
  ASSUME ReceiverInv, CheckIncomingBuffers
  PROVE  ReceiverInv'
<1>1. nextIn \in SeqNums /\ inbuf \in Seq(Packet) /\ InOrder(inbuf, nextIn) /\ UNCHANGED <<net, acks>>
  BY DEF ReceiverInv, CheckIncomingBuffers
<1>2. CASE UNCHANGED <<nextIn, inbuf, splits, delivered>>
  BY <1>1, <1>2 DEF ReceiverInv
<1>3. CASE /\ inbuf # <<>> /\ Head(inbuf).seq = nextIn
           /\ inbuf' = Tail(inbuf) /\ nextIn' = U16(nextIn + 1) /\ Process(Head(inbuf))
  <2>1. inbuf' \in Seq(Packet) /\ InOrder(inbuf', nextIn')
    BY <1>1, <1>3, NextKeepsOrder
  <2>2. nextIn' \in SeqNums /\ Head(inbuf) \in Packet
    BY <1>1, <1>3, OneOlder
  <2> QED
    BY <1>1, <1>3, <2>1, <2>2, ProcessTyped DEF ReceiverInv
<1> QED
  BY <1>2, <1>3 DEF CheckIncomingBuffers

LEMMA ReceiverInit == Init => ReceiverInv /\ ThreadsTyped
<1> SUFFICES ASSUME Init PROVE ReceiverInv /\ ThreadsTyped
  OBVIOUS
<1>1. FirstSeqnum \in SeqNums /\ <<>> \in Seq(Packet) /\ <<>> \in Seq(Messages)
  BY MtpAssumption
<1> QED
  BY <1>1 DEF Init, ReceiverInv, ThreadsTyped, InOrder

LEMMA TransmitTyped ==
  ASSUME net \subseteq Packet, NEW packets, packets \subseteq Packet, Transmit(packets)
  PROVE  net' \subseteq Packet
BY DEF Transmit

LEMMA ReceiverNext ==
  PutBackInv /\ SenderInv /\ ReceiverInv /\ ThreadsTyped /\ [Next]_vars => ReceiverInv' /\ ThreadsTyped'
<1> SUFFICES ASSUME PutBackInv, SenderInv, ReceiverInv, ThreadsTyped, [Next]_vars
             PROVE  ReceiverInv' /\ ThreadsTyped'
  OBVIOUS
<1>1. ASSUME UNCHANGED receiver, net' \subseteq Packet, acks' \subseteq SeqNums
      PROVE  ReceiverInv'
  BY <1>1 DEF ReceiverInv, receiver
<1>2. net \subseteq Packet /\ acks \subseteq SeqNums
  BY DEF ReceiverInv
<1>3. CASE \/ Send \/ PeerTimedOut \/ DisconnectPeer \/ RunCommandQueues \/ TakeCommand
           \/ NoMoreCommands \/ TakeSeqnum \/ QueuePackets \/ PutBack \/ EndSending
           \/ (\E seqnum \in acks : HandleAck(seqnum)) \/ UNCHANGED vars
  <2>1. UNCHANGED <<net, acks>> /\ UNCHANGED receiver
    BY <1>3 DEF Send, PeerTimedOut, DisconnectPeer, RunCommandQueues, TakeCommand, NoMoreCommands,
         TakeSeqnum, QueuePackets, PutBack, EndSending, HandleAck, vars
  <2>2. speer' \in {"open", "closing", "gone"}
        /\ spc' \in {"timeouts", "queues", "commands", "split", "send", "sending"}
    BY <1>3 DEF Send, PeerTimedOut, DisconnectPeer, RunCommandQueues, TakeCommand, NoMoreCommands,
         TakeSeqnum, QueuePackets, PutBack, EndSending, HandleAck, vars, sender, ThreadsTyped
  <2> QED
    BY <1>1, <1>2, <2>1, <2>2 DEF ThreadsTyped, receiver
<1>4. CASE SendPacket
  <2>1. Head(queued) \in Packet
    BY <1>4, SenderTyped DEF SendPacket
  <2>2. net' \subseteq Packet
    BY <1>2, <1>4, <2>1, TransmitTyped DEF SendPacket
  <2> QED
    BY <1>1, <1>2, <1>4, <2>2 DEF SendPacket, ThreadsTyped, receiver
<1>5. ASSUME NEW resent \in SUBSET ToSet(sent), RunTimeouts(resent) PROVE ReceiverInv' /\ ThreadsTyped'
  <2>1. resent \subseteq Packet
    <3>1. ToSet(sent) \subseteq Packet
      BY SenderTyped DEF ToSet
    <3> QED
      BY <3>1
  <2>2. NewPing \in Packet
    BY SenderTyped DEF NewPing, Packet
  <2>3. net' \subseteq Packet
    BY <1>2, <1>5, <2>1, <2>2, TransmitTyped DEF RunTimeouts, SendPing
  <2> QED
    BY <1>1, <1>2, <1>5, <2>3 DEF RunTimeouts, ThreadsTyped, receiver
<1>6. ASSUME NEW p \in net, Receive(p) PROVE ReceiverInv' /\ ThreadsTyped'
  BY <1>6, ReceiveKeeps DEF Receive, ThreadsTyped, sender
<1>7. CASE CheckIncomingBuffers
  BY <1>7, CheckKeeps DEF CheckIncomingBuffers, ThreadsTyped, sender
<1>8. CASE ReceiverDeletesPeer
  BY <1>8 DEF ReceiverDeletesPeer, ThreadsTyped, ReceiverInv, sender
<1> QED
  BY <1>3, <1>4, <1>5, <1>6, <1>7, <1>8 DEF Next, SendThread

\* The sent packets and those received early are in order, whatever the network
\* does, wrap-around or not.
THEOREM BuffersStayOrdered == Spec => []BuffersOrdered
<1>1. ASSUME SenderInv, PutBackInv, ReceiverInv PROVE BuffersOrdered
  <2>1. ASSUME NEW i \in DOMAIN sent, NEW j \in DOMAIN sent, i < j
        PROVE  Distance(SentBase(nextOut), sent[i].seq) < Distance(SentBase(nextOut), sent[j].seq)
    <3>1. /\ Aged(sent, nextOut, Len(got) + 1, SpreadLimit) /\ Len(got) \in Nat
          /\ nextOut \in SeqNums /\ sent \in Seq(Packet)
      BY <1>1, SenderTyped DEF SenderInv
    <3>2. \A k \in DOMAIN sent : sent[k].seq \in SeqNums
                                 /\ Distance(sent[k].seq, nextOut) \in 1 .. MaxWindow
      BY <3>1, PacketNumbers, Limits DEF Aged
    <3>3. Distance(sent[j].seq, nextOut) < Distance(sent[i].seq, nextOut)
      BY <2>1, <3>1 DEF Aged
    <3>4. /\ Distance(SentBase(nextOut), sent[i].seq) = MaxWindow - Distance(sent[i].seq, nextOut)
          /\ Distance(SentBase(nextOut), sent[j].seq) = MaxWindow - Distance(sent[j].seq, nextOut)
      BY <2>1, <3>1, <3>2, OlderIsNearer
    <3> QED
      BY <2>1, <3>2, <3>3, <3>4, Limits
  <2> QED
    BY <1>1, <2>1 DEF BuffersOrdered, ReceiverInv, InOrder
<1> QED
  BY <1>1, PutBackInit, PutBackNext, SenderInit, SenderNext, ReceiverInit, ReceiverNext, PTL DEF Spec

\* The lists, counters and threads of a channel keep their types.
THEOREM MtpTyped == Spec => []TypeOK
<1>1. ASSUME SenderInv, PutBackInv, ReceiverInv, ThreadsTyped PROVE TypeOK
  <2>1. /\ asked \in 0 .. Len(Chunks) /\ taken \in 0 .. asked
        /\ commands \in Seq(Messages) /\ cmd \in Messages \cup {0}
        /\ pings \in 0 .. MaxPings /\ fatal = FALSE
    BY <1>1 DEF PutBackInv, CommandsTyped, SenderInv
  <2>2. {got, queued, sent, inbuf} \subseteq Seq(Packet) /\ {nextOut, nextIn} \subseteq SeqNums
    BY <1>1, SenderTyped DEF ReceiverInv
  <2> QED
    BY <1>1, <2>1, <2>2 DEF TypeOK, ReceiverInv, ThreadsTyped
<1> QED
  BY <1>1, PutBackInit, PutBackNext, SenderInit, SenderNext, ReceiverInit, ReceiverNext, PTL DEF Spec

-----------------------------------------------------------------------------
(* Order.  Within one turn of the sequence space a number stands for one     *)
(* packet, whatever copies of it the network holds.                          *)

\* How many numbers come before n.
Off(n) == Distance(FirstSeqnum, n)

Before(p, q) == p.msg < q.msg \/ (p.msg = q.msg /\ p.chunk < q.chunk)

\* The first "whole" messages and "have" chunks of the next one are processed.
Received(m, c, whole, have) == m <= whole \/ (m = whole + 1 /\ c <= have)

\* The packets with the first "base" numbers, in which "done" messages were
\* sent: what is known of them, including every copy in the network, ...
KnownTo(known, base, done) ==
  /\ known \subseteq Packet
  /\ \A p \in known : /\ Off(p.seq) < base
                      /\ p.msg # 0 => p.msg <= done /\ p.chunk \in 1 .. Chunks[p.msg]
  /\ \A p, q \in known :
       /\ p.seq = q.seq => p = q
       /\ Off(p.seq) < Off(q.seq) /\ p.msg # 0 /\ q.msg # 0 => Before(p, q)

\* ... which of them the receiver, which expects number "next", has processed, ...
ReceivedUpTo(known, next, whole, have) ==
  \A p \in known : p.msg # 0 => (Off(p.seq) < next <=> Received(p.msg, p.chunk, whole, have))

\* ... and which of them are waiting in a buffer or queue.
Waiting(live, next, base, done, whole, have) ==
  /\ \A d \in next .. base - 1 : \E p \in live : Off(p.seq) = d
  /\ \A m \in 1 .. done : \A c \in 1 .. Chunks[m] :
       Received(m, c, whole, have) \/ \E p \in live : p.msg = m /\ p.chunk = c

Ledger(known, live, next, base, done, whole, have) ==
  /\ live \subseteq known
  /\ next \in Nat /\ base \in Nat /\ next <= base
  /\ done \in 0 .. Len(Chunks) /\ whole \in 0 .. done /\ have \in Nat
  /\ IF whole = done THEN have = 0 ELSE have < Chunks[whole + 1]
  /\ KnownTo(known, base, done)
  /\ ReceivedUpTo(known, next, whole, have)
  /\ Waiting(live, next, base, done, whole, have)

LEMMA OffRange ==
  ASSUME NEW n \in SeqNums
  PROVE  /\ Off(n) \in Nat /\ Off(n) < SeqSpace /\ Off(FirstSeqnum) = 0
         /\ \A k \in SeqNums : Off(k) = Off(n) => k = n
         /\ U16(n + 1) \in SeqNums
         /\ Off(n) < MaxWindow => Off(U16(n + 1)) = Off(n) + 1
<1>1. FirstSeqnum \in SeqNums
  BY MtpAssumption
<1>2. Off(n) \in 0 .. SeqSpace - 1 /\ Off(FirstSeqnum) = 0
  BY <1>1, DistanceRange DEF Off
<1>3. \A k \in SeqNums : Off(k) = Off(n) => k = n
  BY <1>1, DistanceTellsApart DEF Off
<1>4. Off(n) < MaxWindow => Off(n) < SeqSpace - 1
  BY <1>2, Limits
<1> QED
  BY <1>1, <1>2, <1>3, <1>4, OneOlder, Limits DEF Off

\* Of two numbers less than half a turn from the first, ...
LEMMA Apart ==
  ASSUME NEW a \in SeqNums, NEW b \in SeqNums, Off(a) < MaxWindow, Off(b) < MaxWindow
  PROVE  /\ Off(a) <= Off(b) => Distance(a, b) = Off(b) - Off(a)
         /\ Off(b) < Off(a) => Distance(a, b) = SeqSpace + Off(b) - Off(a)
<1>1. FirstSeqnum \in SeqNums
  BY MtpAssumption
<1> QED
  BY <1>1, DistanceCases, U16Cases DEF Off, SeqNums

\* ... the receiver accepts the later one and takes the earlier one for old.
LEMMA AcceptedIsNew ==
  ASSUME NEW s \in SeqNums, NEW next \in SeqNums, Off(s) < MaxWindow, Off(next) < MaxWindow
  PROVE  /\ seqnum_in_window(s, next, MaxWindow) <=> Off(s) >= Off(next)
         /\ Off(s) < Off(next) => ~seqnum_higher(s, next) /\ seqnum_higher(next, s)
<1>1. Off(s) \in Nat /\ Off(next) \in Nat /\ MaxWindow \in Nat \ {0} /\ SeqSpace = 2 * MaxWindow
  BY OffRange, U16Cases
<1>2. seqnum_in_window(s, next, MaxWindow) <=> Distance(next, s) < MaxWindow
  BY <1>1, InWindow
<1>3. CASE Off(s) >= Off(next)
  <2>1. Distance(next, s) = Off(s) - Off(next)
    BY <1>1, <1>3, Apart
  <2> QED
    BY <1>1, <1>2, <1>3, <2>1
<1>4. CASE Off(s) < Off(next)
  <2>1. Distance(next, s) = SeqSpace + Off(s) - Off(next) /\ Distance(s, next) = Off(next) - Off(s)
    BY <1>1, <1>4, Apart
  <2>2. Distance(s, next) \in 1 .. MaxWindow - 1
    BY <1>1, <1>4, <2>1
  <2> QED
    BY <1>1, <1>2, <1>4, <2>1, <2>2, OldIsAcknowledged
<1> QED
  BY <1>1, <1>3, <1>4

\* A known packet is told by its number, and by its message and chunk.
LEMMA KnownPacket ==
  ASSUME NEW known, NEW base, NEW done, KnownTo(known, base, done), NEW p \in known, NEW q \in known
  PROVE  /\ p.seq \in SeqNums /\ q.seq \in SeqNums /\ Off(p.seq) \in Nat /\ Off(q.seq) \in Nat
         /\ p.msg \in Messages \cup {0} /\ p.chunk \in Nat /\ q.msg \in Messages \cup {0} /\ q.chunk \in Nat
         /\ Off(p.seq) = Off(q.seq) => p = q
         /\ p.msg # 0 /\ p.msg = q.msg /\ p.chunk = q.chunk => p = q
<1>1. p \in Packet /\ q \in Packet
  BY DEF KnownTo
<1>2. /\ p.seq \in SeqNums /\ q.seq \in SeqNums
      /\ p.msg \in Messages \cup {0} /\ p.chunk \in Nat /\ q.msg \in Messages \cup {0} /\ q.chunk \in Nat
  BY <1>1 DEF Packet
<1>3. Off(p.seq) \in Nat /\ Off(q.seq) \in Nat /\ (Off(p.seq) = Off(q.seq) => p.seq = q.seq)
  BY <1>2, OffRange
<1>4. /\ p.seq = q.seq => p = q
      /\ Off(p.seq) < Off(q.seq) /\ p.msg # 0 /\ q.msg # 0 => Before(p, q)
      /\ Off(q.seq) < Off(p.seq) /\ p.msg # 0 /\ q.msg # 0 => Before(q, p)
  BY DEF KnownTo
<1>5. ASSUME p.msg # 0, p.msg = q.msg, p.chunk = q.chunk PROVE p = q
  <2>1. p.msg \in Nat
    BY <1>2 DEF Messages
  <2>2. ~Before(p, q) /\ ~Before(q, p)
    BY <1>2, <1>5, <2>1 DEF Before
  <2> QED
    BY <1>3, <1>4, <1>5, <2>2
<1> QED
  BY <1>2, <1>3, <1>4, <1>5

\* Fewer packets are known.
LEMMA FewerKnown ==
  ASSUME NEW known, NEW base, NEW done, KnownTo(known, base, done), NEW fewer \in SUBSET known
  PROVE  KnownTo(fewer, base, done)
BY DEF KnownTo

\* Packets are taken out that the receiver processed or that others stand for.
LEMMA LedgerShrinks ==
  ASSUME NEW known, NEW live, NEW next, NEW base, NEW done, NEW whole, NEW have,
         Ledger(known, live, next, base, done, whole, have),
         NEW known2 \in SUBSET known, NEW live2 \in SUBSET known2,
         \A p \in live : p \in live2 \/ Off(p.seq) < next
  PROVE  Ledger(known2, live2, next, base, done, whole, have)
<1> USE DEF Ledger
<1>1. KnownTo(known2, base, done) /\ ReceivedUpTo(known2, next, whole, have)
  BY FewerKnown DEF ReceivedUpTo
<1>2. ASSUME NEW d \in Nat, next <= d, d < base PROVE \E p \in live2 : Off(p.seq) = d
  BY <1>2 DEF Waiting
<1>3. ASSUME NEW m \in 1 .. done, NEW c \in 1 .. Chunks[m]
      PROVE  Received(m, c, whole, have) \/ \E p \in live2 : p.msg = m /\ p.chunk = c
  <2>1. CASE \E p \in live : p.msg = m /\ p.chunk = c
    <3>1. PICK p \in live : p.msg = m /\ p.chunk = c
      BY <2>1
    <3>2. CASE p \in live2
      BY <3>1, <3>2
    <3>3. CASE Off(p.seq) < next
      <4>1. p \in known /\ p.msg # 0
        BY <3>1
      <4> QED
        BY <3>1, <3>3, <4>1 DEF ReceivedUpTo
    <3> QED
      BY <3>2, <3>3
  <2> QED
    BY <2>1 DEF Waiting
<1>4. Waiting(live2, next, base, done, whole, have)
  BY <1>2, <1>3 DEF Waiting
<1> QED
  BY <1>1, <1>4

\* Packets with the next numbers are put into a queue: pings, or a message.
LEMMA LedgerGrows ==
  ASSUME NEW known, NEW live, NEW next, NEW base, NEW done, NEW whole, NEW have,
         Ledger(known, live, next, base, done, whole, have),
         NEW new \in Seq(Packet), NEW done2,
         \A i \in DOMAIN new : Off(new[i].seq) = base + i - 1,
         \/ done2 = done /\ \A i \in DOMAIN new : new[i].msg = 0
         \/ /\ done2 = done + 1 /\ done2 \in Messages /\ Len(new) = Chunks[done2]
            /\ \A i \in DOMAIN new : new[i].msg = done2 /\ new[i].chunk = i
  PROVE  Ledger(known \cup ToSet(new), live \cup ToSet(new), next, base + Len(new), done2, whole, have)
<1> DEFINE known2 == known \cup ToSet(new)
           live2 == live \cup ToSet(new)
<1>1. /\ live \subseteq known /\ next \in Nat /\ base \in Nat /\ next <= base
      /\ done \in 0 .. Len(Chunks) /\ whole \in 0 .. done /\ have \in Nat
      /\ KnownTo(known, base, done) /\ ReceivedUpTo(known, next, whole, have)
      /\ (IF whole = done THEN have = 0 ELSE have < Chunks[whole + 1])
      /\ Waiting(live, next, base, done, whole, have)
  BY DEF Ledger
<1>2. DOMAIN new = 1 .. Len(new) /\ Len(new) \in Nat /\ \A i \in DOMAIN new : new[i] \in Packet
  OBVIOUS
<1>3. /\ Len(Chunks) \in Nat /\ Messages = 1 .. Len(Chunks)
      /\ \A m \in Messages : Chunks[m] \in Nat \ {0}
  BY Longest, MtpAssumption DEF Messages
<1>4. done2 \in 0 .. Len(Chunks) /\ done \in Nat /\ whole \in Nat
  BY <1>1, <1>3
<1>5. \A p \in ToSet(new) : \E i \in DOMAIN new : p = new[i]
  BY DEF ToSet
<1>6. \A i \in DOMAIN new : new[i] \in ToSet(new)
  BY DEF ToSet
<1>7. ASSUME NEW p \in ToSet(new)
      PROVE  /\ p \in Packet /\ Off(p.seq) \in Nat /\ base <= Off(p.seq) /\ Off(p.seq) < base + Len(new)
             /\ p.msg # 0 => done2 = done + 1 /\ p.msg = done2 /\ p.chunk \in 1 .. Chunks[p.msg]
                             /\ p.chunk = Off(p.seq) - base + 1
  <2>1. PICK i \in DOMAIN new : p = new[i]
    BY <1>5
  <2>2. Off(p.seq) = base + i - 1 /\ i \in 1 .. Len(new)
    BY <1>2, <2>1
  <2>3. p \in Packet /\ Off(p.seq) \in Nat
    BY <1>1, <1>2, <2>1, <2>2
  <2> QED
    BY <1>1, <1>2, <1>3, <2>1, <2>2, <2>3
<1>8. ASSUME NEW p \in known
      PROVE  /\ p \in Packet /\ Off(p.seq) \in Nat /\ Off(p.seq) < base
             /\ p.msg # 0 => p.msg <= done /\ p.chunk \in 1 .. Chunks[p.msg] /\ p.msg \in Messages
  BY <1>1, KnownPacket DEF KnownTo
<1>9. KnownTo(known2, base + Len(new), done2)
  <2>1. known2 \subseteq Packet
    BY <1>7, <1>8
  <2>2. ASSUME NEW p \in known2
        PROVE  /\ Off(p.seq) < base + Len(new)
               /\ p.msg # 0 => p.msg <= done2 /\ p.chunk \in 1 .. Chunks[p.msg]
    <3>1. CASE p \in known
      BY <1>1, <1>2, <1>3, <1>4, <1>8, <3>1
    <3>2. CASE p \in ToSet(new)
      BY <1>4, <1>7, <3>2
    <3> QED
      BY <3>1, <3>2
  <2>3. ASSUME NEW p \in known2, NEW q \in known2
        PROVE  /\ p.seq = q.seq => p = q
               /\ Off(p.seq) < Off(q.seq) /\ p.msg # 0 /\ q.msg # 0 => Before(p, q)
    <3>1. CASE p \in known /\ q \in known
      BY <1>1, <3>1 DEF KnownTo
    <3>2. CASE p \in known /\ q \in ToSet(new)
      <4>1. Off(p.seq) < Off(q.seq)
        BY <1>1, <1>7, <1>8, <3>2
      <4>2. p.msg # 0 /\ q.msg # 0 => p.msg < q.msg
        BY <1>1, <1>3, <1>4, <1>7, <1>8, <3>2
      <4>3. Off(p.seq) \in Nat
        BY <1>8, <3>2
      <4> QED
        BY <4>1, <4>2, <4>3 DEF Before
    <3>3. CASE p \in ToSet(new) /\ q \in known
      <4>1. Off(q.seq) < Off(p.seq) /\ Off(p.seq) \in Nat /\ Off(q.seq) \in Nat
        BY <1>1, <1>7, <1>8, <3>3
      <4> QED
        BY <4>1
    <3>4. CASE p \in ToSet(new) /\ q \in ToSet(new)
      <4>1. PICK i \in DOMAIN new : p = new[i]
        BY <1>5, <3>4
      <4>2. PICK j \in DOMAIN new : q = new[j]
        BY <1>5, <3>4
      <4>3. /\ Off(p.seq) = base + i - 1 /\ Off(q.seq) = base + j - 1 /\ i \in Nat /\ j \in Nat
        BY <1>2, <4>1, <4>2
      <4>4. p.seq = q.seq => p = q
        <5>1. p.seq = q.seq => i = j
          BY <1>1, <4>3
        <5> QED
          BY <4>1, <4>2, <5>1
      <4>5. Off(p.seq) < Off(q.seq) /\ p.msg # 0 /\ q.msg # 0 => p.msg = q.msg /\ p.chunk < q.chunk
        <5>1. p.msg # 0 => p.msg = done2 /\ p.chunk = Off(p.seq) - base + 1
          BY <1>7, <3>4
        <5>2. q.msg # 0 => q.msg = done2 /\ q.chunk = Off(q.seq) - base + 1
          BY <1>7, <3>4
        <5> QED
          BY <1>1, <4>3, <5>1, <5>2
      <4> QED
        BY <4>4, <4>5 DEF Before
    <3> QED
      BY <3>1, <3>2, <3>3, <3>4
  <2> QED
    BY <2>1, <2>2, <2>3 DEF KnownTo
<1>10. ReceivedUpTo(known2, next, whole, have)
  <2> SUFFICES ASSUME NEW p \in known2, p.msg # 0
               PROVE  Off(p.seq) < next <=> Received(p.msg, p.chunk, whole, have)
    BY DEF ReceivedUpTo
  <2>1. CASE p \in known
    BY <1>1, <2>1 DEF ReceivedUpTo
  <2>2. CASE p \in ToSet(new)
    <3>1. ~(Off(p.seq) < next)
      BY <1>1, <1>7, <2>2
    <3>2. p.msg = done + 1 /\ p.chunk \in Nat \ {0}
      BY <1>2, <1>7, <2>2, <1>3, <1>1
    <3>3. ~Received(p.msg, p.chunk, whole, have)
      BY <1>1, <1>4, <3>2 DEF Received
    <3> QED
      BY <3>1, <3>3
  <2> QED
    BY <2>1, <2>2
<1>11. Waiting(live2, next, base + Len(new), done2, whole, have)
  <2>1. ASSUME NEW d \in Nat, next <= d, d < base + Len(new) PROVE \E p \in live2 : Off(p.seq) = d
    <3>1. CASE d < base
      BY <1>1, <2>1, <3>1 DEF Waiting
    <3>2. CASE d >= base
      <4>1. d - base + 1 \in DOMAIN new /\ base + (d - base + 1) - 1 = d
        BY <1>1, <1>2, <2>1, <3>2
      <4>2. Off(new[d - base + 1].seq) = d
        BY <4>1
      <4> QED
        BY <1>6, <4>1, <4>2
    <3> QED
      BY <1>1, <3>1, <3>2
  <2>2. ASSUME NEW m \in 1 .. done2, NEW c \in 1 .. Chunks[m]
        PROVE  Received(m, c, whole, have) \/ \E p \in live2 : p.msg = m /\ p.chunk = c
    <3>1. CASE m <= done
      <4>1. m \in 1 .. done
        BY <1>4, <3>1
      <4> QED
        BY <1>1, <4>1 DEF Waiting
    <3>2. CASE m > done
      <4>1. m = done2 /\ done2 = done + 1 /\ c \in DOMAIN new
        BY <1>2, <1>4, <3>2
      <4> QED
        BY <1>6, <4>1, <1>4
    <3> QED
      BY <1>4, <3>1, <3>2
  <2>3. \A d \in next .. (base + Len(new)) - 1 : \E p \in live2 : Off(p.seq) = d
    <3> TAKE d \in next .. (base + Len(new)) - 1
    <3>1. d \in Nat /\ next <= d /\ d < base + Len(new)
      BY <1>1, <1>2
    <3> QED
      BY <2>1, <3>1
  <2> QED
    BY <2>2, <2>3, Zenon DEF Waiting
<1>12. /\ live2 \subseteq known2 /\ base + Len(new) \in Nat /\ next <= base + Len(new)
       /\ whole \in 0 .. done2
       /\ (IF whole = done2 THEN have = 0 ELSE have < Chunks[whole + 1])
  <2>1. whole = done /\ done2 # done => have < Chunks[whole + 1]
    BY <1>1, <1>3
  <2> QED
    BY <1>1, <1>2, <1>4, <2>1
<1> HIDE DEF known2, live2
<1> QED
  BY <1>1, <1>4, <1>9, <1>10, <1>11, <1>12 DEF Ledger, known2, live2

\* The packet with the number the receiver expects is the next chunk, ...
LEMMA NextInLine ==
  ASSUME NEW known, NEW live, NEW next, NEW base, NEW done, NEW whole, NEW have,
         Ledger(known, live, next, base, done, whole, have),
         NEW p \in known, Off(p.seq) = next, p.msg # 0
  PROVE  p.msg = whole + 1 /\ p.chunk = have + 1 /\ whole < done
<1>1. /\ live \subseteq known /\ next \in Nat
      /\ done \in 0 .. Len(Chunks) /\ whole \in 0 .. done /\ have \in Nat
      /\ KnownTo(known, base, done) /\ ReceivedUpTo(known, next, whole, have)
      /\ (IF whole = done THEN have = 0 ELSE have < Chunks[whole + 1])
      /\ Waiting(live, next, base, done, whole, have)
  BY DEF Ledger
<1>2. /\ Len(Chunks) \in Nat /\ Messages = 1 .. Len(Chunks)
      /\ \A m \in Messages : Chunks[m] \in Nat \ {0}
  BY Longest, MtpAssumption DEF Messages
<1>3. p.msg \in Messages /\ p.msg <= done /\ p.chunk \in 1 .. Chunks[p.msg] /\ p.chunk \in Nat
  BY <1>1, KnownPacket DEF KnownTo
<1>4. ~Received(p.msg, p.chunk, whole, have)
  <2>1. ~(Off(p.seq) < next)
    BY <1>1
  <2> QED
    BY <1>1, <2>1 DEF ReceivedUpTo
<1>5. p.msg >= whole + 1 /\ (p.msg = whole + 1 => p.chunk >= have + 1) /\ whole < done
  BY <1>1, <1>2, <1>3, <1>4 DEF Received
<1>6. whole + 1 \in 1 .. done /\ have + 1 \in 1 .. Chunks[whole + 1] /\ whole \in Nat
  BY <1>1, <1>2, <1>5
<1>7. ~Received(whole + 1, have + 1, whole, have)
  BY <1>1, <1>6 DEF Received
<1>8. PICK q \in live : q.msg = whole + 1 /\ q.chunk = have + 1
  BY <1>1, <1>6, <1>7 DEF Waiting
<1>9. ~(Off(q.seq) < next) /\ q \in known /\ q.msg # 0
  BY <1>1, <1>6, <1>7, <1>8 DEF ReceivedUpTo
<1>10. CASE Off(q.seq) = next
  BY <1>1, <1>5, <1>8, <1>9, <1>10, KnownPacket
<1>11. CASE Off(q.seq) > next
  <2>1. Before(p, q)
    BY <1>1, <1>9, <1>11 DEF KnownTo
  <2> QED
    BY <1>1, <1>2, <1>3, <1>5, <1>6, <1>8, <2>1 DEF Before
<1>12. Off(q.seq) \in Nat
  BY <1>1, <1>9, KnownPacket
<1> QED
  BY <1>1, <1>9, <1>10, <1>11, <1>12

\* ... and the next number is expected once it is processed.
LEMMA LedgerHandsOut ==
  ASSUME NEW known, NEW live, NEW next, NEW base, NEW done, NEW whole, NEW have,
         Ledger(known, live, next, base, done, whole, have),
         NEW p \in known, Off(p.seq) = next, NEW whole2, NEW have2,
         IF p.msg = 0 THEN whole2 = whole /\ have2 = have
         ELSE IF have + 1 = Chunks[whole + 1] THEN whole2 = whole + 1 /\ have2 = 0
         ELSE whole2 = whole /\ have2 = have + 1
  PROVE  Ledger(known, live, next + 1, base, done, whole2, have2)
<1>1. /\ live \subseteq known /\ next \in Nat /\ base \in Nat /\ next <= base
      /\ done \in 0 .. Len(Chunks) /\ whole \in 0 .. done /\ have \in Nat
      /\ KnownTo(known, base, done) /\ ReceivedUpTo(known, next, whole, have)
      /\ (IF whole = done THEN have = 0 ELSE have < Chunks[whole + 1])
      /\ Waiting(live, next, base, done, whole, have)
  BY DEF Ledger
<1>2. /\ Len(Chunks) \in Nat /\ Messages = 1 .. Len(Chunks)
      /\ \A m \in Messages : Chunks[m] \in Nat \ {0}
  BY Longest, MtpAssumption DEF Messages
<1>3. p.msg # 0 => p.msg = whole + 1 /\ p.chunk = have + 1 /\ whole < done
  BY NextInLine
<1>4. /\ whole2 \in 0 .. done /\ have2 \in Nat /\ whole \in Nat /\ done \in Nat
      /\ (IF whole2 = done THEN have2 = 0 ELSE have2 < Chunks[whole2 + 1])
  <2>1. whole \in Nat /\ done \in Nat /\ whole <= done /\ done <= Len(Chunks)
    BY <1>1, <1>2
  <2>2. CASE p.msg = 0
    BY <1>1, <2>1, <2>2
  <2>3. CASE p.msg # 0 /\ have + 1 = Chunks[whole + 1]
    <3>1. whole2 = whole + 1 /\ have2 = 0 /\ whole < done
      BY <1>3, <2>3
    <3>2. whole2 < done => whole2 + 1 \in Messages
      BY <1>2, <2>1, <3>1
    <3>3. whole2 < done => have2 < Chunks[whole2 + 1]
      BY <1>2, <3>1, <3>2
    <3> QED
      BY <2>1, <3>1, <3>3
  <2>4. CASE p.msg # 0 /\ have + 1 # Chunks[whole + 1]
    <3>1. whole2 = whole /\ have2 = have + 1 /\ whole < done /\ whole + 1 \in Messages
      BY <1>2, <1>3, <2>1, <2>4
    <3>2. have + 1 < Chunks[whole + 1]
      BY <1>1, <1>2, <2>1, <2>4, <3>1
    <3> QED
      BY <1>1, <2>1, <3>1, <3>2
  <2> QED
    BY <2>2, <2>3, <2>4
<1>5. next + 1 \in Nat /\ next + 1 <= base
  <2>1. Off(p.seq) < base
    BY <1>1 DEF KnownTo
  <2> QED
    BY <1>1, <2>1
<1>6. ASSUME NEW m \in Nat, NEW c \in Nat, Received(m, c, whole, have)
      PROVE  Received(m, c, whole2, have2)
  BY <1>1, <1>2, <1>3, <1>4, <1>6 DEF Received
<1>7. p.msg # 0 => Received(p.msg, p.chunk, whole2, have2)
  BY <1>1, <1>2, <1>3, <1>4 DEF Received
<1>8. ASSUME NEW q \in known, q.msg # 0, Received(q.msg, q.chunk, whole2, have2)
      PROVE  Received(q.msg, q.chunk, whole, have) \/ q = p
  <2>1. q.msg \in Messages /\ q.msg \in Nat /\ q.chunk \in 1 .. Chunks[q.msg] /\ q.chunk \in Nat
    <3>1. q.msg \in Messages \cup {0} /\ q.chunk \in Nat
      BY <1>1, KnownPacket
    <3>2. q.chunk \in 1 .. Chunks[q.msg]
      BY <1>1, <1>8 DEF KnownTo
    <3> QED
      BY <1>2, <1>8, <3>1, <3>2
  <2>2. CASE p.msg = 0
    BY <1>8, <2>2
  <2>3. CASE p.msg # 0
    <3>1. Received(q.msg, q.chunk, whole, have) \/ (q.msg = whole + 1 /\ q.chunk = have + 1)
      <4>1. CASE have + 1 = Chunks[whole + 1]
        BY <1>1, <1>2, <1>8, <2>1, <2>3, <4>1 DEF Received
      <4>2. CASE have + 1 # Chunks[whole + 1]
        BY <1>1, <1>2, <1>8, <2>1, <2>3, <4>2 DEF Received
      <4> QED
        BY <4>1, <4>2
    <3>2. q.msg = whole + 1 /\ q.chunk = have + 1 => q = p
      BY <1>1, <1>3, <2>3, KnownPacket
    <3> QED
      BY <3>1, <3>2
  <2> QED
    BY <2>2, <2>3
<1>9. ReceivedUpTo(known, next + 1, whole2, have2)
  <2> SUFFICES ASSUME NEW q \in known, q.msg # 0
               PROVE  Off(q.seq) < next + 1 <=> Received(q.msg, q.chunk, whole2, have2)
    BY DEF ReceivedUpTo
  <2>1. /\ Off(q.seq) \in Nat /\ (Off(q.seq) = next => q = p)
        /\ q.msg \in Nat /\ q.chunk \in Nat
    BY <1>1, <1>2, KnownPacket
  <2>2. Off(q.seq) < next <=> Received(q.msg, q.chunk, whole, have)
    BY <1>1 DEF ReceivedUpTo
  <2>3. CASE q = p
    BY <1>1, <1>7, <2>3
  <2>4. CASE q # p
    <3>1. Off(q.seq) < next + 1 <=> Off(q.seq) < next
      BY <1>1, <2>1, <2>4
    <3> QED
      BY <1>6, <1>8, <2>1, <2>2, <2>4, <3>1
  <2> QED
    BY <2>3, <2>4
<1>10. Waiting(live, next + 1, base, done, whole2, have2)
  <2>1. ASSUME NEW d \in Nat, next + 1 <= d, d < base PROVE \E q \in live : Off(q.seq) = d
    <3>1. next <= d
      BY <1>1, <2>1
    <3> QED
      BY <1>1, <2>1, <3>1 DEF Waiting
  <2>2. ASSUME NEW m \in 1 .. done, NEW c \in 1 .. Chunks[m]
        PROVE  Received(m, c, whole2, have2) \/ \E q \in live : q.msg = m /\ q.chunk = c
    <3>1. m \in Nat /\ c \in Nat
      BY <1>1, <1>2
    <3>2. Received(m, c, whole, have) \/ \E q \in live : q.msg = m /\ q.chunk = c
      BY <1>1 DEF Waiting
    <3> QED
      BY <1>6, <3>1, <3>2
  <2>3. \A d \in next + 1 .. base - 1 : d \in Nat /\ next + 1 <= d /\ d < base
    BY <1>1
  <2> QED
    BY <2>1, <2>2, <2>3 DEF Waiting
<1> QED
  BY <1>1, <1>4, <1>5, <1>9, <1>10 DEF Ledger

-----------------------------------------------------------------------------
(* What is in the lists after the operations on them.                       *)

LEMMA ListSets ==
  ASSUME NEW list \in Seq(Packet)
  PROVE  /\ ToSet(list) = {list[i] : i \in DOMAIN list} /\ ToSet(list) \subseteq Packet
         /\ Numbers(list) = {p.seq : p \in ToSet(list)}
         /\ \A i \in DOMAIN list : list[i] \in ToSet(list)
<1>1. ToSet(list) = {list[i] : i \in DOMAIN list}
  BY DEF ToSet
<1>2. ToSet(list) \subseteq Packet
  BY <1>1
<1> QED
  BY <1>1, <1>2 DEF Numbers

\* insert forgets nothing, and a number that is accepted is there afterwards.
LEMMA InsertHolds ==
  ASSUME NEW list \in Seq(Packet), NEW p \in Packet, NEW base \in SeqNums, InOrder(list, base)
  PROVE  LET new == Insert(list, p, base)
         IN  /\ new \in Seq(Packet)
             /\ ToSet(list) \subseteq ToSet(new) /\ ToSet(new) \subseteq ToSet(list) \cup {p}
             /\ seqnum_in_window(p.seq, base, MaxWindow) /\ p.seq # base => p.seq \in Numbers(new)
<1> DEFINE after == {i \in DOMAIN list : ~StaysInFront(list[i].seq, p.seq, base)}
           at == IF after = {} THEN Len(list) + 1 ELSE Min(after)
           new == Insert(list, p, base)
<1>1. new \in Seq(Packet) /\ \A i \in DOMAIN new : (\E j \in DOMAIN list : new[i] = list[j]) \/ new[i] = p
  BY InsertKeepsOrder
<1>2. at \in 1 .. Len(list) + 1 /\ (after # {} => at \in DOMAIN list)
  <2>1. after \subseteq Nat /\ after \subseteq 1 .. Len(list) /\ Len(list) \in Nat /\ DOMAIN list = 1 .. Len(list)
    BY PacketNumbers
  <2> HIDE DEF after
  <2>2. after # {} => Min(after) \in after
    BY <2>1, LeastIsMin
  <2>3. CASE after = {}
    BY <2>1, <2>3
  <2>4. CASE after # {}
    <3>1. at = Min(after) /\ Min(after) \in 1 .. Len(list)
      BY <2>1, <2>2, <2>4
    <3> QED
      BY <2>1, <3>1
  <2> QED
    BY <2>3, <2>4
<1>3. ToSet(new) \subseteq ToSet(list) \cup {p}
  <2> HIDE DEF new
  <2> QED
    BY <1>1, ListSets
<1>4. CASE new = list
  <2>1. ASSUME seqnum_in_window(p.seq, base, MaxWindow), p.seq # base PROVE p.seq \in Numbers(list)
    <3>1. CASE after # {} /\ list[at].seq = p.seq
      BY <1>2, <3>1 DEF Numbers
    <3>2. CASE ~(after # {} /\ list[at].seq = p.seq)
      <4>1. new = InsertAt(list, at, p)
        BY <2>1, <3>2 DEF Insert
      <4> HIDE DEF at, after, new
      <4>2. Len(new) = Len(list) + 1 /\ Len(list) \in Nat
        BY <1>2, <4>1, AfterInsertAt
      <4> QED
        BY <1>4, <4>2
    <3> QED
      BY <3>1, <3>2
  <2> HIDE DEF new
  <2> QED
    BY <1>1, <1>3, <1>4, <2>1 DEF new
<1>5. CASE new # list
  <2>1. new = InsertAt(list, at, p)
    BY <1>5 DEF Insert
  <2> HIDE DEF at, after, new
  <2>2. /\ Len(new) = Len(list) + 1 /\ Len(list) \in Nat
        /\ \A i \in 1 .. Len(list) + 1 :
             new[i] = IF i < at THEN list[i] ELSE IF i = at THEN p ELSE list[i - 1]
    BY <1>2, <2>1, AfterInsertAt
  <2>3. DOMAIN new = 1 .. Len(list) + 1 /\ DOMAIN list = 1 .. Len(list)
    BY <1>1, <2>2
  <2>4. ASSUME NEW i \in DOMAIN list PROVE \E k \in DOMAIN new : new[k] = list[i]
    <3>1. CASE i < at
      <4>1. i \in DOMAIN new /\ new[i] = list[i]
        BY <2>2, <2>3, <3>1
      <4> QED
        BY <4>1
    <3>2. CASE i >= at
      <4>1. i + 1 \in 1 .. Len(list) + 1 /\ ~(i + 1 < at) /\ i + 1 # at /\ i + 1 - 1 = i
        BY <1>2, <2>2, <2>3, <3>2
      <4>2. new[i + 1] = list[i]
        BY <2>2, <4>1
      <4> QED
        BY <2>3, <4>1, <4>2
    <3> QED
      BY <1>2, <2>2, <2>3, <3>1, <3>2
  <2>5. ToSet(list) \subseteq ToSet(new)
    BY <1>1, <2>4, ListSets
  <2>6. at \in DOMAIN new /\ new[at] = p
    BY <1>2, <2>2, <2>3
  <2>7. p.seq \in Numbers(new)
    BY <2>6 DEF Numbers
  <2> QED
    BY <1>1, <1>3, <2>5, <2>7 DEF new
<1> QED
  BY <1>4, <1>5

\* popSeqnum takes out nothing but that number.
LEMMA WithoutHolds ==
  ASSUME NEW list \in Seq(Packet), NEW seqnum
  PROVE  /\ Without(list, seqnum) \in Seq(Packet)
         /\ ToSet(Without(list, seqnum)) \subseteq ToSet(list)
         /\ \A p \in ToSet(list) : p.seq # seqnum => p \in ToSet(Without(list, seqnum))
<1> DEFINE found == {i \in DOMAIN list : list[i].seq = seqnum}
           new == Without(list, seqnum)
<1>1. DOMAIN list = 1 .. Len(list) /\ Len(list) \in Nat
  OBVIOUS
<1>2. CASE found = {}
  BY <1>2 DEF Without
<1>3. CASE found # {}
  <2> DEFINE at == Min(found)
  <2>1. at \in found
    <3>1. found \subseteq Nat
      BY <1>1
    <3> QED
      BY <1>3, <3>1, LeastIsMin
  <2>2. new = RemoveAt(list, at) /\ at \in 1 .. Len(list) /\ list[at].seq = seqnum
    BY <1>1, <1>3, <2>1 DEF Without
  <2> HIDE DEF at, new, found
  <2>3. /\ new \in Seq(Packet) /\ Len(new) = Len(list) - 1
        /\ \A i \in 1 .. Len(list) - 1 : new[i] = IF i < at THEN list[i] ELSE list[i + 1]
    BY <2>2, AfterRemoveAt
  <2>4. DOMAIN new = 1 .. Len(list) - 1
    BY <2>3
  <2>5. ASSUME NEW p \in ToSet(new) PROVE p \in ToSet(list)
    <3>1. PICK i \in DOMAIN new : p = new[i]
      BY DEF ToSet
    <3>2. p = list[i] \/ p = list[i + 1]
      BY <2>3, <2>4, <3>1
    <3>3. i \in DOMAIN list /\ i + 1 \in DOMAIN list
      BY <1>1, <2>4
    <3> QED
      BY <3>2, <3>3 DEF ToSet
  <2>6. ASSUME NEW p \in ToSet(list), p.seq # seqnum PROVE p \in ToSet(new)
    <3>1. PICK i \in DOMAIN list : p = list[i]
      BY DEF ToSet
    <3>2. i # at
      BY <2>2, <2>6, <3>1
    <3>3. CASE i < at
      <4>1. i \in DOMAIN new /\ new[i] = p
        BY <1>1, <2>2, <2>3, <2>4, <3>1, <3>3
      <4> QED
        BY <4>1 DEF ToSet
    <3>4. CASE i > at
      <4>1. i - 1 \in 1 .. Len(list) - 1 /\ ~(i - 1 < at) /\ i - 1 + 1 = i
        BY <1>1, <2>2, <3>4
      <4>2. new[i - 1] = p
        BY <2>3, <3>1, <4>1
      <4> QED
        BY <2>4, <4>1, <4>2 DEF ToSet
    <3> QED
      BY <1>1, <2>2, <3>2, <3>3, <3>4
  <2> QED
    BY <2>3, <2>5, <2>6 DEF new
<1> QED
  BY <1>2, <1>3

\* Of a sorted list the number expected next is at the front or not there.
LEMMA FrontTakenOut ==
  ASSUME NEW list \in Seq(Packet), NEW next \in SeqNums, InOrder(list, next)
  PROVE  LET rest == IF list # <<>> /\ Head(list).seq = next THEN Tail(list) ELSE list
         IN  rest \in Seq(Packet) /\ ToSet(rest) = {p \in ToSet(list) : p.seq # next}
<1> DEFINE rest == IF list # <<>> /\ Head(list).seq = next THEN Tail(list) ELSE list
<1>1. /\ DOMAIN list = 1 .. Len(list) /\ Len(list) \in Nat
      /\ \A i \in DOMAIN list : list[i].seq \in SeqNums
  BY PacketNumbers
<1>2. ASSUME NEW i \in DOMAIN list, i > 1 PROVE list[i].seq # next
  <2>1. 1 \in DOMAIN list
    BY <1>1, <1>2
  <2>2. Distance(next, list[1].seq) < Distance(next, list[i].seq)
    BY <1>1, <1>2, <2>1 DEF InOrder
  <2>3. Distance(next, list[1].seq) \in Nat /\ (list[i].seq = next => Distance(next, list[i].seq) = 0)
    <3>1. list[1].seq \in SeqNums /\ list[i].seq \in SeqNums
      BY <1>1, <2>1
    <3> QED
      BY <3>1, DistanceRange, U16Cases
  <2> QED
    BY <2>2, <2>3
<1>3. CASE list # <<>> /\ Head(list).seq = next
  <2>1. /\ Tail(list) \in Seq(Packet) /\ DOMAIN Tail(list) = 1 .. Len(list) - 1 /\ list[1].seq = next
        /\ \A i \in DOMAIN Tail(list) : i + 1 \in DOMAIN list /\ i + 1 > 1 /\ Tail(list)[i] = list[i + 1]
        /\ \A i \in DOMAIN list : i > 1 => i - 1 \in DOMAIN Tail(list) /\ i - 1 + 1 = i
    BY <1>1, <1>3
  <2>2. ASSUME NEW p \in ToSet(Tail(list)) PROVE p \in ToSet(list) /\ p.seq # next
    <3>1. PICK i \in DOMAIN Tail(list) : p = Tail(list)[i]
      BY DEF ToSet
    <3>2. p = list[i + 1] /\ i + 1 \in DOMAIN list /\ i + 1 > 1
      BY <2>1, <3>1
    <3> QED
      BY <1>2, <3>2 DEF ToSet
  <2>3. ASSUME NEW p \in ToSet(list), p.seq # next PROVE p \in ToSet(Tail(list))
    <3>1. PICK i \in DOMAIN list : p = list[i]
      BY DEF ToSet
    <3>2. i > 1
      BY <1>1, <2>1, <2>3, <3>1
    <3>3. i - 1 \in DOMAIN Tail(list) /\ Tail(list)[i - 1] = p
      BY <2>1, <3>1, <3>2
    <3> QED
      BY <3>3 DEF ToSet
  <2> QED
    BY <1>3, <2>1, <2>2, <2>3
<1>4. CASE ~(list # <<>> /\ Head(list).seq = next)
  <2>1. ASSUME NEW i \in DOMAIN list PROVE list[i].seq # next
    <3>1. CASE i = 1
      BY <1>1, <1>4, <3>1
    <3>2. CASE i > 1
      BY <1>2, <3>2
    <3> QED
      BY <1>1, <3>1, <3>2
  <2>2. \A p \in ToSet(list) : p.seq # next
    BY <2>1 DEF ToSet
  <2> QED
    BY <1>4, <2>2
<1> QED
  BY <1>3, <1>4

-----------------------------------------------------------------------------
(* The two ends of the channel.                                             *)

\* How many numbers were given out for good: those in "got" may be put back.
Base == Off(nextOut) - Len(got)

Live == ToSet(inbuf) \cup ToSet(sent) \cup ToSet(queued)

\* How many chunks of the first incomplete message were processed.
Have == Cardinality({q.chunk : q \in splits})

LedgerInv(done) ==
  Ledger(Live \cup net, Live, Off(nextIn), Base, done, Len(delivered), Have)

\* f[m] is how many chunks the first m messages have.
PrefixSums(f) ==
  /\ f \in [0 .. Len(Chunks) -> Nat]
  /\ f[0] = 0 /\ \A m \in Messages : f[m] = f[m - 1] + Chunks[m]

\* All the numbers that are ever given out are within half a turn.
HalfTurn(f) == PrefixSums(f) /\ f[Len(Chunks)] + MaxPings < MaxWindow

\* The first "done" messages are queued or sent; the next ones wait in order.
PendingInv(done) ==
  /\ done <= taken
  /\ spc = "split" => cmd = done + 1 /\ done < taken /\ speer = "open"
  /\ speer = "open" =>
       /\ \A i \in DOMAIN commands : commands[i] = done + i
       /\ \/ Len(commands) = taken - done
          \/ spc = "split" /\ commands = <<>> /\ taken = done + 1

NumberInv(f, done) ==
  /\ Off(nextOut) <= f[done] + Len(got) + pings
  /\ \A i \in DOMAIN got :
       got[i].msg = done + 1 /\ got[i].chunk = i /\ Off(got[i].seq) = Base + i - 1

ArrivedInv ==
  /\ \A a \in acks : Off(a) < Off(nextIn) \/ a \in Numbers(inbuf)
  /\ \A p \in ToSet(inbuf) : Off(p.seq) >= Off(nextIn)
  /\ \A i \in DOMAIN delivered : delivered[i] = i
  /\ {q.chunk : q \in splits} = 1 .. Have
  /\ \A q \in splits : q.msg = Len(delivered) + 1

SafeInv == PutBackInv /\ SenderInv /\ ReceiverInv /\ ThreadsTyped
SentInv(f, done) == PendingInv(done) /\ NumberInv(f, done) /\ LedgerInv(done)
OrderInv(f) == ArrivedInv /\ \E done \in 0 .. Len(Chunks) : SentInv(f, done)

\* There is room for every message and ping that is still to come.
LEMMA Growing ==
  ASSUME NEW f, HalfTurn(f), NEW n \in 0 .. Len(Chunks)
  PROVE  \A m \in 0 .. n : f[m] <= f[n]
<1>0. /\ Len(Chunks) \in Nat /\ Messages = 1 .. Len(Chunks) /\ n \in Nat
      /\ \A m \in Messages : f[m] = f[m - 1] + Chunks[m] /\ Chunks[m] \in Nat
  BY MtpAssumption, Longest DEF HalfTurn, PrefixSums, Messages
<1>1. \A k \in 0 .. n : f[k] \in Nat
  BY <1>0 DEF HalfTurn, PrefixSums
<1> DEFINE Below(k) == \A m \in 0 .. k : f[m] <= f[k]
           Bad == {k \in 0 .. n : ~Below(k)}
<1>2. Bad = {}
  <2> SUFFICES ASSUME Bad # {} PROVE FALSE
    OBVIOUS
  <2>1. PICK k \in Bad : \A j \in Bad : k <= j
    <3>1. Bad \subseteq Nat
      BY <1>0
    <3> HIDE DEF Bad
    <3> QED
      BY <3>1, Least
  <2>2. PICK m \in 0 .. k : ~(f[m] <= f[k])
    OBVIOUS
  <2>3. k \in 0 .. n /\ k \in Nat /\ m \in Nat /\ m <= k
    BY <1>0
  <2>4. m # k
    BY <1>1, <2>2, <2>3
  <2>5. k - 1 \in 0 .. n /\ ~(k <= k - 1) /\ m \in 0 .. k - 1 /\ k \in Messages
    BY <1>0, <2>3, <2>4
  <2>6. k - 1 \notin Bad
    <3> HIDE DEF Bad
    <3> QED
      BY <2>1, <2>5
  <2>7. Below(k - 1)
    BY <2>5, <2>6
  <2>8. f[m] <= f[k - 1]
    BY <2>5, <2>7
  <2>9. f[k] = f[k - 1] + Chunks[k] /\ Chunks[k] \in Nat /\ f[k - 1] \in Nat /\ f[m] \in Nat
    <3>1. m \in 0 .. n
      BY <1>0, <2>3
    <3> QED
      BY <1>0, <1>1, <2>5, <3>1
  <2> HIDE DEF Bad
  <2> QED
    BY <2>2, <2>8, <2>9
<1>3. Below(n)
  <2>1. n \in 0 .. n
    BY <1>0
  <2> QED
    BY <1>2, <2>1
<1> QED
  BY <1>3

LEMMA Room ==
  ASSUME NEW f, HalfTurn(f), NEW done \in 0 .. Len(Chunks)
  PROVE  /\ f[done] \in Nat /\ f[done] + MaxPings < MaxWindow /\ done \in Nat
         /\ done + 1 \in Messages =>
              f[done + 1] = f[done] + Chunks[done + 1] /\ f[done] + Chunks[done + 1] + MaxPings < MaxWindow
<1>1. /\ Len(Chunks) \in Nat /\ Messages = 1 .. Len(Chunks) /\ \A k \in 0 .. Len(Chunks) : f[k] \in Nat
      /\ \A m \in Messages : f[m] = f[m - 1] + Chunks[m] /\ Chunks[m] \in Nat
      /\ f[Len(Chunks)] + MaxPings < MaxWindow /\ MaxPings \in Nat /\ MaxWindow \in Nat
  <2>1. Len(Chunks) \in Nat /\ \A m \in Messages : Chunks[m] \in Nat
    BY MtpAssumption, Longest
  <2>2. \A k \in 0 .. Len(Chunks) : f[k] \in Nat
    BY DEF HalfTurn, PrefixSums
  <2> QED
    BY <2>1, <2>2, Limits DEF HalfTurn, PrefixSums, Messages
<1>2. Len(Chunks) \in 0 .. Len(Chunks) /\ done \in Nat
  BY <1>1
<1>3. \A m \in 0 .. Len(Chunks) : f[m] <= f[Len(Chunks)]
  BY <1>2, Growing
<1>4. f[done] <= f[Len(Chunks)] /\ f[done] \in Nat /\ f[Len(Chunks)] \in Nat
  BY <1>1, <1>2, <1>3
<1>5. ASSUME done + 1 \in Messages
      PROVE  f[done + 1] = f[done] + Chunks[done + 1] /\ f[done + 1] <= f[Len(Chunks)] /\ f[done + 1] \in Nat
             /\ Chunks[done + 1] \in Nat
  <2>1. done + 1 \in 0 .. Len(Chunks) /\ done + 1 - 1 = done
    BY <1>1, <1>2, <1>5
  <2> QED
    BY <1>1, <1>3, <1>5, <2>1
<1> QED
  BY <1>1, <1>2, <1>4, <1>5

\* The types of it all.
LEMMA OrderTyped ==
  ASSUME NEW f, HalfTurn(f), NEW done \in 0 .. Len(Chunks), SafeInv, SentInv(f, done)
  PROVE  /\ got \in Seq(Packet) /\ queued \in Seq(Packet) /\ sent \in Seq(Packet) /\ inbuf \in Seq(Packet)
         /\ Len(got) \in Nat /\ pings \in 0 .. MaxPings /\ nextOut \in SeqNums /\ nextIn \in SeqNums
         /\ Off(nextOut) \in Nat /\ Off(nextIn) \in Nat /\ Off(nextOut) < MaxWindow /\ Off(nextIn) < MaxWindow
         /\ Base \in Nat /\ Base + Len(got) = Off(nextOut) /\ Off(nextIn) <= Base
         /\ \A p \in Live \cup net : p \in Packet /\ p.seq \in SeqNums /\ Off(p.seq) \in Nat /\ Off(p.seq) < Base
         /\ (spc # "split" => got = <<>> /\ Len(got) = 0 /\ Base = Off(nextOut))
<1>1. /\ got \in Seq(Packet) /\ queued \in Seq(Packet) /\ sent \in Seq(Packet) /\ inbuf \in Seq(Packet)
      /\ Len(got) \in Nat /\ pings \in 0 .. MaxPings /\ nextOut \in SeqNums /\ nextIn \in SeqNums
      /\ (spc # "split" => got = <<>> /\ Len(got) = 0)
  BY SenderTyped DEF SafeInv, SenderInv, ReceiverInv
<1>2. Off(nextOut) \in Nat /\ Off(nextIn) \in Nat
  BY <1>1, OffRange
<1>3. Base \in Nat /\ Off(nextIn) <= Base /\ KnownTo(Live \cup net, Base, done)
  BY DEF SentInv, LedgerInv, Ledger
<1>4. Base + Len(got) = Off(nextOut)
  BY <1>1, <1>2 DEF Base
<1>5. Off(nextOut) < MaxWindow
  <2>1. Off(nextOut) <= f[done] + Len(got) + pings
    BY DEF SentInv, NumberInv
  <2>2. pings \in Nat /\ pings <= MaxPings /\ MaxPings \in Nat /\ MaxWindow \in Nat
    BY <1>1, Limits
  <2>3. CASE spc # "split"
    BY <1>1, <1>2, <2>1, <2>2, <2>3, Room
  <2>4. CASE spc = "split"
    <3>1. cmd = done + 1 /\ cmd \in Messages /\ Len(got) <= Chunks[cmd] /\ Chunks[cmd] \in Nat
      BY <2>4, Longest DEF SentInv, PendingInv, SafeInv, PutBackInv, CommandsTyped, SenderInv
    <3>2. f[done] \in Nat /\ f[done] + Chunks[cmd] + MaxPings < MaxWindow
      BY <3>1, Room
    <3> QED
      BY <1>1, <1>2, <2>1, <2>2, <3>1, <3>2, SMTT(30)
  <2> QED
    BY <2>3, <2>4
<1>6. ASSUME NEW p \in Live \cup net
      PROVE  p \in Packet /\ p.seq \in SeqNums /\ Off(p.seq) \in Nat /\ Off(p.seq) < Base
  BY <1>3, KnownPacket DEF KnownTo
<1> QED
  BY <1>1, <1>2, <1>3, <1>4, <1>5, <1>6, Limits

LEMMA QuietLedger ==
  ASSUME NEW done, LedgerInv(done), Live' = Live, Base' = Base,
         net \subseteq net', net' \subseteq net \cup Live, UNCHANGED <<nextIn, splits, delivered>>
  PROVE  LedgerInv(done)'
<1>1. (Live \cup net)' = Live \cup net
  <2>1. Live' \cup net' = Live \cup net
    OBVIOUS
  <2> QED
    BY <2>1
<1>2. Off(nextIn)' = Off(nextIn) /\ Len(delivered)' = Len(delivered) /\ Have' = Have
  BY DEF Off, Have
<1> HIDE DEF Live, Base, Have
<1> QED
  BY <1>1, <1>2 DEF LedgerInv

LEMMA SameArrived ==
  ASSUME ArrivedInv, UNCHANGED <<acks, nextIn, inbuf, delivered, splits>>
  PROVE  ArrivedInv'
BY DEF ArrivedInv, Have, Off

\* Steps that move no packet and give out no number.
LEMMA QuietSteps ==
  ASSUME NEW f, HalfTurn(f), NEW done \in 0 .. Len(Chunks), SafeInv, SentInv(f, done),
         \/ Send \/ PeerTimedOut \/ RunCommandQueues \/ TakeCommand \/ DisconnectPeer
         \/ NoMoreCommands \/ EndSending \/ ReceiverDeletesPeer \/ UNCHANGED vars
  PROVE  SentInv(f, done)'
<1>1. UNCHANGED <<got, queued, sent, nextOut, pings, net, nextIn, inbuf, splits, delivered>>
  BY DEF Send, PeerTimedOut, RunCommandQueues, TakeCommand, DisconnectPeer, NoMoreCommands,
     EndSending, ReceiverDeletesPeer, vars, sender, receiver
<1>2. LedgerInv(done)'
  <2>1. Live' = Live /\ Base' = Base
    BY <1>1 DEF Live, Base, Off
  <2> QED
    BY <1>1, <2>1, QuietLedger DEF SentInv
<1>3. NumberInv(f, done)'
  BY <1>1 DEF SentInv, NumberInv, Base, Off
<1>4. PendingInv(done)'
  <2>0. PendingInv(done) /\ done \in Nat /\ taken \in Nat /\ commands \in Seq(Messages) /\ Len(commands) \in Nat
    BY MtpAssumption DEF SentInv, SafeInv, PutBackInv, CommandsTyped
  <2>1. CASE UNCHANGED <<spc, cmd, taken, commands, speer>>
    BY <2>0, <2>1 DEF PendingInv
  <2>2. CASE PeerTimedOut \/ DisconnectPeer \/ NoMoreCommands \/ EndSending
    <3>1. spc # "split" /\ spc' # "split" /\ UNCHANGED <<cmd, taken, commands>>
          /\ (speer' = "open" => speer = "open")
      BY <2>2 DEF PeerTimedOut, DisconnectPeer, NoMoreCommands, EndSending, user
    <3> QED
      BY <2>0, <3>1 DEF PendingInv
  <2>3. CASE RunCommandQueues
    <3>1. spc = "queues" /\ UNCHANGED <<speer, taken>>
      BY <2>3 DEF RunCommandQueues, user
    <3>2. CASE spc' = "commands"
      BY <2>0, <2>3, <3>1, <3>2 DEF PendingInv, RunCommandQueues
    <3>3. CASE spc' = "split"
      <4>1. speer = "open" /\ commands # <<>> /\ cmd' = Head(commands) /\ commands' = commands
        BY <2>3, <3>3 DEF RunCommandQueues, SafeInv, ThreadsTyped
      <4>2. Len(commands) >= 1 /\ Head(commands) = commands[1] /\ 1 \in DOMAIN commands
        BY <2>0, <4>1
      <4>3. commands[1] = done + 1 /\ Len(commands) = taken - done
        BY <2>0, <3>1, <4>1, <4>2 DEF PendingInv
      <4> QED
        BY <2>0, <3>1, <3>3, <4>1, <4>2, <4>3 DEF PendingInv
    <3> QED
      BY <2>3, <3>2, <3>3 DEF RunCommandQueues
  <2>4. CASE TakeCommand
    <3>1. spc = "commands" /\ taken' = taken + 1 /\ UNCHANGED speer
      BY <2>4 DEF TakeCommand
    <3>2. CASE speer # "open"
      BY <2>0, <2>4, <3>1, <3>2 DEF PendingInv, TakeCommand
    <3>3. CASE speer = "open" /\ spc' = "split"
      <4>1. commands = <<>> /\ commands' = <<>> /\ cmd' = taken + 1
        BY <2>4, <3>1, <3>3 DEF TakeCommand
      <4>2. taken = done
        BY <2>0, <3>1, <3>3, <4>1 DEF PendingInv
      <4> QED
        BY <2>0, <3>1, <3>3, <4>1, <4>2 DEF PendingInv
    <3>4. CASE speer = "open" /\ spc' # "split"
      <4>1. commands' = Append(commands, taken + 1) /\ spc' = "commands"
        BY <2>4, <3>1, <3>4 DEF TakeCommand
      <4>2. Len(commands) = taken - done /\ \A i \in DOMAIN commands : commands[i] = done + i
        BY <2>0, <3>1, <3>4 DEF PendingInv
      <4>3. Len(commands') = Len(commands) + 1 /\ DOMAIN commands' = 1 .. Len(commands) + 1
            /\ \A i \in DOMAIN commands' : commands'[i] = IF i <= Len(commands) THEN commands[i] ELSE taken + 1
        BY <2>0, <4>1
      <4>4. \A i \in DOMAIN commands' : commands'[i] = done + i
        <5> TAKE i \in DOMAIN commands'
        <5>1. CASE i <= Len(commands)
          <6>1. i \in DOMAIN commands /\ commands'[i] = commands[i]
            BY <2>0, <4>3, <5>1
          <6> QED
            BY <4>2, <6>1
        <5>2. CASE i > Len(commands)
          <6>1. i = Len(commands) + 1 /\ commands'[i] = taken + 1
            BY <2>0, <4>3, <5>2
          <6> QED
            BY <2>0, <4>2, <6>1
        <5> QED
          BY <2>0, <4>3, <5>1, <5>2
      <4> QED
        BY <2>0, <3>1, <4>1, <4>2, <4>3, <4>4 DEF PendingInv
    <3> QED
      BY <3>2, <3>3, <3>4
  <2>5. CASE Send \/ ReceiverDeletesPeer \/ UNCHANGED vars
    <3>1. UNCHANGED <<spc, cmd, taken, commands, speer>>
      BY <2>5 DEF Send, ReceiverDeletesPeer, vars, sender, user
    <3> QED
      BY <2>1, <3>1
  <2> QED
    BY <2>2, <2>3, <2>4, <2>5
<1> QED
  BY <1>2, <1>3, <1>4 DEF SentInv

LEMMA SamePending ==
  ASSUME NEW done, PendingInv(done), UNCHANGED <<spc, cmd, taken, commands, speer>>
  PROVE  PendingInv(done)'
BY DEF PendingInv

\* Outside of the splitting of a message there are no numbers to put back.
LEMMA NoneTaken ==
  ASSUME NEW f, NEW done, got' = <<>>, Off(nextOut)' \in Int, Off(nextOut)' <= f[done] + 0 + pings'
  PROVE  NumberInv(f, done)' /\ Base' = Off(nextOut)'
<1>1. Len(got') = 0 /\ DOMAIN got' = {}
  BY SMT
<1> QED
  BY <1>1 DEF NumberInv, Base

\* A packet goes into the sent buffer: it is there afterwards.
LEMMA SentHolds ==
  ASSUME NEW list \in Seq(Packet), NEW next \in SeqNums, Off(next) < MaxWindow,
         NEW p \in Packet, Off(p.seq) < Off(next),
         InOrder(list, SentBase(next)),
         \A q \in ToSet(list) : q.seq = p.seq => q = p
  PROVE  Sent(list, p, next) \in Seq(Packet) /\ ToSet(Sent(list, p, next)) = ToSet(list) \cup {p}
<1> DEFINE new == Sent(list, p, next)
<1>1. p.seq \in SeqNums /\ Off(p.seq) \in Nat /\ Off(next) \in Nat
  BY OffRange DEF Packet
<1>2. Distance(p.seq, next) = Off(next) - Off(p.seq)
  BY <1>1, Apart, Limits
<1>3. Distance(p.seq, next) \in 1 .. MaxWindow - 1
  BY <1>1, <1>2, Limits
<1>4. seqnum_in_window(p.seq, SentBase(next), MaxWindow) /\ SentBase(next) \in SeqNums
  BY <1>1, <1>3, SentBaseIsHalfBehind, OlderIsNearer, Limits
<1>5. p.seq # SentBase(next)
  <2>1. Distance(SentBase(next), p.seq) = MaxWindow - Distance(p.seq, next)
    BY <1>1, <1>3, OlderIsNearer, Limits
  <2> QED
    BY <1>1, <1>3, <1>4, <2>1, DistanceRange, Limits
<1>6. /\ new \in Seq(Packet) /\ ToSet(list) \subseteq ToSet(new) /\ ToSet(new) \subseteq ToSet(list) \cup {p}
      /\ p.seq \in Numbers(new)
  BY <1>1, <1>4, <1>5, InsertHolds DEF Sent
<1> HIDE DEF new
<1>7. p \in ToSet(new)
  <2>1. PICK q \in ToSet(new) : q.seq = p.seq
    BY <1>6, ListSets
  <2> QED
    BY <1>6, <2>1
<1> QED
  BY <1>6, <1>7 DEF new

\* The sent buffer is in order, also for the number to come.
LEMMA SentOrdered ==
  ASSUME NEW list, NEW next \in SeqNums, NEW lo \in Nat \ {0}, NEW hi \in Int,
         Aged(list, next, lo, hi), hi <= MaxWindow
  PROVE  InOrder(list, SentBase(next))
<1>1. list \in Seq(Packet) /\ \A k \in DOMAIN list : Distance(list[k].seq, next) \in 1 .. MaxWindow
                                                   /\ list[k].seq \in SeqNums
  <2>1. list \in Seq(Packet) /\ \A k \in DOMAIN list : Distance(list[k].seq, next) \in lo .. hi
    BY DEF Aged
  <2>2. \A d \in lo .. hi : d \in 1 .. MaxWindow
    BY Limits
  <2> QED
    BY <2>1, <2>2, PacketNumbers
<1> SUFFICES ASSUME NEW i \in DOMAIN list, NEW j \in DOMAIN list, i < j
             PROVE  Distance(SentBase(next), list[i].seq) < Distance(SentBase(next), list[j].seq)
  BY DEF InOrder
<1>2. Distance(list[j].seq, next) < Distance(list[i].seq, next)
  BY DEF Aged
<1>3. /\ Distance(SentBase(next), list[i].seq) = MaxWindow - Distance(list[i].seq, next)
      /\ Distance(SentBase(next), list[j].seq) = MaxWindow - Distance(list[j].seq, next)
  BY <1>1, OlderIsNearer
<1> QED
  BY <1>1, <1>2, <1>3, Limits

LEMMA ListJoined ==
  ASSUME NEW s \in Seq(Packet), NEW t \in Seq(Packet)
  PROVE  s \o t \in Seq(Packet) /\ ToSet(s \o t) = ToSet(s) \cup ToSet(t)
<1>1. PICK n \in Nat : n = Len(s)
  OBVIOUS
<1>2. PICK m \in Nat : m = Len(t)
  OBVIOUS
<1> DEFINE new == s \o t
<1>3. /\ new \in Seq(Packet) /\ Len(new) = n + m
      /\ \A i \in 1 .. n : new[i] = s[i]
      /\ \A k \in 1 .. m : new[n + k] = t[k]
  BY <1>1, <1>2, Joined
<1> HIDE DEF new
<1>4. DOMAIN s = 1 .. n /\ DOMAIN t = 1 .. m /\ DOMAIN new = 1 .. n + m
  BY <1>1, <1>2, <1>3
<1>5. \A i \in DOMAIN new : new[i] \in ToSet(s) \cup ToSet(t)
  <2> TAKE i \in DOMAIN new
  <2>1. CASE i <= n
    <3>1. i \in DOMAIN s /\ new[i] = s[i]
      BY <1>3, <1>4, <2>1
    <3> QED
      BY <3>1 DEF ToSet
  <2>2. CASE i > n
    <3>1. i - n \in DOMAIN t /\ n + (i - n) = i
      BY <1>4, <2>2
    <3>2. new[i] = t[i - n]
      BY <1>3, <1>4, <3>1
    <3> QED
      BY <3>1, <3>2 DEF ToSet
  <2> QED
    BY <1>4, <2>1, <2>2
<1>6. \A i \in DOMAIN s : i \in DOMAIN new /\ new[i] = s[i]
  BY <1>3, <1>4
<1>7. \A k \in DOMAIN t : n + k \in DOMAIN new /\ new[n + k] = t[k]
  BY <1>3, <1>4
<1>8. ToSet(new) \subseteq ToSet(s) \cup ToSet(t)
  BY <1>5 DEF ToSet
<1>9. ToSet(s) \subseteq ToSet(new)
  BY <1>6 DEF ToSet
<1>10. ToSet(t) \subseteq ToSet(new)
  BY <1>7 DEF ToSet
<1> QED
  BY <1>3, <1>8, <1>9, <1>10 DEF new

LEMMA HeadAndTail ==
  ASSUME NEW list \in Seq(Packet), list # <<>>
  PROVE  ToSet(list) = {Head(list)} \cup ToSet(Tail(list)) /\ Head(list) \in Packet /\ Tail(list) \in Seq(Packet)
<1>1. /\ Tail(list) \in Seq(Packet) /\ DOMAIN Tail(list) = 1 .. Len(list) - 1 /\ Len(list) \in Nat \ {0}
      /\ DOMAIN list = 1 .. Len(list) /\ Head(list) = list[1] /\ list[1] \in Packet
      /\ \A i \in DOMAIN Tail(list) : Tail(list)[i] = list[i + 1]
  OBVIOUS
<1>2. \A i \in DOMAIN list : list[i] = Head(list) \/ list[i] \in ToSet(Tail(list))
  <2> TAKE i \in DOMAIN list
  <2>1. CASE i = 1
    BY <1>1, <2>1
  <2>2. CASE i # 1
    <3>1. i - 1 \in DOMAIN Tail(list) /\ i - 1 + 1 = i
      BY <1>1, <2>2
    <3>2. Tail(list)[i - 1] = list[i]
      BY <1>1, <3>1
    <3> QED
      BY <3>1, <3>2 DEF ToSet
  <2> QED
    BY <2>1, <2>2
<1>3. \A i \in DOMAIN Tail(list) : i + 1 \in DOMAIN list
  BY <1>1
<1>4. ToSet(Tail(list)) \subseteq ToSet(list)
  BY <1>1, <1>3 DEF ToSet
<1>5. Head(list) \in ToSet(list)
  <2>1. 1 \in DOMAIN list
    BY <1>1
  <2> QED
    BY <1>1, <2>1 DEF ToSet
<1>6. ToSet(list) \subseteq {Head(list)} \cup ToSet(Tail(list))
  BY <1>2 DEF ToSet
<1> QED
  BY <1>1, <1>4, <1>5, <1>6

\* A chunk gets its number, ...
LEMMA TakeSeqnumOrder ==
  ASSUME NEW f, HalfTurn(f), NEW done \in 0 .. Len(Chunks), SafeInv, SentInv(f, done), TakeSeqnum
  PROVE  SentInv(f, done)'
<1> DEFINE p == [seq |-> nextOut, msg |-> cmd, chunk |-> Len(got) + 1]
<1>1. /\ spc = "split" /\ got' = Append(got, p) /\ nextOut' = U16(nextOut + 1)
      /\ UNCHANGED <<speer, spc, commands, cmd, queued, sent, pings, taken, nextIn, inbuf, splits, delivered, net>>
  BY DEF TakeSeqnum, receiver, user
<1>2. /\ got \in Seq(Packet) /\ Len(got) \in Nat /\ nextOut \in SeqNums /\ Off(nextOut) \in Nat
      /\ Off(nextOut) < MaxWindow /\ Base + Len(got) = Off(nextOut) /\ Base \in Nat
      /\ pings \in Nat
  BY OrderTyped, Limits
<1>3. Off(nextOut') = Off(nextOut) + 1
  BY <1>1, <1>2, OffRange
<1>4. cmd = done + 1 /\ cmd \in Messages
  BY <1>1 DEF SentInv, PendingInv, SafeInv, PutBackInv, CommandsTyped
<1>5. p \in Packet /\ p.seq = nextOut /\ p.msg = done + 1 /\ p.chunk = Len(got) + 1
  BY <1>2, <1>4 DEF Packet
<1> HIDE DEF p
<1>6. /\ Len(got') = Len(got) + 1 /\ DOMAIN got' = 1 .. Len(got) + 1 /\ DOMAIN got = 1 .. Len(got)
      /\ \A i \in DOMAIN got : got'[i] = got[i]
      /\ got'[Len(got) + 1] = p
  BY <1>1, <1>2, <1>5
<1>7. Base' = Base
  BY <1>2, <1>3, <1>6 DEF Base, Off
<1>8. NumberInv(f, done)'
  <2>1. Off(nextOut') <= f[done] + Len(got') + pings'
    <3>1. Off(nextOut) <= f[done] + Len(got) + pings /\ f[done] \in Nat
      BY Room DEF SentInv, NumberInv
    <3> QED
      BY <1>1, <1>2, <1>3, <1>6, <3>1
  <2>2. ASSUME NEW i \in DOMAIN got'
        PROVE  got'[i].msg = done + 1 /\ got'[i].chunk = i /\ Off(got'[i].seq) = Base + i - 1
    <3>1. CASE i \in DOMAIN got
      BY <1>6, <3>1 DEF SentInv, NumberInv
    <3>2. CASE i = Len(got) + 1
      BY <1>2, <1>5, <1>6, <3>2
    <3> QED
      BY <1>2, <1>6, <3>1, <3>2
  <2> HIDE DEF Base
  <2> QED
    BY <1>7, <2>1, <2>2 DEF NumberInv, Off
<1>9. LedgerInv(done)'
  <2>1. Live' = Live
    BY <1>1 DEF Live
  <2> QED
    BY <1>1, <1>7, <2>1, QuietLedger DEF SentInv
<1> QED
  BY <1>1, <1>8, <1>9, SamePending DEF SentInv

\* ... all of them are put back, ...
LEMMA PutBackOrder ==
  ASSUME NEW f, HalfTurn(f), NEW done \in 0 .. Len(Chunks), SafeInv, SentInv(f, done), PutBack
  PROVE  SentInv(f, done)'
<1>1. /\ spc = "split" /\ spc' = "commands" /\ got' = <<>> /\ cmd' = 0
      /\ commands' = IF commands = <<>> THEN <<cmd>> ELSE commands
      /\ UNCHANGED <<speer, queued, sent, pings, taken, nextIn, inbuf, splits, delivered, net>>
  BY DEF PutBack, receiver, user
<1>2. /\ got \in Seq(Packet) /\ Len(got) \in Nat /\ Off(nextOut) \in Nat
      /\ Base + Len(got) = Off(nextOut) /\ Base \in Nat /\ pings \in Nat
  BY OrderTyped, Limits
<1>3. Off(nextOut') = Base
  <2>1. CASE got = <<>>
    <3>1. nextOut' = nextOut /\ Len(got) = 0
      BY <2>1 DEF PutBack
    <3> QED
      BY <1>2, <3>1
  <2>2. CASE got # <<>>
    <3>1. ~fatal' /\ ~fatal
      BY PutBackKeeps DEF SafeInv, PutBackInv
    <3>2. nextOut' = Head(got).seq
      BY <2>2, <3>1 DEF PutBack
    <3>3. Head(got) = got[1] /\ 1 \in DOMAIN got
      BY <1>2, <2>2
    <3>4. Off(got[1].seq) = Base + 1 - 1
      BY <3>3 DEF SentInv, NumberInv
    <3> QED
      BY <1>2, <3>2, <3>3, <3>4
  <2> QED
    BY <2>1, <2>2
<1>4. NumberInv(f, done)' /\ Base' = Off(nextOut)'
  <2>1. Off(nextOut) <= f[done] + Len(got) + pings /\ f[done] \in Nat
    BY Room DEF SentInv, NumberInv
  <2>2. Off(nextOut') <= f[done] + 0 + pings'
    BY <1>1, <1>2, <1>3, <2>1
  <2>3. Off(nextOut)' = Off(nextOut') /\ Off(nextOut') \in Int
    BY <1>2, <1>3 DEF Off
  <2> QED
    BY <1>1, <2>2, <2>3, NoneTaken
<1>5. LedgerInv(done)'
  <2>1. Live' = Live
    BY <1>1 DEF Live
  <2>2. Base' = Base
    BY <1>3, <1>4 DEF Off
  <2> QED
    BY <1>1, <2>1, <2>2, QuietLedger DEF SentInv
<1>6. PendingInv(done)'
  <2>1. /\ cmd = done + 1 /\ done < taken /\ done \in Nat /\ taken \in Nat /\ commands \in Seq(Messages)
        /\ cmd \in Messages
        /\ \A i \in DOMAIN commands : commands[i] = done + i
        /\ Len(commands) = taken - done \/ (commands = <<>> /\ taken = done + 1)
    BY <1>1, MtpAssumption DEF SentInv, PendingInv, SafeInv, PutBackInv, CommandsTyped
  <2>2. CASE commands = <<>>
    <3>1. commands' = <<cmd>> /\ taken = done + 1
      BY <1>1, <2>1, <2>2
    <3>2. Len(commands') = 1 /\ \A i \in DOMAIN commands' : commands'[i] = done + i
      BY <2>1, <3>1
    <3> QED
      BY <1>1, <2>1, <3>1, <3>2 DEF PendingInv
  <2>3. CASE commands # <<>>
    BY <1>1, <2>1, <2>3 DEF PendingInv
  <2> QED
    BY <2>2, <2>3
<1> QED
  BY <1>4, <1>5, <1>6 DEF SentInv

\* ... or all of them go into the queue.
LEMMA QueuePacketsOrder ==
  ASSUME NEW f, HalfTurn(f), NEW done \in 0 .. Len(Chunks), SafeInv, SentInv(f, done), QueuePackets
  PROVE  done + 1 \in 0 .. Len(Chunks) /\ SentInv(f, done + 1)'
<1>1. /\ spc = "split" /\ spc' = "commands" /\ got' = <<>> /\ cmd' = 0 /\ Len(got) = Chunks[cmd]
      /\ queued' = queued \o got /\ commands' = IF commands = <<>> THEN <<>> ELSE Tail(commands)
      /\ UNCHANGED <<speer, sent, nextOut, pings, taken, nextIn, inbuf, splits, delivered, net>>
  BY DEF QueuePackets, receiver, user
<1>2. /\ got \in Seq(Packet) /\ queued \in Seq(Packet) /\ Len(got) \in Nat /\ Off(nextOut) \in Nat
      /\ Base + Len(got) = Off(nextOut) /\ Base \in Nat /\ pings \in Nat
  BY OrderTyped, Limits
<1>3. /\ cmd = done + 1 /\ cmd \in Messages /\ done + 1 \in 0 .. Len(Chunks)
      /\ done < taken /\ done \in Nat /\ taken \in Nat /\ commands \in Seq(Messages) /\ speer = "open"
      /\ \A i \in DOMAIN commands : commands[i] = done + i
      /\ Len(commands) = taken - done \/ (commands = <<>> /\ taken = done + 1)
  BY <1>1, MtpAssumption DEF SentInv, PendingInv, SafeInv, PutBackInv, CommandsTyped, Messages
<1>4. NumberInv(f, done + 1)' /\ Base' = Off(nextOut)'
  <2>1. Off(nextOut) <= f[done] + Len(got) + pings /\ f[done] \in Nat /\ f[done + 1] = f[done] + Chunks[done + 1]
    BY <1>3, Room DEF SentInv, NumberInv
  <2>2. Off(nextOut') <= f[done + 1] + 0 + pings'
    BY <1>1, <1>2, <1>3, <2>1
  <2>3. Off(nextOut)' = Off(nextOut') /\ Off(nextOut') \in Int
    BY <1>1, <1>2 DEF Off
  <2> QED
    BY <1>1, <2>2, <2>3, NoneTaken
<1>5. LedgerInv(done + 1)'
  <2>1. ToSet(queued') = ToSet(queued) \cup ToSet(got)
    BY <1>1, <1>2, ListJoined
  <2>2. Live' = Live \cup ToSet(got) /\ (Live \cup net)' = (Live \cup net) \cup ToSet(got)
    BY <1>1, <2>1 DEF Live
  <2>3. Base' = Base + Len(got) /\ Off(nextIn)' = Off(nextIn) /\ Len(delivered)' = Len(delivered)
        /\ Have' = Have
    BY <1>1, <1>2, <1>4 DEF Off, Have
  <2>4. /\ \A i \in DOMAIN got : Off(got[i].seq) = Base + i - 1
        /\ \A i \in DOMAIN got : got[i].msg = done + 1 /\ got[i].chunk = i
    BY DEF SentInv, NumberInv
  <2>5. Ledger(Live \cup net, Live, Off(nextIn), Base, done, Len(delivered), Have)
    BY DEF SentInv, LedgerInv
  <2>6. done + 1 \in Messages /\ Len(got) = Chunks[done + 1]
    BY <1>1, <1>3
  <2> HIDE DEF Base, Live, Have
  <2>7. Ledger(Live \cup net \cup ToSet(got), Live \cup ToSet(got), Off(nextIn), Base + Len(got),
               done + 1, Len(delivered), Have)
    BY <1>2, <2>4, <2>5, <2>6, LedgerGrows
  <2> QED
    BY <2>2, <2>3, <2>7 DEF LedgerInv
<1>6. PendingInv(done + 1)'
  <2>1. CASE commands = <<>>
    BY <1>1, <1>3, <2>1 DEF PendingInv
  <2>2. CASE commands # <<>>
    <3>1. commands' = Tail(commands) /\ Len(commands') = Len(commands) - 1 /\ Len(commands) = taken - done
      BY <1>1, <1>3, <2>2
    <3>2. \A i \in DOMAIN commands' : i \in Nat /\ i + 1 \in DOMAIN commands /\ commands'[i] = commands[i + 1]
      BY <1>3, <2>2, <3>1
    <3>3. \A i \in DOMAIN commands' : commands'[i] = done + 1 + i
      BY <1>3, <3>2
    <3> QED
      BY <1>1, <1>3, <3>1, <3>3 DEF PendingInv
  <2> QED
    BY <2>1, <2>2
<1> QED
  BY <1>3, <1>4, <1>5, <1>6 DEF SentInv

\* The front of the queue is sent.
LEMMA SendPacketOrder ==
  ASSUME NEW f, HalfTurn(f), NEW done \in 0 .. Len(Chunks), SafeInv, SentInv(f, done), SendPacket
  PROVE  SentInv(f, done)'
<1> DEFINE p == Head(queued)
<1>1. /\ spc \in {"send", "sending"} /\ spc' = "sending" /\ queued # <<>> /\ queued' = Tail(queued)
      /\ sent' = Sent(sent, p, nextOut) /\ Transmit({p})
      /\ UNCHANGED <<speer, commands, cmd, got, nextOut, pings, taken, nextIn, inbuf, splits, delivered>>
  BY DEF SendPacket, receiver, user
<1>2. /\ got = <<>> /\ queued \in Seq(Packet) /\ sent \in Seq(Packet) /\ nextOut \in SeqNums
      /\ Off(nextOut) \in Nat /\ Off(nextOut) < MaxWindow /\ Base = Off(nextOut) /\ Len(got) = 0
  BY <1>1, OrderTyped
<1>3. ToSet(queued) = {p} \cup ToSet(queued') /\ p \in Packet
  BY <1>1, <1>2, HeadAndTail
<1>4. p \in Live /\ ToSet(sent) \subseteq Live
  BY <1>3 DEF Live
<1> HIDE DEF p
<1>5. /\ Off(p.seq) < Off(nextOut)
      /\ \A q \in ToSet(sent) : q.seq = p.seq => q = p
  <2>1. KnownTo(Live \cup net, Base, done)
    BY DEF SentInv, LedgerInv, Ledger
  <2> HIDE DEF Live, Base
  <2> QED
    BY <1>2, <1>4, <2>1 DEF KnownTo
<1>6. ToSet(sent') = ToSet(sent) \cup {p}
  <2>1. Aged(sent, nextOut, 1, SpreadLimit)
    BY <1>2 DEF SafeInv, SenderInv
  <2>2. InOrder(sent, SentBase(nextOut))
    BY <1>2, <2>1, SentOrdered, Limits
  <2> QED
    BY <1>1, <1>2, <1>3, <1>5, <2>2, SentHolds
<1>7. LedgerInv(done)'
  <2>1. Live' = Live
    BY <1>1, <1>3, <1>6 DEF Live
  <2>2. Base' = Base
    BY <1>1 DEF Base, Off
  <2>3. net \subseteq net' /\ net' \subseteq net \cup Live
    <3>1. net \subseteq net' /\ net' \subseteq net \cup {p}
      BY <1>1 DEF Transmit
    <3> QED
      BY <1>4, <3>1
  <2> QED
    BY <1>1, <2>1, <2>2, <2>3, QuietLedger DEF SentInv
<1>8. NumberInv(f, done)'
  BY <1>1 DEF SentInv, NumberInv, Base, Off
<1>9. PendingInv(done)'
  BY <1>1 DEF SentInv, PendingInv
<1> QED
  BY <1>7, <1>8, <1>9 DEF SentInv

\* Packets are sent again, and a ping with a number of its own may be made.
LEMMA RunTimeoutsOrder ==
  ASSUME NEW f, HalfTurn(f), NEW done \in 0 .. Len(Chunks), SafeInv, SentInv(f, done),
         NEW resent \in SUBSET ToSet(sent), RunTimeouts(resent)
  PROVE  SentInv(f, done)'
<1>1. /\ spc = "timeouts" /\ spc' = "queues"
      /\ UNCHANGED <<speer, commands, cmd, got, taken, nextIn, inbuf, splits, delivered>>
  BY DEF RunTimeouts, receiver, user
<1>2. /\ got = <<>> /\ got' = <<>> /\ queued \in Seq(Packet) /\ sent \in Seq(Packet) /\ nextOut \in SeqNums
      /\ Off(nextOut) \in Nat /\ Off(nextOut) < MaxWindow /\ Base = Off(nextOut) /\ Len(got) = 0
      /\ pings \in 0 .. MaxPings /\ pings \in Nat /\ Base \in Nat
  BY <1>1, OrderTyped, Limits
<1>3. PendingInv(done)'
  BY <1>1 DEF SentInv, PendingInv
<1>4. Off(nextOut) <= f[done] + pings /\ f[done] \in Nat /\ f[done] + MaxPings < MaxWindow
  BY <1>2, Room DEF SentInv, NumberInv
<1>5. resent \subseteq Live
  BY DEF Live
<1>6. CASE UNCHANGED <<queued, sent, nextOut>> /\ net \subseteq net' /\ net' \subseteq net \cup resent
           /\ (pings' = pings \/ (pings < MaxPings /\ pings' = pings + 1))
  <2>1. LedgerInv(done)'
    <3>1. Live' = Live /\ Base' = Base
      BY <1>1, <1>6 DEF Live, Base, Off
    <3>2. net' \subseteq net \cup Live
      BY <1>5, <1>6
    <3> QED
      BY <1>1, <1>6, <3>1, <3>2, QuietLedger DEF SentInv
  <2>2. NumberInv(f, done)'
    <3>1. Off(nextOut)' = Off(nextOut)
      BY <1>6 DEF Off
    <3>2. Off(nextOut)' <= f[done] + 0 + pings'
      BY <1>2, <1>4, <1>6, <3>1
    <3> QED
      BY <1>2, <3>1, <3>2, NoneTaken
  <2> QED
    BY <1>3, <2>1, <2>2 DEF SentInv
<1>7. CASE /\ pings < MaxPings /\ pings' = pings + 1 /\ nextOut' = U16(nextOut + 1)
           /\ \/ sent' = Sent(sent, NewPing, nextOut') /\ queued' = queued
              \/ queued' = Append(queued, NewPing) /\ sent' = sent
           /\ net \subseteq net' /\ net' \subseteq net \cup resent \cup {NewPing}
           /\ HaveSeqnum
  <2>1. Off(nextOut') = Off(nextOut) + 1 /\ nextOut' \in SeqNums /\ Off(nextOut') < MaxWindow
    <3>1. Off(nextOut') = Off(nextOut) + 1 /\ nextOut' \in SeqNums
      BY <1>2, <1>7, OffRange
    <3> QED
      BY <1>2, <1>4, <1>7, <3>1, Limits
  <2>2. NewPing \in Packet /\ NewPing.seq = nextOut /\ NewPing.msg = 0
    BY <1>2 DEF NewPing, Packet
  <2>3. NumberInv(f, done)' /\ Base' = Off(nextOut') /\ Base' = Base + 1
    <3>1. Off(nextOut') <= f[done] + 0 + pings'
      BY <1>2, <1>4, <1>7, <2>1
    <3>2. Off(nextOut)' = Off(nextOut')
      BY DEF Off
    <3> HIDE DEF Base
    <3> QED
      BY <1>2, <2>1, <3>1, <3>2, NoneTaken
  <2>4. Ledger(Live \cup net, Live, Off(nextIn), Base, done, Len(delivered), Have)
    BY DEF SentInv, LedgerInv
  <2>5. \A q \in Live \cup net : q.seq # nextOut /\ Off(q.seq) < Base
    BY <1>2, OrderTyped
  <2>6. ToSet(queued') \cup ToSet(sent') = ToSet(queued) \cup ToSet(sent) \cup {NewPing}
    <3>1. CASE sent' = Sent(sent, NewPing, nextOut') /\ queued' = queued
      <4>1. Aged(sent, nextOut', 2, SpreadLimit)
        <5>1. Aged(sent, U16(nextOut + 1), Len(got) + 2, SpreadLimit) /\ Len(got) + 2 = 2
          BY <1>2, <1>7, SentOneMore DEF SafeInv
        <5> QED
          BY <1>7, <5>1
      <4>2. InOrder(sent, SentBase(nextOut'))
        BY <2>1, <4>1, SentOrdered, Limits
      <4>3. \A q \in ToSet(sent) : q.seq # nextOut
        BY <2>5 DEF Live
      <4>4. Off(nextOut) < Off(nextOut')
        BY <1>2, <2>1
      <4>5. ToSet(sent') = ToSet(sent) \cup {NewPing}
        BY <1>2, <2>1, <2>2, <3>1, <4>2, <4>3, <4>4, SentHolds
      <4> QED
        BY <3>1, <4>5
    <3>2. CASE queued' = Append(queued, NewPing) /\ sent' = sent
      <4>1. queued' = queued \o <<NewPing>> /\ <<NewPing>> \in Seq(Packet)
        BY <1>2, <2>2, <3>2
      <4>2. ToSet(queued') = ToSet(queued) \cup ToSet(<<NewPing>>)
        BY <1>2, <4>1, ListJoined
      <4>3. ToSet(<<NewPing>>) = {NewPing}
        BY DEF ToSet
      <4> QED
        BY <3>2, <4>2, <4>3
    <3> QED
      BY <1>7, <3>1, <3>2
  <2>7. LedgerInv(done)'
    <3> DEFINE new == <<NewPing>>
    <3>1. /\ new \in Seq(Packet) /\ Len(new) = 1 /\ ToSet(new) = {NewPing}
          /\ \A i \in DOMAIN new : i = 1 /\ new[i] = NewPing
      BY <2>2 DEF ToSet
    <3>2. \A i \in DOMAIN new : Off(new[i].seq) = Base + i - 1 /\ new[i].msg = 0
      BY <1>2, <2>2, <3>1
    <3> HIDE DEF new
    <3>3. Live' = Live \cup {NewPing} /\ (Live \cup net)' = Live \cup net \cup {NewPing}
      <4>1. Live' = Live \cup {NewPing}
        BY <1>1, <2>6 DEF Live
      <4>2. net' \subseteq net \cup Live \cup {NewPing} /\ net \subseteq net'
        BY <1>5, <1>7
      <4>3. Live' \cup net' = Live \cup net \cup {NewPing}
        BY <4>1, <4>2
      <4> QED
        BY <4>1, <4>3
    <3>4. Off(nextIn)' = Off(nextIn) /\ Len(delivered)' = Len(delivered) /\ Have' = Have
      BY <1>1 DEF Off, Have
    <3> HIDE DEF Base, Live, Have
    <3>5. Ledger(Live \cup net \cup ToSet(new), Live \cup ToSet(new), Off(nextIn), Base + Len(new),
                 done, Len(delivered), Have)
      BY <2>4, <3>1, <3>2, LedgerGrows
    <3>6. Ledger(Live \cup net \cup {NewPing}, Live \cup {NewPing}, Off(nextIn), Base + 1,
                 done, Len(delivered), Have)
      BY <3>1, <3>5
    <3> QED
      BY <2>3, <3>3, <3>4, <3>6 DEF LedgerInv
  <2> QED
    BY <1>3, <2>3, <2>7 DEF SentInv
<1> QED
  <2>1. ASSUME NEW packets, Transmit(packets) PROVE net \subseteq net' /\ net' \subseteq net \cup packets
    BY <2>1 DEF Transmit
  <2>2. CASE resent = {} /\ UNCHANGED <<net, queued, sent, nextOut, pings>>
    BY <1>6, <2>2
  <2>3. CASE Transmit(resent) /\ UNCHANGED <<queued, sent, nextOut, pings>>
    BY <1>6, <2>1, <2>3
  <2>4. CASE SendPing(resent)
    <3>1. CASE ~HaveSeqnum
      BY <1>6, <2>1, <2>4, <3>1 DEF SendPing
    <3>2. CASE HaveSeqnum
      <4>1. net \subseteq net' /\ net' \subseteq net \cup resent \cup {NewPing}
        BY <2>1, <2>4, <3>2 DEF SendPing
      <4> QED
        BY <1>7, <2>4, <3>2, <4>1 DEF SendPing
    <3> QED
      BY <3>1, <3>2
  <2> QED
    BY <2>2, <2>3, <2>4 DEF RunTimeouts

\* An acknowledged packet was processed, or waits in the receiver's buffer.
LEMMA HandleAckOrder ==
  ASSUME NEW f, HalfTurn(f), NEW done \in 0 .. Len(Chunks), SafeInv, SentInv(f, done), ArrivedInv,
         NEW seqnum \in acks, HandleAck(seqnum)
  PROVE  SentInv(f, done)'
<1>1. UNCHANGED <<speer, spc, commands, cmd, got, queued, nextOut, pings, taken, nextIn, inbuf, splits,
                  delivered, net>>
      /\ sent' \in {sent, Without(sent, seqnum)}
  BY DEF HandleAck, receiver, user
<1>2. ToSet(sent') \subseteq ToSet(sent) /\ \A p \in ToSet(sent) : p.seq # seqnum => p \in ToSet(sent')
  <2>1. sent \in Seq(Packet)
    BY OrderTyped
  <2> QED
    BY <1>1, <2>1, WithoutHolds
<1>3. Off(seqnum) < Off(nextIn) \/ seqnum \in Numbers(inbuf)
  BY DEF ArrivedInv
<1>4. Ledger(Live \cup net, Live, Off(nextIn), Base, done, Len(delivered), Have)
  BY DEF SentInv, LedgerInv
<1>5. Live' \subseteq Live /\ (Live \cup net)' = Live' \cup net /\ inbuf' = inbuf
  <2>1. Live' \subseteq Live
    BY <1>1, <1>2 DEF Live
  <2> QED
    BY <1>1, <2>1
<1>6. ASSUME NEW p \in Live PROVE p \in Live' \/ Off(p.seq) < Off(nextIn)
  <2>1. CASE p \in ToSet(inbuf) \cup ToSet(queued)
    BY <1>1, <2>1 DEF Live
  <2>2. CASE p \in ToSet(sent) /\ p.seq # seqnum
    BY <1>2, <2>2 DEF Live
  <2>3. CASE p.seq = seqnum /\ seqnum \in Numbers(inbuf)
    <3>1. PICK q \in ToSet(inbuf) : q.seq = p.seq
      <4>1. inbuf \in Seq(Packet)
        BY OrderTyped
      <4> QED
        BY <2>3, <4>1, ListSets
    <3>2. p = q
      <4>1. KnownTo(Live \cup net, Base, done) /\ q \in Live
        BY <1>4 DEF Ledger, Live
      <4> HIDE DEF Live, Base
      <4> QED
        BY <3>1, <4>1 DEF KnownTo
    <3> QED
      BY <1>1, <3>1, <3>2 DEF Live
  <2>4. CASE p.seq = seqnum /\ Off(seqnum) < Off(nextIn)
    BY <2>4
  <2> QED
    BY <1>3, <2>1, <2>2, <2>3, <2>4 DEF Live
<1>7. LedgerInv(done)'
  <2>1. Off(nextIn)' = Off(nextIn) /\ Len(delivered)' = Len(delivered) /\ Have' = Have /\ Base' = Base
    BY <1>1 DEF Off, Have, Base
  <2> HIDE DEF Base, Live, Have
  <2>2. Ledger(Live' \cup net, Live', Off(nextIn), Base, done, Len(delivered), Have)
    BY <1>4, <1>5, <1>6, LedgerShrinks
  <2> QED
    BY <1>5, <2>1, <2>2 DEF LedgerInv
<1>8. NumberInv(f, done)'
  BY <1>1 DEF SentInv, NumberInv, Base, Off
<1> QED
  BY <1>1, <1>7, <1>8, SamePending DEF SentInv

-----------------------------------------------------------------------------
(* The receiving side hands out the next message.                           *)

DeliversNext(done) ==
  \/ delivered' = delivered
  \/ Len(delivered) < done /\ delivered' = Append(delivered, Len(delivered) + 1)

LEMMA ProcessCounts ==
  ASSUME NEW done, LedgerInv(done), ArrivedInv, delivered \in Seq(Messages),
         NEW p \in Live \cup net, Off(p.seq) = Off(nextIn), Process(p)
  PROVE  /\ IF p.msg = 0 THEN Len(delivered') = Len(delivered) /\ Have' = Have
            ELSE IF Have + 1 = Chunks[Len(delivered) + 1] THEN Len(delivered') = Len(delivered) + 1 /\ Have' = 0
            ELSE Len(delivered') = Len(delivered) /\ Have' = Have + 1
         /\ {q.chunk : q \in splits'} = 1 .. Have'
         /\ \A q \in splits' : q.msg = Len(delivered') + 1
         /\ \A i \in DOMAIN delivered' : delivered'[i] = i
         /\ DeliversNext(done)
<1>1. /\ Have \in Nat /\ Len(delivered) \in Nat /\ {q.chunk : q \in splits} = 1 .. Have
      /\ \A q \in splits : q.msg = Len(delivered) + 1
      /\ \A i \in DOMAIN delivered : delivered[i] = i
      /\ p.msg # 0 => p.msg = Len(delivered) + 1 /\ p.chunk = Have + 1 /\ Len(delivered) < done
  <2>1. Ledger(Live \cup net, Live, Off(nextIn), Base, done, Len(delivered), Have)
    BY DEF LedgerInv
  <2>2. p.msg # 0 => p.msg = Len(delivered) + 1 /\ p.chunk = Have + 1 /\ Len(delivered) < done
    <3> HIDE DEF Live, Base, Have
    <3> QED
      BY <2>1, NextInLine
  <2>3. Have \in Nat /\ Len(delivered) \in Nat
    BY <2>1, MtpAssumption DEF Ledger
  <2> QED
    BY <2>2, <2>3 DEF ArrivedInv
<1>2. CASE p.msg = 0
  <2>1. splits' = splits /\ delivered' = delivered
    BY <1>2 DEF Process
  <2> QED
    BY <1>1, <1>2, <2>1 DEF Have, DeliversNext
<1>3. CASE p.msg # 0
  <2> DEFINE parts == {q \in splits \cup {p} : q.msg = p.msg}
             n == Have + 1
  <2>1. n \in Nat /\ p.msg = Len(delivered) + 1 /\ p.chunk = n /\ Len(delivered) < done
    BY <1>1, <1>3
  <2>2. parts = splits \cup {p}
    BY <1>1, <2>1
  <2>3. {q.chunk : q \in splits \cup {p}} = 1 .. n
    <3>1. {q.chunk : q \in splits \cup {p}} = {q.chunk : q \in splits} \cup {p.chunk}
      OBVIOUS
    <3>2. 1 .. n = 1 .. Have \cup {n}
      BY <1>1
    <3> QED
      BY <1>1, <2>1, <3>1, <3>2
  <2>4. Cardinality(1 .. n) = n
    BY <2>1, FS_Interval
  <2>5. Cardinality({q.chunk : q \in parts}) = n
    BY <2>2, <2>3, <2>4
  <2>6. CASE n = Chunks[p.msg]
    <3>1. delivered' = Append(delivered, p.msg) /\ splits' = splits \ parts
      BY <1>3, <2>5, <2>6 DEF Process
    <3>2. splits' = {}
      BY <2>2, <3>1
    <3>3. Have' = 0 /\ {q.chunk : q \in splits'} = {}
      BY <3>2, FS_EmptySet DEF Have
    <3>4. 1 .. 0 = {}
      OBVIOUS
    <3>5. delivered' = Append(delivered, Len(delivered) + 1)
      BY <2>1, <3>1
    <3>6. Len(delivered') = Len(delivered) + 1 /\ \A i \in DOMAIN delivered' : delivered'[i] = i
      BY <1>1, <3>5
    <3> QED
      BY <1>3, <2>1, <2>6, <3>2, <3>3, <3>4, <3>5, <3>6 DEF DeliversNext
  <2>7. CASE n # Chunks[p.msg]
    <3>1. splits' = splits \cup {p} /\ delivered' = delivered
      BY <1>3, <2>5, <2>7 DEF Process
    <3>2. Have' = n /\ {q.chunk : q \in splits'} = 1 .. Have'
      BY <2>3, <2>4, <3>1 DEF Have
    <3>3. \A q \in splits' : q.msg = Len(delivered') + 1
      BY <1>1, <2>1, <3>1
    <3> QED
      BY <1>1, <1>3, <2>1, <2>7, <3>1, <3>2, <3>3 DEF DeliversNext
  <2> QED
    BY <2>6, <2>7
<1> QED
  BY <1>2, <1>3

LEMMA HandOutOrder ==
  ASSUME NEW f, HalfTurn(f), NEW done \in 0 .. Len(Chunks), SafeInv, SentInv(f, done), ArrivedInv,
         NEW p \in Live \cup net, p.seq = nextIn,
         inbuf' = IF inbuf # <<>> /\ Head(inbuf).seq = p.seq THEN Tail(inbuf) ELSE inbuf,
         nextIn' = U16(nextIn + 1), Process(p),
         acks' \subseteq acks \cup {p.seq}, UNCHANGED <<sender, user, net>>
  PROVE  SentInv(f, done)' /\ ArrivedInv' /\ DeliversNext(done)
<1>1. /\ inbuf \in Seq(Packet) /\ nextIn \in SeqNums /\ Off(nextIn) \in Nat /\ Off(nextIn) < MaxWindow
      /\ InOrder(inbuf, nextIn) /\ acks \subseteq SeqNums /\ delivered \in Seq(Messages)
  BY OrderTyped DEF SafeInv, ReceiverInv
<1>2. inbuf' \in Seq(Packet) /\ ToSet(inbuf') = {q \in ToSet(inbuf) : q.seq # nextIn}
  BY <1>1, FrontTakenOut
<1>3. Off(nextIn') = Off(nextIn) + 1
  BY <1>1, OffRange
<1>4. UNCHANGED <<spc, cmd, taken, commands, speer, got, queued, sent, nextOut, pings>>
  BY DEF sender, user
<1>5. /\ IF p.msg = 0 THEN Len(delivered') = Len(delivered) /\ Have' = Have
         ELSE IF Have + 1 = Chunks[Len(delivered) + 1] THEN Len(delivered') = Len(delivered) + 1 /\ Have' = 0
         ELSE Len(delivered') = Len(delivered) /\ Have' = Have + 1
      /\ {q.chunk : q \in splits'} = 1 .. Have'
      /\ \A q \in splits' : q.msg = Len(delivered') + 1
      /\ \A i \in DOMAIN delivered' : delivered'[i] = i
      /\ DeliversNext(done)
  BY <1>1, ProcessCounts DEF SentInv
<1>6. \A q \in Live \cup net : q.seq \in SeqNums /\ Off(q.seq) \in Nat /\ (q.seq # nextIn => Off(q.seq) # Off(nextIn))
  <2> TAKE q \in Live \cup net
  <2>1. q.seq \in SeqNums /\ Off(q.seq) \in Nat
    BY OrderTyped
  <2> QED
    BY <1>1, <2>1, OffRange
<1>7. LedgerInv(done)'
  <2>1. Live' \subseteq Live /\ (Live \cup net)' = Live' \cup net
    BY <1>2, <1>4 DEF Live
  <2>2. ASSUME NEW q \in Live PROVE q \in Live' \/ Off(q.seq) < Off(nextIn) + 1
    <3>1. CASE q.seq = nextIn
      BY <1>1, <3>1
    <3>2. CASE q.seq # nextIn
      BY <1>2, <1>4, <3>2 DEF Live
    <3> QED
      BY <3>1, <3>2
  <2>3. Off(nextIn)' = Off(nextIn) + 1 /\ Base' = Base /\ Len(delivered)' = Len(delivered')
    BY <1>3, <1>4 DEF Off, Base
  <2>4. Ledger(Live \cup net, Live, Off(nextIn), Base, done, Len(delivered), Have)
    BY DEF SentInv, LedgerInv
  <2>5. Off(p.seq) = Off(nextIn)
    OBVIOUS
  <2> DEFINE whole2 == Len(delivered')
             have2 == Have'
  <2>6. IF p.msg = 0 THEN whole2 = Len(delivered) /\ have2 = Have
         ELSE IF Have + 1 = Chunks[Len(delivered) + 1] THEN whole2 = Len(delivered) + 1 /\ have2 = 0
         ELSE whole2 = Len(delivered) /\ have2 = Have + 1
    BY <1>5
  <2> HIDE DEF Base, Live, Have, whole2, have2
  <2>7. Ledger(Live \cup net, Live, Off(nextIn) + 1, Base, done, whole2, have2)
    BY <2>4, <2>5, <2>6, LedgerHandsOut
  <2>8. Ledger(Live' \cup net, Live', Off(nextIn) + 1, Base, done, whole2, have2)
    BY <2>1, <2>2, <2>7, LedgerShrinks
  <2> QED
    BY <2>1, <2>3, <2>8 DEF LedgerInv, whole2, have2
<1>8. ArrivedInv'
  <2>1. ASSUME NEW a \in acks' PROVE Off(a) < Off(nextIn') \/ a \in Numbers(inbuf')
    <3>1. CASE a = p.seq
      BY <1>1, <1>3, <3>1
    <3>2. CASE a \in acks /\ Off(a) < Off(nextIn)
      <4>1. Off(a) \in Nat
        BY <1>1, <3>2, OffRange
      <4> QED
        BY <1>1, <1>3, <3>2, <4>1
    <3>3. CASE a \in Numbers(inbuf) /\ a # nextIn
      <4>1. PICK q \in ToSet(inbuf) : q.seq = a
        BY <1>1, <3>3, ListSets
      <4> QED
        BY <1>2, <3>3, <4>1, ListSets
    <3> QED
      BY <3>1, <3>2, <3>3 DEF ArrivedInv
  <2>2. ASSUME NEW q \in ToSet(inbuf') PROVE Off(q.seq) >= Off(nextIn')
    <3>1. q \in ToSet(inbuf) /\ q.seq # nextIn
      BY <1>2
    <3>2. Off(q.seq) >= Off(nextIn) /\ Off(q.seq) # Off(nextIn) /\ Off(q.seq) \in Nat
      BY <1>6, <3>1 DEF ArrivedInv, Live
    <3> QED
      BY <1>1, <1>3, <3>2
  <2> QED
    BY <1>5, <2>1, <2>2 DEF ArrivedInv, Off
<1>9. NumberInv(f, done)'
  BY <1>4 DEF SentInv, NumberInv, Base, Off
<1> QED
  BY <1>4, <1>5, <1>7, <1>8, <1>9, SamePending DEF SentInv

LEMMA ReceiveOrder ==
  ASSUME NEW f, HalfTurn(f), NEW done \in 0 .. Len(Chunks), SafeInv, SentInv(f, done), ArrivedInv,
         NEW p \in net, Receive(p)
  PROVE  SentInv(f, done)' /\ ArrivedInv' /\ DeliversNext(done)
<1>1. UNCHANGED <<sender, user, net>> /\ acks' \subseteq acks \cup {p.seq}
  BY DEF Receive
<1>2. /\ p.seq \in SeqNums /\ p \in Packet /\ Off(p.seq) \in Nat /\ Off(p.seq) < MaxWindow
      /\ nextIn \in SeqNums /\ Off(nextIn) \in Nat /\ Off(nextIn) < MaxWindow
      /\ InOrder(inbuf, nextIn) /\ inbuf \in Seq(Packet) /\ acks \subseteq SeqNums
  <2>1. /\ p.seq \in SeqNums /\ p \in Packet /\ Off(p.seq) \in Nat /\ Off(p.seq) < Base
        /\ nextIn \in SeqNums /\ Off(nextIn) \in Nat /\ Off(nextIn) < MaxWindow
        /\ Base \in Nat /\ Base + Len(got) = Off(nextOut) /\ Len(got) \in Nat /\ Off(nextOut) < MaxWindow
    BY OrderTyped
  <2> QED
    BY <2>1, Limits DEF SafeInv, ReceiverInv
<1>3. /\ seqnum_in_window(p.seq, nextIn, MaxWindow) <=> Off(p.seq) >= Off(nextIn)
      /\ Off(p.seq) < Off(nextIn) => ~seqnum_higher(p.seq, nextIn) /\ seqnum_higher(nextIn, p.seq)
  BY <1>2, AcceptedIsNew
<1>4. UNCHANGED <<spc, cmd, taken, commands, speer, got, queued, sent, nextOut, pings>>
  BY <1>1 DEF sender, user
<1>5. NumberInv(f, done)' /\ PendingInv(done)'
  BY <1>4 DEF SentInv, NumberInv, PendingInv, Base, Off
<1>6. CASE Off(p.seq) < Off(nextIn)
  <2>1. UNCHANGED <<nextIn, inbuf, splits, delivered>>
    BY <1>2, <1>3, <1>6 DEF Receive
  <2>2. LedgerInv(done)'
    <3>1. Live' = Live /\ Base' = Base
      BY <1>4, <2>1 DEF Live, Base, Off
    <3> QED
      BY <1>1, <2>1, <3>1, QuietLedger DEF SentInv
  <2>3. ArrivedInv'
    BY <1>1, <1>6, <2>1 DEF ArrivedInv, Have, Off
  <2> QED
    BY <1>5, <2>1, <2>2, <2>3 DEF SentInv, DeliversNext
<1>7. CASE Off(p.seq) >= Off(nextIn) /\ p.seq = nextIn
  <2>1. /\ inbuf' = IF inbuf # <<>> /\ Head(inbuf).seq = p.seq THEN Tail(inbuf) ELSE inbuf
        /\ nextIn' = U16(nextIn + 1) /\ Process(p)
    BY <1>3, <1>7 DEF Receive
  <2> QED
    BY <1>1, <1>7, <2>1, HandOutOrder
<1>8. CASE Off(p.seq) >= Off(nextIn) /\ p.seq # nextIn
  <2>1. inbuf' = Insert(inbuf, p, nextIn) /\ UNCHANGED <<nextIn, splits, delivered>>
    BY <1>3, <1>8 DEF Receive
  <2>2. /\ inbuf' \in Seq(Packet)
        /\ ToSet(inbuf) \subseteq ToSet(inbuf') /\ ToSet(inbuf') \subseteq ToSet(inbuf) \cup {p}
        /\ p.seq \in Numbers(inbuf')
    BY <1>2, <1>3, <1>8, <2>1, InsertHolds
  <2>3. Ledger(Live \cup net, Live, Off(nextIn), Base, done, Len(delivered), Have)
    BY DEF SentInv, LedgerInv
  <2>4. Live \subseteq Live' /\ Live' \cup net = Live \cup net
    BY <1>4, <2>2 DEF Live
  <2>5. LedgerInv(done)'
    <3>1. Off(nextIn)' = Off(nextIn) /\ Len(delivered)' = Len(delivered) /\ Have' = Have /\ Base' = Base
      BY <1>4, <2>1 DEF Off, Have, Base
    <3>2. (Live \cup net)' = Live \cup net
      BY <1>1, <2>4
    <3> DEFINE live2 == Live'
    <3>3. Live \subseteq live2 /\ live2 \subseteq Live \cup net
      BY <2>4
    <3> HIDE DEF Base, Live, Have, live2
    <3>4. Ledger(Live \cup net, live2, Off(nextIn), Base, done, Len(delivered), Have)
      BY <2>3, <3>3 DEF Ledger, Waiting
    <3> QED
      BY <3>1, <3>2, <3>4 DEF LedgerInv, live2
  <2>6. ArrivedInv'
    <3>1. \A n \in Numbers(inbuf) : n \in Numbers(inbuf')
      BY <1>2, <2>2, ListSets
    <3>2. \A a \in acks' : Off(a) < Off(nextIn) \/ a \in Numbers(inbuf')
      BY <1>1, <2>2, <3>1 DEF ArrivedInv
    <3>3. \A q \in ToSet(inbuf') : Off(q.seq) >= Off(nextIn)
      BY <1>8, <2>2 DEF ArrivedInv
    <3> QED
      BY <2>1, <3>2, <3>3 DEF ArrivedInv, Have, Off
  <2> QED
    BY <1>5, <2>1, <2>5, <2>6 DEF SentInv, DeliversNext
<1> QED
  BY <1>2, <1>6, <1>7, <1>8

LEMMA CheckOrder ==
  ASSUME NEW f, HalfTurn(f), NEW done \in 0 .. Len(Chunks), SafeInv, SentInv(f, done), ArrivedInv,
         CheckIncomingBuffers
  PROVE  SentInv(f, done)' /\ ArrivedInv' /\ DeliversNext(done)
<1>1. UNCHANGED <<sender, user, net, acks>>
  BY DEF CheckIncomingBuffers
<1>2. inbuf \in Seq(Packet)
  BY OrderTyped
<1>3. CASE inbuf # <<>> /\ Head(inbuf).seq = nextIn
  <2>1. inbuf' = Tail(inbuf) /\ nextIn' = U16(nextIn + 1) /\ Process(Head(inbuf))
    BY <1>3 DEF CheckIncomingBuffers
  <2>2. Head(inbuf) \in Live \cup net
    BY <1>2, <1>3, HeadAndTail DEF Live
  <2> QED
    BY <1>1, <1>3, <2>1, <2>2, HandOutOrder
<1>4. CASE ~(inbuf # <<>> /\ Head(inbuf).seq = nextIn)
  <2>1. UNCHANGED <<nextIn, inbuf, splits, delivered>>
    BY <1>4 DEF CheckIncomingBuffers
  <2>2. UNCHANGED <<spc, cmd, taken, commands, speer, got, queued, sent, nextOut, pings>>
    BY <1>1 DEF sender, user
  <2>3. NumberInv(f, done)' /\ PendingInv(done)'
    BY <2>2 DEF SentInv, NumberInv, PendingInv, Base, Off
  <2>4. LedgerInv(done)'
    <3>1. Live' = Live /\ Base' = Base
      BY <2>1, <2>2 DEF Live, Base, Off
    <3> QED
      BY <1>1, <2>1, <3>1, QuietLedger DEF SentInv
  <2> QED
    BY <1>1, <2>1, <2>3, <2>4, SameArrived DEF SentInv, DeliversNext
<1> QED
  BY <1>3, <1>4

LEMMA OrderInit ==
  ASSUME NEW f, HalfTurn(f), Init
  PROVE  OrderInv(f) /\ delivered = <<>>
<1>1. /\ FirstSeqnum \in SeqNums /\ Off(FirstSeqnum) = 0 /\ Len(Chunks) \in Nat \ {0}
      /\ f[0] = 0 /\ 0 \in 0 .. Len(Chunks)
  BY MtpAssumption, OffRange DEF HalfTurn, PrefixSums
<1>2. /\ ToSet(inbuf) = {} /\ ToSet(sent) = {} /\ ToSet(queued) = {} /\ net = {} /\ acks = {}
      /\ Len(got) = 0 /\ DOMAIN got = {} /\ pings = 0 /\ nextOut = FirstSeqnum /\ nextIn = FirstSeqnum
      /\ splits = {} /\ delivered = <<>> /\ DOMAIN delivered = {} /\ Len(delivered) = 0
      /\ taken = 0 /\ spc = "timeouts" /\ commands = <<>> /\ Len(commands) = 0 /\ DOMAIN commands = {}
  BY DEF Init, ToSet
<1>3. Live = {} /\ Base = 0 /\ Have = 0 /\ {q.chunk : q \in splits} = {}
  <2>1. {q.chunk : q \in splits} = {} /\ Live = {}
    BY <1>2 DEF Live
  <2>2. Have = 0
    BY <2>1, FS_EmptySet DEF Have
  <2>3. Base = 0
    BY <1>1, <1>2 DEF Base
  <2> QED
    BY <2>1, <2>2, <2>3
<1>4. ArrivedInv
  <2>1. 1 .. 0 = {}
    OBVIOUS
  <2> QED
    BY <1>2, <1>3, <2>1 DEF ArrivedInv
<1>5. LedgerInv(0)
  <2>1. Ledger({}, {}, 0, 0, 0, 0, 0)
    BY <1>1 DEF Ledger, KnownTo, ReceivedUpTo, Waiting
  <2> QED
    BY <1>1, <1>2, <1>3, <2>1 DEF LedgerInv
<1>6. NumberInv(f, 0) /\ PendingInv(0)
  BY <1>1, <1>2 DEF NumberInv, PendingInv
<1> QED
  BY <1>1, <1>2, <1>4, <1>5, <1>6 DEF OrderInv, SentInv

LEMMA SafeInit == Init => SafeInv
BY PutBackInit, SenderInit, ReceiverInit DEF SafeInv

LEMMA SafeNext == SafeInv /\ [Next]_vars => SafeInv'
BY PutBackNext, SenderNext, ReceiverNext DEF SafeInv

\* Every step keeps the order, and hands out at most the next message.
LEMMA OrderNext ==
  ASSUME NEW f, HalfTurn(f), SafeInv, OrderInv(f), [Next]_vars
  PROVE  /\ OrderInv(f)'
         /\ \/ delivered' = delivered
            \/ /\ Len(delivered) < asked /\ delivered' = Append(delivered, Len(delivered) + 1)
               /\ UNCHANGED <<sender, user>>
<1>1. PICK done \in 0 .. Len(Chunks) : SentInv(f, done)
  BY DEF OrderInv
<1>2. ArrivedInv
  BY DEF OrderInv
<1>3. done <= asked
  <2>1. done <= taken /\ taken \in 0 .. asked /\ asked \in 0 .. Len(Chunks) /\ Len(Chunks) \in Nat
    BY <1>1, MtpAssumption DEF SentInv, PendingInv, SafeInv, PutBackInv, CommandsTyped
  <2> QED
    BY <2>1
<1>4. /\ Len(Chunks)' = Len(Chunks)
      /\ \A n \in 0 .. Len(Chunks) : SentInv(f, n)' /\ ArrivedInv' => OrderInv(f)'
  BY DEF OrderInv
<1>5. CASE \/ Send \/ PeerTimedOut \/ RunCommandQueues \/ TakeCommand \/ DisconnectPeer
           \/ NoMoreCommands \/ EndSending \/ ReceiverDeletesPeer \/ UNCHANGED vars
  <2>1. UNCHANGED <<acks, nextIn, inbuf, delivered, splits>>
    BY <1>5 DEF Send, PeerTimedOut, RunCommandQueues, TakeCommand, DisconnectPeer, NoMoreCommands,
       EndSending, ReceiverDeletesPeer, vars, receiver
  <2> QED
    BY <1>1, <1>2, <1>4, <1>5, <2>1, QuietSteps, SameArrived
<1>6. CASE TakeSeqnum \/ PutBack \/ QueuePackets \/ SendPacket
  <2>1. UNCHANGED <<acks, nextIn, inbuf, delivered, splits>>
    BY <1>6 DEF TakeSeqnum, PutBack, QueuePackets, SendPacket, receiver
  <2> QED
    BY <1>1, <1>2, <1>4, <1>6, <2>1, TakeSeqnumOrder, PutBackOrder, QueuePacketsOrder, SendPacketOrder,
       SameArrived
<1>7. ASSUME NEW resent \in SUBSET ToSet(sent), RunTimeouts(resent)
      PROVE  OrderInv(f)' /\ delivered' = delivered
  <2>1. UNCHANGED <<acks, nextIn, inbuf, delivered, splits>>
    BY <1>7 DEF RunTimeouts, receiver
  <2> QED
    BY <1>1, <1>2, <1>4, <1>7, <2>1, RunTimeoutsOrder, SameArrived
<1>8. ASSUME NEW seqnum \in acks, HandleAck(seqnum) PROVE OrderInv(f)' /\ delivered' = delivered
  <2>1. UNCHANGED <<acks, nextIn, inbuf, delivered, splits>>
    BY <1>8 DEF HandleAck, receiver
  <2> QED
    BY <1>1, <1>2, <1>4, <1>8, <2>1, HandleAckOrder, SameArrived
<1>9. ASSUME DeliversNext(done), UNCHANGED <<sender, user>>
      PROVE  \/ delivered' = delivered
             \/ /\ Len(delivered) < asked /\ delivered' = Append(delivered, Len(delivered) + 1)
                /\ UNCHANGED <<sender, user>>
  <2>1. Len(delivered) \in Nat /\ asked \in Nat /\ done \in Nat
    BY MtpAssumption DEF SafeInv, ReceiverInv, PutBackInv, CommandsTyped
  <2> QED
    BY <1>3, <1>9, <2>1 DEF DeliversNext
<1>10. ASSUME NEW p \in net, Receive(p)
       PROVE  OrderInv(f)' /\ DeliversNext(done) /\ UNCHANGED <<sender, user>>
  <2>1. UNCHANGED <<sender, user>>
    BY <1>10 DEF Receive
  <2> QED
    BY <1>1, <1>2, <1>4, <1>10, <2>1, ReceiveOrder
<1>11. CASE CheckIncomingBuffers
  <2>1. UNCHANGED <<sender, user>>
    BY <1>11 DEF CheckIncomingBuffers
  <2> QED
    BY <1>1, <1>2, <1>4, <1>9, <1>11, <2>1, CheckOrder
<1> QED
  BY <1>5, <1>6, <1>7, <1>8, <1>9, <1>10, <1>11 DEF Next, SendThread

LEMMA OffPlus ==
  ASSUME NEW n \in SeqNums, NEW d \in Nat, Off(n) + d < SeqSpace
  PROVE  U16(n + d) \in SeqNums /\ Off(U16(n + d)) = Off(n) + d
<1>1. FirstSeqnum \in SeqNums
  BY MtpAssumption
<1>2. Off(n) \in Nat
  BY OffRange
<1>3. U16(n + d) = IF n + d < SeqSpace THEN n + d ELSE n + d - SeqSpace
  BY <1>2, U16Cases DEF SeqNums
<1>4. U16(n + d) \in SeqNums
  BY <1>2, <1>3, U16Cases DEF SeqNums
<1>5. /\ Off(n) = IF FirstSeqnum <= n THEN n - FirstSeqnum ELSE n - FirstSeqnum + SeqSpace
      /\ Off(U16(n + d)) = IF FirstSeqnum <= U16(n + d) THEN U16(n + d) - FirstSeqnum
                                                      ELSE U16(n + d) - FirstSeqnum + SeqSpace
  BY <1>1, <1>4, DistanceCases DEF Off
<1> QED
  BY <1>1, <1>2, <1>3, <1>4, <1>5, U16Cases DEF SeqNums

\* No number between the next one expected and the next one given out is lost,
\* as long as all the messages' numbers stay within half a turn: whatever the
\* network drops, repeats or delays, a packet leaves the sender's buffers only
\* when the receiver has processed it or keeps it.
THEOREM NumbersAreKept ==
  ASSUME NEW CONSTANT f, HalfTurn(f)
  PROVE  Spec => []NothingForgotten
<1>1. ASSUME SafeInv, OrderInv(f) PROVE NothingForgotten
  <2> SUFFICES ASSUME NEW d \in 0 .. Distance(nextIn, nextOut) - 1
               PROVE  U16(nextIn + d) \in Numbers(inbuf) \cup Numbers(sent) \cup Numbers(queued) \cup Numbers(got)
    BY DEF NothingForgotten
  <2> DEFINE n == U16(nextIn + d)
  <2>1. PICK done \in 0 .. Len(Chunks) : SentInv(f, done)
    BY <1>1 DEF OrderInv
  <2>2. /\ got \in Seq(Packet) /\ queued \in Seq(Packet) /\ sent \in Seq(Packet) /\ inbuf \in Seq(Packet)
        /\ Len(got) \in Nat /\ nextOut \in SeqNums /\ nextIn \in SeqNums
        /\ Off(nextOut) \in Nat /\ Off(nextIn) \in Nat /\ Off(nextOut) < MaxWindow /\ Off(nextIn) < MaxWindow
        /\ Base \in Nat /\ Base + Len(got) = Off(nextOut) /\ Off(nextIn) <= Base
        /\ \A p \in Live \cup net : p \in Packet /\ p.seq \in SeqNums
    BY <1>1, <2>1, OrderTyped
  <2>3. Distance(nextIn, nextOut) = Off(nextOut) - Off(nextIn)
    BY <2>2, Apart
  <2>4. d \in Nat /\ Off(nextIn) + d < Off(nextOut) /\ Off(nextIn) + d < SeqSpace
    BY <2>2, <2>3, Limits
  <2>5. n \in SeqNums /\ Off(n) = Off(nextIn) + d
    BY <2>2, <2>4, OffPlus
  <2> HIDE DEF n
  <2>6. CASE Off(n) < Base
    <3>1. PICK p \in Live : Off(p.seq) = Off(n)
      <4>1. Waiting(Live, Off(nextIn), Base, done, Len(delivered), Have)
        BY <2>1 DEF SentInv, LedgerInv, Ledger
      <4>2. Off(n) \in Off(nextIn) .. Base - 1
        BY <2>2, <2>4, <2>5, <2>6
      <4> QED
        BY <2>6, <4>1, <4>2 DEF Waiting
    <3>2. p.seq = n
      BY <2>2, <2>5, <3>1, OffRange
    <3> QED
      BY <2>2, <3>1, <3>2, ListSets DEF Live, n
  <2>7. CASE Off(n) >= Base
    <3>1. Off(n) - Base + 1 \in DOMAIN got /\ Off(n) \in Nat
      BY <2>2, <2>4, <2>5, <2>7
    <3>2. Off(got[Off(n) - Base + 1].seq) = Base + (Off(n) - Base + 1) - 1
      BY <2>1, <3>1 DEF SentInv, NumberInv
    <3>3. Off(got[Off(n) - Base + 1].seq) = Off(n) /\ got[Off(n) - Base + 1].seq \in SeqNums
      BY <2>2, <3>1, <3>2, PacketNumbers
    <3>4. got[Off(n) - Base + 1].seq = n
      BY <2>5, <3>3, OffRange
    <3> QED
      BY <3>1, <3>4 DEF Numbers, n
  <2> QED
    BY <2>2, <2>4, <2>5, <2>6, <2>7
<1>2. Init => SafeInv /\ OrderInv(f)
  BY SafeInit, OrderInit
<1>3. SafeInv /\ OrderInv(f) /\ [Next]_vars => (SafeInv /\ OrderInv(f))'
  BY SafeNext, OrderNext
<1> QED
  BY <1>1, <1>2, <1>3, PTL DEF Spec

\* The channel implements FifoChannel, but for its fairness: the messages are
\* handed out in the order they were sent, each once and none left out, while all
\* their numbers stay within half a turn.
THEOREM ChannelIsFifo ==
  ASSUME NEW CONSTANT f, HalfTurn(f)
  PROVE  Spec => Fifo!Spec
<1>1. Init => SafeInv /\ OrderInv(f)
  BY SafeInit, OrderInit
<1>2. SafeInv /\ OrderInv(f) /\ [Next]_vars => (SafeInv /\ OrderInv(f))'
  BY SafeNext, OrderNext
<1>3. Init => Fifo!Init
  BY DEF Init, Fifo!Init
<1>4. ASSUME SafeInv, OrderInv(f), [Next]_vars PROVE [Fifo!Next]_(Fifo!vars)
  <2> DEFINE link == IF speer = "open" /\ rpeer = "open" THEN "up" ELSE "down"
  <2>1. \/ delivered' = delivered
        \/ /\ Len(delivered) < asked /\ delivered' = Append(delivered, Len(delivered) + 1)
           /\ UNCHANGED <<sender, user>>
    BY <1>4, OrderNext
  <2>2. CASE Send
    <3>1. UNCHANGED <<delivered, speer, rpeer>> /\ asked < Len(Chunks) /\ asked' = asked + 1
      BY <2>2 DEF Send, sender, receiver
    <3> QED
      BY <3>1 DEF Fifo!Next, Fifo!Send
  <2>3. CASE \/ RunCommandQueues \/ TakeCommand \/ NoMoreCommands \/ TakeSeqnum \/ QueuePackets \/ PutBack
             \/ SendPacket \/ (\E resent \in SUBSET ToSet(sent) : RunTimeouts(resent))
             \/ (\E seqnum \in acks : HandleAck(seqnum)) \/ UNCHANGED vars
    <3>1. UNCHANGED <<asked, delivered, speer, rpeer>>
      BY <2>3 DEF RunCommandQueues, TakeCommand, NoMoreCommands, TakeSeqnum, QueuePackets, PutBack,
         SendPacket, RunTimeouts, HandleAck, vars, sender, receiver, user
    <3> QED
      BY <3>1 DEF Fifo!vars
  <2>4. CASE PeerTimedOut \/ DisconnectPeer \/ EndSending \/ ReceiverDeletesPeer
    <3>1. UNCHANGED <<asked, delivered>>
      BY <2>4 DEF PeerTimedOut, DisconnectPeer, EndSending, ReceiverDeletesPeer, receiver, user
    <3>2. UNCHANGED <<speer, rpeer>> \/ ~(speer' = "open" /\ rpeer' = "open")
      <4>1. CASE PeerTimedOut
        BY <4>1 DEF PeerTimedOut
      <4>2. CASE DisconnectPeer
        BY <4>2 DEF DisconnectPeer
      <4>3. CASE EndSending
        <5>1. speer # "closing" => UNCHANGED speer
          BY <4>3 DEF EndSending
        <5>2. speer = "closing" => speer' \in {"closing", "gone"}
          BY <4>3 DEF EndSending
        <5>3. UNCHANGED rpeer
          BY <4>3 DEF EndSending, receiver
        <5> QED
          BY <5>1, <5>2, <5>3
      <4>4. CASE ReceiverDeletesPeer
        BY <4>4 DEF ReceiverDeletesPeer
      <4> QED
        BY <2>4, <4>1, <4>2, <4>3, <4>4
    <3> QED
      BY <3>1, <3>2 DEF Fifo!Next, Fifo!Drop, Fifo!vars
  <2>5. CASE CheckIncomingBuffers \/ (\E p \in net : Receive(p))
    <3>1. UNCHANGED <<asked, speer, rpeer>>
      BY <2>5 DEF CheckIncomingBuffers, Receive, sender, user
    <3> QED
      BY <2>1, <3>1 DEF Fifo!Next, Fifo!Deliver, Fifo!vars
  <2> QED
    BY <1>4, <2>2, <2>3, <2>4, <2>5 DEF Next, SendThread
<1> QED
  BY <1>1, <1>2, <1>3, <1>4, PTL DEF Spec, Fifo!Spec
=============================================================================
