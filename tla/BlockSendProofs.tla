---------------------------- MODULE BlockSendProofs ----------------------------
(***************************************************************************)
(* Proofs about BlockSend, for any map, any limits and any number of       *)
(* changes: what the server counts as sent the client holds, and holds in  *)
(* its newest version unless a block and a change of its node were under   *)
(* way on their two channels at the same time.                             *)
(***************************************************************************)
EXTENDS BlockSend, FiniteSetTheorems, WellFoundedInduction, TLAPS

Deleted(b) == [pos |-> b, deleted |-> TRUE]
LetGo(b) == \E i \in DOMAIN notices : notices[i] = Deleted(b)

Mentions(messages, b) == \E i \in DOMAIN messages : messages[i].pos = b

\* The last message about the block, if there is one, is of this version.
LastIs(messages, b, v) ==
  \A i \in DOMAIN messages :
    messages[i].pos = b /\ (\A j \in DOMAIN messages : j > i => messages[j].pos # b)
      => messages[i].ver = v

\* Every change is one of the bounded number of edits and digs.
ChangesCounted ==
  /\ changes \in 0 .. MaxChanges
  /\ \A b \in Blocks : version[b] + Len(digs) <= changes

\* A block the mesh threads use is not dropped.
UsedIsHeld == \A b \in Blocks : unacked[b] > 0 => copy[b] # NoBlock

\* An acknowledgement of a block that was dropped since has its DELETEDBLOCKS
\* behind it in the channel.
AckBeforeDelete ==
  \A i \in DOMAIN notices :
    ~notices[i].deleted /\ copy[notices[i].pos] = NoBlock =>
      \E j \in DOMAIN notices : j > i /\ notices[j] = Deleted(notices[i].pos)

\* A block on its way is in the channel, in the client, or dropped again.
SendingArrives ==
  \A b \in sending : copy[b] = NoBlock => LetGo(b) \/ Mentions(blockData, b)

\* The queue of edits ends with the present state of each block in it.
EditsEndNow == \A b \in Blocks : LastIs(edits, b, version[b])

\* The two channels tell the client of different versions only of the blocks
\* in "raced".
ChannelsAgree ==
  \A i \in DOMAIN blockData, j \in DOMAIN nodeChanges :
    blockData[i].pos = nodeChanges[j].pos /\ blockData[i].pos \notin raced =>
      blockData[i].ver = nodeChanges[j].ver

\* Nothing the server has still to learn or to pass on concerns the block.
Settled(b) == ~Mentions(edits, b) /\ ~LetGo(b) /\ \A i \in DOMAIN digs : digs[i] # b

\* Each channel that mentions the block ends with its newest version, and when
\* neither does the client has it.
Arriving(b) ==
  /\ LastIs(blockData, b, version[b])
  /\ LastIs(nodeChanges, b, version[b])
  /\ Mentions(blockData, b) \/ Mentions(nodeChanges, b) \/ copy[b] = version[b]

KnownIsArriving == \A b \in (sending \cup sent) \ raced : Settled(b) => Arriving(b)

IInv ==
  /\ TypeOK /\ ChangesCounted
  /\ UsedIsHeld /\ AckBeforeDelete /\ SendingArrives /\ SentIsHeld
  /\ EditsEndNow /\ ChannelsAgree /\ KnownIsArriving

-----------------------------------------------------------------------------
(* Sequences of messages.                                                   *)

LEMMA AppendElements ==
  ASSUME NEW S, NEW s \in Seq(S), NEW e \in S
  PROVE  /\ Append(s, e) \in Seq(S)
         /\ DOMAIN s = 1 .. Len(s) /\ Len(s) \in Nat
         /\ DOMAIN Append(s, e) = 1 .. Len(s) + 1
         /\ \A i \in 1 .. Len(s) : Append(s, e)[i] = s[i]
         /\ Append(s, e)[Len(s) + 1] = e
OBVIOUS

LEMMA TailElements ==
  ASSUME NEW S, NEW s \in Seq(S), s # <<>>
  PROVE  /\ Tail(s) \in Seq(S) /\ Head(s) \in S /\ Head(s) = s[1]
         /\ DOMAIN s = 1 .. Len(s) /\ Len(s) \in Nat \ {0}
         /\ DOMAIN Tail(s) = 1 .. Len(s) - 1
         /\ \A i \in 1 .. Len(s) - 1 : Tail(s)[i] = s[i + 1]
OBVIOUS

LEMMA ConcatElements ==
  ASSUME NEW S, NEW s \in Seq(S), NEW t \in Seq(S)
  PROVE  /\ s \o t \in Seq(S)
         /\ DOMAIN s = 1 .. Len(s) /\ Len(s) \in Nat
         /\ DOMAIN t = 1 .. Len(t) /\ Len(t) \in Nat
         /\ DOMAIN (s \o t) = 1 .. Len(s) + Len(t)
         /\ \A i \in 1 .. Len(s) : (s \o t)[i] = s[i]
         /\ \A i \in 1 .. Len(t) : (s \o t)[Len(s) + i] = t[i]
OBVIOUS

LEMMA IndexedIsSeq ==
  ASSUME NEW S, NEW n \in Nat, NEW f \in [1 .. n -> S]
  PROVE  f \in Seq(S)
OBVIOUS

LEMMA NoneIsLast ==
  ASSUME NEW s, NEW b, NEW v, ~Mentions(s, b)
  PROVE  LastIs(s, b, v)
BY DEF Mentions, LastIs

\* What a message put at the end does, ...
LEMMA AppendMentions ==
  ASSUME NEW S, NEW s \in Seq(S), NEW e \in S, NEW b, NEW v
  PROVE  /\ Mentions(Append(s, e), b) <=> Mentions(s, b) \/ e.pos = b
         /\ e.pos = b /\ e.ver = v => LastIs(Append(s, e), b, v)
         /\ e.pos # b /\ LastIs(s, b, v) => LastIs(Append(s, e), b, v)
<1> DEFINE t == Append(s, e)
<1>1. /\ DOMAIN s = 1 .. Len(s) /\ Len(s) \in Nat
      /\ DOMAIN t = 1 .. Len(s) + 1
      /\ \A i \in 1 .. Len(s) : t[i] = s[i]
      /\ t[Len(s) + 1] = e
  BY AppendElements
<1> HIDE DEF t
<1>2. Mentions(t, b) <=> Mentions(s, b) \/ e.pos = b
  BY <1>1 DEF Mentions
<1>3. ASSUME e.pos = b, e.ver = v PROVE LastIs(t, b, v)
  BY <1>1, <1>3 DEF LastIs
<1>4. ASSUME e.pos # b, LastIs(s, b, v) PROVE LastIs(t, b, v)
  <2> SUFFICES ASSUME NEW i \in DOMAIN t, t[i].pos = b,
                      \A j \in DOMAIN t : j > i => t[j].pos # b
               PROVE  t[i].ver = v
    BY DEF LastIs
  <2>1. i \in DOMAIN s /\ s[i].pos = b
    BY <1>1, <1>4
  <2>2. \A j \in DOMAIN s : j > i => s[j].pos # b
    BY <1>1
  <2>3. QED
    BY <1>1, <1>4, <2>1, <2>2 DEF LastIs
<1>5. QED
  BY <1>2, <1>3, <1>4 DEF t

\* ... and the loss of the first.
LEMMA TailMentions ==
  ASSUME NEW S, NEW s \in Seq(S), s # <<>>, NEW b, NEW v
  PROVE  /\ Mentions(s, b) <=> Mentions(Tail(s), b) \/ Head(s).pos = b
         /\ LastIs(s, b, v) => LastIs(Tail(s), b, v)
         /\ LastIs(s, b, v) /\ Head(s).pos = b /\ ~Mentions(Tail(s), b) => Head(s).ver = v
<1> DEFINE t == Tail(s)
<1>1. /\ Head(s) = s[1] /\ DOMAIN s = 1 .. Len(s) /\ Len(s) \in Nat \ {0}
      /\ DOMAIN t = 1 .. Len(s) - 1
      /\ \A i \in 1 .. Len(s) - 1 : t[i] = s[i + 1]
  BY TailElements
<1> HIDE DEF t
<1>2. \A i \in DOMAIN s : i = 1 \/ (i - 1 \in DOMAIN t /\ t[i - 1] = s[i])
  BY <1>1
<1>3. \A i \in DOMAIN t : i + 1 \in DOMAIN s /\ t[i] = s[i + 1]
  BY <1>1
<1>4. Mentions(s, b) <=> Mentions(t, b) \/ Head(s).pos = b
  BY <1>1, <1>2, <1>3 DEF Mentions
<1>5. ASSUME LastIs(s, b, v) PROVE LastIs(t, b, v)
  <2> SUFFICES ASSUME NEW i \in DOMAIN t, t[i].pos = b,
                      \A j \in DOMAIN t : j > i => t[j].pos # b
               PROVE  t[i].ver = v
    BY DEF LastIs
  <2>1. i + 1 \in DOMAIN s /\ s[i + 1].pos = b /\ s[i + 1] = t[i]
    BY <1>3
  <2>2. \A j \in DOMAIN s : j > i + 1 => s[j].pos # b
    BY <1>1, <1>2
  <2>3. QED
    BY <1>5, <2>1, <2>2 DEF LastIs
<1>6. ASSUME LastIs(s, b, v), Head(s).pos = b, ~Mentions(t, b) PROVE Head(s).ver = v
  <2>1. 1 \in DOMAIN s /\ s[1].pos = b
    BY <1>1, <1>6
  <2>2. \A j \in DOMAIN s : j > 1 => s[j].pos # b
    BY <1>1, <1>2, <1>6 DEF Mentions
  <2>3. QED
    BY <1>1, <1>6, <2>1, <2>2 DEF LastIs
<1>7. QED
  BY <1>4, <1>5, <1>6 DEF t

LEMMA ConcatMentions ==
  ASSUME NEW S, NEW s \in Seq(S), NEW t \in Seq(S), NEW b, NEW v
  PROVE  /\ Mentions(s \o t, b) <=> Mentions(s, b) \/ Mentions(t, b)
         /\ LastIs(s, b, v) /\ ~Mentions(t, b) => LastIs(s \o t, b, v)
         /\ Mentions(t, b) /\ (\A i \in DOMAIN t : t[i].pos = b => t[i].ver = v)
              => LastIs(s \o t, b, v)
<1> DEFINE u == s \o t
<1>1. /\ DOMAIN s = 1 .. Len(s) /\ Len(s) \in Nat
      /\ DOMAIN t = 1 .. Len(t) /\ Len(t) \in Nat
      /\ DOMAIN u = 1 .. Len(s) + Len(t)
      /\ \A i \in 1 .. Len(s) : u[i] = s[i]
      /\ \A i \in 1 .. Len(t) : u[Len(s) + i] = t[i]
  BY ConcatElements
<1> HIDE DEF u
<1>2. \A i \in DOMAIN u : \/ i \in DOMAIN s /\ u[i] = s[i]
                          \/ i - Len(s) \in DOMAIN t /\ u[i] = t[i - Len(s)]
  <2> SUFFICES ASSUME NEW i \in DOMAIN u, i > Len(s)
               PROVE  i - Len(s) \in DOMAIN t /\ u[i] = t[i - Len(s)]
    BY <1>1
  <2>1. i - Len(s) \in 1 .. Len(t) /\ Len(s) + (i - Len(s)) = i
    BY <1>1
  <2>2. QED
    BY <1>1, <2>1
<1>3. /\ \A i \in DOMAIN s : i \in DOMAIN u /\ u[i] = s[i]
      /\ \A i \in DOMAIN t : Len(s) + i \in DOMAIN u /\ u[Len(s) + i] = t[i]
  BY <1>1
<1>4. Mentions(u, b) <=> Mentions(s, b) \/ Mentions(t, b)
  BY <1>2, <1>3 DEF Mentions
<1>5. ASSUME LastIs(s, b, v), ~Mentions(t, b) PROVE LastIs(u, b, v)
  <2> SUFFICES ASSUME NEW i \in DOMAIN u, u[i].pos = b,
                      \A j \in DOMAIN u : j > i => u[j].pos # b
               PROVE  u[i].ver = v
    BY DEF LastIs
  <2>1. i \in DOMAIN s /\ u[i] = s[i]
    BY <1>2, <1>5 DEF Mentions
  <2>2. \A j \in DOMAIN s : j > i => s[j].pos # b
    BY <1>3
  <2>3. QED
    BY <1>5, <2>1, <2>2 DEF LastIs
<1>6. ASSUME Mentions(t, b), \A i \in DOMAIN t : t[i].pos = b => t[i].ver = v
      PROVE  LastIs(u, b, v)
  <2> SUFFICES ASSUME NEW i \in DOMAIN u, u[i].pos = b,
                      \A j \in DOMAIN u : j > i => u[j].pos # b
               PROVE  u[i].ver = v
    BY DEF LastIs
  <2>1. PICK k \in DOMAIN t : t[k].pos = b
    BY <1>6 DEF Mentions
  <2>2. ~(Len(s) + k > i)
    BY <1>3, <2>1
  <2>3. i \notin DOMAIN s
    BY <1>1, <2>1, <2>2
  <2>4. QED
    BY <1>2, <1>6, <2>3
<1>7. QED
  BY <1>4, <1>5, <1>6 DEF u

-----------------------------------------------------------------------------
(* The scan of GetNextBlocks.                                               *)

LEMMA MinOfNaturals ==
  ASSUME NEW S \in SUBSET Nat, S # {}
  PROVE  Min(S) \in S /\ \A x \in S : Min(S) <= x
<1>1. PICK x \in S : \A y \in S : ~(<<y, x>> \in OpToRel(<, Nat))
  BY NatLessThanWellFounded, WFMin
<1>2. ASSUME NEW y \in S PROVE x <= y
  <2>1. <<y, x>> \notin OpToRel(<, Nat)
    BY <1>1
  <2>2. <<y, x>> \in Nat \X Nat
    OBVIOUS
  <2>3. ~(<<y, x>>[1] < <<y, x>>[2])
    BY <2>1, <2>2 DEF OpToRel
  <2>4. QED
    BY <2>3
<1>3. QED
  BY <1>1, <1>2 DEF Min

\* Wherever it starts, the scan stays in reach and so does the next one's start.
LEMMA ScanInReach ==
  ASSUME nearest \in Blocks
  PROVE  /\ Scanned \subseteq Blocks
         /\ Chosen \subseteq Blocks \ (sending \cup sent)
         /\ Wanted \subseteq Blocks
         /\ IsFiniteSet(Chosen)
         /\ NextNearest \in Blocks
<1> USE BlockSendAssumption
<1> DEFINE last == Min({FarDistance, nearest + Increment})
<1>1. last \in Nat /\ last <= FarDistance
  <2>1. {FarDistance, nearest + Increment} \in SUBSET Nat
    BY DEF Blocks
  <2>2. QED
    BY <2>1, MinOfNaturals
<1>2. Scanned \subseteq Blocks
  BY <1>1 DEF Scanned, Blocks
<1>3. /\ Chosen \subseteq Blocks \ (sending \cup sent)
      /\ Wanted \subseteq Blocks
  BY <1>2 DEF Chosen, Wanted, Unsent
<1>4. IsFiniteSet(Chosen)
  <2>1. IsFiniteSet(Blocks)
    BY FS_Interval DEF Blocks
  <2>2. QED
    BY <1>3, <2>1, FS_Subset
<1>5. End \in Nat
  <2>1. Breaks \cup {last + 1} \in SUBSET Nat
    <3>1. Breaks \subseteq Blocks
      BY <1>2 DEF Breaks
    <3>2. Breaks \subseteq Nat /\ last + 1 \in Nat
      BY <1>1, <3>1 DEF Blocks
    <3>3. QED
      BY <3>2
  <2>2. QED
    BY <2>1, MinOfNaturals DEF End
<1>6. NextNearest \in Blocks
  <2>1. CASE Wanted # {}
    <3>1. Wanted \in SUBSET Nat
      BY <1>3 DEF Blocks
    <3>2. Min(Wanted) \in Wanted
      BY <2>1, <3>1, MinOfNaturals
    <3>3. QED
      BY <1>3, <2>1, <3>2 DEF NextNearest
  <2>2. CASE Wanted = {} /\ End > FarDistance
    BY <2>2 DEF NextNearest, Blocks
  <2>3. CASE Wanted = {} /\ End <= FarDistance /\ Chosen # {}
    <3>1. Min(Chosen) \in Chosen
      BY <1>3, <2>3, MinOfNaturals DEF Blocks
    <3>2. QED
      BY <1>3, <1>5, <2>3, <3>1 DEF NextNearest
  <2>4. CASE Wanted = {} /\ End <= FarDistance /\ Chosen = {}
    BY <1>5, <2>4 DEF NextNearest, Blocks
  <2>5. QED
    BY <1>5, <2>1, <2>2, <2>3, <2>4
<1>7. QED
  BY <1>2, <1>3, <1>4, <1>6

-----------------------------------------------------------------------------
(* The invariant.                                                           *)

LEMMA AppendHas ==
  ASSUME NEW S, NEW s \in Seq(S), NEW e \in S, NEW x
  PROVE  (\E i \in DOMAIN Append(s, e) : Append(s, e)[i] = x)
           <=> (\E i \in DOMAIN s : s[i] = x) \/ e = x
<1> DEFINE t == Append(s, e)
<1>1. /\ DOMAIN s = 1 .. Len(s) /\ Len(s) \in Nat /\ DOMAIN t = 1 .. Len(s) + 1
      /\ \A i \in 1 .. Len(s) : t[i] = s[i]
      /\ t[Len(s) + 1] = e
  BY AppendElements
<1> HIDE DEF t
<1>2. (\E i \in DOMAIN t : t[i] = x) <=> (\E i \in DOMAIN s : s[i] = x) \/ e = x
  BY <1>1
<1>3. QED
  BY <1>2 DEF t

LEMMA TailHas ==
  ASSUME NEW S, NEW s \in Seq(S), s # <<>>, NEW x
  PROVE  (\E i \in DOMAIN s : s[i] = x)
           <=> (\E i \in DOMAIN Tail(s) : Tail(s)[i] = x) \/ Head(s) = x
<1> DEFINE t == Tail(s)
<1>1. /\ Head(s) = s[1] /\ DOMAIN s = 1 .. Len(s) /\ Len(s) \in Nat \ {0}
      /\ DOMAIN t = 1 .. Len(s) - 1
      /\ \A i \in 1 .. Len(s) - 1 : t[i] = s[i + 1]
  BY TailElements
<1> HIDE DEF t
<1>2. \A i \in DOMAIN s : i = 1 \/ (i - 1 \in DOMAIN t /\ t[i - 1] = s[i])
  BY <1>1
<1>3. \A i \in DOMAIN t : i + 1 \in DOMAIN s /\ t[i] = s[i + 1]
  BY <1>1
<1>4. (\E i \in DOMAIN s : s[i] = x) <=> (\E i \in DOMAIN t : t[i] = x) \/ Head(s) = x
  BY <1>1, <1>2, <1>3
<1>5. QED
  BY <1>4 DEF t

LEMMA NoticesNameBlocks ==
  ASSUME TypeOK
  PROVE  \A i \in DOMAIN notices : notices[i].pos \in Blocks
<1> DEFINE Notice == [pos : Blocks, deleted : BOOLEAN]
<1>1. notices \in Seq(Notice)
  BY DEF TypeOK
<1>2. \A i \in DOMAIN notices : notices[i] \in Notice
  <2> HIDE DEF Notice
  <2>1. QED
    BY <1>1
<1>3. QED
  BY <1>2

LEMMA SetBlockNotSentEffect ==
  ASSUME TypeOK, NEW b \in Blocks, NEW low \in BOOLEAN, SetBlockNotSent(b, low)
  PROVE  /\ sending' = sending \ {b} /\ sent' = sent \ {b}
         /\ nearest' \in Blocks /\ paused' \in BOOLEAN
<1>1. Min({nearest, b}) \in Blocks
  <2>1. {nearest, b} \in SUBSET Nat
    BY BlockSendAssumption DEF TypeOK, Blocks
  <2>2. Min({nearest, b}) \in {nearest, b}
    BY <2>1, MinOfNaturals
  <2>3. QED
    BY <2>2 DEF TypeOK
<1>2. QED
  BY <1>1 DEF SetBlockNotSent, TypeOK

LEMMA InitIInv == Init => IInv
<1> SUFFICES ASSUME Init PROVE IInv
  OBVIOUS
<1> USE BlockSendAssumption DEF Init
<1>1. TypeOK
  <2>1. 0 \in Blocks /\ 0 \in Versions
    BY DEF Blocks, Versions
  <2>2. /\ version \in [Blocks -> Versions] /\ copy \in [Blocks -> Versions \cup {NoBlock, Guess}]
        /\ unacked \in [Blocks -> Nat]
    BY <2>1
  <2>3. /\ loaded \subseteq Blocks /\ generated \subseteq loaded /\ air \subseteq Far
        /\ emerging \subseteq Blocks
    OBVIOUS
  <2>4. QED
    BY <2>1, <2>2, <2>3 DEF TypeOK
<1>2. ChangesCounted /\ UsedIsHeld /\ AckBeforeDelete /\ SendingArrives /\ SentIsHeld
  BY DEF ChangesCounted, UsedIsHeld, AckBeforeDelete, SendingArrives, SentIsHeld
<1>3. EditsEndNow /\ ChannelsAgree /\ KnownIsArriving
  BY DEF EditsEndNow, LastIs, ChannelsAgree, KnownIsArriving
<1>4. QED
  BY <1>1, <1>2, <1>3 DEF IInv

\* Steps that neither send, receive nor change anything.
LEMMA OthersKeep ==
  ASSUME IInv, TypeOK', UNCHANGED <<version, edits, sending, sent, wire, client, raced, changes>>
  PROVE  IInv'
<1> USE DEF IInv, wire, client
<1>1. ChangesCounted' /\ UsedIsHeld' /\ AckBeforeDelete'
  BY DEF ChangesCounted, UsedIsHeld, AckBeforeDelete
<1>2. SendingArrives' /\ SentIsHeld'
  BY DEF SendingArrives, SentIsHeld, LetGo, Mentions
<1>3. EditsEndNow' /\ ChannelsAgree'
  BY DEF EditsEndNow, ChannelsAgree, LastIs
<1>4. KnownIsArriving'
  BY DEF KnownIsArriving, Settled, Arriving, LetGo, Mentions, LastIs
<1>5. QED
  BY <1>1, <1>2, <1>3, <1>4

\* The scan sends the newest version of each block it chooses.
LEMMA SendBlocksKeeps ==
  ASSUME IInv, SendBlocks
  PROVE  IInv'
<1> USE DEF IInv
<1>1. CASE paused \/ Cardinality(sending) >= MaxSends
  <2>1. /\ UNCHANGED <<version, edits, sending, sent, wire, client, raced, changes>>
        /\ UNCHANGED <<loaded, generated, air, emerging, nearest, paused>> /\ phase' = "step"
    BY <1>1 DEF SendBlocks, remote, wire, bounds
  <2>2. TypeOK'
    BY <2>1 DEF TypeOK, wire, client
  <2>3. QED
    BY <2>1, <2>2, OthersKeep
<1>2. CASE ~(paused \/ Cardinality(sending) >= MaxSends)
  <2> DEFINE Message == [pos : Blocks, ver : Versions]
  <2>1. /\ Chosen \subseteq Blocks \ (sending \cup sent)
        /\ Wanted \subseteq Blocks /\ Cardinality(Chosen) \in Nat /\ NextNearest \in Blocks
    BY ScanInReach, FS_CardinalityType DEF TypeOK
  <2>2. PICK order \in Bijection(1 .. Cardinality(Chosen), Chosen) :
          blockData' = blockData \o
            [i \in DOMAIN order |-> [pos |-> order[i], ver |-> version[order[i]]]]
    BY <1>2 DEF SendBlocks
  <2> DEFINE fresh == [i \in DOMAIN order |-> [pos |-> order[i], ver |-> version[order[i]]]]
  <2>3. /\ order \in [1 .. Cardinality(Chosen) -> Chosen]
        /\ \A b \in Chosen : \E i \in 1 .. Cardinality(Chosen) : order[i] = b
    BY DEF Bijection, Injection, Surjection
  <2>4. /\ fresh \in Seq(Message) /\ blockData \in Seq(Message) /\ nodeChanges \in Seq(Message)
        /\ blockData' = blockData \o fresh
    <3>1. \A i \in 1 .. Cardinality(Chosen) : order[i] \in Blocks /\ version[order[i]] \in Versions
      BY <2>1, <2>3 DEF TypeOK
    <3>2. fresh \in [1 .. Cardinality(Chosen) -> Message]
      BY <2>3, <3>1
    <3>3. fresh \in Seq(Message)
      BY <2>1, <3>2, IndexedIsSeq
    <3>4. QED
      BY <2>2, <3>3 DEF TypeOK
  <2>5. /\ \A b : Mentions(fresh, b) <=> b \in Chosen
        /\ \A i \in DOMAIN fresh : fresh[i].ver = version[fresh[i].pos] /\ fresh[i].pos \in Chosen
    BY <2>3 DEF Mentions
  <2> HIDE DEF Message, fresh
  <2>6. /\ \A b \in Blocks : Mentions(blockData', b) <=> Mentions(blockData, b) \/ b \in Chosen
        /\ \A b \in Chosen : LastIs(blockData', b, version[b])
        /\ \A b, v : LastIs(blockData, b, v) /\ b \notin Chosen => LastIs(blockData', b, v)
    BY <2>4, <2>5, ConcatMentions
  <2>7. /\ sending' = sending \cup Chosen /\ raced \subseteq raced'
        /\ \A b \in Chosen \ raced' : ~Stale(nodeChanges, b)
        /\ raced' \subseteq raced \cup Chosen
        /\ UNCHANGED <<version, loaded, generated, air, edits, nodeChanges, notices, digs, sent, client, bounds>>
    BY <1>2 DEF SendBlocks
  <2>8. TypeOK'
    <3>1. blockData' \in Seq([pos : Blocks, ver : Versions])
      BY <2>4, ConcatElements DEF Message
    <3>2. emerging' \subseteq Blocks /\ nearest' \in Blocks /\ paused' \in BOOLEAN /\ phase' = "step"
      BY <1>2, <2>1 DEF SendBlocks, TypeOK
    <3>3. QED
      BY <2>1, <2>7, <3>1, <3>2 DEF TypeOK, client
  <2>9. ChangesCounted' /\ UsedIsHeld' /\ AckBeforeDelete' /\ SentIsHeld' /\ EditsEndNow'
    BY <2>7 DEF client, bounds, ChangesCounted, UsedIsHeld, AckBeforeDelete, SentIsHeld,
                EditsEndNow, LastIs
  <2>10. SendingArrives'
    BY <2>1, <2>6, <2>7 DEF client, SendingArrives, LetGo, TypeOK
  <2>11. ChannelsAgree'
    <3> SUFFICES ASSUME NEW i \in DOMAIN blockData', NEW j \in DOMAIN nodeChanges,
                        blockData'[i].pos = nodeChanges[j].pos, blockData'[i].pos \notin raced'
                 PROVE  blockData'[i].ver = nodeChanges[j].ver
      BY <2>7 DEF ChannelsAgree
    <3>1. \/ i \in DOMAIN blockData /\ blockData'[i] = blockData[i]
          \/ \E k \in DOMAIN fresh : blockData'[i] = fresh[k]
      <4>1. /\ DOMAIN blockData = 1 .. Len(blockData) /\ Len(blockData) \in Nat
            /\ DOMAIN fresh = 1 .. Len(fresh) /\ Len(fresh) \in Nat
            /\ DOMAIN blockData' = 1 .. Len(blockData) + Len(fresh)
            /\ \A k \in 1 .. Len(blockData) : blockData'[k] = blockData[k]
            /\ \A k \in 1 .. Len(fresh) : blockData'[Len(blockData) + k] = fresh[k]
        BY <2>4, ConcatElements
      <4>2. CASE i > Len(blockData)
        <5>1. /\ i - Len(blockData) \in 1 .. Len(fresh)
              /\ Len(blockData) + (i - Len(blockData)) = i
          BY <4>1, <4>2
        <5>2. QED
          BY <4>1, <5>1
      <4>3. QED
        BY <4>1, <4>2
    <3>2. CASE i \in DOMAIN blockData /\ blockData'[i] = blockData[i]
      BY <2>7, <3>2 DEF ChannelsAgree
    <3>3. CASE \E k \in DOMAIN fresh : blockData'[i] = fresh[k]
      BY <2>5, <2>7, <3>3 DEF Stale
    <3>4. QED
      BY <3>1, <3>2, <3>3
  <2>12. KnownIsArriving'
    <3> SUFFICES ASSUME NEW b \in (sending' \cup sent') \ raced', Settled(b)'
                 PROVE  Arriving(b)'
      BY DEF KnownIsArriving
    <3>1. CASE b \in Chosen
      <4>1. LastIs(nodeChanges, b, version[b])
        BY <2>7, <3>1 DEF Stale, LastIs
      <4>2. QED
        BY <2>1, <2>6, <2>7, <3>1, <4>1 DEF Arriving
    <3>2. CASE b \notin Chosen
      <4>1. Arriving(b) /\ b \in Blocks
        BY <2>7, <3>2 DEF KnownIsArriving, Settled, Mentions, LetGo, TypeOK
      <4>2. QED
        BY <2>6, <2>7, <3>2, <4>1 DEF Arriving, client
    <3>3. QED
      BY <3>1, <3>2
  <2>13. QED
    BY <2>8, <2>9, <2>10, <2>11, <2>12
<1>3. QED
  BY <1>1, <1>2

\* An event of the map edit queue is passed on as it is, or with the whole block.
LEMMA SendMapEditsKeeps ==
  ASSUME IInv, SendMapEdits
  PROVE  IInv'
<1> USE DEF IInv
<1>1. CASE edits = <<>>
  <2>1. /\ UNCHANGED <<version, edits, sending, sent, wire, client, raced, changes>>
        /\ UNCHANGED <<loaded, generated, air, emerging, nearest, paused>> /\ phase' = "receive"
    BY <1>1 DEF SendMapEdits, remote, world, wire, bounds
  <2>2. TypeOK'
    BY <2>1 DEF TypeOK, wire, client
  <2>3. QED
    BY <2>1, <2>2, OthersKeep
<1>2. CASE edits # <<>>
  <2> DEFINE Edit == [pos : Blocks, node : BOOLEAN, low : BOOLEAN, ver : Versions]
             Message == [pos : Blocks, ver : Versions]
             e == Head(edits)
  <2>1. /\ edits \in Seq(Edit) /\ blockData \in Seq(Message) /\ nodeChanges \in Seq(Message)
        /\ edits' = Tail(edits) /\ phase' = "drain" /\ SendEdit(e)
        /\ UNCHANGED <<world, blockData, notices, digs, client, bounds>>
    BY <1>2 DEF SendMapEdits, TypeOK
  <2>2. edits' \in Seq(Edit) /\ e \in Edit
    BY <1>2, <2>1, TailElements
  <2>3. /\ \A b : Mentions(edits, b) <=> Mentions(edits', b) \/ e.pos = b
        /\ \A b, v : LastIs(edits, b, v) => LastIs(edits', b, v)
        /\ \A b, v : LastIs(edits, b, v) /\ e.pos = b /\ ~Mentions(edits', b) => e.ver = v
    BY <1>2, <2>1, TailMentions
  <2> HIDE DEF e
  <2>4. ChangesCounted' /\ UsedIsHeld' /\ AckBeforeDelete'
    BY <2>1 DEF world, client, bounds, ChangesCounted, UsedIsHeld, AckBeforeDelete
  <2>5. EditsEndNow'
    BY <2>1, <2>3 DEF world, EditsEndNow
  <2>6. CASE /\ e.node /\ e.pos \in sent
             /\ nodeChanges' = Append(nodeChanges, [pos |-> e.pos, ver |-> e.ver])
             /\ raced' = IF \E i \in DOMAIN blockData :
                               blockData[i].pos = e.pos /\ blockData[i].ver # e.ver
                         THEN raced \cup {e.pos} ELSE raced
             /\ UNCHANGED remote
    <3> DEFINE m == [pos |-> e.pos, ver |-> e.ver]
    <3>1. m \in Message /\ m.pos = e.pos /\ m.ver = e.ver /\ nodeChanges' = Append(nodeChanges, m)
      BY <2>2, <2>6
    <3>0. nodeChanges \in Seq(Message)
      BY <2>1
    <3> HIDE DEF m, Message
    <3>2. /\ \A b : Mentions(nodeChanges', b) <=> Mentions(nodeChanges, b) \/ e.pos = b
          /\ \A b, v : e.pos = b /\ e.ver = v => LastIs(nodeChanges', b, v)
          /\ \A b, v : e.pos # b /\ LastIs(nodeChanges, b, v) => LastIs(nodeChanges', b, v)
      BY <3>0, <3>1, AppendMentions
    <3>3. TypeOK'
      <4>1. nodeChanges' \in Seq([pos : Blocks, ver : Versions])
        BY <3>0, <3>1, AppendElements DEF Message
      <4>2. raced' \subseteq Blocks
        BY <2>6, <2>2 DEF TypeOK
      <4>3. QED
        BY <2>1, <2>2, <2>6, <4>1, <4>2 DEF TypeOK, world, remote, client
    <3>4. SendingArrives' /\ SentIsHeld'
      BY <2>1, <2>6 DEF remote, client, SendingArrives, SentIsHeld, LetGo, Mentions
    <3>5. ChannelsAgree'
      <4> SUFFICES ASSUME NEW i \in DOMAIN blockData, NEW j \in DOMAIN nodeChanges',
                          blockData[i].pos = nodeChanges'[j].pos, blockData[i].pos \notin raced'
                   PROVE  blockData[i].ver = nodeChanges'[j].ver
        BY <2>1 DEF ChannelsAgree
      <4>1. \/ j \in DOMAIN nodeChanges /\ nodeChanges'[j] = nodeChanges[j]
            \/ nodeChanges'[j] = m
        BY <3>0, <3>1, AppendElements
      <4>2. CASE j \in DOMAIN nodeChanges /\ nodeChanges'[j] = nodeChanges[j]
        BY <2>6, <4>2 DEF ChannelsAgree
      <4>3. CASE nodeChanges'[j] = m
        BY <2>6, <3>1, <4>3
      <4>4. QED
        BY <4>1, <4>2, <4>3
    <3>6. KnownIsArriving'
      <4> SUFFICES ASSUME NEW b \in (sending' \cup sent') \ raced', Settled(b)'
                   PROVE  Arriving(b)'
        BY DEF KnownIsArriving
      <4>1. CASE b # e.pos
        <5>1. Arriving(b)
          BY <2>1, <2>3, <2>6, <4>1 DEF KnownIsArriving, Settled, LetGo, remote
        <5>2. QED
          BY <2>1, <3>2, <4>1, <5>1 DEF Arriving, world, client
      <4>2. CASE b = e.pos
        <5>1. e.ver = version[b]
          BY <2>2, <2>3, <4>2 DEF EditsEndNow, Settled
        <5>2. LastIs(blockData, b, version[b])
          BY <2>6, <4>2, <5>1 DEF LastIs
        <5>3. QED
          BY <2>1, <3>2, <4>2, <5>1, <5>2 DEF Arriving, world
      <4>3. QED
        BY <4>1, <4>2
    <3>7. QED
      BY <2>4, <2>5, <3>3, <3>4, <3>5, <3>6
  <2>7. CASE SetBlockNotSent(e.pos, e.low) /\ UNCHANGED <<nodeChanges, raced>>
    <3>1. /\ sending' = sending \ {e.pos} /\ sent' = sent \ {e.pos}
          /\ nearest' \in Blocks /\ paused' \in BOOLEAN
      BY <2>2, <2>7, SetBlockNotSentEffect
    <3>2. TypeOK'
      BY <2>1, <2>2, <2>7, <3>1 DEF TypeOK, world, client
    <3>3. SendingArrives' /\ SentIsHeld' /\ ChannelsAgree'
      BY <2>1, <2>7, <3>1 DEF client, SendingArrives, SentIsHeld, ChannelsAgree, LetGo, Mentions
    <3>4. KnownIsArriving'
      BY <2>1, <2>3, <2>7, <3>1 DEF client, world, KnownIsArriving, Settled, Arriving, LetGo
    <3>5. QED
      BY <2>4, <2>5, <3>2, <3>3, <3>4
  <2>8. QED
    BY <2>1, <2>6, <2>7 DEF SendEdit, e
<1>3. QED
  BY <1>1, <1>2

\* What the server has yet to read of the client's notices.
LEMMA NoticesShift ==
  ASSUME IInv, notices # <<>>, notices' = Tail(notices), UNCHANGED copy
  PROVE  /\ notices' \in Seq([pos : Blocks, deleted : BOOLEAN])
         /\ Head(notices) \in [pos : Blocks, deleted : BOOLEAN]
         /\ \A b : LetGo(b) <=> LetGo(b)' \/ Head(notices) = Deleted(b)
         /\ AckBeforeDelete'
<1> DEFINE Notice == [pos : Blocks, deleted : BOOLEAN]
<1>1. notices \in Seq(Notice)
  BY DEF IInv, TypeOK
<1> HIDE DEF Notice
<1>2. /\ notices' \in Seq(Notice) /\ Head(notices) \in Notice
      /\ DOMAIN notices = 1 .. Len(notices) /\ Len(notices) \in Nat \ {0}
      /\ DOMAIN notices' = 1 .. Len(notices) - 1
      /\ \A i \in 1 .. Len(notices) - 1 : notices'[i] = notices[i + 1]
  BY <1>1, TailElements
<1>3. \A b : LetGo(b) <=> LetGo(b)' \/ Head(notices) = Deleted(b)
  <2> SUFFICES ASSUME NEW b PROVE LetGo(b) <=> LetGo(b)' \/ Head(notices) = Deleted(b)
    OBVIOUS
  <2>1. (\E i \in DOMAIN notices : notices[i] = Deleted(b))
          <=> (\E i \in DOMAIN Tail(notices) : Tail(notices)[i] = Deleted(b))
              \/ Head(notices) = Deleted(b)
    BY <1>1, TailHas
  <2>2. QED
    BY <2>1 DEF LetGo, Deleted
<1>4. AckBeforeDelete'
  <2> SUFFICES ASSUME NEW i \in DOMAIN notices', ~notices'[i].deleted,
                      copy[notices'[i].pos] = NoBlock
               PROVE  \E j \in DOMAIN notices' : j > i /\ notices'[j] = Deleted(notices'[i].pos)
    BY DEF AckBeforeDelete, Deleted
  <2>1. i + 1 \in DOMAIN notices /\ notices'[i] = notices[i + 1]
    BY <1>2
  <2>2. PICK j \in DOMAIN notices : j > i + 1 /\ notices[j] = Deleted(notices[i + 1].pos)
    BY <2>1 DEF IInv, AckBeforeDelete
  <2>3. j - 1 \in DOMAIN notices' /\ j - 1 > i /\ notices'[j - 1] = notices[j]
    BY <1>2, <2>1, <2>2
  <2>4. QED
    BY <2>1, <2>2, <2>3
<1>5. QED
  BY <1>2, <1>3, <1>4 DEF Notice

\* A block that arrived counts as sent, unless its DELETEDBLOCKS follows.
LEMMA HandleNoticeKeeps ==
  ASSUME IInv, HandleNotice
  PROVE  IInv'
<1> USE DEF IInv
<1> DEFINE n == Head(notices)
<1>1. /\ notices # <<>> /\ notices' = Tail(notices)
      /\ IF n.deleted THEN SetBlockNotSent(n.pos, FALSE) ELSE GotBlock(n.pos)
      /\ UNCHANGED <<version, loaded, generated, air, emerging, edits, phase, blockData, nodeChanges, digs,
                     copy, unacked, raced, changes>>
  BY DEF HandleNotice, world, client, bounds
<1>2. /\ notices' \in Seq([pos : Blocks, deleted : BOOLEAN])
      /\ n \in [pos : Blocks, deleted : BOOLEAN]
      /\ \A b : LetGo(b) <=> LetGo(b)' \/ n = Deleted(b)
      /\ AckBeforeDelete'
  BY <1>1, NoticesShift
<1> HIDE DEF n
<1>3. ChangesCounted' /\ UsedIsHeld' /\ EditsEndNow' /\ ChannelsAgree'
  BY <1>1 DEF ChangesCounted, UsedIsHeld, EditsEndNow, ChannelsAgree, LastIs
<1>4. CASE n.deleted
  <2>1. n.pos \in Blocks /\ n = Deleted(n.pos) /\ \A b : n = Deleted(b) => b = n.pos
    BY <1>2, <1>4 DEF Deleted
  <2>2. /\ sending' = sending \ {n.pos} /\ sent' = sent \ {n.pos}
        /\ nearest' \in Blocks /\ paused' \in BOOLEAN
    BY <1>1, <1>4, <2>1, SetBlockNotSentEffect
  <2>3. TypeOK'
    BY <1>1, <1>2, <2>2 DEF TypeOK
  <2>4. SendingArrives' /\ SentIsHeld'
    <3>1. SendingArrives'
      BY <1>1, <1>2, <2>1, <2>2 DEF SendingArrives, Mentions
    <3>2. \A b \in sent' : copy[b] = NoBlock => LetGo(b)'
      BY <1>2, <2>1, <2>2 DEF SentIsHeld, LetGo, Deleted
    <3>3. QED
      BY <1>1, <3>1, <3>2 DEF SentIsHeld, LetGo, Deleted
  <2>5. KnownIsArriving'
    <3> SUFFICES ASSUME NEW b \in (sending' \cup sent') \ raced', Settled(b)'
                 PROVE  Arriving(b)'
      BY DEF KnownIsArriving
    <3>1. b \in (sending \cup sent) \ raced /\ n # Deleted(b)
      BY <1>1, <2>1, <2>2
    <3>2. Settled(b)
      BY <1>1, <1>2, <3>1 DEF Settled, Mentions
    <3>3. QED
      BY <1>1, <3>1, <3>2 DEF KnownIsArriving, Arriving, Mentions, LastIs
  <2>6. QED
    BY <1>2, <1>3, <2>3, <2>4, <2>5
<1>5. CASE ~n.deleted
  <2>1. n.pos \in Blocks /\ \A b : n # Deleted(b)
    BY <1>2, <1>5 DEF Deleted
  <2>2. /\ sending' = sending \ {n.pos}
        /\ sent' = IF n.pos \in sending THEN sent \cup {n.pos} ELSE sent
        /\ UNCHANGED <<nearest, paused>>
    BY <1>1, <1>5 DEF GotBlock
  <2>3. TypeOK'
    BY <1>1, <1>2, <2>1, <2>2 DEF TypeOK
  <2>4. SendingArrives'
    BY <1>1, <1>2, <2>1, <2>2 DEF SendingArrives, Mentions
  <2>5. SentIsHeld'
    <3>1. copy[n.pos] = NoBlock => LetGo(n.pos)
      <4>1. 1 \in DOMAIN notices /\ n = notices[1]
        BY <1>1, TailElements DEF TypeOK, n
      <4>2. QED
        BY <1>5, <4>1 DEF AckBeforeDelete, LetGo
    <3>2. \A b \in sent' : copy[b] = NoBlock => LetGo(b)'
      BY <1>2, <2>1, <2>2, <3>1 DEF SentIsHeld, LetGo, Deleted
    <3>3. QED
      BY <1>1, <3>2 DEF SentIsHeld, LetGo, Deleted
  <2>6. KnownIsArriving'
    <3> SUFFICES ASSUME NEW b \in (sending' \cup sent') \ raced', Settled(b)'
                 PROVE  Arriving(b)'
      BY DEF KnownIsArriving
    <3>1. b \in (sending \cup sent) \ raced
      BY <1>1, <2>2
    <3>2. Settled(b)
      BY <1>1, <1>2, <2>1 DEF Settled, Mentions
    <3>3. QED
      BY <1>1, <3>1, <3>2 DEF KnownIsArriving, Arriving, Mentions, LastIs
  <2>7. QED
    BY <1>2, <1>3, <2>3, <2>4, <2>5, <2>6
<1>6. QED
  BY <1>4, <1>5

\* A change of the map, by the world or by a player's dig: the block is not settled
\* until the change is passed on.
LEMMA NoteKeeps ==
  ASSUME IInv, NEW b0 \in Blocks, NEW node \in BOOLEAN, NEW low \in BOOLEAN,
         Note(b0, node, low),
         \/ digs' = digs /\ changes < MaxChanges /\ changes' = changes + 1
         \/ digs # <<>> /\ b0 = Head(digs) /\ digs' = Tail(digs) /\ changes' = changes,
         sending' \subseteq sending, sent' \subseteq sent, nearest' \in Blocks, paused' \in BOOLEAN,
         UNCHANGED <<loaded, generated, emerging, phase, blockData, nodeChanges, notices, copy, unacked, raced>>
  PROVE  IInv'
<1> USE DEF IInv
<1> DEFINE Edit == [pos : Blocks, node : BOOLEAN, low : BOOLEAN, ver : Versions]
           e == [pos |-> b0, node |-> node, low |-> low, ver |-> version[b0] + 1]
<1>1. /\ version \in [Blocks -> Versions] /\ version' = [version EXCEPT ![b0] = @ + 1]
      /\ edits' = Append(edits, e) /\ edits \in Seq(Edit) /\ digs \in Seq(Blocks)
  BY DEF Note, TypeOK
<1>2. /\ digs' \in Seq(Blocks) /\ Len(digs) \in Nat /\ Len(digs') \in Nat
      /\ \A b \in Blocks : b # b0 => ((\E i \in DOMAIN digs : digs[i] = b)
                                        <=> (\E i \in DOMAIN digs' : digs'[i] = b))
  <2>1. CASE digs' = digs
    BY <1>1, <2>1
  <2>2. CASE digs # <<>> /\ b0 = Head(digs) /\ digs' = Tail(digs)
    <3>1. digs' \in Seq(Blocks) /\ Len(digs) \in Nat /\ Len(digs') \in Nat
      BY <1>1, <2>2, TailElements
    <3>2. \A b : (\E i \in DOMAIN digs : digs[i] = b)
                   <=> (\E i \in DOMAIN digs' : digs'[i] = b) \/ b0 = b
      <4> SUFFICES ASSUME NEW b
                   PROVE  (\E i \in DOMAIN digs : digs[i] = b)
                            <=> (\E i \in DOMAIN Tail(digs) : Tail(digs)[i] = b) \/ Head(digs) = b
        BY <2>2
      <4>1. QED
        BY <1>1, <2>2, TailHas
    <3>3. QED
      BY <3>1, <3>2
  <2>3. QED
    BY <2>1, <2>2
<1>3. /\ version[b0] + 1 \in Versions /\ changes' \in 0 .. MaxChanges
      /\ version[b0] + 1 + Len(digs') <= changes'
      /\ \A b \in Blocks : version[b] + Len(digs') <= changes'
  <2>0. /\ MaxChanges \in Nat /\ changes \in 0 .. MaxChanges /\ Len(digs) \in Nat
        /\ \A b \in Blocks : version[b] \in 0 .. MaxChanges /\ version[b] + Len(digs) <= changes
    BY <1>1, <1>2, BlockSendAssumption DEF ChangesCounted, Versions
  <2>1. CASE digs' = digs /\ changes < MaxChanges /\ changes' = changes + 1
    BY <2>0, <2>1 DEF Versions
  <2>2. CASE digs # <<>> /\ digs' = Tail(digs) /\ changes' = changes
    <3>1. Len(digs') = Len(digs) - 1
      BY <1>1, <2>2
    <3>2. Len(digs') \in Nat
      BY <1>2
    <3>3. \A b \in Blocks : version[b] + 1 + Len(digs') <= changes
      BY <2>0, <3>1
    <3>4. QED
      BY <2>0, <2>2, <3>2, <3>3 DEF Versions
  <2>3. QED
    BY <2>1, <2>2
<1>4. e \in Edit /\ e.pos = b0 /\ e.ver = version[b0] + 1
  BY <1>3
<1> HIDE DEF e, Edit
<1>5. /\ edits' \in Seq(Edit)
      /\ \A b : Mentions(edits', b) <=> Mentions(edits, b) \/ b0 = b
      /\ LastIs(edits', b0, version[b0] + 1)
      /\ \A b, v : b0 # b /\ LastIs(edits, b, v) => LastIs(edits', b, v)
  <2>1. edits' \in Seq(Edit)
    BY <1>1, <1>4, AppendElements
  <2>2. ASSUME NEW b, NEW v
        PROVE  /\ Mentions(edits', b) <=> Mentions(edits, b) \/ b0 = b
               /\ b0 = b /\ e.ver = v => LastIs(edits', b, v)
               /\ b0 # b /\ LastIs(edits, b, v) => LastIs(edits', b, v)
    <3>1. /\ Mentions(Append(edits, e), b) <=> Mentions(edits, b) \/ e.pos = b
          /\ e.pos = b /\ e.ver = v => LastIs(Append(edits, e), b, v)
          /\ e.pos # b /\ LastIs(edits, b, v) => LastIs(Append(edits, e), b, v)
      BY <1>1, <1>4, AppendMentions
    <3>2. QED
      BY <1>1, <1>4, <3>1
  <2>3. QED
    BY <1>4, <2>1, <2>2
<1>6. TypeOK'
  <2>1. version' \in [Blocks -> Versions]
    BY <1>1, <1>3
  <2>2. sending' \subseteq Blocks /\ sent' \subseteq Blocks /\ sending' \cap sent' = {}
    BY DEF TypeOK
  <2>3. air' \subseteq Far
    BY DEF TypeOK, Note
  <2>4. QED
    BY <1>2, <1>5, <2>1, <2>2, <2>3 DEF TypeOK, Edit
<1>7. ChangesCounted' /\ UsedIsHeld' /\ AckBeforeDelete' /\ ChannelsAgree'
  <2>1. ChangesCounted'
    BY <1>1, <1>3 DEF ChangesCounted
  <2>2. QED
    BY <2>1 DEF UsedIsHeld, AckBeforeDelete, ChannelsAgree
<1>8. SendingArrives' /\ SentIsHeld'
  BY DEF SendingArrives, SentIsHeld, LetGo, Mentions
<1>9. EditsEndNow'
  BY <1>1, <1>5 DEF EditsEndNow
<1>10. KnownIsArriving'
  <2> SUFFICES ASSUME NEW b \in (sending' \cup sent') \ raced', Settled(b)'
               PROVE  Arriving(b)'
    BY DEF KnownIsArriving
  <2>1. b \in (sending \cup sent) \ raced /\ b \in Blocks /\ b # b0
    BY <1>5 DEF TypeOK, Settled
  <2>2. Settled(b)
    BY <1>2, <1>5, <2>1 DEF Settled, LetGo
  <2>3. version'[b] = version[b]
    BY <1>1, <2>1
  <2>4. QED
    BY <2>1, <2>2, <2>3 DEF KnownIsArriving, Arriving, Mentions, LastIs
<1>11. QED
  BY <1>6, <1>7, <1>8, <1>9, <1>10

LEMMA EditMapKeeps ==
  ASSUME IInv, EditMap
  PROVE  IInv'
<1>1. PICK b \in Blocks, node \in BOOLEAN, low \in BOOLEAN : Note(b, node, low)
  BY DEF EditMap
<1>2. /\ digs' = digs /\ changes < MaxChanges /\ changes' = changes + 1
      /\ UNCHANGED <<loaded, generated, emerging, phase, sending, sent, nearest, paused, blockData,
                     nodeChanges, notices, copy, unacked, raced>>
  BY DEF EditMap, remote, wire, client
<1>3. nearest' \in Blocks /\ paused' \in BOOLEAN
  BY <1>2 DEF IInv, TypeOK
<1>4. QED
  BY <1>1, <1>2, <1>3, NoteKeeps

\* A dig the server refuses puts the block back among those to send.
LEMMA HandleDigKeeps ==
  ASSUME IInv, HandleDig
  PROVE  IInv'
<1> USE DEF IInv
<1> DEFINE b0 == Head(digs)
<1>1. /\ digs # <<>> /\ digs' = Tail(digs)
      /\ UNCHANGED <<loaded, generated, emerging, phase, blockData, nodeChanges, notices, copy, unacked,
                     raced, changes>>
  BY DEF HandleDig, client, bounds
<1>2. /\ b0 \in Blocks /\ digs' \in Seq(Blocks) /\ Len(digs) \in Nat \ {0}
      /\ Len(digs') = Len(digs) - 1
      /\ \A b \in Blocks : (\E i \in DOMAIN digs : digs[i] = b)
                             => b = b0 \/ \E i \in DOMAIN digs' : digs'[i] = b
  <2>1. digs \in Seq(Blocks)
    BY DEF TypeOK
  <2>2. /\ b0 \in Blocks /\ digs' \in Seq(Blocks) /\ Len(digs) \in Nat \ {0}
        /\ Len(digs') = Len(digs) - 1
    BY <1>1, <2>1, TailElements
  <2>3. ASSUME NEW b, \E i \in DOMAIN digs : digs[i] = b
        PROVE  b = b0 \/ \E i \in DOMAIN digs' : digs'[i] = b
    <3>1. (\E i \in DOMAIN Tail(digs) : Tail(digs)[i] = b) \/ Head(digs) = b
      BY <1>1, <2>1, <2>3, TailHas
    <3>2. QED
      BY <1>1, <3>1
  <2>4. QED
    BY <2>2, <2>3
<1>3. CASE Note(b0, TRUE, FALSE) /\ ResendBlockIfOnWire(b0)
  <2>1. sending' \subseteq sending /\ sent' \subseteq sent /\ nearest' \in Blocks /\ paused' \in BOOLEAN
    <3>1. CASE b0 \in sending
      BY <1>2, <1>3, <3>1, SetBlockNotSentEffect DEF ResendBlockIfOnWire
    <3>2. CASE b0 \notin sending
      BY <1>3, <3>2 DEF ResendBlockIfOnWire, remote, TypeOK
    <3>3. QED
      BY <3>1, <3>2
  <2>2. QED
    BY <1>1, <1>2, <1>3, <2>1, NoteKeeps
<1>4. CASE Note(b0, TRUE, FALSE) /\ SetBlockNotSent(b0, FALSE)
  <2>1. sending' \subseteq sending /\ sent' \subseteq sent /\ nearest' \in Blocks /\ paused' \in BOOLEAN
    BY <1>2, <1>4, SetBlockNotSentEffect
  <2>2. QED
    BY <1>1, <1>2, <1>4, <2>1, NoteKeeps
<1>5. CASE UNCHANGED <<version, air, edits>> /\ SetBlockNotSent(b0, FALSE)
  <2>1. /\ sending' = sending \ {b0} /\ sent' = sent \ {b0}
        /\ nearest' \in Blocks /\ paused' \in BOOLEAN
    BY <1>2, <1>5, SetBlockNotSentEffect
  <2> HIDE DEF b0
  <2>2. TypeOK'
    BY <1>1, <1>2, <1>5, <2>1 DEF TypeOK
  <2>3. ChangesCounted'
    BY <1>1, <1>2, <1>5 DEF ChangesCounted, TypeOK, Versions
  <2>4. UsedIsHeld' /\ AckBeforeDelete' /\ EditsEndNow' /\ ChannelsAgree'
    BY <1>1, <1>5 DEF UsedIsHeld, AckBeforeDelete, EditsEndNow, ChannelsAgree, LastIs
  <2>5. SendingArrives' /\ SentIsHeld'
    BY <1>1, <2>1 DEF SendingArrives, SentIsHeld, LetGo, Mentions
  <2>6. KnownIsArriving'
    <3> SUFFICES ASSUME NEW b \in (sending' \cup sent') \ raced', Settled(b)'
                 PROVE  Arriving(b)'
      BY DEF KnownIsArriving
    <3>1. b \in (sending \cup sent) \ raced /\ b \in Blocks /\ b # b0
      BY <1>1, <2>1 DEF TypeOK
    <3>2. Settled(b)
      BY <1>1, <1>2, <1>5, <3>1 DEF Settled, LetGo, Mentions
    <3>3. QED
      BY <1>1, <1>5, <3>1, <3>2 DEF KnownIsArriving, Arriving, Mentions, LastIs
  <2>7. QED
    BY <2>2, <2>3, <2>4, <2>5, <2>6
<1>6. QED
  BY <1>3, <1>4, <1>5 DEF HandleDig

\* The client's handlers.  What it receives is at least as new as its copy, ...
LEMMA ReceiveBlockKeeps ==
  ASSUME IInv, ReceiveBlock
  PROVE  IInv'
<1> USE DEF IInv
<1> DEFINE Message == [pos : Blocks, ver : Versions]
           m == Head(blockData)
<1>1. /\ blockData # <<>> /\ blockData \in Seq(Message) /\ blockData' = Tail(blockData)
      /\ copy' = [copy EXCEPT ![m.pos] = m.ver] /\ unacked' = [unacked EXCEPT ![m.pos] = @ + 1]
      /\ UNCHANGED <<version, loaded, generated, air, emerging, edits, phase, sending, sent, nearest, paused,
                     nodeChanges, notices, digs, raced, changes>>
  BY DEF ReceiveBlock, world, remote, bounds, TypeOK
<1> HIDE DEF Message
<1>2. /\ m \in Message /\ blockData' \in Seq(Message)
      /\ DOMAIN blockData = 1 .. Len(blockData) /\ Len(blockData) \in Nat \ {0}
      /\ DOMAIN blockData' = 1 .. Len(blockData) - 1
      /\ \A i \in 1 .. Len(blockData) - 1 : blockData'[i] = blockData[i + 1]
  BY <1>1, TailElements
<1>3. /\ \A b : Mentions(blockData, b) <=> Mentions(blockData', b) \/ m.pos = b
      /\ \A b, v : LastIs(blockData, b, v) => LastIs(blockData', b, v)
      /\ \A b, v : LastIs(blockData, b, v) /\ m.pos = b /\ ~Mentions(blockData', b) => m.ver = v
  BY <1>1, TailMentions
<1> HIDE DEF m
<1>4. /\ m.pos \in Blocks /\ m.ver \in Versions /\ m.ver # NoBlock
      /\ \A b \in Blocks : copy'[b] = IF b = m.pos THEN m.ver ELSE copy[b]
      /\ \A b \in Blocks : unacked'[b] = IF b = m.pos THEN unacked[b] + 1 ELSE unacked[b]
  BY <1>1, <1>2, BlockSendAssumption DEF Message, TypeOK, Versions
<1>5. TypeOK'
  <2>1. copy' \in [Blocks -> Versions \cup {NoBlock, Guess}]
    BY <1>1, <1>4 DEF TypeOK
  <2>2. unacked' \in [Blocks -> Nat]
    BY <1>1, <1>4 DEF TypeOK
  <2>3. QED
    BY <1>1, <1>2, <2>1, <2>2 DEF TypeOK, Message
<1>6. ChangesCounted' /\ EditsEndNow'
  BY <1>1 DEF ChangesCounted, EditsEndNow, LastIs
<1>7. UsedIsHeld'
  BY <1>4 DEF UsedIsHeld
<1>8. AckBeforeDelete'
  <2>1. \A i \in DOMAIN notices : notices[i].pos \in Blocks
    BY NoticesNameBlocks
  <2>2. QED
    BY <1>1, <1>4, <2>1 DEF AckBeforeDelete
<1>9. SendingArrives' /\ SentIsHeld'
  <2>1. sending \subseteq Blocks /\ sent \subseteq Blocks
    BY DEF TypeOK
  <2>2. SendingArrives'
    BY <1>1, <1>3, <1>4, <2>1 DEF SendingArrives, LetGo
  <2>3. QED
    BY <1>1, <1>4, <2>1, <2>2 DEF SentIsHeld
<1>10. ChannelsAgree'
  <2>1. \A i \in DOMAIN blockData' : i + 1 \in DOMAIN blockData /\ blockData'[i] = blockData[i + 1]
    BY <1>2
  <2>2. QED
    BY <1>1, <2>1 DEF ChannelsAgree
<1>11. KnownIsArriving'
  <2> SUFFICES ASSUME NEW b \in (sending' \cup sent') \ raced', Settled(b)'
               PROVE  Arriving(b)'
    BY DEF KnownIsArriving
  <2>1. Arriving(b) /\ b \in Blocks
    BY <1>1 DEF KnownIsArriving, Settled, LetGo, Mentions, TypeOK
  <2>2. LastIs(blockData', b, version[b]) /\ LastIs(nodeChanges, b, version[b])
    BY <1>3, <2>1 DEF Arriving
  <2>3. Mentions(blockData', b) \/ Mentions(nodeChanges, b) \/ copy'[b] = version[b]
    BY <1>3, <1>4, <2>1 DEF Arriving
  <2>4. QED
    BY <1>1, <2>2, <2>3 DEF Arriving
<1>12. QED
  BY <1>5, <1>6, <1>7, <1>8, <1>9, <1>10, <1>11

\* ... a change of a node finds its block there if the server still counts on it, ...
LEMMA ReceiveNodeKeeps ==
  ASSUME IInv, ReceiveNode
  PROVE  IInv'
<1> USE DEF IInv
<1> DEFINE Message == [pos : Blocks, ver : Versions]
           m == Head(nodeChanges)
<1>1. /\ nodeChanges # <<>> /\ nodeChanges \in Seq(Message) /\ nodeChanges' = Tail(nodeChanges)
      /\ copy' = IF copy[m.pos] = NoBlock THEN copy ELSE [copy EXCEPT ![m.pos] = m.ver]
      /\ UNCHANGED <<version, loaded, generated, air, emerging, edits, phase, sending, sent, nearest, paused,
                     blockData, notices, digs, unacked, raced, changes>>
  BY DEF ReceiveNode, world, remote, bounds, TypeOK
<1> HIDE DEF Message
<1>2. /\ m \in Message /\ nodeChanges' \in Seq(Message)
      /\ DOMAIN nodeChanges = 1 .. Len(nodeChanges) /\ Len(nodeChanges) \in Nat \ {0}
      /\ DOMAIN nodeChanges' = 1 .. Len(nodeChanges) - 1
      /\ \A i \in 1 .. Len(nodeChanges) - 1 : nodeChanges'[i] = nodeChanges[i + 1]
  BY <1>1, TailElements
<1>3. /\ \A b : Mentions(nodeChanges, b) <=> Mentions(nodeChanges', b) \/ m.pos = b
      /\ \A b, v : LastIs(nodeChanges, b, v) => LastIs(nodeChanges', b, v)
      /\ \A b, v : LastIs(nodeChanges, b, v) /\ m.pos = b /\ ~Mentions(nodeChanges', b) => m.ver = v
  BY <1>1, TailMentions
<1> HIDE DEF m
<1>4. /\ m.pos \in Blocks /\ m.ver \in Versions /\ m.ver # NoBlock
      /\ \A b \in Blocks : copy'[b] = IF b = m.pos /\ copy[b] # NoBlock THEN m.ver ELSE copy[b]
  <2>1. m.pos \in Blocks /\ m.ver \in Versions /\ m.ver # NoBlock
    BY <1>2, BlockSendAssumption DEF Message, Versions
  <2>2. copy \in [Blocks -> Versions \cup {NoBlock, Guess}]
    BY DEF TypeOK
  <2>3. CASE copy[m.pos] = NoBlock
    BY <1>1, <2>1, <2>3
  <2>4. CASE copy[m.pos] # NoBlock
    BY <1>1, <2>1, <2>2, <2>4
  <2>5. QED
    BY <2>1, <2>3, <2>4
<1>5. \A b \in Blocks : copy'[b] = NoBlock <=> copy[b] = NoBlock
  BY <1>4
<1>6. TypeOK'
  <2>1. copy' \in [Blocks -> Versions \cup {NoBlock, Guess}]
    BY <1>1, <1>4 DEF TypeOK
  <2>2. QED
    BY <1>1, <1>2, <2>1 DEF TypeOK, Message
<1>7. ChangesCounted' /\ EditsEndNow' /\ UsedIsHeld'
  BY <1>1, <1>5 DEF ChangesCounted, EditsEndNow, LastIs, UsedIsHeld
<1>8. AckBeforeDelete'
  <2>1. \A i \in DOMAIN notices : notices[i].pos \in Blocks
    BY NoticesNameBlocks
  <2>2. QED
    BY <1>1, <1>5, <2>1 DEF AckBeforeDelete
<1>9. SendingArrives' /\ SentIsHeld'
  <2>1. sending \subseteq Blocks /\ sent \subseteq Blocks
    BY DEF TypeOK
  <2>2. SendingArrives'
    BY <1>1, <1>5, <2>1 DEF SendingArrives, LetGo, Mentions
  <2>3. QED
    BY <1>1, <1>5, <2>1, <2>2 DEF SentIsHeld
<1>10. ChannelsAgree'
  <2>1. \A i \in DOMAIN nodeChanges' :
          i + 1 \in DOMAIN nodeChanges /\ nodeChanges'[i] = nodeChanges[i + 1]
    BY <1>2
  <2>2. QED
    BY <1>1, <2>1 DEF ChannelsAgree
<1>11. KnownIsArriving'
  <2> SUFFICES ASSUME NEW b \in (sending' \cup sent') \ raced', Settled(b)'
               PROVE  Arriving(b)'
    BY DEF KnownIsArriving
  <2>1. Arriving(b) /\ b \in Blocks /\ ~LetGo(b)
    BY <1>1 DEF KnownIsArriving, Settled, LetGo, Mentions, TypeOK
  <2>2. LastIs(blockData, b, version[b]) /\ LastIs(nodeChanges', b, version[b])
    BY <1>3, <2>1 DEF Arriving
  <2>3. Mentions(blockData, b) \/ copy[b] # NoBlock
    BY <1>1, <2>1 DEF SendingArrives, SentIsHeld, LetGo, Deleted
  <2>4. Mentions(blockData, b) \/ Mentions(nodeChanges', b) \/ copy'[b] = version[b]
    BY <1>3, <1>4, <2>1, <2>3 DEF Arriving
  <2>5. QED
    BY <1>1, <2>2, <2>4 DEF Arriving
<1>12. QED
  BY <1>6, <1>7, <1>8, <1>9, <1>10, <1>11

\* ... what it acknowledges it has, ...
LEMMA SendGotBlocksKeeps ==
  ASSUME IInv, SendGotBlocks
  PROVE  IInv'
<1> USE DEF IInv
<1> DEFINE Notice == [pos : Blocks, deleted : BOOLEAN]
<1>1. PICK b0 \in Blocks : /\ unacked[b0] > 0 /\ unacked' = [unacked EXCEPT ![b0] = @ - 1]
                           /\ notices' = Append(notices, [pos |-> b0, deleted |-> FALSE])
  BY DEF SendGotBlocks
<1> DEFINE n == [pos |-> b0, deleted |-> FALSE]
<1>2. UNCHANGED <<version, loaded, generated, air, emerging, edits, phase, sending, sent, nearest, paused,
                  blockData, nodeChanges, digs, copy, raced, changes>>
  BY DEF SendGotBlocks, world, remote, bounds
<1>3. /\ notices \in Seq(Notice) /\ n \in Notice /\ notices' = Append(notices, n)
      /\ n.pos = b0 /\ ~n.deleted /\ \A b : n # Deleted(b)
  BY <1>1 DEF TypeOK, Deleted
<1> HIDE DEF n, Notice
<1>4. /\ notices' \in Seq(Notice)
      /\ DOMAIN notices = 1 .. Len(notices) /\ Len(notices) \in Nat
      /\ DOMAIN notices' = 1 .. Len(notices) + 1
      /\ \A i \in 1 .. Len(notices) : notices'[i] = notices[i]
      /\ notices'[Len(notices) + 1] = n
  BY <1>3, AppendElements
<1>5. \A b : LetGo(b)' <=> LetGo(b)
  <2> SUFFICES ASSUME NEW b PROVE LetGo(b)' <=> LetGo(b)
    OBVIOUS
  <2>1. (\E i \in DOMAIN Append(notices, n) : Append(notices, n)[i] = Deleted(b))
          <=> (\E i \in DOMAIN notices : notices[i] = Deleted(b)) \/ n = Deleted(b)
    BY <1>3, AppendHas
  <2>2. QED
    BY <1>3, <2>1 DEF LetGo, Deleted
<1>6. TypeOK'
  <2>1. unacked' \in [Blocks -> Nat]
    BY <1>1 DEF TypeOK
  <2>2. QED
    BY <1>2, <1>4, <2>1 DEF TypeOK, Notice
<1>7. ChangesCounted' /\ EditsEndNow' /\ ChannelsAgree'
  BY <1>2 DEF ChangesCounted, EditsEndNow, LastIs, ChannelsAgree
<1>8. UsedIsHeld'
  BY <1>1, <1>2 DEF UsedIsHeld, TypeOK
<1>9. AckBeforeDelete'
  <2> SUFFICES ASSUME NEW i \in DOMAIN notices', ~notices'[i].deleted,
                      copy[notices'[i].pos] = NoBlock
               PROVE  \E j \in DOMAIN notices' : j > i /\ notices'[j] = Deleted(notices'[i].pos)
    BY <1>2 DEF AckBeforeDelete, Deleted
  <2>1. i \in DOMAIN notices /\ notices'[i] = notices[i]
    BY <1>1, <1>3, <1>4 DEF UsedIsHeld
  <2>2. QED
    BY <1>4, <2>1 DEF AckBeforeDelete
<1>10. SendingArrives' /\ SentIsHeld'
  <2>1. SendingArrives'
    BY <1>2, <1>5 DEF SendingArrives, Mentions
  <2>2. \A b \in sent : copy[b] = NoBlock => LetGo(b)'
    BY <1>5 DEF SentIsHeld, LetGo, Deleted
  <2>3. QED
    BY <1>2, <2>1, <2>2 DEF SentIsHeld, LetGo, Deleted
<1>11. KnownIsArriving'
  BY <1>2, <1>5 DEF KnownIsArriving, Settled, Arriving, Mentions, LastIs
<1>12. QED
  BY <1>6, <1>7, <1>8, <1>9, <1>10, <1>11

\* ... what it drops it tells, ...
LEMMA DeleteBlockKeeps ==
  ASSUME IInv, NEW b0 \in Blocks, DeleteBlock(b0)
  PROVE  IInv'
<1> USE DEF IInv
<1> DEFINE Notice == [pos : Blocks, deleted : BOOLEAN]
           n == Deleted(b0)
<1>1. /\ unacked[b0] = 0 /\ copy' = [copy EXCEPT ![b0] = NoBlock]
      /\ notices' = Append(notices, n)
      /\ UNCHANGED <<version, loaded, generated, air, emerging, edits, phase, sending, sent, nearest, paused,
                     blockData, nodeChanges, digs, unacked, raced, changes>>
  BY DEF DeleteBlock, world, remote, Deleted
<1>2. /\ notices \in Seq(Notice) /\ n \in Notice /\ n.pos = b0 /\ n.deleted
      /\ \A b : n = Deleted(b) <=> b = b0
  BY DEF TypeOK, Deleted
<1> HIDE DEF n, Notice
<1>3. /\ notices' \in Seq(Notice)
      /\ DOMAIN notices = 1 .. Len(notices) /\ Len(notices) \in Nat
      /\ DOMAIN notices' = 1 .. Len(notices) + 1
      /\ \A i \in 1 .. Len(notices) : notices'[i] = notices[i]
      /\ notices'[Len(notices) + 1] = n
  BY <1>1, <1>2, AppendElements
<1>4. \A b : LetGo(b)' <=> LetGo(b) \/ b = b0
  <2> SUFFICES ASSUME NEW b PROVE LetGo(b)' <=> LetGo(b) \/ b = b0
    OBVIOUS
  <2>1. notices \in Seq(Notice) /\ n \in Notice
    BY <1>2
  <2>2. (\E i \in DOMAIN Append(notices, n) : Append(notices, n)[i] = Deleted(b))
          <=> (\E i \in DOMAIN notices : notices[i] = Deleted(b)) \/ n = Deleted(b)
    BY <2>1, AppendHas
  <2>3. QED
    BY <1>1, <1>2, <2>2 DEF LetGo, Deleted
<1>5. \A b \in Blocks : copy'[b] = IF b = b0 THEN NoBlock ELSE copy[b]
  BY <1>1 DEF TypeOK
<1>6. TypeOK'
  <2>1. copy' \in [Blocks -> Versions \cup {NoBlock, Guess}]
    BY <1>1 DEF TypeOK
  <2>2. QED
    BY <1>1, <1>3, <2>1 DEF TypeOK, Notice
<1>7. ChangesCounted' /\ EditsEndNow' /\ ChannelsAgree'
  BY <1>1 DEF ChangesCounted, EditsEndNow, LastIs, ChannelsAgree
<1>8. UsedIsHeld'
  BY <1>1, <1>5 DEF UsedIsHeld
<1>9. AckBeforeDelete'
  <2> SUFFICES ASSUME NEW i \in DOMAIN notices', ~notices'[i].deleted,
                      copy'[notices'[i].pos] = NoBlock
               PROVE  \E j \in DOMAIN notices' : j > i /\ notices'[j] = Deleted(notices'[i].pos)
    BY DEF AckBeforeDelete, Deleted
  <2>1. i \in DOMAIN notices /\ notices'[i] = notices[i]
    BY <1>2, <1>3
  <2>2. notices[i].pos \in Blocks
    BY <2>1, NoticesNameBlocks
  <2>3. CASE notices[i].pos = b0
    BY <1>2, <1>3, <2>1, <2>3
  <2>4. CASE notices[i].pos # b0
    BY <1>3, <1>5, <2>1, <2>2, <2>4 DEF AckBeforeDelete
  <2>5. QED
    BY <2>3, <2>4
<1>10. SendingArrives' /\ SentIsHeld'
  <2>1. sending \subseteq Blocks /\ sent \subseteq Blocks
    BY DEF TypeOK
  <2>2. SendingArrives'
    BY <1>1, <1>4, <1>5, <2>1 DEF SendingArrives, Mentions
  <2>3. \A b \in sent : copy'[b] = NoBlock => LetGo(b)'
    BY <1>4, <1>5, <2>1 DEF SentIsHeld, LetGo, Deleted
  <2>4. QED
    BY <1>1, <2>2, <2>3 DEF SentIsHeld, LetGo, Deleted
<1>11. KnownIsArriving'
  <2> SUFFICES ASSUME NEW b \in (sending' \cup sent') \ raced', Settled(b)'
               PROVE  Arriving(b)'
    BY DEF KnownIsArriving
  <2>1. b # b0 /\ b \in Blocks /\ b \in (sending \cup sent) \ raced
    BY <1>1, <1>4 DEF Settled, TypeOK
  <2>2. Settled(b)
    BY <1>1, <1>4 DEF Settled, Mentions
  <2>3. QED
    BY <1>1, <1>5, <2>1, <2>2 DEF KnownIsArriving, Arriving, Mentions, LastIs
<1>12. QED
  BY <1>6, <1>7, <1>8, <1>9, <1>10, <1>11

\* ... and what it predicts it asks for.
LEMMA PredictDigKeeps ==
  ASSUME IInv, NEW b0 \in Blocks, PredictDig(b0)
  PROVE  IInv'
<1> USE DEF IInv
<1>1. /\ copy[b0] # NoBlock /\ changes < MaxChanges /\ changes' = changes + 1
      /\ copy' = [copy EXCEPT ![b0] = Guess] /\ digs' = Append(digs, b0)
      /\ UNCHANGED <<version, loaded, generated, air, emerging, edits, phase, sending, sent, nearest, paused,
                     blockData, nodeChanges, notices, unacked, raced>>
  BY DEF PredictDig, world, remote
<1>2. /\ digs \in Seq(Blocks) /\ digs' \in Seq(Blocks)
      /\ Len(digs) \in Nat /\ Len(digs') = Len(digs) + 1
  BY <1>1 DEF TypeOK
<1>3. \A b \in Blocks : (\E i \in DOMAIN digs' : digs'[i] = b)
                          <=> (\E i \in DOMAIN digs : digs[i] = b) \/ b0 = b
  BY <1>1, <1>2, AppendHas
<1>4. \A b \in Blocks : /\ copy'[b] = IF b = b0 THEN Guess ELSE copy[b]
                        /\ copy'[b] = NoBlock <=> copy[b] = NoBlock
  BY <1>1, BlockSendAssumption DEF TypeOK
<1>5. TypeOK'
  <2>1. copy' \in [Blocks -> Versions \cup {NoBlock, Guess}]
    BY <1>1 DEF TypeOK
  <2>2. digs' \in Seq(Blocks)
    BY <1>2
  <2>3. QED
    BY <1>1, <2>1, <2>2 DEF TypeOK
<1>6. ChangesCounted'
  <2>1. \A b \in Blocks : version[b] \in Nat
    BY DEF TypeOK, Versions
  <2>2. QED
    BY <1>1, <1>2, <2>1, BlockSendAssumption DEF ChangesCounted
<1>7. UsedIsHeld' /\ EditsEndNow' /\ ChannelsAgree'
  BY <1>1, <1>4 DEF UsedIsHeld, EditsEndNow, LastIs, ChannelsAgree
<1>8. AckBeforeDelete'
  <2>1. \A i \in DOMAIN notices : notices[i].pos \in Blocks
    BY NoticesNameBlocks
  <2>2. QED
    BY <1>1, <1>4, <2>1 DEF AckBeforeDelete
<1>9. SendingArrives' /\ SentIsHeld'
  <2>1. sending \subseteq Blocks /\ sent \subseteq Blocks
    BY DEF TypeOK
  <2>2. SendingArrives'
    BY <1>1, <1>4, <2>1 DEF SendingArrives, LetGo, Mentions
  <2>3. QED
    BY <1>1, <1>4, <2>1, <2>2 DEF SentIsHeld
<1>10. KnownIsArriving'
  <2> SUFFICES ASSUME NEW b \in (sending' \cup sent') \ raced', Settled(b)'
               PROVE  Arriving(b)'
    BY DEF KnownIsArriving
  <2>1. b \in Blocks /\ b \in (sending \cup sent) \ raced
    BY <1>1 DEF TypeOK
  <2>2. b # b0 /\ Settled(b)
    BY <1>1, <1>3, <2>1 DEF Settled, Mentions, LetGo
  <2>3. QED
    BY <1>1, <1>4, <2>1, <2>2 DEF KnownIsArriving, Arriving, Mentions, LastIs
<1>11. QED
  BY <1>5, <1>6, <1>7, <1>8, <1>9, <1>10

LEMMA QuietStepsKeep ==
  ASSUME IInv, PauseEnds \/ RestartScan \/ (\E b \in Blocks : EmergeBlock(b)) \/ UNCHANGED vars
  PROVE  IInv'
<1>1. UNCHANGED <<version, edits, phase, sending, sent, wire, client, raced, changes>>
  BY DEF PauseEnds, RestartScan, EmergeBlock, vars, world, remote, bounds
<1>2. /\ loaded' \subseteq Blocks /\ generated' \subseteq loaded' /\ air' \subseteq Far
      /\ emerging' \subseteq Blocks /\ nearest' \in Blocks /\ paused' \in BOOLEAN
  <2> USE DEF IInv, TypeOK
  <2>1. CASE PauseEnds \/ UNCHANGED vars
    BY <2>1 DEF PauseEnds, vars, world, remote
  <2>2. CASE RestartScan
    BY <2>2, BlockSendAssumption DEF RestartScan, world, Blocks
  <2>3. CASE \E b \in Blocks : EmergeBlock(b)
    BY <2>3 DEF EmergeBlock, remote
  <2>4. QED
    BY <2>1, <2>2, <2>3
<1>3. TypeOK'
  BY <1>1, <1>2 DEF IInv, TypeOK, wire, client
<1>4. QED
  BY <1>1, <1>3, OthersKeep

-----------------------------------------------------------------------------
(* The theorems.                                                            *)

LEMMA IInvHolds == Spec => []IInv
<1>1. IInv /\ [Next]_vars => IInv'
  <2> SUFFICES ASSUME IInv, [Next]_vars PROVE IInv'
    OBVIOUS
  <2>1. CASE ServerLoop
    BY <2>1, SendBlocksKeeps, SendMapEditsKeeps DEF ServerLoop
  <2>2. CASE Handle
    BY <2>2, HandleNoticeKeeps, HandleDigKeeps DEF Handle
  <2>3. CASE Client
    BY <2>3, ReceiveBlockKeeps, ReceiveNodeKeeps, SendGotBlocksKeeps DEF Client
  <2>4. CASE EditMap
    BY <2>4, EditMapKeeps
  <2>5. CASE \E b \in Blocks : DeleteBlock(b) \/ PredictDig(b)
    BY <2>5, DeleteBlockKeeps, PredictDigKeeps
  <2>6. CASE PauseEnds \/ RestartScan \/ (\E b \in Blocks : EmergeBlock(b)) \/ UNCHANGED vars
    BY <2>6, QuietStepsKeep
  <2>7. QED
    BY <2>1, <2>2, <2>3, <2>4, <2>5, <2>6 DEF Next
<1>2. QED
  BY <1>1, InitIInv, PTL DEF Spec

\* Every step of the server, the client and the channels keeps the state's types;
\* the versions fit their bound because no change is counted twice.
THEOREM TypeCorrect == Spec => []TypeOK
<1>1. IInv => TypeOK
  BY DEF IInv
<1>2. QED
  BY <1>1, IInvHolds, PTL

\* What the server counts as sent the client holds, or has told that it dropped:
\* GotBlock only moves a block that is being sent (clientiface.cpp:407-416), and a
\* DELETEDBLOCKS follows every GOTBLOCKS of the same block on its channel.
THEOREM SentAlwaysHeld == Spec => []SentIsHeld
<1>1. IInv => SentIsHeld
  BY DEF IInv
<1>2. QED
  BY <1>1, IInvHolds, PTL

\* ... and, unless the block's two channels raced, in its newest version once
\* nothing about it is under way.
THEOREM SentAlwaysCurrent == Spec => []SentIsCurrent
<1>1. IInv => SentIsCurrent
  <2> SUFFICES ASSUME IInv, NEW b \in sent \ raced, ~UnderWay(b)
               PROVE  copy[b] = version[b]
    BY DEF SentIsCurrent, Current
  <2>1. Settled(b) /\ ~Mentions(blockData, b) /\ ~Mentions(nodeChanges, b)
    BY DEF UnderWay, Settled, Mentions, LetGo, Deleted
  <2>2. Arriving(b)
    BY <2>1 DEF IInv, KnownIsArriving
  <2>3. QED
    BY <2>1, <2>2 DEF Arriving
<1>2. QED
  BY <1>1, IInvHolds, PTL

=============================================================================
