---------------------------- MODULE EmergeProofs ----------------------------
(* For any number of threads, blocks, chunks and peers, and whatever the       *)
(* server thread does: a chunk is generated by one emerge thread at a time,   *)
(* the three views of what is queued agree, no callback runs twice and a      *)
(* block in memory is only stale where the code leaves it to a race.         *)
EXTENDS Emerge, FiniteSetTheorems, SequenceTheorems, TLAPS

Labels == {"loop", "wait", "first", "disk", "second", "make", "report", "stop", "cancel",
           "ended"}

Making(t) == pc[t] = "make"
ChunkOf(t) == Chunk[cur[t].pos]

\* A record like Idle: the fields that are not updated keep their values.
HandShaped(hand) ==
  hand = [pos |-> hand.pos, gen |-> hand.gen, callbacks |-> hand.callbacks,
          bytes |-> hand.bytes, area |-> hand.area]

\* The inductive form of OneGeneratorPerChunk: m_chunks_in_progress holds the
\* chunks being made and, until an error, no others but those outside of the limit.
GenInv ==
  /\ pc \in [Threads -> Labels]
  /\ cur = [t \in Threads |-> cur[t]]
  /\ \A t \in Threads : HandShaped(cur[t])
  /\ \A t \in Threads : Making(t) => ChunkOf(t) \in inProgress
  /\ \A t, u \in Threads : Making(t) /\ Making(u) /\ ChunkOf(t) = ChunkOf(u) => t = u
  /\ ~fatal => \A k \in inProgress \ Outside : \E t \in Threads : Making(t) /\ ChunkOf(t) = k
  /\ \A t \in Threads : Making(t) => ChunkOf(t) \notin Outside

LEMMA IdleShaped == HandShaped(Idle)
BY DEF HandShaped, Idle, Hand

LEMMA GenInit == Init => GenInv
<1> SUFFICES ASSUME Init PROVE GenInv
  OBVIOUS
<1>1. \A t \in Threads : pc[t] = "loop" /\ cur[t] = Idle
  BY DEF Init
<1>2. pc \in [Threads -> Labels] /\ cur = [t \in Threads |-> cur[t]] /\ inProgress = {}
  <2>1. pc = [t \in Threads |-> "loop"] /\ cur = [t \in Threads |-> Idle] /\ inProgress = {}
    BY DEF Init
  <2> QED
    BY <2>1 DEF Labels
<1>3. \A t \in Threads : HandShaped(cur[t])
  BY <1>1, IdleShaped, Zenon
<1>4. \A t \in Threads : ~Making(t)
  BY <1>1 DEF Making
<1> QED
  BY <1>2, <1>3, <1>4 DEF GenInv

\* Only chunks outside of the limit are added, or the server is condemned.
NotesOnly == inProgress \subseteq inProgress' /\ (fatal' \/ inProgress' \ inProgress \subseteq Outside)

\* A thread moves without starting or ending a generation.
LEMMA MovesElsewhere ==
  ASSUME GenInv, NEW t \in Threads, pc[t] # "make",
         pc' = [pc EXCEPT ![t] = pc'[t]], pc'[t] \in Labels, pc'[t] # "make",
         cur' = [cur EXCEPT ![t] = cur'[t]], HandShaped(cur'[t]),
         NotesOnly, fatal => fatal'
  PROVE  GenInv'
<1>1. \A u \in Threads : Making(u)' <=> Making(u)
  BY DEF GenInv, Making
<1>2. \A u \in Threads : Making(u) => ChunkOf(u)' = ChunkOf(u)
  BY DEF GenInv, Making, ChunkOf
<1>3. pc' \in [Threads -> Labels]
  BY DEF GenInv
<1>4. cur' = [u \in Threads |-> cur'[u]] /\ \A u \in Threads : HandShaped(cur'[u])
  <2>1. \A u \in Threads : u = t \/ cur'[u] = cur[u]
    BY DEF GenInv
  <2>2. cur' = [u \in Threads |-> cur'[u]]
    BY DEF GenInv
  <2> QED
    BY <2>1, <2>2 DEF GenInv
<1>5. \A u \in Threads : Making(u)' => ChunkOf(u)' \in inProgress'
  BY <1>1, <1>2 DEF GenInv, NotesOnly
<1>6. \A u, v \in Threads : Making(u)' /\ Making(v)' /\ ChunkOf(u)' = ChunkOf(v)' => u = v
  BY <1>1, <1>2 DEF GenInv
<1>7. ~fatal' => \A k \in inProgress' \ Outside : \E u \in Threads : Making(u)' /\ ChunkOf(u)' = k
  BY <1>1, <1>2 DEF GenInv, NotesOnly
<1>8. \A u \in Threads : Making(u)' => ChunkOf(u)' \notin Outside
  BY <1>1, <1>2 DEF GenInv
<1> QED
  BY <1>3, <1>4, <1>5, <1>6, <1>7, <1>8 DEF GenInv

\* The same with what it has in hand, or with something new.
LEMMA MovesOn ==
  ASSUME GenInv, NEW t \in Threads, pc[t] # "make",
         \E label \in Labels \ {"make"} : Goto(t, label),
         cur' = cur, NotesOnly, fatal => fatal'
  PROVE  GenInv'
<1>1. pc' = [pc EXCEPT ![t] = pc'[t]] /\ pc'[t] \in Labels /\ pc'[t] # "make"
  BY DEF Goto, GenInv
<1>2. cur' = [cur EXCEPT ![t] = cur'[t]] /\ HandShaped(cur'[t])
  BY DEF GenInv
<1> QED
  BY <1>1, <1>2, MovesElsewhere

LEMMA TakesUp ==
  ASSUME GenInv, NEW t \in Threads, pc[t] # "make",
         \E label \in Labels \ {"make"} : Goto(t, label),
         \E hand : HandShaped(hand) /\ cur' = [cur EXCEPT ![t] = hand],
         NotesOnly, fatal => fatal'
  PROVE  GenInv'
<1>1. pc' = [pc EXCEPT ![t] = pc'[t]] /\ pc'[t] \in Labels /\ pc'[t] # "make"
  BY DEF Goto, GenInv
<1>2. cur' = [cur EXCEPT ![t] = cur'[t]] /\ HandShaped(cur'[t])
  BY DEF GenInv
<1> QED
  BY <1>1, <1>2, MovesElsewhere

LEMMA GotoLabel ==
  ASSUME NEW t \in Threads
  PROVE  \A label \in {"loop", "wait", "first", "disk", "second", "report", "stop", "cancel", "ended"} :
           Goto(t, label) => \E l \in Labels \ {"make"} : Goto(t, l)
BY DEF Labels

\* A thread starts to make its block's chunk, which nobody else does.
LEMMA StartsMaking ==
  ASSUME GenInv, NEW t \in Threads, pc[t] # "make", NEW loaded, StartGen(t, loaded),
         fatal' = fatal
  PROVE  GenInv'
<1> DEFINE chunk == ChunkOf(t)
<1>1. CASE ~MayGenerate(t) \/ chunk \in Outside
  <2>1. cur' = cur /\ Goto(t, "report") /\ NotesOnly
    BY <1>1 DEF StartGen, NotesOnly, ProgressKey, ChunkOf
  <2> QED
    BY <2>1, GotoLabel, MovesOn
<1>2. CASE MayGenerate(t) /\ chunk \notin Outside
  <2>1. /\ chunk \notin inProgress /\ inProgress' = inProgress \cup {chunk}
        /\ pc' = [pc EXCEPT ![t] = "make"]
        /\ \E area : cur' = [cur EXCEPT ![t].area = area]
    BY <1>2 DEF StartGen, MayGenerate, ProgressKey, Goto, ChunkOf
  <2>2. PICK area : cur' = [cur EXCEPT ![t].area = area]
    BY <2>1
  <2>3. \A u \in Threads : cur'[u] = IF u = t THEN [cur[t] EXCEPT !.area = area] ELSE cur[u]
    BY <2>2 DEF GenInv
  <2>4. HandShaped(cur[t])
    BY DEF GenInv
  <2>5. /\ [cur[t] EXCEPT !.area = area].pos = cur[t].pos
        /\ HandShaped([cur[t] EXCEPT !.area = area])
    BY <2>4 DEF HandShaped
  <2>6. cur' = [u \in Threads |-> cur'[u]] /\ \A u \in Threads : HandShaped(cur'[u])
    BY <2>2, <2>3, <2>5 DEF GenInv
  <2>7. \A u \in Threads : ChunkOf(u)' = ChunkOf(u)
    BY <2>3, <2>5 DEF ChunkOf
  <2>8. pc' \in [Threads -> Labels] /\ \A u \in Threads : Making(u)' <=> (Making(u) \/ u = t)
    BY <2>1 DEF GenInv, Making, Labels
  <2>9. \A u \in Threads : Making(u)' => ChunkOf(u)' \in inProgress'
    BY <2>1, <2>7, <2>8 DEF GenInv
  <2>10. \A u, v \in Threads : Making(u)' /\ Making(v)' /\ ChunkOf(u)' = ChunkOf(v)' => u = v
    BY <2>1, <2>7, <2>8 DEF GenInv
  <2>11. ~fatal' => \A k \in inProgress' \ Outside : \E u \in Threads : Making(u)' /\ ChunkOf(u)' = k
    BY <2>1, <2>7, <2>8 DEF GenInv
  <2>12. \A u \in Threads : Making(u)' => ChunkOf(u)' \notin Outside
    BY <1>2, <2>7, <2>8 DEF GenInv
  <2> QED
    BY <2>6, <2>8, <2>9, <2>10, <2>11, <2>12 DEF GenInv
<1> QED
  BY <1>1, <1>2

\* A thread that was making a chunk reports; another may still be making one.
LEMMA StopsMaking ==
  ASSUME GenInv, NEW t \in Threads, Making(t), Goto(t, "report"), cur' = cur,
         \/ fatal' = fatal /\ inProgress' = inProgress \ {ChunkOf(t)}
         \/ fatal' /\ inProgress' = inProgress
  PROVE  GenInv'
<1>1. pc' \in [Threads -> Labels] /\ \A u \in Threads : Making(u)' <=> (Making(u) /\ u # t)
  BY DEF GenInv, Making, Goto, Labels
<1>2. \A u \in Threads : ChunkOf(u)' = ChunkOf(u)
  BY DEF ChunkOf
<1>3. \A u \in Threads : Making(u)' => ChunkOf(u)' \in inProgress'
  BY <1>1, <1>2 DEF GenInv
<1>4. \A u, v \in Threads : Making(u)' /\ Making(v)' /\ ChunkOf(u)' = ChunkOf(v)' => u = v
  BY <1>1, <1>2 DEF GenInv
<1>5. ~fatal' => \A k \in inProgress' \ Outside : \E u \in Threads : Making(u)' /\ ChunkOf(u)' = k
  BY <1>1, <1>2 DEF GenInv
<1>6. \A u \in Threads : Making(u)' => ChunkOf(u)' \notin Outside
  BY <1>1, <1>2 DEF GenInv
<1> QED
  BY <1>1, <1>3, <1>4, <1>5, <1>6 DEF GenInv

\* Steps that leave the threads alone.
LEMMA GenUnchanged ==
  ASSUME GenInv, UNCHANGED <<pc, cur, inProgress, fatal>>
  PROVE  GenInv'
BY DEF GenInv, Making, ChunkOf

LEMMA GenThread ==
  ASSUME GenInv, NEW t \in Threads, Thread(t)
  PROVE  GenInv'
<1> USE DEF server, map, queues, bounds
<1>0. HandShaped(cur[t]) /\ cur = [cur EXCEPT ![t] = cur[t]]
  BY DEF GenInv
<1>1. CASE PopBlock(t)
  <2>1. pc[t] = "loop" /\ inProgress' = inProgress /\ fatal' = fatal
    BY <1>1 DEF PopBlock
  <2>2. CASE t \in stopping
    BY <1>1, <2>1, <2>2, GotoLabel, MovesOn DEF PopBlock, NotesOnly
  <2>3. CASE t \notin stopping /\ queue[t] = <<>>
    BY <1>1, <2>1, <2>3, GotoLabel, MovesOn DEF PopBlock, NotesOnly
  <2>4. CASE t \notin stopping /\ queue[t] # <<>> /\ Head(queue[t]) \in OverLimit
    BY <1>1, <2>1, <2>4, GenUnchanged DEF PopBlock
  <2>5. CASE t \notin stopping /\ queue[t] # <<>> /\ Head(queue[t]) \notin OverLimit
    <3> DEFINE b == Head(queue[t])
               hand == Hand(b, enqueued[b].gen, enqueued[b].callbacks)
    <3>1. HandShaped(hand)
      BY DEF HandShaped, Hand
    <3>2. cur' = [cur EXCEPT ![t] = hand] /\ Goto(t, "first")
      BY <1>1, <2>5 DEF PopBlock
    <3> HIDE DEF hand
    <3> QED
      BY <2>1, <3>1, <3>2, GotoLabel, TakesUp DEF NotesOnly
  <2> QED
    BY <2>2, <2>3, <2>4, <2>5
<1>2. CASE WaitEvent(t)
  BY <1>2, GotoLabel, MovesOn DEF WaitEvent, NotesOnly
<1>3. CASE GetBlock(t)
  <2>1. pc[t] = "first" /\ fatal' = fatal
    BY <1>3 DEF GetBlock
  <2>2. CASE StartGen(t, mem)
    BY <2>1, <2>2, StartsMaking
  <2>3. CASE UNCHANGED <<inProgress, cur>> /\ (Goto(t, "disk") \/ Goto(t, "report"))
    BY <2>1, <2>3, GotoLabel, MovesOn DEF NotesOnly
  <2> QED
    BY <1>3, <2>2, <2>3 DEF GetBlock
<1>4. CASE ReadDatabase(t)
  <2> DEFINE hand == [cur[t] EXCEPT !.bytes = db[cur[t].pos]]
  <2>1. HandShaped(hand)
    BY <1>0 DEF HandShaped
  <2>2. /\ cur' = [cur EXCEPT ![t] = hand] /\ Goto(t, "second") /\ pc[t] = "disk"
        /\ inProgress' = inProgress /\ fatal' = fatal
    BY <1>4 DEF ReadDatabase
  <2> HIDE DEF hand
  <2> QED
    BY <2>1, <2>2, GotoLabel, TakesUp DEF NotesOnly
<1>5. CASE LoadBlock(t)
  <2>1. pc[t] = "second" /\ fatal' = fatal
    BY <1>5 DEF LoadBlock
  <2>2. CASE StartGen(t, Loaded(t))
    BY <2>1, <2>2, StartsMaking
  <2>3. CASE UNCHANGED <<inProgress, cur>> /\ Goto(t, "report")
    BY <2>1, <2>3, GotoLabel, MovesOn DEF NotesOnly
  <2> QED
    BY <1>5, <2>2, <2>3 DEF LoadBlock
<1>6. CASE LoadFails(t)
  BY <1>6, IdleShaped, GotoLabel, TakesUp DEF LoadFails, LeaveLoop, NotesOnly
<1>12. CASE AreaFails(t)
  BY <1>12, IdleShaped, GotoLabel, TakesUp DEF AreaFails, LeaveLoop, NotesOnly
<1>7. CASE FinishGen(t)
  BY <1>7, StopsMaking DEF FinishGen, Making, ChunkOf
<1>8. CASE Report(t)
  BY <1>8, IdleShaped, GotoLabel, TakesUp DEF Report, NotesOnly
<1>9. CASE LockQueue(t)
  BY <1>9, GotoLabel, MovesOn DEF LockQueue, NotesOnly
<1>10. CASE CancelItem(t)
  BY <1>10, GenUnchanged DEF CancelItem
<1>11. CASE EndThread(t)
  BY <1>11, GotoLabel, MovesOn DEF EndThread, NotesOnly
<1> QED
  BY <1>1, <1>2, <1>3, <1>4, <1>5, <1>6, <1>7, <1>8, <1>9, <1>10, <1>11, <1>12
     DEF Thread

LEMMA GenNext == GenInv /\ [Next]_vars => GenInv'
<1> SUFFICES ASSUME GenInv, [Next]_vars PROVE GenInv'
  OBVIOUS
<1>1. CASE EnqueueForPeer \/ EmergeArea
  BY <1>1, GenUnchanged DEF EnqueueForPeer, EmergeArea, Ask, map
<1>2. CASE Enqueue
  BY <1>2, GenUnchanged DEF Enqueue, map
<1>3. CASE Signal
  BY <1>3, GenUnchanged DEF Signal, map
<1>4. ASSUME NEW b \in Blocks, ModifyBlock(b) \/ UnloadBlock(b) \/ DeleteBlock(b)
      PROVE  GenInv'
  BY <1>4, GenUnchanged DEF ModifyBlock, UnloadBlock, DeleteBlock, Change
<1>5. ASSUME NEW t \in Threads, StopThread(t) PROVE GenInv'
  BY <1>5, GenUnchanged DEF StopThread, map
<1>6. ASSUME NEW t \in Threads, GenerateFails(t) PROVE GenInv'
  BY <1>6, StopsMaking DEF GenerateFails, Making, map
<1>7. CASE UNCHANGED vars
  BY <1>7, GenUnchanged DEF vars, map
<1> QED
  BY <1>1, <1>2, <1>3, <1>4, <1>5, <1>6, <1>7, GenThread DEF Next

\* A chunk is generated by one thread at a time, and is in progress only then,
\* until an error has condemned the server; a chunk that is not inside of the mapgen
\* limit stays in progress once it was asked for.
THEOREM OneGenerator == Spec => []OneGeneratorPerChunk
<1>1. ASSUME GenInv PROVE OneGeneratorPerChunk
  <2> DEFINE making == {t \in Threads : pc[t] = "make"}
  <2>1. \A t, u \in making : ChunkOf(t) = ChunkOf(u) => t = u
    BY <1>1 DEF GenInv, Making
  <2>2. ~fatal => inProgress \ Outside = {ChunkOf(t) : t \in making}
    BY <1>1 DEF GenInv, Making
  <2> QED
    BY <2>1, <2>2 DEF OneGeneratorPerChunk, ChunkOf
<1> QED
  BY <1>1, GenInit, GenNext, PTL DEF Spec

-----------------------------------------------------------------------------
(* The queues.                                                              *)

AllPeers == Peers \cup {NoPeer}
DataShaped(data) == data = [peer |-> data.peer, gen |-> data.gen, callbacks |-> data.callbacks]

\* The inductive form of QueuesAgree.
QueueInv ==
  /\ queue \in [Threads -> Seq(Blocks)]
  /\ enqueued = [b \in DOMAIN enqueued |-> enqueued[b]]
  /\ DOMAIN enqueued \subseteq Blocks /\ IsFiniteSet(DOMAIN enqueued)
  /\ \A b \in DOMAIN enqueued : DataShaped(enqueued[b]) /\ enqueued[b].peer \in AllPeers
  /\ asking = NoRequest \/ (asking.pos \in Blocks /\ asking.peer \in AllPeers)
  /\ InOneQueue
  /\ count = [p \in AllPeers |-> Cardinality(OfPeer(p))]

LEMMA QueueInit == Init => QueueInv
<1> SUFFICES ASSUME Init PROVE QueueInv
  OBVIOUS
<1>1. /\ queue = [t \in Threads |-> <<>>] /\ enqueued = <<>> /\ asking = NoRequest
      /\ count = [p \in AllPeers |-> 0]
  BY DEF Init, AllPeers
<1>2. DOMAIN enqueued = {} /\ enqueued = [b \in DOMAIN enqueued |-> enqueued[b]]
  BY <1>1
<1>3. IsFiniteSet(DOMAIN enqueued) /\ Cardinality({}) = 0
  BY <1>2, FS_EmptySet
<1>4. \A p \in AllPeers : OfPeer(p) = {}
  BY <1>2 DEF OfPeer
<1>5. count = [p \in AllPeers |-> Cardinality(OfPeer(p))]
  BY <1>1, <1>3, <1>4
<1>6. InOneQueue
  BY <1>1, <1>2 DEF InOneQueue
<1>7. queue \in [Threads -> Seq(Blocks)]
  BY <1>1
<1>8. DOMAIN enqueued \subseteq Blocks /\ IsFiniteSet(DOMAIN enqueued)
  BY <1>2, <1>3
<1>9. \A b \in DOMAIN enqueued : DataShaped(enqueued[b]) /\ enqueued[b].peer \in AllPeers
  BY <1>2
<1> QED
  BY <1>1, <1>2, <1>5, <1>6, <1>7, <1>8, <1>9 DEF QueueInv

\* A block that was not enqueued is put at the end of one queue.
LEMMA PushKeepsOneQueue ==
  ASSUME QueueInv, NEW t \in Threads, NEW b \in Blocks, b \notin DOMAIN enqueued,
         queue' = [queue EXCEPT ![t] = Append(@, b)],
         DOMAIN enqueued' = DOMAIN enqueued \cup {b}
  PROVE  InOneQueue' /\ queue' \in [Threads -> Seq(Blocks)]
<1>1. queue' \in [Threads -> Seq(Blocks)]
  BY DEF QueueInv
<1>2. /\ \A u \in Threads : u # t => queue'[u] = queue[u]
      /\ DOMAIN queue'[t] = DOMAIN queue[t] \cup {Len(queue[t]) + 1}
      /\ Len(queue[t]) + 1 \notin DOMAIN queue[t] /\ queue'[t][Len(queue[t]) + 1] = b
      /\ \A i \in DOMAIN queue[t] : queue'[t][i] = queue[t][i]
  BY DEF QueueInv
<1>3. \A u \in Threads : \A i \in DOMAIN queue[u] : i \in DOMAIN queue'[u] /\ queue'[u][i] = queue[u][i]
  BY <1>2
<1>4. \A u \in Threads : \A i \in DOMAIN queue'[u] :
        \/ i \in DOMAIN queue[u] /\ queue'[u][i] = queue[u][i]
        \/ u = t /\ i = Len(queue[t]) + 1 /\ queue'[u][i] = b
  BY <1>2
<1>5. \A u \in Threads : \A i \in DOMAIN queue[u] : queue[u][i] # b
  BY DEF QueueInv, InOneQueue
<1>6. ASSUME NEW x \in Blocks
      PROVE  x \in DOMAIN enqueued' <=> \E u \in Threads : \E i \in DOMAIN queue'[u] : queue'[u][i] = x
  <2>1. x \in DOMAIN enqueued <=> \E u \in Threads : \E i \in DOMAIN queue[u] : queue[u][i] = x
    BY DEF QueueInv, InOneQueue
  <2>2. Len(queue[t]) + 1 \in DOMAIN queue'[t]
    BY <1>2
  <2> QED
    BY <1>2, <1>3, <1>4, <2>1, <2>2
<1>7. \A u, v \in Threads : \A i \in DOMAIN queue'[u], j \in DOMAIN queue'[v] :
        queue'[u][i] = queue'[v][j] => u = v /\ i = j
  BY <1>4, <1>5 DEF QueueInv, InOneQueue
<1> QED
  BY <1>1, <1>6, <1>7 DEF InOneQueue

\* What is left of a queue when its front is taken.
LEMMA TailShifts ==
  ASSUME NEW s \in Seq(Blocks), s # <<>>
  PROVE  /\ Len(s) \in Nat \ {0} /\ DOMAIN s = 1 .. Len(s)
         /\ DOMAIN Tail(s) = 1 .. (Len(s) - 1)
         /\ \A i \in 1 .. (Len(s) - 1) : Tail(s)[i] = s[i + 1]
<1>1. Len(s) \in Nat \ {0} /\ DOMAIN s = 1 .. Len(s)
  OBVIOUS
<1>2. Tail(s) \in Seq(Blocks) /\ Len(Tail(s)) = Len(s) - 1
  OBVIOUS
<1>3. DOMAIN Tail(s) = 1 .. (Len(s) - 1)
  BY <1>2
<1>4. \A i \in 1 .. (Len(s) - 1) : Tail(s)[i] = s[i + 1]
  OBVIOUS
<1> QED
  BY <1>1, <1>3, <1>4

\* A block is taken off the front of its queue.
LEMMA PopKeepsOneQueue ==
  ASSUME QueueInv, NEW t \in Threads, queue[t] # <<>>,
         queue' = [queue EXCEPT ![t] = Tail(@)],
         DOMAIN enqueued' = DOMAIN enqueued \ {Head(queue[t])}
  PROVE  InOneQueue' /\ queue' \in [Threads -> Seq(Blocks)]
<1> DEFINE b == Head(queue[t])
<1>1. queue' \in [Threads -> Seq(Blocks)]
  BY DEF QueueInv
<1>2. queue[t] \in Seq(Blocks) /\ Len(queue[t]) \in Nat \ {0} /\ 1 \in DOMAIN queue[t] /\ b = queue[t][1]
  BY DEF QueueInv
<1>3. /\ \A u \in Threads : u # t => queue'[u] = queue[u]
      /\ queue'[t] = Tail(queue[t])
  BY DEF QueueInv
<1>8. /\ Len(queue[t]) \in Nat \ {0} /\ DOMAIN queue[t] = 1 .. Len(queue[t])
      /\ DOMAIN Tail(queue[t]) = 1 .. (Len(queue[t]) - 1)
      /\ \A i \in 1 .. (Len(queue[t]) - 1) : Tail(queue[t])[i] = queue[t][i + 1]
  BY <1>2, TailShifts
<1>4. \A i \in DOMAIN queue'[t] : i + 1 \in DOMAIN queue[t] /\ i + 1 # 1 /\ queue'[t][i] = queue[t][i + 1]
  <2> SUFFICES ASSUME NEW i \in DOMAIN Tail(queue[t])
               PROVE  i + 1 \in DOMAIN queue[t] /\ i + 1 # 1 /\ Tail(queue[t])[i] = queue[t][i + 1]
    BY <1>3
  <2>1. i \in 1 .. (Len(queue[t]) - 1)
    BY <1>8
  <2>2. i + 1 \in 1 .. Len(queue[t]) /\ i + 1 # 1
    BY <1>8, <2>1
  <2> QED
    BY <1>8, <2>1, <2>2
<1>5. \A i \in DOMAIN queue[t] : i # 1 => i - 1 \in DOMAIN queue'[t] /\ queue'[t][i - 1] = queue[t][i]
  <2> SUFFICES ASSUME NEW i \in DOMAIN queue[t], i # 1
               PROVE  i - 1 \in DOMAIN queue'[t] /\ queue'[t][i - 1] = queue[t][i]
    OBVIOUS
  <2>1. i - 1 \in 1 .. (Len(queue[t]) - 1) /\ (i - 1) + 1 = i
    BY <1>8
  <2> QED
    BY <1>3, <1>8, <2>1
<1>6. ASSUME NEW x \in Blocks
      PROVE  x \in DOMAIN enqueued' <=> \E u \in Threads : \E i \in DOMAIN queue'[u] : queue'[u][i] = x
  <2>1. ASSUME x \in DOMAIN enqueued'
        PROVE  \E u \in Threads : \E i \in DOMAIN queue'[u] : queue'[u][i] = x
    <3>0. x \in DOMAIN enqueued /\ \E u \in Threads : \E i \in DOMAIN queue[u] : queue[u][i] = x
      BY <2>1 DEF QueueInv, InOneQueue
    <3>1. PICK u \in Threads : \E i \in DOMAIN queue[u] : queue[u][i] = x
      BY <3>0
    <3>2. PICK i \in DOMAIN queue[u] : queue[u][i] = x
      BY <3>1
    <3>5. x # b
      BY <2>1
    <3>3. CASE u # t
      BY <1>3, <3>2, <3>3
    <3>4. CASE u = t
      BY <1>2, <1>5, <3>2, <3>4, <3>5
    <3> QED
      BY <3>3, <3>4
  <2>2. ASSUME NEW u \in Threads, NEW i \in DOMAIN queue'[u], queue'[u][i] = x
        PROVE  x \in DOMAIN enqueued'
    <3>1. CASE u # t
      <4>1. i \in DOMAIN queue[u] /\ queue[u][i] = x
        BY <1>3, <2>2, <3>1
      <4> QED
        BY <1>2, <3>1, <4>1 DEF QueueInv, InOneQueue
    <3>2. CASE u = t
      <4>1. i + 1 \in DOMAIN queue[t] /\ queue[t][i + 1] = x /\ i + 1 # 1
        BY <1>4, <2>2, <3>2
      <4> QED
        BY <1>2, <4>1 DEF QueueInv, InOneQueue
    <3> QED
      BY <3>1, <3>2
  <2> QED
    BY <2>1, <2>2
<1>7. ASSUME NEW u \in Threads, NEW v \in Threads,
             NEW i \in DOMAIN queue'[u], NEW j \in DOMAIN queue'[v], queue'[u][i] = queue'[v][j]
      PROVE  u = v /\ i = j
  <2>1. /\ u # t => i \in DOMAIN queue[u] /\ queue[u][i] = queue'[u][i]
        /\ v # t => j \in DOMAIN queue[v] /\ queue[v][j] = queue'[v][j]
        /\ i \in Int /\ j \in Int
    BY <1>1, <1>3
  <2> QED
    BY <1>4, <1>7, <2>1 DEF QueueInv, InOneQueue
<1> QED
  BY <1>1, <1>6, <1>7 DEF InOneQueue

\* What is charged to the peers when a block's data is inserted, ...
LEMMA CountsAdded ==
  ASSUME QueueInv, NEW b \in Blocks, b \notin DOMAIN enqueued, NEW peer \in AllPeers,
         DOMAIN enqueued' = DOMAIN enqueued \cup {b}, enqueued'[b].peer = peer,
         \A x \in DOMAIN enqueued : enqueued'[x] = enqueued[x],
         count' = [count EXCEPT ![peer] = @ + 1]
  PROVE  count' = [p \in AllPeers |-> Cardinality(OfPeer(p)')] /\ IsFiniteSet(DOMAIN enqueued')
<1>1. \A p \in AllPeers : IsFiniteSet(OfPeer(p)) /\ b \notin OfPeer(p)
  BY FS_Subset DEF QueueInv, OfPeer
<1>2. \A p \in AllPeers : OfPeer(p)' = IF p = peer THEN OfPeer(p) \cup {b} ELSE OfPeer(p)
  BY DEF OfPeer
<1>3. Cardinality(OfPeer(peer)') = Cardinality(OfPeer(peer)) + 1
  BY <1>1, <1>2, FS_AddElement
<1>4. IsFiniteSet(DOMAIN enqueued')
  BY FS_AddElement DEF QueueInv
<1>5. \A p \in AllPeers : p # peer => Cardinality(OfPeer(p)') = Cardinality(OfPeer(p))
  BY <1>2
<1> QED
  BY <1>3, <1>4, <1>5 DEF QueueInv

\* ... and given back when popBlockEmergeData erases it.
LEMMA CountsTaken ==
  ASSUME QueueInv, NEW b \in DOMAIN enqueued, Forget(b)
  PROVE  /\ count' = [p \in AllPeers |-> Cardinality(OfPeer(p)')]
         /\ IsFiniteSet(DOMAIN enqueued') /\ DOMAIN enqueued' = DOMAIN enqueued \ {b}
         /\ enqueued' = [x \in DOMAIN enqueued' |-> enqueued'[x]]
         /\ \A x \in DOMAIN enqueued' : enqueued'[x] = enqueued[x]
<1>4. PICK peer \in AllPeers : peer = enqueued[b].peer
  BY DEF QueueInv
<1>1. \A p \in AllPeers : IsFiniteSet(OfPeer(p)) /\ (b \in OfPeer(p) <=> p = peer)
  BY <1>4, FS_Subset DEF QueueInv, OfPeer
<1>2. /\ DOMAIN enqueued' = DOMAIN enqueued \ {b}
      /\ enqueued' = [x \in DOMAIN enqueued' |-> enqueued'[x]]
      /\ \A x \in DOMAIN enqueued' : enqueued'[x] = enqueued[x]
  BY DEF Forget
<1>3. \A p \in AllPeers : OfPeer(p)' = OfPeer(p) \ {b}
  BY <1>2 DEF OfPeer
<1>5. Cardinality(OfPeer(peer)') = Cardinality(OfPeer(peer)) - 1
  <2>1. IsFiniteSet(OfPeer(peer)) /\ b \in OfPeer(peer)
    BY <1>1, <1>4
  <2>2. Cardinality(OfPeer(peer) \ {b}) = Cardinality(OfPeer(peer)) - 1
    BY <2>1, FS_RemoveElement
  <2> QED
    BY <1>3, <1>4, <2>2
<1>6. \A p \in AllPeers : p # peer => OfPeer(p)' = OfPeer(p)
  BY <1>1, <1>3
<1>7. count' = [count EXCEPT ![peer] = @ - 1]
  BY <1>4 DEF Forget
<1>8. IsFiniteSet(DOMAIN enqueued')
  BY <1>2, FS_RemoveElement DEF QueueInv
<1>9. count = [p \in AllPeers |-> Cardinality(OfPeer(p))]
  BY DEF QueueInv
<1>10. count' = [p \in AllPeers |-> Cardinality(OfPeer(p)')]
  BY <1>4, <1>5, <1>6, <1>7, <1>9
<1> QED
  BY <1>2, <1>8, <1>10

LEMMA QueueUnchanged ==
  ASSUME QueueInv, UNCHANGED queues,
         asking' = NoRequest \/ (asking'.pos \in Blocks /\ asking'.peer \in AllPeers)
  PROVE  QueueInv'
BY DEF QueueInv, queues, InOneQueue, OfPeer

\* A block leaves its queue and its data is erased.
LEMMA PopKeepsQueues ==
  ASSUME QueueInv, NEW t \in Threads, queue[t] # <<>>,
         queue' = [queue EXCEPT ![t] = Tail(@)], Forget(Head(queue[t])), asking' = asking
  PROVE  QueueInv'
<1> DEFINE b == Head(queue[t])
<1>1. 1 \in DOMAIN queue[t] /\ b = queue[t][1] /\ b \in Blocks
  BY DEF QueueInv
<1>2. b \in DOMAIN enqueued
  BY <1>1 DEF QueueInv, InOneQueue
<1>3. /\ count' = [p \in AllPeers |-> Cardinality(OfPeer(p)')]
      /\ IsFiniteSet(DOMAIN enqueued') /\ DOMAIN enqueued' = DOMAIN enqueued \ {b}
      /\ enqueued' = [x \in DOMAIN enqueued' |-> enqueued'[x]]
      /\ \A x \in DOMAIN enqueued' : enqueued'[x] = enqueued[x]
  BY <1>2, CountsTaken
<1>4. InOneQueue' /\ queue' \in [Threads -> Seq(Blocks)]
  BY <1>3, PopKeepsOneQueue
<1> QED
  BY <1>3, <1>4 DEF QueueInv

LEMMA EnqueueKeepsQueues ==
  ASSUME QueueInv, Enqueue
  PROVE  QueueInv'
<1> DEFINE r == asking
           b == asking.pos
<1>1. b \in Blocks /\ r.peer \in AllPeers /\ asking' = NoRequest
  BY DEF Enqueue, QueueInv
<1>2. CASE ~WithinLimits(r)
  <2>1. UNCHANGED queues
    BY <1>2 DEF Enqueue, queues
  <2> QED
    BY <1>1, <2>1, QueueUnchanged
<1>3. CASE WithinLimits(r) /\ b \in DOMAIN enqueued
  <2>1. /\ enqueued' = [enqueued EXCEPT ![b].gen = @ \/ r.gen,
                                         ![b].callbacks = @ \cup r.callbacks]
        /\ count' = count /\ queue' = queue
    BY <1>3 DEF Enqueue, CountWith
  <2>2. /\ DOMAIN enqueued' = DOMAIN enqueued
        /\ enqueued' = [x \in DOMAIN enqueued' |-> enqueued'[x]]
        /\ \A x \in DOMAIN enqueued : x # b => enqueued'[x] = enqueued[x]
        /\ enqueued'[b] = [enqueued[b] EXCEPT !.gen = @ \/ r.gen, !.callbacks = @ \cup r.callbacks]
    BY <1>3, <2>1
  <2>3. DataShaped(enqueued[b])
    BY <1>3 DEF QueueInv
  <2>4. DataShaped(enqueued'[b]) /\ enqueued'[b].peer = enqueued[b].peer
    BY <2>2, <2>3 DEF DataShaped
  <2>5. \A p \in AllPeers : OfPeer(p)' = OfPeer(p)
    BY <2>2, <2>4 DEF OfPeer
  <2>6. InOneQueue'
    BY <2>1, <2>2 DEF QueueInv, InOneQueue
  <2>7. count' = [p \in AllPeers |-> Cardinality(OfPeer(p)')]
    BY <2>1, <2>5 DEF QueueInv
  <2>8. \A x \in DOMAIN enqueued' : DataShaped(enqueued'[x]) /\ enqueued'[x].peer \in AllPeers
    <3> TAKE x \in DOMAIN enqueued'
    <3>1. DataShaped(enqueued[x]) /\ enqueued[x].peer \in AllPeers /\ x \in DOMAIN enqueued
      BY <2>2 DEF QueueInv
    <3>2. x # b => enqueued'[x] = enqueued[x]
      BY <2>2, <3>1
    <3> QED
      BY <2>4, <3>1, <3>2
  <2>9. queue' \in [Threads -> Seq(Blocks)] /\ DOMAIN enqueued' \subseteq Blocks
        /\ IsFiniteSet(DOMAIN enqueued')
    BY <2>1, <2>2 DEF QueueInv
  <2> QED
    BY <1>1, <2>2, <2>6, <2>7, <2>8, <2>9 DEF QueueInv
<1>4. CASE WithinLimits(r) /\ b \notin DOMAIN enqueued
  <2> DEFINE data == [peer |-> r.peer, gen |-> r.gen, callbacks |-> r.callbacks]
  <2>1. /\ enqueued' = [x \in DOMAIN enqueued \cup {b} |-> IF x = b THEN data ELSE enqueued[x]]
        /\ count' = [count EXCEPT ![r.peer] = @ + 1]
        /\ \E t \in Threads : queue' = [queue EXCEPT ![t] = Append(@, b)]
    BY <1>4 DEF Enqueue, CountWith
  <2>2. /\ DOMAIN enqueued' = DOMAIN enqueued \cup {b}
        /\ enqueued' = [x \in DOMAIN enqueued' |-> enqueued'[x]]
        /\ \A x \in DOMAIN enqueued : enqueued'[x] = enqueued[x]
        /\ enqueued'[b] = data
    BY <1>4, <2>1
  <2>3. DataShaped(data) /\ data.peer = r.peer
    BY DEF DataShaped
  <2> HIDE DEF data
  <2>4. InOneQueue' /\ queue' \in [Threads -> Seq(Blocks)]
    <3>1. PICK t \in Threads : queue' = [queue EXCEPT ![t] = Append(@, b)]
      BY <2>1
    <3> QED
      BY <1>1, <1>4, <2>2, <3>1, PushKeepsOneQueue
  <2>5. count' = [p \in AllPeers |-> Cardinality(OfPeer(p)')] /\ IsFiniteSet(DOMAIN enqueued')
    BY <1>1, <1>4, <2>1, <2>2, <2>3, CountsAdded
  <2> QED
    BY <1>1, <2>2, <2>3, <2>4, <2>5 DEF QueueInv
<1> QED
  BY <1>2, <1>3, <1>4

LEMMA QueueNext == QueueInv /\ [Next]_vars => QueueInv'
<1> SUFFICES ASSUME QueueInv, [Next]_vars PROVE QueueInv'
  OBVIOUS
<1>0. asking = NoRequest \/ (asking.pos \in Blocks /\ asking.peer \in AllPeers)
  BY DEF QueueInv
<1>1. CASE EnqueueForPeer \/ EmergeArea
  <2>1. UNCHANGED queues /\ asking'.pos \in Blocks /\ asking'.peer \in AllPeers
    BY <1>1 DEF EnqueueForPeer, EmergeArea, Ask, AllPeers
  <2> QED
    BY <2>1, QueueUnchanged
<1>2. CASE Enqueue
  BY <1>2, EnqueueKeepsQueues
<1>3. CASE Signal
  BY <1>0, <1>3, QueueUnchanged DEF Signal
<1>4. ASSUME NEW b \in Blocks, ModifyBlock(b) \/ UnloadBlock(b) \/ DeleteBlock(b)
      PROVE  QueueInv'
  BY <1>0, <1>4, QueueUnchanged DEF ModifyBlock, UnloadBlock, DeleteBlock, Change, server
<1>5. ASSUME NEW t \in Threads, StopThread(t) \/ GenerateFails(t) PROVE QueueInv'
  BY <1>0, <1>5, QueueUnchanged DEF StopThread, GenerateFails, server
<1>6. ASSUME NEW t \in Threads, PopBlock(t) PROVE QueueInv'
  <2>1. \/ UNCHANGED queues
        \/ /\ queue[t] # <<>> /\ Forget(Head(queue[t]))
           /\ queue' = [queue EXCEPT ![t] = Tail(@)]
    BY <1>6 DEF PopBlock
  <2>2. asking' = asking
    BY <1>6 DEF PopBlock, server
  <2> QED
    BY <1>0, <2>1, <2>2, PopKeepsQueues, QueueUnchanged
<1>7. ASSUME NEW t \in Threads, CancelItem(t) PROVE QueueInv'
  BY <1>7, PopKeepsQueues DEF CancelItem, server
<1>8. ASSUME NEW t \in Threads,
             \/ WaitEvent(t) \/ GetBlock(t) \/ ReadDatabase(t) \/ LoadBlock(t) \/ LoadFails(t)
             \/ AreaFails(t) \/ FinishGen(t) \/ Report(t) \/ LockQueue(t) \/ EndThread(t)
      PROVE  QueueInv'
  <2>1. UNCHANGED queues /\ asking' = asking
    BY <1>8 DEF WaitEvent, GetBlock, ReadDatabase, LoadBlock, LoadFails, AreaFails, LeaveLoop,
                FinishGen, Report, LockQueue, EndThread, server
  <2> QED
    BY <1>0, <2>1, QueueUnchanged
<1>9. CASE UNCHANGED vars
  BY <1>0, <1>9, QueueUnchanged DEF vars, server
<1> QED
  BY <1>1, <1>2, <1>3, <1>4, <1>5, <1>6, <1>7, <1>8, <1>9 DEF Next, Thread

\* A block has data exactly if one thread has it in its queue, once, and a peer is
\* charged for exactly its blocks, so that its count can never underflow.
THEOREM QueuesAlwaysAgree == Spec => []QueuesAgree
<1>1. ASSUME QueueInv PROVE QueuesAgree
  <2>1. count = [p \in AllPeers |-> Cardinality(OfPeer(p))] /\ InOneQueue
    BY <1>1 DEF QueueInv
  <2> QED
    BY <2>1 DEF QueuesAgree
<1> QED
  BY <1>1, QueueInit, QueueNext, PTL DEF Spec
-----------------------------------------------------------------------------
(* The callbacks.                                                           *)

\* The callbacks that have not run.
Waiting == {c \in DOMAIN calls : calls[c] = 0}

\* A callback that has not run is in one place at most: the data of one block in
\* the queues or the hands of one thread.  A new one is in no place yet.
CallInv ==
  /\ calls \in Seq({0, 1})
  /\ asking = NoRequest \/ asking.callbacks = {} \/ asking.callbacks = {Len(calls) + 1}
  /\ \A t \in Threads : cur[t].callbacks \subseteq Waiting
  /\ \A b \in DOMAIN enqueued : enqueued[b].callbacks \subseteq Waiting
  /\ \A t, u \in Threads : t # u => cur[t].callbacks \cap cur[u].callbacks = {}
  /\ \A b, d \in DOMAIN enqueued : b # d => enqueued[b].callbacks \cap enqueued[d].callbacks = {}
  /\ \A t \in Threads, b \in DOMAIN enqueued : cur[t].callbacks \cap enqueued[b].callbacks = {}

LEMMA CallInit == Init => CallInv
<1> SUFFICES ASSUME Init PROVE CallInv
  OBVIOUS
<1>1. calls = <<>> /\ asking = NoRequest /\ enqueued = <<>> /\ cur = [t \in Threads |-> Idle]
  BY DEF Init
<1>2. Idle.callbacks = {}
  BY DEF Idle, Hand
<1>3. \A t \in Threads : cur[t].callbacks = {}
  BY <1>1, <1>2
<1>4. DOMAIN enqueued = {} /\ calls \in Seq({0, 1})
  BY <1>1
<1> QED
  BY <1>1, <1>3, <1>4 DEF CallInv

\* What runs is not waiting any more.
LEMMA RunsOnce ==
  ASSUME CallInv, NEW called, called \subseteq Waiting, RunCallbacks(called)
  PROVE  calls' \in Seq({0, 1}) /\ Len(calls') = Len(calls) /\ Waiting' = Waiting \ called
<1>1. calls \in Seq({0, 1}) /\ DOMAIN calls = 1 .. Len(calls) /\ Len(calls) \in Nat
  BY DEF CallInv
<1>2. calls' = [c \in 1 .. Len(calls) |-> IF c \in called THEN calls[c] + 1 ELSE calls[c]]
  BY <1>1 DEF RunCallbacks
<1>3. \A c \in 1 .. Len(calls) : calls[c] \in {0, 1} /\ (c \in called => calls[c] = 0)
  BY <1>1 DEF Waiting
<1>4. \A c \in 1 .. Len(calls) : calls'[c] \in {0, 1} /\ calls'[c] = IF c \in called THEN 1 ELSE calls[c]
  BY <1>2, <1>3
<1>5. calls' \in Seq({0, 1}) /\ Len(calls') = Len(calls) /\ DOMAIN calls' = DOMAIN calls
  BY <1>1, <1>2, <1>4
<1> QED
  BY <1>1, <1>3, <1>4, <1>5 DEF Waiting

\* Some callbacks run and nobody holds them afterwards; others may be forgotten.
LEMMA HoldersShrink ==
  ASSUME CallInv, NEW called,
         calls' \in Seq({0, 1}), Len(calls') = Len(calls), Waiting' = Waiting \ called,
         asking' = NoRequest \/ asking'.callbacks = {} \/ asking'.callbacks = {Len(calls) + 1},
         \A t \in Threads : cur'[t].callbacks \subseteq cur[t].callbacks \ called,
         DOMAIN enqueued' \subseteq DOMAIN enqueued,
         \A b \in DOMAIN enqueued' : enqueued'[b].callbacks \subseteq enqueued[b].callbacks \ called
  PROVE  CallInv'
<1>1. \A t \in Threads : cur'[t].callbacks \subseteq Waiting'
  BY DEF CallInv
<1>2. \A b \in DOMAIN enqueued' : enqueued'[b].callbacks \subseteq Waiting'
  BY DEF CallInv
<1>3. \A t, u \in Threads : t # u => cur'[t].callbacks \cap cur'[u].callbacks = {}
  BY DEF CallInv
<1>4. \A b, d \in DOMAIN enqueued' : b # d => enqueued'[b].callbacks \cap enqueued'[d].callbacks = {}
  BY DEF CallInv
<1>5. \A t \in Threads, b \in DOMAIN enqueued' : cur'[t].callbacks \cap enqueued'[b].callbacks = {}
  BY DEF CallInv
<1> QED
  BY <1>1, <1>2, <1>3, <1>4, <1>5 DEF CallInv

LEMMA CallsUnchanged ==
  ASSUME CallInv, calls' = calls, enqueued' = enqueued,
         asking' = NoRequest \/ asking'.callbacks = {} \/ asking'.callbacks = {Len(calls) + 1},
         \A t \in Threads : cur'[t].callbacks \subseteq cur[t].callbacks
  PROVE  CallInv'
<1>1. Waiting' = Waiting \ {}
  BY DEF Waiting
<1>2. calls' \in Seq({0, 1}) /\ Len(calls') = Len(calls)
  BY DEF CallInv
<1> QED
  BY <1>1, <1>2, HoldersShrink

\* What a thread takes in hand it gets from one block's data, which is erased.
LEMMA TakesCallbacks ==
  ASSUME CallInv, NEW t \in Threads, NEW b \in DOMAIN enqueued,
         calls' = calls, asking' = asking,
         cur'[t].callbacks = enqueued[b].callbacks,
         \A u \in Threads : u # t => cur'[u] = cur[u],
         DOMAIN enqueued' = DOMAIN enqueued \ {b},
         \A x \in DOMAIN enqueued' : enqueued'[x] = enqueued[x]
  PROVE  CallInv'
<1>1. Waiting' = Waiting
  BY DEF Waiting
<1>2. \A u \in Threads : cur'[u].callbacks \subseteq Waiting'
  BY <1>1 DEF CallInv
<1>3. \A x \in DOMAIN enqueued' : enqueued'[x].callbacks \subseteq Waiting'
  BY <1>1 DEF CallInv
<1>4. \A u, v \in Threads : u # v => cur'[u].callbacks \cap cur'[v].callbacks = {}
  BY DEF CallInv
<1>5. \A x, y \in DOMAIN enqueued' : x # y => enqueued'[x].callbacks \cap enqueued'[y].callbacks = {}
  BY DEF CallInv
<1>6. \A u \in Threads, x \in DOMAIN enqueued' : cur'[u].callbacks \cap enqueued'[x].callbacks = {}
  BY DEF CallInv
<1>7. calls' \in Seq({0, 1}) /\ (asking' = NoRequest \/ asking'.callbacks = {} \/ asking'.callbacks = {Len(calls') + 1})
  BY DEF CallInv
<1> QED
  BY <1>2, <1>3, <1>4, <1>5, <1>6, <1>7 DEF CallInv

LEMMA OneMore ==
  ASSUME NEW s \in Seq({0, 1})
  PROVE  /\ Append(s, 0) \in Seq({0, 1}) /\ Append(s, 0)[Len(s) + 1] = 0
         /\ \A c \in DOMAIN s : Append(s, 0)[c] = s[c]
         /\ DOMAIN Append(s, 0) = DOMAIN s \cup {Len(s) + 1} /\ Len(s) + 1 \notin DOMAIN s
OBVIOUS

\* The callback of a request is new.
LEMMA NewCallback ==
  ASSUME CallInv, asking # NoRequest,
         calls' = calls \o [c \in 1 .. Cardinality(asking.callbacks) |-> 0]
  PROVE  /\ calls' \in Seq({0, 1})
         /\ Waiting' = Waiting \cup asking.callbacks
         /\ asking.callbacks \cap Waiting = {}
<1>1. calls \in Seq({0, 1}) /\ DOMAIN calls = 1 .. Len(calls) /\ Len(calls) \in Nat
  BY DEF CallInv
<1>2. CASE asking.callbacks = {}
  <2>1. Cardinality(asking.callbacks) = 0
    BY <1>2, FS_EmptySet
  <2>2. [c \in 1 .. 0 |-> 0] = <<>>
    OBVIOUS
  <2>3. calls' = calls \o [c \in 1 .. 0 |-> 0]
    BY <2>1
  <2>4. calls' = calls
    BY <1>1, <2>2, <2>3, ConcatEmptySeq
  <2> QED
    BY <1>1, <1>2, <2>4 DEF Waiting
<1>3. CASE asking.callbacks = {Len(calls) + 1}
  <2>1. Cardinality(asking.callbacks) = 1
    BY <1>3, FS_Singleton
  <2>2. [c \in 1 .. 1 |-> 0] = <<0>>
    OBVIOUS
  <2>3. calls' = Append(calls, 0)
    BY <1>1, <2>1, <2>2, AppendIsConcat
  <2>4. /\ calls' \in Seq({0, 1}) /\ calls'[Len(calls) + 1] = 0
        /\ \A c \in DOMAIN calls : calls'[c] = calls[c]
        /\ DOMAIN calls' = DOMAIN calls \cup {Len(calls) + 1} /\ Len(calls) + 1 \notin DOMAIN calls
    BY <1>1, <2>3, OneMore, Zenon
  <2> QED
    BY <1>1, <1>3, <2>4 DEF Waiting
<1> QED
  BY <1>2, <1>3 DEF CallInv

LEMMA EnqueueKeepsCalls ==
  ASSUME CallInv, QueueInv, Enqueue
  PROVE  CallInv'
<1> DEFINE r == asking
           b == asking.pos
<1>1. /\ calls' \in Seq({0, 1}) /\ Waiting' = Waiting \cup r.callbacks
      /\ r.callbacks \cap Waiting = {} /\ asking' = NoRequest /\ cur' = cur
  BY NewCallback DEF Enqueue
<1>2. \A t \in Threads : cur'[t].callbacks \subseteq Waiting' /\ cur'[t].callbacks \cap r.callbacks = {}
  BY <1>1 DEF CallInv
<1>3. \A t, u \in Threads : t # u => cur'[t].callbacks \cap cur'[u].callbacks = {}
  BY <1>1 DEF CallInv
<1>4. \A x \in DOMAIN enqueued : enqueued[x].callbacks \subseteq Waiting /\ enqueued[x].callbacks \cap r.callbacks = {}
  BY <1>1 DEF CallInv
<1>5. /\ DOMAIN enqueued \subseteq DOMAIN enqueued'
      /\ \A x \in DOMAIN enqueued' :
           \/ x \in DOMAIN enqueued /\ enqueued'[x].callbacks = enqueued[x].callbacks
           \/ x = b /\ b \in DOMAIN enqueued
              /\ enqueued'[x].callbacks = enqueued[x].callbacks \cup r.callbacks
           \/ x = b /\ b \notin DOMAIN enqueued /\ enqueued'[x].callbacks = r.callbacks
  <2>1. CASE ~WithinLimits(r)
    BY <2>1 DEF Enqueue
  <2>2. CASE WithinLimits(r) /\ b \in DOMAIN enqueued
    <3>1. enqueued' = [enqueued EXCEPT ![b].gen = @ \/ r.gen,
                                       ![b].callbacks = @ \cup r.callbacks]
      BY <2>2 DEF Enqueue
    <3>2. DataShaped(enqueued[b])
      BY <2>2 DEF QueueInv
    <3>3. [enqueued[b] EXCEPT !.gen = @ \/ r.gen, !.callbacks = @ \cup r.callbacks].callbacks
            = enqueued[b].callbacks \cup r.callbacks
      BY <3>2 DEF DataShaped
    <3> QED
      BY <2>2, <3>1, <3>3
  <2>3. CASE WithinLimits(r) /\ b \notin DOMAIN enqueued
    <3>1. enqueued' = [x \in DOMAIN enqueued \cup {b} |->
                  IF x = b THEN [peer |-> r.peer, gen |-> r.gen, callbacks |-> r.callbacks]
                           ELSE enqueued[x]]
      BY <2>3 DEF Enqueue
    <3> QED
      BY <2>3, <3>1
  <2> QED
    BY <2>1, <2>2, <2>3
<1>6. \A x \in DOMAIN enqueued' : enqueued'[x].callbacks \subseteq Waiting'
  BY <1>1, <1>4, <1>5
<1>7. ASSUME NEW x \in DOMAIN enqueued', NEW y \in DOMAIN enqueued', x # y
      PROVE  enqueued'[x].callbacks \cap enqueued'[y].callbacks = {}
  <2>1. x \in DOMAIN enqueued /\ y \in DOMAIN enqueued => enqueued[x].callbacks \cap enqueued[y].callbacks = {}
    BY <1>7 DEF CallInv
  <2> QED
    BY <1>4, <1>5, <1>7, <2>1
<1>8. ASSUME NEW t \in Threads, NEW x \in DOMAIN enqueued'
      PROVE  cur'[t].callbacks \cap enqueued'[x].callbacks = {}
  <2>1. x \in DOMAIN enqueued => cur[t].callbacks \cap enqueued[x].callbacks = {}
    BY DEF CallInv
  <2> QED
    BY <1>1, <1>2, <1>5, <2>1
<1> QED
  BY <1>1, <1>2, <1>3, <1>6, <1>7, <1>8 DEF CallInv

\* A thread's steps that neither run callbacks nor take a block up.
LEMMA HandsKeepCallbacks ==
  ASSUME GenInv, CallInv, NEW t \in Threads,
         \/ WaitEvent(t) \/ GetBlock(t) \/ ReadDatabase(t) \/ LoadBlock(t) \/ LoadFails(t)
         \/ AreaFails(t) \/ FinishGen(t) \/ LockQueue(t) \/ EndThread(t)
  PROVE  CallInv'
<1>0. HandShaped(cur[t]) /\ cur = [u \in Threads |-> cur[u]]
  BY DEF GenInv
<1>1. calls' = calls /\ enqueued' = enqueued /\ asking' = asking
  BY DEF WaitEvent, GetBlock, ReadDatabase, LoadBlock, LoadFails, AreaFails, LeaveLoop,
         FinishGen, LockQueue, EndThread, queues, server
<1>2. \/ cur' = cur
      \/ \E area : cur' = [cur EXCEPT ![t].area = area]
      \/ \E bytes : cur' = [cur EXCEPT ![t].bytes = bytes]
      \/ cur' = [cur EXCEPT ![t] = Idle]
  BY DEF WaitEvent, GetBlock, ReadDatabase, LoadBlock, LoadFails, AreaFails, LeaveLoop,
         FinishGen, LockQueue, EndThread, StartGen
<1>3. Idle.callbacks = {}
  BY DEF Idle, Hand
<1>4. \A x : [cur[t] EXCEPT !.area = x].callbacks = cur[t].callbacks
             /\ [cur[t] EXCEPT !.bytes = x].callbacks = cur[t].callbacks
  BY <1>0 DEF HandShaped
<1>5. \A u \in Threads : cur'[u].callbacks \subseteq cur[u].callbacks
  BY <1>0, <1>2, <1>3, <1>4
<1>6. asking' = NoRequest \/ asking'.callbacks = {} \/ asking'.callbacks = {Len(calls) + 1}
  BY <1>1 DEF CallInv
<1> QED
  BY <1>1, <1>5, <1>6, CallsUnchanged

\* A thread that runs the callbacks of the block in hand or of one it cancels, or
\* takes up a block.
LEMMA PopKeepsCalls ==
  ASSUME GenInv, QueueInv, CallInv, NEW t \in Threads, PopBlock(t)
  PROVE  CallInv'
<1>0. /\ cur = [u \in Threads |-> cur[u]] /\ calls' = calls /\ asking' = asking
      /\ (asking' = NoRequest \/ asking'.callbacks = {} \/ asking'.callbacks = {Len(calls) + 1})
  BY DEF GenInv, PopBlock, server, CallInv
<1>1. CASE UNCHANGED <<queues, cur>>
  <2>1. enqueued' = enqueued /\ cur' = cur
    BY <1>1 DEF queues
  <2> QED
    BY <1>0, <2>1, CallsUnchanged
<1>2. CASE queue[t] # <<>> /\ Forget(Head(queue[t]))
  <2> DEFINE b == Head(queue[t])
  <2>1. 1 \in DOMAIN queue[t] /\ b = queue[t][1] /\ b \in Blocks
    BY <1>2 DEF QueueInv
  <2>2. b \in DOMAIN enqueued
    BY <2>1 DEF QueueInv, InOneQueue
  <2>3. /\ DOMAIN enqueued' = DOMAIN enqueued \ {b}
        /\ \A x \in DOMAIN enqueued' : enqueued'[x] = enqueued[x]
    BY <1>2 DEF Forget
  <2>4. CASE cur' = cur
    <3>1. calls' \in Seq({0, 1}) /\ Len(calls') = Len(calls) /\ Waiting' = Waiting \ {}
      BY <1>0 DEF CallInv, Waiting
    <3>2. \A u \in Threads : cur'[u].callbacks \subseteq cur[u].callbacks \ {}
      BY <2>4
    <3>3. \A x \in DOMAIN enqueued' : enqueued'[x].callbacks \subseteq enqueued[x].callbacks \ {}
      BY <2>3
    <3>4. DOMAIN enqueued' \subseteq DOMAIN enqueued
      BY <2>3
    <3> QED
      BY <1>0, <3>1, <3>2, <3>3, <3>4, HoldersShrink
  <2>5. CASE cur' = [cur EXCEPT ![t] = Hand(b, enqueued[b].gen, enqueued[b].callbacks)]
    <3>1. cur'[t].callbacks = enqueued[b].callbacks /\ \A u \in Threads : u # t => cur'[u] = cur[u]
      BY <1>0, <2>5 DEF Hand
    <3> QED
      BY <1>0, <2>2, <2>3, <3>1, TakesCallbacks
  <2> QED
    BY <1>2, <2>4, <2>5 DEF PopBlock
<1> QED
  BY <1>1, <1>2 DEF PopBlock

LEMMA ReportKeepsCalls ==
  ASSUME GenInv, CallInv, NEW t \in Threads, Report(t)
  PROVE  CallInv'
<1> DEFINE called == cur[t].callbacks
<1>1. called \subseteq Waiting /\ RunCallbacks(called)
  BY DEF CallInv, Report
<1>2. calls' \in Seq({0, 1}) /\ Len(calls') = Len(calls) /\ Waiting' = Waiting \ called
  BY <1>1, RunsOnce
<1>3. enqueued' = enqueued /\ asking' = asking /\ cur' = [cur EXCEPT ![t] = Idle]
  BY DEF Report, queues, server
<1>4. Idle.callbacks = {} /\ cur = [u \in Threads |-> cur[u]]
  BY DEF Idle, Hand, GenInv
<1>5. \A u \in Threads : cur'[u].callbacks \subseteq cur[u].callbacks \ called
  BY <1>3, <1>4 DEF CallInv
<1>6. \A b \in DOMAIN enqueued' : enqueued'[b].callbacks \subseteq enqueued[b].callbacks \ called
  BY <1>3 DEF CallInv
<1>7. asking' = NoRequest \/ asking'.callbacks = {} \/ asking'.callbacks = {Len(calls) + 1}
  BY <1>3 DEF CallInv
<1>8. DOMAIN enqueued' \subseteq DOMAIN enqueued
  BY <1>3
<1> QED
  BY <1>2, <1>5, <1>6, <1>7, <1>8, HoldersShrink

LEMMA CancelKeepsCalls ==
  ASSUME QueueInv, CallInv, NEW t \in Threads, CancelItem(t)
  PROVE  CallInv'
<1> DEFINE b == Head(queue[t])
           called == enqueued[b].callbacks
<1>1. 1 \in DOMAIN queue[t] /\ b = queue[t][1] /\ b \in Blocks
  BY DEF QueueInv, CancelItem
<1>2. b \in DOMAIN enqueued
  BY <1>1 DEF QueueInv, InOneQueue
<1>3. called \subseteq Waiting /\ RunCallbacks(called)
  BY <1>2 DEF CallInv, CancelItem
<1>4. calls' \in Seq({0, 1}) /\ Len(calls') = Len(calls) /\ Waiting' = Waiting \ called
  BY <1>3, RunsOnce
<1>5. /\ DOMAIN enqueued' = DOMAIN enqueued \ {b}
      /\ \A x \in DOMAIN enqueued' : enqueued'[x] = enqueued[x]
  BY DEF CancelItem, Forget
<1>6. cur' = cur /\ asking' = asking
  BY DEF CancelItem, server
<1>7. \A u \in Threads : cur'[u].callbacks \subseteq cur[u].callbacks \ called
  BY <1>2, <1>6 DEF CallInv
<1>8. \A x \in DOMAIN enqueued' : enqueued'[x].callbacks \subseteq enqueued[x].callbacks \ called
  BY <1>2, <1>5 DEF CallInv
<1>9. asking' = NoRequest \/ asking'.callbacks = {} \/ asking'.callbacks = {Len(calls) + 1}
  BY <1>6 DEF CallInv
<1>10. DOMAIN enqueued' \subseteq DOMAIN enqueued
  BY <1>5
<1> QED
  BY <1>4, <1>7, <1>8, <1>9, <1>10, HoldersShrink

LEMMA CallNext == GenInv /\ QueueInv /\ CallInv /\ [Next]_vars => CallInv'
<1> SUFFICES ASSUME GenInv, QueueInv, CallInv, [Next]_vars PROVE CallInv'
  OBVIOUS
<1>0. asking = NoRequest \/ asking.callbacks = {} \/ asking.callbacks = {Len(calls) + 1}
  BY DEF CallInv
<1>1. CASE EnqueueForPeer \/ EmergeArea
  <2>1. calls' = calls /\ enqueued' = enqueued /\ cur' = cur
    BY <1>1 DEF EnqueueForPeer, EmergeArea, Ask, queues
  <2>2. asking'.callbacks = {} \/ asking'.callbacks = {Len(calls) + 1}
    BY <1>1 DEF EnqueueForPeer, EmergeArea, Ask
  <2> QED
    BY <2>1, <2>2, CallsUnchanged
<1>2. CASE Enqueue
  BY <1>2, EnqueueKeepsCalls
<1>3. CASE Signal
  BY <1>0, <1>3, CallsUnchanged DEF Signal, queues
<1>4. ASSUME NEW b \in Blocks, ModifyBlock(b) \/ UnloadBlock(b) \/ DeleteBlock(b)
      PROVE  CallInv'
  BY <1>0, <1>4, CallsUnchanged DEF ModifyBlock, UnloadBlock, DeleteBlock, Change, server, queues
<1>5. ASSUME NEW t \in Threads, StopThread(t) \/ GenerateFails(t) PROVE CallInv'
  BY <1>0, <1>5, CallsUnchanged DEF StopThread, GenerateFails, server, queues
<1>6. CASE UNCHANGED vars
  BY <1>0, <1>6, CallsUnchanged DEF vars, server, queues
<1> QED
  BY <1>1, <1>2, <1>3, <1>4, <1>5, <1>6, HandsKeepCallbacks, PopKeepsCalls, ReportKeepsCalls,
     CancelKeepsCalls DEF Next, Thread

\* No callback runs twice, whether its block was merged with other requests, taken
\* by a thread, given up by it or cancelled.
THEOREM CallbacksRunOnce == Spec => []CallbackOnce
<1>1. ASSUME CallInv PROVE CallbackOnce
  <2>1. \A c \in DOMAIN calls : calls[c] \in {0, 1}
    BY <1>1 DEF CallInv
  <2> QED
    BY <2>1 DEF CallbackOnce
<1> QED
  BY <1>1, GenInit, GenNext, QueueInit, QueueNext, CallInit, CallNext, PTL DEF Spec
-----------------------------------------------------------------------------
(* The blocks in memory, in the database and in the threads' hands.          *)

Versions(b) == 0 .. latest[b]
InMemory(b) == [gen : BOOLEAN, ver : Versions(b)]
WithBlock == {"first", "disk", "second", "make"}

\* The inductive form of what TypeOK says of blocks.  Data that cannot be read
\* stays in the database: its block is in memory only once the data is gone.
BlockTyped(b) ==
  /\ mem[b] = NoBlock \/ mem[b] \in InMemory(b)
  /\ db[b] \in {NoBlock, Garbage} \/ db[b] \in InMemory(b)
  /\ db[b] = Garbage => mem[b] = NoBlock

\* Who has looked for unreadable data since it is there has it in hand.
HandTyped(t) ==
  /\ pc[t] \in WithBlock => cur[t].pos \in Blocks
  /\ pc[t] = "second" =>
       /\ cur[t].bytes \in {NoBlock, Garbage} \/ cur[t].bytes \in InMemory(cur[t].pos)
       /\ db[cur[t].pos] = Garbage => cur[t].bytes = Garbage
  /\ Making(t) =>
       /\ DOMAIN cur[t].area = Area[ChunkOf(t)]
       /\ \A b \in Area[ChunkOf(t)] : cur[t].area[b] \in InMemory(b)

MemInv ==
  /\ latest \in [Blocks -> Nat]
  /\ mem = [b \in Blocks |-> mem[b]] /\ db = [b \in Blocks |-> db[b]]
  /\ \A b \in Blocks : BlockTyped(b)
  /\ \A t \in Threads : HandTyped(t)

LEMMA ContentKinds ==
  ASSUME latest \in [Blocks -> Nat], NEW b \in Blocks
  PROVE  /\ NoBlock \notin InMemory(b) /\ Garbage \notin InMemory(b) /\ NoBlock # Garbage
         /\ \A c \in InMemory(b) : c.gen \in BOOLEAN /\ c.ver \in Versions(b)
         /\ \A v \in Versions(b), g \in BOOLEAN : Content(g, v) \in InMemory(b)
         /\ latest[b] \in Versions(b)
<1>1. latest[b] \in Nat /\ Versions(b) \subseteq Nat /\ latest[b] \in Versions(b)
  BY DEF Versions
<1>2. InMemory(b) \subseteq [gen : BOOLEAN, ver : Nat]
  BY <1>1 DEF InMemory
<1>3. NoBlock \notin InMemory(b) /\ Garbage \notin InMemory(b) /\ NoBlock # Garbage
  BY <1>2, EmergeAssumption
<1>4. \A c \in InMemory(b) : c.gen \in BOOLEAN /\ c.ver \in Versions(b)
  BY DEF InMemory
<1>5. \A v \in Versions(b), g \in BOOLEAN : Content(g, v) \in InMemory(b)
  BY DEF InMemory, Content
<1> QED
  BY <1>1, <1>3, <1>4, <1>5

LEMMA MemInit == Init => MemInv
<1> SUFFICES ASSUME Init PROVE MemInv
  OBVIOUS
<1>1. /\ latest = [b \in Blocks |-> 0] /\ mem = [b \in Blocks |-> NoBlock]
      /\ db = [b \in Blocks |-> IF b \in Corrupt THEN Garbage
                           ELSE IF b \in Saved THEN Content(TRUE, 0) ELSE NoBlock]
      /\ pc = [t \in Threads |-> "loop"]
  BY DEF Init
<1>4. latest \in [Blocks -> Nat]
  BY <1>1
<1>2. \A b \in Blocks : BlockTyped(b)
  <2> TAKE b \in Blocks
  <2>1. Content(TRUE, 0) \in InMemory(b)
    BY <1>1 DEF Content, InMemory, Versions
  <2> QED
    BY <1>1, <2>1 DEF BlockTyped
<1>3. \A t \in Threads : HandTyped(t)
  BY <1>1 DEF HandTyped, WithBlock, Making
<1> QED
  BY <1>1, <1>2, <1>3 DEF MemInv

\* Versions only grow.
LEMMA KindsGrow ==
  ASSUME latest \in [Blocks -> Nat], latest' \in [Blocks -> Nat],
         NEW b \in Blocks, latest[b] <= latest'[b]
  PROVE  InMemory(b) \subseteq InMemory(b)'
<1>1. Versions(b) \subseteq Versions(b)'
  BY DEF Versions
<1> QED
  BY <1>1 DEF InMemory

\* What a step has to keep, given the blocks it touches and the thread that moves.
LEMMA MemKeeps ==
  ASSUME MemInv, latest' \in [Blocks -> Nat],
         \A b \in Blocks : latest[b] <= latest'[b],
         mem' = [b \in Blocks |-> mem'[b]], db' = [b \in Blocks |-> db'[b]],
         \A b \in Blocks : BlockTyped(b)',
         \A b \in Blocks : db'[b] = Garbage => db[b] = Garbage,
         \A t \in Threads : (pc'[t] = pc[t] /\ cur'[t] = cur[t]) \/ HandTyped(t)'
  PROVE  MemInv'
<1>1. ASSUME NEW t \in Threads, pc'[t] = pc[t], cur'[t] = cur[t]
      PROVE  HandTyped(t)'
  <2>0. HandTyped(t) /\ latest \in [Blocks -> Nat]
    BY DEF MemInv
  <2>1. CASE pc[t] \notin WithBlock
    BY <1>1, <2>1 DEF HandTyped, WithBlock, Making
  <2>2. CASE pc[t] \in WithBlock
    <3>1. cur[t].pos \in Blocks
      BY <2>0, <2>2 DEF HandTyped
    <3>2. InMemory(cur[t].pos) \subseteq InMemory(cur[t].pos)'
      BY <1>1, <2>0, <3>1, KindsGrow DEF InMemory, Versions
    <3>3. pc[t] = "second" =>
            /\ cur[t].bytes \in {NoBlock, Garbage} \/ cur'[t].bytes \in InMemory(cur[t].pos)'
            /\ db'[cur[t].pos] = Garbage => cur[t].bytes = Garbage
      BY <1>1, <2>0, <3>1, <3>2 DEF HandTyped
    <3>4. ChunkOf(t)' = ChunkOf(t) /\ (Making(t)' <=> Making(t)) /\ Area[ChunkOf(t)] \subseteq Blocks
      BY <1>1, <3>1, EmergeAssumption DEF ChunkOf, Making
    <3>5. \A b \in Area[ChunkOf(t)] : InMemory(b) \subseteq InMemory(b)'
      BY <2>0, <3>4, KindsGrow
    <3>6. Making(t)' =>
       /\ DOMAIN cur'[t].area = Area[ChunkOf(t)']
       /\ \A b \in Area[ChunkOf(t)'] : cur'[t].area[b] \in InMemory(b)'
      BY <1>1, <2>0, <3>4, <3>5 DEF HandTyped
    <3> QED
      BY <1>1, <3>1, <3>3, <3>6 DEF HandTyped
  <2> QED
    BY <2>1, <2>2
<1>2. \A t \in Threads : HandTyped(t)'
  BY <1>1
<1> QED
  BY <1>2 DEF MemInv

\* A step that leaves the blocks alone.
LEMMA MapUnchanged ==
  ASSUME MemInv, UNCHANGED <<mem, db, latest>>,
         \A t \in Threads : (pc'[t] = pc[t] /\ cur'[t] = cur[t]) \/ HandTyped(t)'
  PROVE  MemInv'
<1>1. \A b \in Blocks : BlockTyped(b)' <=> BlockTyped(b)
  BY DEF BlockTyped, InMemory, Versions
<1>2. latest \in [Blocks -> Nat] /\ latest' \in [Blocks -> Nat] /\ \A b \in Blocks : latest[b] <= latest'[b]
  BY DEF MemInv
<1>3. /\ mem' = [b \in Blocks |-> mem'[b]] /\ db' = [b \in Blocks |-> db'[b]]
      /\ \A b \in Blocks : BlockTyped(b)'
      /\ \A b \in Blocks : db'[b] = Garbage => db[b] = Garbage
  BY <1>1 DEF MemInv
<1> QED
  BY <1>2, <1>3, MemKeeps

-----------------------------------------------------------------------------
(* The server thread's changes.                                             *)

\* A change touches one block, and no thread.
LEMMA ChangeKeepsMem ==
  ASSUME MemInv, NEW b \in Blocks, pc' = pc, cur' = cur,
         latest' = latest \/ latest' = [latest EXCEPT ![b] = @ + 1],
         \E inMem : mem' = [mem EXCEPT ![b] = inMem],
         db' = db \/ \E saved : db' = [db EXCEPT ![b] = saved],
         BlockTyped(b)', db'[b] = Garbage => db[b] = Garbage
  PROVE  MemInv'
<1>1. latest \in [Blocks -> Nat] /\ mem = [x \in Blocks |-> mem[x]] /\ db = [x \in Blocks |-> db[x]]
  BY DEF MemInv
<1>2. latest' \in [Blocks -> Nat] /\ \A x \in Blocks : latest[x] <= latest'[x]
  BY <1>1
<1>3. /\ mem' = [x \in Blocks |-> mem'[x]] /\ db' = [x \in Blocks |-> db'[x]]
      /\ \A x \in Blocks : x # b => mem'[x] = mem[x] /\ db'[x] = db[x]
  BY <1>1
<1>4. \A x \in Blocks : BlockTyped(x)'
  <2> TAKE x \in Blocks
  <2>1. BlockTyped(x) /\ InMemory(x) \subseteq InMemory(x)'
    BY <1>1, <1>2, KindsGrow DEF MemInv
  <2>2. CASE x # b
    BY <1>3, <2>1, <2>2 DEF BlockTyped
  <2> QED
    BY <2>2
<1>5. \A x \in Blocks : db'[x] = Garbage => db[x] = Garbage
  BY <1>3
<1> QED
  BY <1>2, <1>3, <1>4, <1>5, MemKeeps

LEMMA ModifyKeepsMem ==
  ASSUME MemInv, NEW b \in Blocks, ModifyBlock(b)
  PROVE  MemInv'
<1>1. /\ latest' = [latest EXCEPT ![b] = @ + 1] /\ db' = db /\ mem[b] # NoBlock
      /\ mem' = [mem EXCEPT ![b] = Content(mem[b].gen, latest[b] + 1)] /\ pc' = pc /\ cur' = cur
  BY DEF ModifyBlock, Change
<1>2. latest \in [Blocks -> Nat] /\ mem = [x \in Blocks |-> mem[x]] /\ BlockTyped(b)
  BY DEF MemInv
<1>3. latest' \in [Blocks -> Nat] /\ latest'[b] = latest[b] + 1 /\ mem[b].gen \in BOOLEAN
      /\ mem'[b] = Content(mem[b].gen, latest'[b]) /\ latest[b] <= latest'[b]
  BY <1>1, <1>2, ContentKinds DEF BlockTyped
<1>4. mem'[b] \in InMemory(b)' /\ InMemory(b) \subseteq InMemory(b)'
  <2>1. InMemory(b) \subseteq InMemory(b)'
    BY <1>2, <1>3, KindsGrow
  <2>2. mem'[b] \in InMemory(b)'
    BY <1>3 DEF InMemory, Versions, Content
  <2> QED
    BY <2>1, <2>2
<1>5. BlockTyped(b)'
  BY <1>1, <1>2, <1>4 DEF BlockTyped
<1> QED
  BY <1>1, <1>5, ChangeKeepsMem

LEMMA UnloadKeepsMem ==
  ASSUME MemInv, NEW b \in Blocks, UnloadBlock(b)
  PROVE  MemInv'
<1>1. /\ latest' = latest /\ mem[b] # NoBlock /\ pc' = pc /\ cur' = cur
      /\ db' = IF b \in modified THEN [db EXCEPT ![b] = mem[b]] ELSE db
      /\ mem' = [mem EXCEPT ![b] = NoBlock]
  BY DEF UnloadBlock, Change
<1>2. /\ latest \in [Blocks -> Nat] /\ mem = [x \in Blocks |-> mem[x]] /\ db = [x \in Blocks |-> db[x]]
      /\ BlockTyped(b)
  BY DEF MemInv
<1>3. mem'[b] = NoBlock /\ db'[b] = IF b \in modified THEN mem[b] ELSE db[b]
  BY <1>1, <1>2
<1>4. mem[b] \in InMemory(b) /\ mem[b] # Garbage /\ InMemory(b)' = InMemory(b)
  BY <1>1, <1>2, ContentKinds DEF BlockTyped, InMemory, Versions
<1>5. BlockTyped(b)' /\ (db'[b] = Garbage => db[b] = Garbage)
  BY <1>2, <1>3, <1>4 DEF BlockTyped
<1> QED
  BY <1>1, <1>5, ChangeKeepsMem

LEMMA DeleteKeepsMem ==
  ASSUME MemInv, NEW b \in Blocks, DeleteBlock(b)
  PROVE  MemInv'
<1>1. /\ latest' = [latest EXCEPT ![b] = @ + 1] /\ pc' = pc /\ cur' = cur
      /\ mem' = [mem EXCEPT ![b] = NoBlock] /\ db' = [db EXCEPT ![b] = NoBlock]
  BY DEF DeleteBlock, Change
<1>2. mem'[b] = NoBlock /\ db'[b] = NoBlock
  BY <1>1 DEF MemInv
<1>3. BlockTyped(b)' /\ db'[b] # Garbage
  BY <1>2, EmergeAssumption DEF BlockTyped
<1> QED
  BY <1>1, <1>3, ChangeKeepsMem
-----------------------------------------------------------------------------
(* The threads' steps.                                                      *)

\* A block that a thread brings into memory is what it has read of the one in hand,
\* what the database has of it, or a new one.
Comes(b, t) ==
  /\ mem[b] = NoBlock /\ db[b] # Garbage /\ mem'[b] \in InMemory(b)
  /\ \/ mem'[b] = db[b] \/ mem'[b] = Content(FALSE, latest[b])
     \/ pc[t] = "second" /\ cur[t].pos = b /\ mem'[b] = cur[t].bytes

\* What getBlockOrStartGen does to the map, and what the thread has copied of it.
Fetched(t) ==
  /\ UNCHANGED <<db, latest, raced>> /\ mem' = [b \in Blocks |-> mem'[b]]
  /\ \A b \in Blocks : mem'[b] = mem[b] \/ Comes(b, t)
  /\ modified \subseteq modified' /\ modified' \subseteq modified \cup Blocks
  /\ inProgress \subseteq inProgress' /\ inProgress' \subseteq inProgress \cup {ChunkOf(t)}
  /\ \A u \in Threads : u # t => pc'[u] = pc[u] /\ cur'[u] = cur[u]
  /\ \/ pc'[t] = "disk" /\ cur'[t] = cur[t]
     \/ pc'[t] \in {"report", "stop"}
     \/ /\ pc'[t] = "make" /\ cur'[t].pos = cur[t].pos
        /\ DOMAIN cur'[t].area = Area[ChunkOf(t)]
        /\ \A b \in Area[ChunkOf(t)] : mem'[b] # NoBlock /\ cur'[t].area[b] = mem'[b]

\* The blocks in memory that getBlockOrStartGen finds or loads.
Loads(t, loaded) ==
  /\ loaded = [b \in Blocks |-> loaded[b]]
  /\ \A b \in Blocks : loaded[b] = mem[b]
       \/ /\ pc[t] = "second" /\ cur[t].pos = b /\ loaded[b] = cur[t].bytes
          /\ mem[b] = NoBlock /\ db[b] # Garbage /\ loaded[b] \in InMemory(b)

LEMMA NothingLoaded == ASSUME MemInv, NEW t \in Threads PROVE Loads(t, mem)
BY DEF MemInv, Loads

LEMMA BytesLoaded ==
  ASSUME MemInv, NEW t \in Threads, pc[t] = "second", Loaded(t)[cur[t].pos] # Garbage
  PROVE  Loads(t, Loaded(t))
<1>1. /\ HandTyped(t) /\ cur[t].pos \in Blocks /\ mem = [b \in Blocks |-> mem[b]]
  BY DEF MemInv, HandTyped, WithBlock
<1>2. CASE mem[cur[t].pos] # NoBlock
  <2>1. Loaded(t) = mem
    BY <1>2 DEF Loaded
  <2> QED
    BY <2>1, NothingLoaded
<1>3. CASE mem[cur[t].pos] = NoBlock
  <2>1. Loaded(t) = [mem EXCEPT ![cur[t].pos] = cur[t].bytes]
    BY <1>3 DEF Loaded
  <2>2. /\ Loaded(t) = [b \in Blocks |-> Loaded(t)[b]] /\ Loaded(t)[cur[t].pos] = cur[t].bytes
        /\ \A b \in Blocks : b # cur[t].pos => Loaded(t)[b] = mem[b]
    BY <1>1, <2>1
  <2>3. cur[t].bytes # Garbage /\ db[cur[t].pos] # Garbage
        /\ (cur[t].bytes = NoBlock \/ cur[t].bytes \in InMemory(cur[t].pos))
    BY <1>1, <2>2 DEF HandTyped
  <2> QED
    BY <1>3, <2>2, <2>3 DEF Loads
<1> QED
  BY <1>2, <1>3

\* Of what is loaded, some blocks and what initBlockMake finds of others are there.
LEMMA BringsBlocks ==
  ASSUME MemInv, NEW t \in Threads, NEW loaded, Loads(t, loaded),
         NEW seen \in SUBSET Blocks, seen \cap Unreadable(loaded) = {},
         mem' = [b \in Blocks |-> IF b \in seen THEN Present(b, loaded) ELSE loaded[b]]
  PROVE  /\ \A b \in Blocks : mem'[b] = mem[b] \/ Comes(b, t)
         /\ \A b \in seen : mem'[b] # NoBlock /\ mem'[b] = Present(b, loaded)
<1>1. latest \in [Blocks -> Nat] /\ \A b \in Blocks : BlockTyped(b)
  BY DEF MemInv
<1>2. ASSUME NEW b \in Blocks
      PROVE  /\ mem'[b] = mem[b] \/ Comes(b, t)
             /\ b \in seen => mem'[b] # NoBlock /\ mem'[b] = Present(b, loaded)
  <2>1. NoBlock \notin InMemory(b) /\ Content(FALSE, latest[b]) \in InMemory(b)
    BY <1>1, ContentKinds
  <2>2. CASE loaded[b] # NoBlock
    <3>1. mem'[b] = loaded[b] /\ (b \in seen => mem'[b] = Present(b, loaded))
      BY <2>2 DEF Present
    <3> QED
      BY <2>1, <2>2, <3>1 DEF Loads, Comes
  <2>3. CASE loaded[b] = NoBlock /\ b \notin seen
    <3>1. mem'[b] = NoBlock /\ mem[b] = NoBlock
      BY <2>1, <2>3 DEF Loads
    <3> QED
      BY <2>3, <3>1
  <2>4. CASE loaded[b] = NoBlock /\ b \in seen
    <3>1. mem'[b] = Present(b, loaded) /\ mem[b] = NoBlock /\ db[b] # Garbage
      BY <2>1, <2>4 DEF Loads, Unreadable
    <3>2. CASE db[b] = NoBlock
      <4>1. mem'[b] = Content(FALSE, latest[b])
        BY <2>4, <3>1, <3>2 DEF Present
      <4> QED
        BY <2>1, <3>1, <4>1 DEF Comes
    <3>3. CASE db[b] # NoBlock
      <4>1. mem'[b] = db[b] /\ db[b] \in InMemory(b)
        BY <1>1, <2>4, <3>1, <3>3 DEF Present, BlockTyped
      <4> QED
        BY <2>1, <3>1, <4>1 DEF Comes
    <3> QED
      BY <3>2, <3>3
  <2> QED
    BY <2>2, <2>3, <2>4
<1> QED
  BY <1>2

LEMMA StartGenFetches ==
  ASSUME GenInv, MemInv, NEW t \in Threads, pc[t] \in WithBlock, NEW loaded, Loads(t, loaded),
         StartGen(t, loaded), UNCHANGED <<db, latest, raced>>
  PROVE  Fetched(t)
<1>0. cur[t].pos \in Blocks /\ ProgressKey(t) = ChunkOf(t)
  BY DEF MemInv, HandTyped, ProgressKey, ChunkOf
<1>1. Area[ChunkOf(t)] \in SUBSET Blocks /\ {} \in SUBSET Blocks
  BY <1>0, EmergeAssumption DEF ChunkOf
<1>2. CASE mem' = loaded /\ Goto(t, "report") /\ UNCHANGED <<modified, cur>>
  <2>1. mem' = [b \in Blocks |-> IF b \in {} THEN Present(b, loaded) ELSE loaded[b]]
    BY <1>2 DEF Loads
  <2>2. \A b \in Blocks : mem'[b] = mem[b] \/ Comes(b, t)
    BY <1>1, <2>1, BringsBlocks
  <2>3. pc'[t] = "report" /\ \A u \in Threads : u # t => pc'[u] = pc[u] /\ cur'[u] = cur[u]
    BY <1>2 DEF Goto, GenInv
  <2>4. inProgress \subseteq inProgress' /\ inProgress' \subseteq inProgress \cup {ChunkOf(t)}
    BY <1>0 DEF StartGen
  <2>5. mem' = [b \in Blocks |-> mem'[b]] /\ modified' = modified
    BY <1>2 DEF Loads
  <2> QED
    BY <2>2, <2>3, <2>4, <2>5 DEF Fetched
<1>3. CASE ~(mem' = loaded /\ Goto(t, "report") /\ UNCHANGED <<modified, cur>>)
  <2> DEFINE area == Area[ChunkOf(t)]
             copy == [b \in area |-> Present(b, loaded)]
  <2>1. /\ area \cap Unreadable(loaded) = {}
        /\ inProgress' = inProgress \cup {ProgressKey(t)}
        /\ mem' = [b \in Blocks |-> IF b \in area THEN Present(b, loaded) ELSE loaded[b]]
        /\ modified' = modified \cup (area \cap Created(loaded))
        /\ cur' = [cur EXCEPT ![t].area = copy]
        /\ Goto(t, "make")
    BY <1>3 DEF StartGen, ChunkOf
  <2>2. /\ \A b \in Blocks : mem'[b] = mem[b] \/ Comes(b, t)
        /\ \A b \in area : mem'[b] # NoBlock /\ mem'[b] = Present(b, loaded)
    BY <1>1, <2>1, BringsBlocks
  <2>3. /\ DOMAIN copy = area /\ \A b \in area : copy[b] = mem'[b]
    BY <2>2
  <2> HIDE DEF copy
  <2>4. HandShaped(cur[t]) /\ cur = [u \in Threads |-> cur[u]]
    BY DEF GenInv
  <2>5. cur'[t] = [cur[t] EXCEPT !.area = copy] /\ \A u \in Threads : u # t => cur'[u] = cur[u]
    BY <2>1, <2>4
  <2>6. cur'[t].pos = cur[t].pos /\ cur'[t].area = copy
    BY <2>4, <2>5 DEF HandShaped
  <2>7. pc'[t] = "make" /\ \A u \in Threads : u # t => pc'[u] = pc[u]
    BY <2>1 DEF Goto, GenInv
  <2>8. inProgress \subseteq inProgress' /\ inProgress' \subseteq inProgress \cup {ChunkOf(t)}
    BY <1>0, <2>1
  <2>9. modified \subseteq modified' /\ modified' \subseteq modified \cup Blocks
    BY <2>1 DEF Created
  <2>10. mem' = [b \in Blocks |-> mem'[b]]
    BY <2>1
  <2> QED
    BY <2>2, <2>3, <2>5, <2>6, <2>7, <2>8, <2>9, <2>10 DEF Fetched
<1> QED
  BY <1>2, <1>3

\* The thread only moves on.
LEMMA NothingFetched ==
  ASSUME GenInv, MemInv, NEW t \in Threads, UNCHANGED <<db, latest, raced, modified, inProgress, cur>>,
         NEW loaded, Loads(t, loaded), mem' = loaded, Goto(t, "disk") \/ Goto(t, "report")
  PROVE  Fetched(t)
<1>1. mem' = [b \in Blocks |-> IF b \in {} THEN Present(b, loaded) ELSE loaded[b]] /\ {} \in SUBSET Blocks
  BY DEF Loads
<1>2. \A b \in Blocks : mem'[b] = mem[b] \/ Comes(b, t)
  BY <1>1, BringsBlocks
<1>3. pc'[t] \in {"disk", "report"} /\ \A u \in Threads : u # t => pc'[u] = pc[u] /\ cur'[u] = cur[u]
  BY DEF Goto, GenInv
<1>4. mem' = [b \in Blocks |-> mem'[b]]
  BY DEF Loads
<1> QED
  BY <1>2, <1>3, <1>4 DEF Fetched

LEMMA GetFetches ==
  ASSUME GenInv, MemInv, NEW t \in Threads, GetBlock(t)
  PROVE  Fetched(t)
<1>1. pc[t] \in WithBlock /\ UNCHANGED <<db, latest, raced>> /\ Loads(t, mem)
  BY NothingLoaded DEF GetBlock, WithBlock
<1>2. CASE StartGen(t, mem)
  BY <1>1, <1>2, StartGenFetches
<1>3. CASE (Goto(t, "disk") \/ Goto(t, "report")) /\ UNCHANGED <<mem, modified, inProgress, cur>>
  BY <1>1, <1>3, NothingFetched
<1> QED
  BY <1>2, <1>3 DEF GetBlock

LEMMA LoadFetches ==
  ASSUME GenInv, MemInv, NEW t \in Threads, LoadBlock(t)
  PROVE  Fetched(t)
<1>1. pc[t] \in WithBlock /\ UNCHANGED <<db, latest, raced>> /\ Loads(t, Loaded(t))
  BY BytesLoaded DEF LoadBlock, WithBlock
<1>2. CASE StartGen(t, Loaded(t))
  BY <1>1, <1>2, StartGenFetches
<1>3. CASE mem' = Loaded(t) /\ Goto(t, "report") /\ UNCHANGED <<modified, inProgress, cur>>
  BY <1>1, <1>3, NothingFetched
<1> QED
  BY <1>2, <1>3 DEF LoadBlock

LEMMA AreaFetches ==
  ASSUME GenInv, MemInv, NEW t \in Threads, AreaFails(t)
  PROVE  Fetched(t)
<1> DEFINE loaded == IF pc[t] = "second" THEN Loaded(t) ELSE mem
           area == Area[Chunk[cur[t].pos]] \ Unreadable(loaded)
<1>0. pc[t] \in WithBlock /\ cur[t].pos \in Blocks /\ ProgressKey(t) = ChunkOf(t)
  BY DEF AreaFails, WithBlock, MemInv, HandTyped, ProgressKey, ChunkOf
<1>1. Loads(t, loaded)
  BY NothingLoaded, BytesLoaded DEF AreaFails
<1>2. area \subseteq Blocks /\ area \cap Unreadable(loaded) = {}
  BY <1>0, EmergeAssumption
<1>3. PICK seen \in SUBSET area :
        /\ mem' = [x \in Blocks |-> IF x \in seen THEN Present(x, loaded) ELSE loaded[x]]
        /\ modified' = modified \cup (seen \cap Created(loaded))
  BY DEF AreaFails
<1>4. /\ UNCHANGED <<db, latest, raced>> /\ inProgress' = inProgress \cup {ProgressKey(t)}
      /\ Goto(t, "stop") /\ cur' = [cur EXCEPT ![t] = Idle]
  BY DEF AreaFails, LeaveLoop
<1> HIDE DEF loaded, area
<1>5. \A b \in Blocks : mem'[b] = mem[b] \/ Comes(b, t)
  BY <1>1, <1>2, <1>3, BringsBlocks
<1>6. pc'[t] = "stop" /\ \A u \in Threads : u # t => pc'[u] = pc[u] /\ cur'[u] = cur[u]
  BY <1>4 DEF Goto, GenInv
<1>7. modified \subseteq modified' /\ modified' \subseteq modified \cup Blocks
  BY <1>2, <1>3
<1>8. mem' = [b \in Blocks |-> mem'[b]]
  BY <1>3
<1> QED
  BY <1>0, <1>4, <1>5, <1>6, <1>7, <1>8 DEF Fetched

LEMMA FetchedKeepsMem ==
  ASSUME GenInv, MemInv, NEW t \in Threads, pc[t] \in WithBlock, Fetched(t)
  PROVE  MemInv'
<1>1. /\ latest \in [Blocks -> Nat] /\ db = [b \in Blocks |-> db[b]] /\ cur[t].pos \in Blocks
      /\ \A b \in Blocks : BlockTyped(b)
  BY DEF MemInv, HandTyped
<1>2. UNCHANGED <<db, latest>> /\ \A b \in Blocks : InMemory(b)' = InMemory(b)
  BY DEF Fetched, InMemory, Versions
<1>3. \A b \in Blocks : BlockTyped(b)'
  BY <1>1, <1>2 DEF BlockTyped, Fetched, Comes
<1>4. \A u \in Threads : (pc'[u] = pc[u] /\ cur'[u] = cur[u]) \/ HandTyped(u)'
  <2> TAKE u \in Threads
  <2>1. CASE u # t
    BY <2>1 DEF Fetched
  <2>2. CASE pc'[t] \in {"disk", "report", "stop"}
    BY <1>1, <2>1, <2>2 DEF HandTyped, WithBlock, Making, Fetched
  <2>3. CASE u = t /\ pc'[t] = "make"
    <3>1. /\ cur'[t].pos = cur[t].pos /\ DOMAIN cur'[t].area = Area[ChunkOf(t)]
          /\ \A b \in Area[ChunkOf(t)] : mem'[b] # NoBlock /\ cur'[t].area[b] = mem'[b]
      BY <2>3 DEF Fetched
    <3>2. ChunkOf(t)' = ChunkOf(t) /\ Area[ChunkOf(t)] \subseteq Blocks
      BY <1>1, <3>1, EmergeAssumption DEF ChunkOf
    <3>3. \A b \in Area[ChunkOf(t)] : cur'[t].area[b] \in InMemory(b)'
      BY <1>3, <3>1, <3>2 DEF BlockTyped
    <3> QED
      BY <1>1, <2>3, <3>1, <3>2, <3>3 DEF HandTyped
  <2> QED
    BY <2>1, <2>2, <2>3 DEF Fetched
<1>5. latest' \in [Blocks -> Nat] /\ \A b \in Blocks : latest[b] <= latest'[b] /\ (db'[b] = Garbage => db[b] = Garbage)
  BY <1>1, <1>2
<1>6. mem' = [b \in Blocks |-> mem'[b]] /\ db' = [b \in Blocks |-> db'[b]]
  BY <1>1, <1>2 DEF Fetched
<1> QED
  BY <1>3, <1>4, <1>5, <1>6, MemKeeps

LEMMA ReadEffect ==
  ASSUME GenInv, MemInv, NEW t \in Threads, ReadDatabase(t)
  PROVE  /\ UNCHANGED <<mem, db, latest, raced, modified>> /\ cur[t].pos \in Blocks
         /\ pc'[t] = "second" /\ cur'[t].pos = cur[t].pos /\ cur'[t].bytes = db[cur[t].pos]
         /\ \A u \in Threads : u # t => cur'[u] = cur[u] /\ pc'[u] = pc[u]
<1>0. PICK b \in Blocks : b = cur[t].pos
  BY DEF ReadDatabase, WithBlock, MemInv, HandTyped
<1>1. /\ pc' = [pc EXCEPT ![t] = "second"] /\ UNCHANGED <<mem, db, latest, raced, modified>>
      /\ cur' = [cur EXCEPT ![t].bytes = db[b]]
  BY <1>0 DEF ReadDatabase, Goto, map
<1>2. HandShaped(cur[t]) /\ cur = [u \in Threads |-> cur[u]] /\ pc'[t] = "second"
  BY <1>1 DEF GenInv
<1>3. cur'[t] = [cur[t] EXCEPT !.bytes = db[b]] /\ \A u \in Threads : u # t => cur'[u] = cur[u] /\ pc'[u] = pc[u]
  BY <1>1, <1>2 DEF GenInv
<1>4. cur'[t].pos = b /\ cur'[t].bytes = db[b]
  BY <1>0, <1>2, <1>3 DEF HandShaped
<1> QED
  BY <1>0, <1>1, <1>2, <1>3, <1>4

LEMMA ReadKeepsMem ==
  ASSUME GenInv, MemInv, NEW t \in Threads, ReadDatabase(t)
  PROVE  MemInv'
<1>0. PICK b \in Blocks : b = cur[t].pos
  BY ReadEffect
<1>1. BlockTyped(b) /\ InMemory(b)' = InMemory(b) /\ db' = db
  BY ReadEffect DEF MemInv, InMemory, Versions
<1>2. cur'[t].bytes \in {NoBlock, Garbage} \/ cur'[t].bytes \in InMemory(b)'
  BY <1>0, <1>1, ReadEffect DEF BlockTyped
<1>3. InMemory(cur[t].pos)' = InMemory(b)' /\ db'[cur'[t].pos] = db[b]
  BY <1>0, <1>1, ReadEffect DEF InMemory, Versions
<1>4. HandTyped(t)'
  BY <1>0, <1>2, <1>3, ReadEffect DEF HandTyped, Making
<1> QED
  BY <1>4, ReadEffect, MapUnchanged

\* A copied block that is still in memory is written back, as a newer version or as
\* the one it was copied from.
WrittenBack(b, t) ==
  /\ b \in Area[ChunkOf(t)] /\ mem[b] # NoBlock /\ b \in modified'
  /\ Copied(b) = {t} \/ b \in raced'
  /\ \E gen \in BOOLEAN :
       \/ latest'[b] = latest[b] + 1 /\ mem'[b] = Content(gen, latest[b] + 1)
       \/ /\ latest'[b] = latest[b] /\ mem'[b] = Content(gen, cur[t].area[b].ver)
          /\ cur[t].area[b].ver # latest[b]

\* finishGen, block by block.
LEMMA FinishGenEffect ==
  ASSUME GenInv, MemInv, NEW t \in Threads, FinishGen(t)
  PROVE  /\ Making(t) /\ db' = db /\ cur' = cur /\ pc' = [pc EXCEPT ![t] = "report"]
         /\ latest' = [b \in Blocks |-> latest'[b]] /\ mem' = [b \in Blocks |-> mem'[b]]
         /\ raced \subseteq raced' /\ modified \subseteq modified'
         /\ raced' \subseteq raced \cup Blocks /\ modified' \subseteq modified \cup Blocks
         /\ inProgress' \subseteq inProgress
         /\ \A b \in Blocks : WrittenBack(b, t) \/ (latest'[b] = latest[b] /\ mem'[b] = mem[b])
<1> DEFINE copy == cur[t].area
           back == {b \in DOMAIN copy : mem[b] # NoBlock}
           new == {b \in back : copy[b].ver = latest[b]}
<1>1. /\ Making(t) /\ db' = db /\ cur' = cur /\ pc' = [pc EXCEPT ![t] = "report"]
      /\ inProgress' \subseteq inProgress
      /\ latest' = [b \in Blocks |-> IF b \in new THEN latest[b] + 1 ELSE latest[b]]
      /\ mem' = [b \in Blocks |->
          IF b \in back
          THEN Content(mem[b].gen \/ Chunk[b] = Chunk[cur[t].pos],
                       IF b \in new THEN latest[b] + 1 ELSE copy[b].ver)
          ELSE mem[b]]
      /\ modified' = modified \cup back
      /\ raced' = raced \cup {b \in back : Copied(b) # {t}}
  BY DEF FinishGen, Making, Goto
<1>2. DOMAIN copy = Area[ChunkOf(t)] /\ Area[ChunkOf(t)] \subseteq Blocks
  BY <1>1, EmergeAssumption DEF MemInv, HandTyped, Making, WithBlock, ChunkOf
<1>3. back \subseteq Blocks /\ back \subseteq Area[ChunkOf(t)]
  BY <1>2
<1>4. ASSUME NEW b \in Blocks
      PROVE  WrittenBack(b, t) \/ (latest'[b] = latest[b] /\ mem'[b] = mem[b])
  <2> DEFINE gen == mem[b].gen \/ Chunk[b] = Chunk[cur[t].pos]
  <2>1. CASE b \notin back
    BY <1>1, <2>1
  <2>2. CASE b \in back
    <3>1. gen \in BOOLEAN
      OBVIOUS
    <3>2. /\ latest'[b] = IF b \in new THEN latest[b] + 1 ELSE latest[b]
          /\ mem'[b] = Content(gen, IF b \in new THEN latest[b] + 1 ELSE copy[b].ver)
          /\ b \in modified' /\ mem[b] # NoBlock /\ b \in Area[ChunkOf(t)]
          /\ Copied(b) = {t} \/ b \in raced'
      BY <1>1, <1>3, <2>2
    <3> HIDE DEF gen
    <3>3. \/ latest'[b] = latest[b] + 1 /\ mem'[b] = Content(gen, latest[b] + 1)
          \/ latest'[b] = latest[b] /\ mem'[b] = Content(gen, copy[b].ver) /\ copy[b].ver # latest[b]
      BY <2>2, <3>2
    <3> QED
      BY <3>1, <3>2, <3>3 DEF WrittenBack
  <2> QED
    BY <2>1, <2>2
<1>5. latest' = [b \in Blocks |-> latest'[b]] /\ mem' = [b \in Blocks |-> mem'[b]]
  BY <1>1
<1> HIDE DEF back, new
<1> QED
  BY <1>1, <1>3, <1>4, <1>5

LEMMA FinishKeepsMem ==
  ASSUME GenInv, MemInv, NEW t \in Threads, FinishGen(t)
  PROVE  MemInv'
<1>1. /\ Making(t) /\ db' = db /\ cur' = cur /\ pc' = [pc EXCEPT ![t] = "report"]
      /\ latest' = [b \in Blocks |-> latest'[b]] /\ mem' = [b \in Blocks |-> mem'[b]]
      /\ \A b \in Blocks : WrittenBack(b, t) \/ (latest'[b] = latest[b] /\ mem'[b] = mem[b])
  BY FinishGenEffect
<1>2. latest \in [Blocks -> Nat] /\ cur[t].pos \in Blocks /\ db = [b \in Blocks |-> db[b]]
  BY <1>1 DEF MemInv, HandTyped, Making, WithBlock
<1>3. \A b \in Blocks : b \in Area[ChunkOf(t)] => cur[t].area[b] \in InMemory(b)
  BY <1>1 DEF MemInv, HandTyped
<1>4. \A b \in Blocks : latest'[b] \in Nat /\ latest[b] <= latest'[b]
  <2> TAKE b \in Blocks
  <2>1. latest[b] \in Nat
    BY <1>2
  <2>2. latest'[b] = latest[b] \/ latest'[b] = latest[b] + 1
    BY <1>1 DEF WrittenBack
  <2> QED
    BY <2>1, <2>2
<1>5. latest' \in [Blocks -> Nat]
  BY <1>1, <1>4
<1>6. \A b \in Blocks : BlockTyped(b)'
  <2> TAKE b \in Blocks
  <2>1. BlockTyped(b) /\ latest[b] \in Nat /\ InMemory(b) \subseteq InMemory(b)'
    BY <1>2, <1>4, <1>5, KindsGrow DEF MemInv
  <2>2. CASE mem'[b] = mem[b]
    BY <1>1, <2>1, <2>2 DEF BlockTyped
  <2>3. CASE WrittenBack(b, t)
    <3>1. PICK gen \in BOOLEAN :
            \/ latest'[b] = latest[b] + 1 /\ mem'[b] = Content(gen, latest[b] + 1)
            \/ latest'[b] = latest[b] /\ mem'[b] = Content(gen, cur[t].area[b].ver)
      BY <2>3 DEF WrittenBack
    <3>2. cur[t].area[b].ver \in Versions(b) /\ latest[b] + 1 \in 0 .. (latest[b] + 1)
      BY <1>2, <1>3, <2>1, <2>3, ContentKinds DEF WrittenBack
    <3>3. mem'[b] \in InMemory(b)'
      BY <3>1, <3>2 DEF InMemory, Versions, Content
    <3> QED
      BY <1>1, <2>1, <2>3, <3>3 DEF BlockTyped, WrittenBack
  <2> QED
    BY <1>1, <2>2, <2>3
<1>7. \A u \in Threads : (pc'[u] = pc[u] /\ cur'[u] = cur[u]) \/ HandTyped(u)'
  <2> TAKE u \in Threads
  <2>1. u # t => pc'[u] = pc[u] /\ cur'[u] = cur[u]
    BY <1>1 DEF GenInv
  <2>2. pc'[t] = "report"
    BY <1>1 DEF GenInv
  <2>3. HandTyped(t)'
    BY <2>2 DEF HandTyped, WithBlock, Making
  <2> QED
    BY <2>1, <2>3
<1> QED
  BY <1>1, <1>2, <1>4, <1>5, <1>6, <1>7, MemKeeps

\* A thread goes where it has no block, or takes one up.
LEMMA GoesEmpty ==
  ASSUME GenInv, MemInv, NEW t \in Threads, UNCHANGED <<mem, db, latest>>,
         \E label \in {"loop", "wait", "first", "report", "stop", "cancel", "ended"} : Goto(t, label),
         pc'[t] = "first" => cur'[t].pos \in Blocks,
         \A u \in Threads : u # t => cur'[u] = cur[u]
  PROVE  MemInv'
<1>1. pc'[t] \in {"loop", "wait", "first", "report", "stop", "cancel", "ended"}
      /\ \A u \in Threads : u # t => pc'[u] = pc[u]
  BY DEF Goto, GenInv
<1>2. HandTyped(t)'
  BY <1>1 DEF HandTyped, WithBlock, Making
<1> QED
  BY <1>1, <1>2, MapUnchanged

LEMMA PopKeepsMem ==
  ASSUME GenInv, QueueInv, MemInv, NEW t \in Threads, PopBlock(t)
  PROVE  MemInv'
<1>1. UNCHANGED <<mem, db, latest>> /\ cur = [u \in Threads |-> cur[u]]
  BY DEF PopBlock, map, GenInv
<1>2. CASE cur' = cur /\ (Goto(t, "stop") \/ Goto(t, "wait"))
  <2>1. pc'[t] # "first"
    BY <1>2 DEF Goto, GenInv
  <2> QED
    BY <1>1, <1>2, <2>1, GoesEmpty
<1>3. CASE UNCHANGED <<pc, cur>>
  BY <1>1, <1>3, MapUnchanged
<1>4. CASE /\ queue[t] # <<>> /\ Goto(t, "first")
           /\ cur' = [cur EXCEPT ![t] = Hand(Head(queue[t]), enqueued[Head(queue[t])].gen,
                                             enqueued[Head(queue[t])].callbacks)]
  <2>1. Head(queue[t]) \in Blocks
    BY <1>4 DEF QueueInv
  <2>2. cur'[t].pos \in Blocks /\ \A u \in Threads : u # t => cur'[u] = cur[u]
    BY <1>1, <1>4, <2>1 DEF Hand
  <2> QED
    BY <1>1, <1>4, <2>2, GoesEmpty
<1> QED
  BY <1>2, <1>3, <1>4 DEF PopBlock

LEMMA MemThread ==
  ASSUME GenInv, QueueInv, MemInv, NEW t \in Threads, Thread(t)
  PROVE  MemInv'
<1> USE DEF map
<1>0. cur = [u \in Threads |-> cur[u]] /\ pc = [u \in Threads |-> pc[u]]
  BY DEF GenInv
<1>1. CASE WaitEvent(t) \/ LockQueue(t) \/ EndThread(t)
  <2>1. cur' = cur /\ UNCHANGED <<mem, db, latest>> /\ (Goto(t, "loop") \/ Goto(t, "cancel") \/ Goto(t, "ended"))
    BY <1>1 DEF WaitEvent, LockQueue, EndThread
  <2>2. pc'[t] # "first"
    BY <1>0, <2>1 DEF Goto
  <2> QED
    BY <2>1, <2>2, GoesEmpty
<1>2. CASE LoadFails(t) \/ Report(t)
  <2>1. /\ cur' = [cur EXCEPT ![t] = Idle] /\ UNCHANGED <<mem, db, latest>>
        /\ Goto(t, "loop") \/ Goto(t, "stop")
    BY <1>2 DEF LoadFails, LeaveLoop, Report
  <2>2. pc'[t] # "first" /\ \A u \in Threads : u # t => cur'[u] = cur[u]
    BY <1>0, <2>1 DEF Goto
  <2> QED
    BY <2>1, <2>2, GoesEmpty
<1>3. CASE CancelItem(t)
  BY <1>3, MapUnchanged DEF CancelItem
<1>4. CASE GetBlock(t) \/ LoadBlock(t) \/ AreaFails(t)
  <2>1. pc[t] \in WithBlock
    BY <1>4 DEF GetBlock, LoadBlock, AreaFails, WithBlock
  <2> QED
    BY <1>4, <2>1, GetFetches, LoadFetches, AreaFetches, FetchedKeepsMem
<1> QED
  BY <1>1, <1>2, <1>3, <1>4, PopKeepsMem, ReadKeepsMem, FinishKeepsMem DEF Thread

LEMMA MemNext == GenInv /\ QueueInv /\ MemInv /\ [Next]_vars => MemInv'
<1> SUFFICES ASSUME GenInv, QueueInv, MemInv, [Next]_vars PROVE MemInv'
  OBVIOUS
<1> USE DEF map
<1>1. CASE EnqueueForPeer \/ EmergeArea \/ Enqueue \/ Signal
  <2>1. UNCHANGED <<mem, db, latest, pc, cur>>
    BY <1>1 DEF EnqueueForPeer, EmergeArea, Ask, Enqueue, Signal
  <2> QED
    BY <2>1, MapUnchanged
<1>2. ASSUME NEW t \in Threads, StopThread(t) PROVE MemInv'
  BY <1>2, MapUnchanged DEF StopThread
<1>3. ASSUME NEW t \in Threads, GenerateFails(t) PROVE MemInv'
  <2>1. UNCHANGED <<mem, db, latest, cur>> /\ Goto(t, "report")
    BY <1>3 DEF GenerateFails
  <2>2. pc'[t] # "first"
    BY <2>1 DEF Goto, GenInv
  <2> QED
    BY <2>1, <2>2, GoesEmpty
<1>4. CASE UNCHANGED vars
  BY <1>4, MapUnchanged DEF vars
<1> QED
  BY <1>1, <1>2, <1>3, <1>4, MemThread, ModifyKeepsMem, UnloadKeepsMem, DeleteKeepsMem DEF Next

-----------------------------------------------------------------------------
(* Type correctness.                                                        *)

\* The part of TypeOK that the other invariants do not give.
SignalsTyped ==
  /\ event \in [Threads -> BOOLEAN] /\ toSignal \in Threads \cup {NoThread}
  /\ stopping \subseteq Threads /\ fatal \in BOOLEAN
  /\ inProgress \subseteq {Chunk[b] : b \in Blocks}
  /\ modified \subseteq Blocks /\ raced \subseteq Blocks

LEMMA SignalsInit == Init => SignalsTyped
BY DEF Init, SignalsTyped

LEMMA SignalsNext == GenInv /\ MemInv /\ SignalsTyped /\ [Next]_vars => SignalsTyped'
<1> SUFFICES ASSUME GenInv, MemInv, SignalsTyped, [Next]_vars PROVE SignalsTyped'
  OBVIOUS
<1> USE DEF server, map, queues
<1>1. CASE EnqueueForPeer \/ EmergeArea
  BY <1>1 DEF EnqueueForPeer, EmergeArea, Ask, SignalsTyped
<1>2. CASE Enqueue
  BY <1>2 DEF Enqueue, SignalsTyped
<1>3. CASE Signal
  <2>1. /\ event' = [event EXCEPT ![toSignal] = TRUE] /\ toSignal' = NoThread
        /\ UNCHANGED <<stopping, fatal, inProgress, modified, raced>>
    BY <1>3 DEF Signal
  <2> QED
    BY <2>1 DEF SignalsTyped
<1>4. ASSUME NEW b \in Blocks, ModifyBlock(b) \/ UnloadBlock(b) \/ DeleteBlock(b)
      PROVE  SignalsTyped'
  BY <1>4 DEF ModifyBlock, UnloadBlock, DeleteBlock, Change, SignalsTyped
<1>5. ASSUME NEW t \in Threads, StopThread(t) PROVE SignalsTyped'
  BY <1>5 DEF StopThread, SignalsTyped
<1>6. ASSUME NEW t \in Threads, GenerateFails(t) PROVE SignalsTyped'
  BY <1>6 DEF GenerateFails, SignalsTyped
<1>7. ASSUME NEW t \in Threads,
             \/ PopBlock(t) \/ ReadDatabase(t) \/ Report(t)
             \/ LockQueue(t) \/ CancelItem(t) \/ EndThread(t)
      PROVE  SignalsTyped'
  BY <1>7 DEF PopBlock, ReadDatabase, Report, LockQueue, CancelItem, EndThread, SignalsTyped
<1>8. ASSUME NEW t \in Threads, WaitEvent(t) PROVE SignalsTyped'
  BY <1>8 DEF WaitEvent, SignalsTyped
<1>9. ASSUME NEW t \in Threads, LoadFails(t) PROVE SignalsTyped'
  BY <1>9 DEF LoadFails, LeaveLoop, SignalsTyped
<1>10. ASSUME NEW t \in Threads, FinishGen(t) PROVE SignalsTyped'
  <2>1. UNCHANGED <<event, toSignal, stopping, fatal>>
    BY <1>10 DEF FinishGen
  <2>2. /\ inProgress' \subseteq inProgress
        /\ raced' \subseteq raced \cup Blocks /\ modified' \subseteq modified \cup Blocks
    BY <1>10, FinishGenEffect
  <2> QED
    BY <2>1, <2>2 DEF SignalsTyped
<1>11. ASSUME NEW t \in Threads, GetBlock(t) \/ LoadBlock(t) \/ AreaFails(t) PROVE SignalsTyped'
  <2>1. Fetched(t)
    BY <1>11, GetFetches, LoadFetches, AreaFetches
  <2>2. /\ event' = event /\ toSignal' = toSignal /\ stopping' = stopping
        /\ fatal' = fatal \/ fatal' = TRUE
    BY <1>11 DEF GetBlock, LoadBlock, AreaFails, LeaveLoop
  <2>3. ChunkOf(t) \in {Chunk[b] : b \in Blocks}
    BY <1>11 DEF GetBlock, LoadBlock, AreaFails, MemInv, HandTyped, WithBlock, ChunkOf
  <2>4. /\ inProgress' \subseteq inProgress \cup {ChunkOf(t)}
        /\ raced' = raced /\ modified' \subseteq modified \cup Blocks
    BY <2>1 DEF Fetched
  <2> QED
    BY <2>2, <2>3, <2>4 DEF SignalsTyped
<1>12. CASE UNCHANGED vars
  BY <1>12 DEF vars, SignalsTyped
<1> QED
  BY <1>1, <1>2, <1>3, <1>4, <1>5, <1>6, <1>7, <1>8, <1>9, <1>10, <1>11, <1>12 DEF Next, Thread

\* Versions never run ahead of what was written, peers' counts never get below
\* zero, and only blocks of the map and their chunks get anywhere.
THEOREM EmergeTyped == Spec => []TypeOK
<1>1. ASSUME GenInv, QueueInv, MemInv, SignalsTyped PROVE TypeOK
  <2>1. count \in [AllPeers -> Nat]
    <3>1. \A p \in AllPeers : IsFiniteSet(OfPeer(p))
      BY <1>1, FS_Subset DEF QueueInv, OfPeer
    <3>2. \A p \in AllPeers : Cardinality(OfPeer(p)) \in Nat
      BY <3>1, FS_CardinalityType
    <3> QED
      BY <1>1, <3>2 DEF QueueInv
  <2>2. \A b \in Blocks : {mem[b], db[b]}
          \subseteq {NoBlock, Garbage} \cup [gen : BOOLEAN, ver : 0 .. latest[b]]
    <3> TAKE b \in Blocks
    <3>1. BlockTyped(b)
      BY <1>1 DEF MemInv
    <3> QED
      BY <3>1 DEF BlockTyped, InMemory, Versions
  <2>3. pc \in [Threads -> {"loop", "wait", "first", "disk", "second", "make", "report",
                            "stop", "cancel", "ended"}]
    BY <1>1 DEF GenInv, Labels
  <2>4. DOMAIN enqueued \subseteq Blocks /\ \A t \in Threads : queue[t] \in Seq(Blocks)
    BY <1>1 DEF QueueInv
  <2> QED
    BY <1>1, <2>1, <2>2, <2>3, <2>4 DEF TypeOK, SignalsTyped, AllPeers
<1> QED
  BY <1>1, GenInit, GenNext, QueueInit, QueueNext, MemInit, MemNext, SignalsInit, SignalsNext,
     PTL DEF Spec
-----------------------------------------------------------------------------
(* Stale blocks.                                                            *)

\* The inductive form of NoStaleBlock, for a block that was not raced: wherever it
\* may yet be loaded from or written back from, there is its newest version.
BlockFresh(b) ==
  /\ mem[b] # NoBlock => mem[b].ver = latest[b]
  /\ (mem[b] = NoBlock \/ b \notin modified) /\ db[b] \in InMemory(b) => db[b].ver = latest[b]

HandFresh(b, t) ==
  /\ pc[t] = "second" /\ cur[t].pos = b /\ mem[b] = NoBlock /\ cur[t].bytes \in InMemory(b)
       => cur[t].bytes.ver = latest[b]
  /\ Making(t) /\ b \in Area[ChunkOf(t)] => cur[t].area[b].ver = latest[b]

FreshInv == \A b \in Blocks \ raced : BlockFresh(b) /\ \A t \in Threads : HandFresh(b, t)

LEMMA FreshInit == Init => FreshInv
<1> SUFFICES ASSUME Init, NEW b \in Blocks PROVE BlockFresh(b) /\ \A t \in Threads : HandFresh(b, t)
  BY DEF FreshInv
<1>1. /\ latest = [x \in Blocks |-> 0] /\ mem = [x \in Blocks |-> NoBlock]
      /\ pc = [t \in Threads |-> "loop"]
  BY DEF Init
<1>2. db[b] \in InMemory(b) => db[b].ver = latest[b]
  <2>1. latest[b] = 0
    BY <1>1
  <2>2. InMemory(b) = [gen : BOOLEAN, ver : 0 .. 0]
    BY <2>1 DEF InMemory, Versions
  <2>3. \A c \in InMemory(b) : c.ver = 0
    BY <2>2
  <2> QED
    BY <2>1, <2>3
<1> QED
  BY <1>1, <1>2 DEF BlockFresh, HandFresh, Making

\* What a thread has in hand stays fresh while the version stays, and while what it
\* has read is not put back into the place of an unloaded block.
LEMMA HandStaysFresh ==
  ASSUME NEW b \in Blocks, NEW t \in Threads, HandFresh(b, t), pc'[t] = pc[t], cur'[t] = cur[t],
         latest'[b] = latest[b],
         pc[t] = "second" /\ cur[t].pos = b /\ mem'[b] = NoBlock => mem[b] = NoBlock
  PROVE  HandFresh(b, t)'
BY DEF HandFresh, Making, ChunkOf, InMemory, Versions

\* A step that leaves the block alone.
LEMMA BlockStaysFresh ==
  ASSUME NEW b \in Blocks, BlockFresh(b), mem'[b] = mem[b], db'[b] = db[b], latest'[b] = latest[b],
         b \in modified => b \in modified'
  PROVE  BlockFresh(b)'
BY DEF BlockFresh, InMemory, Versions

LEMMA FreshUnchanged ==
  ASSUME FreshInv, UNCHANGED <<mem, db, latest, raced, modified>>,
         \A t \in Threads : \/ pc'[t] = pc[t] /\ cur'[t] = cur[t]
                            \/ \A b \in Blocks \ raced : HandFresh(b, t)'
  PROVE  FreshInv'
<1> SUFFICES ASSUME NEW b \in Blocks \ raced PROVE BlockFresh(b)' /\ \A t \in Threads : HandFresh(b, t)'
  BY DEF FreshInv
<1>1. BlockFresh(b) /\ \A t \in Threads : HandFresh(b, t)
  BY DEF FreshInv
<1>2. BlockFresh(b)'
  BY <1>1, BlockStaysFresh
<1>3. \A t \in Threads : HandFresh(b, t)'
  BY <1>1, HandStaysFresh
<1> QED
  BY <1>2, <1>3

\* What a written block holds.
LEMMA ContentIsThere ==
  ASSUME NEW gen \in BOOLEAN, NEW version \in Nat
  PROVE  Content(gen, version) # NoBlock /\ Content(gen, version).ver = version
<1>1. Content(gen, version) \in [gen : BOOLEAN, ver : Nat]
  BY DEF Content
<1>2. NoBlock \notin [gen : BOOLEAN, ver : Nat]
  BY EmergeAssumption
<1>3. Content(gen, version).ver = version
  BY DEF Content
<1> QED
  BY <1>1, <1>2, <1>3

\* A change of one block by the server thread: the others stay as they are.
LEMMA ChangeKeepsFresh ==
  ASSUME FreshInv, NEW b \in Blocks, pc' = pc, cur' = cur, raced \subseteq raced',
         \A x \in Blocks : x # b => /\ mem'[x] = mem[x] /\ db'[x] = db[x] /\ latest'[x] = latest[x]
                                    /\ (x \in modified => x \in modified'),
         b \notin raced' => BlockFresh(b)' /\ \A t \in Threads : HandFresh(b, t)'
  PROVE  FreshInv'
<1> SUFFICES ASSUME NEW x \in Blocks \ raced'
             PROVE  BlockFresh(x)' /\ \A t \in Threads : HandFresh(x, t)'
  BY DEF FreshInv
<1>1. BlockFresh(x) /\ \A t \in Threads : HandFresh(x, t)
  BY DEF FreshInv
<1>2. CASE x = b
  BY <1>2
<1>3. CASE x # b
  <2>1. BlockFresh(x)'
    BY <1>1, <1>3, BlockStaysFresh
  <2>2. \A t \in Threads : HandFresh(x, t)'
    BY <1>1, <1>3, HandStaysFresh
  <2> QED
    BY <2>1, <2>2
<1> QED
  BY <1>2, <1>3

\* Threads that have a copy of a block, and those that have read its bytes.
LEMMA CopiedIs ==
  ASSUME MemInv, NEW b \in Blocks, NEW t \in Threads
  PROVE  /\ t \in Copied(b) <=> Making(t) /\ b \in Area[ChunkOf(t)]
         /\ t \in Read(b) <=> pc[t] = "second" /\ cur[t].pos = b
BY DEF Copied, Read, Making, MemInv, HandTyped

LEMMA ModifyKeepsFresh ==
  ASSUME MemInv, FreshInv, NEW b \in Blocks, ModifyBlock(b)
  PROVE  FreshInv'
<1>1. /\ latest' = [latest EXCEPT ![b] = @ + 1] /\ db' = db /\ mem[b] # NoBlock
      /\ mem' = [mem EXCEPT ![b] = Content(mem[b].gen, latest[b] + 1)] /\ pc' = pc /\ cur' = cur
      /\ modified' = modified \cup {b} /\ raced \subseteq raced'
      /\ Copied(b) # {} => b \in raced'
  BY DEF ModifyBlock, Change
<1>2. latest \in [Blocks -> Nat] /\ mem = [x \in Blocks |-> mem[x]] /\ BlockTyped(b)
  BY DEF MemInv
<1>3. /\ latest'[b] \in Nat /\ mem[b].gen \in BOOLEAN /\ mem'[b] = Content(mem[b].gen, latest'[b])
      /\ \A x \in Blocks : x # b => mem'[x] = mem[x] /\ latest'[x] = latest[x]
  BY <1>1, <1>2, ContentKinds DEF BlockTyped
<1>4. mem'[b] # NoBlock /\ mem'[b].ver = latest'[b]
  BY <1>3, ContentIsThere
<1>5. BlockFresh(b)'
  BY <1>1, <1>4 DEF BlockFresh
<1>6. ASSUME b \notin raced', NEW t \in Threads PROVE HandFresh(b, t)'
  <2>1. ~(Making(t) /\ b \in Area[ChunkOf(t)])
    BY <1>1, <1>6, CopiedIs
  <2> QED
    BY <1>1, <1>4, <2>1 DEF HandFresh, Making, ChunkOf
<1> QED
  BY <1>1, <1>3, <1>5, <1>6, ChangeKeepsFresh

LEMMA UnloadKeepsFresh ==
  ASSUME MemInv, FreshInv, NEW b \in Blocks, UnloadBlock(b)
  PROVE  FreshInv'
<1>1. /\ latest' = latest /\ mem[b] # NoBlock /\ pc' = pc /\ cur' = cur
      /\ db' = IF b \in modified THEN [db EXCEPT ![b] = mem[b]] ELSE db
      /\ mem' = [mem EXCEPT ![b] = NoBlock] /\ modified' = modified \ {b}
      /\ raced \subseteq raced'
      /\ Read(b) # {} => b \in raced'
  BY DEF UnloadBlock, Change
<1>2. db = [x \in Blocks |-> db[x]] /\ mem = [x \in Blocks |-> mem[x]]
  BY DEF MemInv
<1>3. /\ mem'[b] = NoBlock /\ db'[b] = IF b \in modified THEN mem[b] ELSE db[b]
      /\ \A x \in Blocks : x # b => db'[x] = db[x] /\ mem'[x] = mem[x]
  BY <1>1, <1>2
<1>4. ASSUME b \notin raced' PROVE BlockFresh(b)' /\ \A t \in Threads : HandFresh(b, t)'
  <2>1. BlockFresh(b) /\ \A t \in Threads : HandFresh(b, t)
    BY <1>1, <1>4 DEF FreshInv
  <2>2. BlockFresh(b)'
    BY <1>1, <1>3, <2>1 DEF BlockFresh, InMemory, Versions
  <2>3. \A t \in Threads : ~(pc[t] = "second" /\ cur[t].pos = b)
    BY <1>1, <1>4, CopiedIs
  <2>4. \A t \in Threads : HandFresh(b, t)'
    BY <1>1, <2>1, <2>3, HandStaysFresh
  <2> QED
    BY <2>2, <2>4
<1>5. \A x \in Blocks : x # b => /\ mem'[x] = mem[x] /\ db'[x] = db[x] /\ latest'[x] = latest[x]
                                 /\ (x \in modified => x \in modified')
  BY <1>1, <1>3
<1> QED
  BY <1>1, <1>4, <1>5, ChangeKeepsFresh

LEMMA DeleteKeepsFresh ==
  ASSUME MemInv, FreshInv, NEW b \in Blocks, DeleteBlock(b)
  PROVE  FreshInv'
<1>1. /\ latest' = [latest EXCEPT ![b] = @ + 1] /\ pc' = pc /\ cur' = cur
      /\ mem' = [mem EXCEPT ![b] = NoBlock] /\ db' = [db EXCEPT ![b] = NoBlock]
      /\ modified' = modified \ {b}
      /\ raced \subseteq raced'
      /\ Copied(b) \cup Read(b) # {} => b \in raced'
  BY DEF DeleteBlock, Change
<1>2. latest \in [Blocks -> Nat] /\ db = [x \in Blocks |-> db[x]] /\ mem = [x \in Blocks |-> mem[x]]
  BY DEF MemInv
<1>3. /\ mem'[b] = NoBlock /\ db'[b] = NoBlock /\ latest' \in [Blocks -> Nat]
      /\ \A x \in Blocks : x # b => db'[x] = db[x] /\ mem'[x] = mem[x] /\ latest'[x] = latest[x]
  BY <1>1, <1>2
<1>4. NoBlock \notin InMemory(b)'
  <2>1. InMemory(b)' \subseteq [gen : BOOLEAN, ver : Nat]
    <3>1. (0 .. latest'[b]) \subseteq Nat
      OBVIOUS
    <3> QED
      BY <3>1 DEF InMemory, Versions
  <2> QED
    BY <2>1, EmergeAssumption
<1>5. BlockFresh(b)'
  BY <1>3, <1>4 DEF BlockFresh
<1>6. ASSUME b \notin raced', NEW t \in Threads PROVE HandFresh(b, t)'
  <2>1. ~(Making(t) /\ b \in Area[ChunkOf(t)]) /\ ~(pc[t] = "second" /\ cur[t].pos = b)
    BY <1>1, <1>6, CopiedIs
  <2> QED
    BY <1>1, <2>1 DEF HandFresh, Making, ChunkOf
<1>7. \A x \in Blocks : x # b => /\ mem'[x] = mem[x] /\ db'[x] = db[x] /\ latest'[x] = latest[x]
                                 /\ (x \in modified => x \in modified')
  BY <1>1, <1>3
<1> QED
  BY <1>1, <1>5, <1>6, <1>7, ChangeKeepsFresh

\* A thread brings fresh blocks into memory, and copies them.
LEMMA FetchedKeepsFresh ==
  ASSUME GenInv, MemInv, FreshInv, NEW t \in Threads, pc[t] \in WithBlock, Fetched(t)
  PROVE  FreshInv'
<1>0. UNCHANGED <<db, latest, raced>> /\ modified \subseteq modified' /\ latest \in [Blocks -> Nat]
  BY DEF Fetched, MemInv
<1> SUFFICES ASSUME NEW b \in Blocks \ raced PROVE BlockFresh(b)' /\ \A u \in Threads : HandFresh(b, u)'
  BY <1>0 DEF FreshInv
<1>1. BlockFresh(b) /\ \A u \in Threads : HandFresh(b, u)
  BY DEF FreshInv
<1>2. mem'[b] = mem[b] \/ (Comes(b, t) /\ mem'[b].ver = latest[b] /\ mem[b] = NoBlock /\ mem'[b] # NoBlock)
  <2>1. CASE Comes(b, t)
    <3>1. mem[b] = NoBlock /\ mem'[b] \in InMemory(b)
      BY <2>1 DEF Comes
    <3>2. mem'[b] # NoBlock
      BY <1>0, <3>1, ContentKinds
    <3>3. CASE mem'[b] = db[b]
      BY <1>1, <2>1, <3>1, <3>2, <3>3 DEF BlockFresh
    <3>4. CASE mem'[b] = Content(FALSE, latest[b])
      BY <2>1, <3>1, <3>2, <3>4 DEF Content
    <3>5. CASE pc[t] = "second" /\ cur[t].pos = b /\ mem'[b] = cur[t].bytes
      BY <1>1, <2>1, <3>1, <3>2, <3>5 DEF HandFresh
    <3> QED
      BY <2>1, <3>3, <3>4, <3>5 DEF Comes
  <2> QED
    BY <2>1 DEF Fetched
<1>3. BlockFresh(b)'
  BY <1>0, <1>1, <1>2 DEF BlockFresh, InMemory, Versions
<1>4. ASSUME NEW u \in Threads PROVE HandFresh(b, u)'
  <2>1. CASE u # t
    BY <1>0, <1>1, <1>2, <2>1, HandStaysFresh DEF Fetched
  <2>2. CASE u = t /\ pc'[t] # "make"
    BY <2>2 DEF HandFresh, Making, Fetched
  <2>3. CASE u = t /\ pc'[t] = "make"
    <3>1. cur'[t].pos = cur[t].pos /\ \A x \in Area[ChunkOf(t)] : mem'[x] # NoBlock /\ cur'[t].area[x] = mem'[x]
      BY <2>3 DEF Fetched
    <3>2. ChunkOf(t)' = ChunkOf(t)
      BY <3>1 DEF ChunkOf
    <3> QED
      BY <1>0, <1>3, <2>3, <3>1, <3>2 DEF HandFresh, BlockFresh
  <2> QED
    BY <2>1, <2>2, <2>3
<1> QED
  BY <1>3, <1>4

LEMMA ReadKeepsFresh ==
  ASSUME GenInv, MemInv, FreshInv, NEW t \in Threads, ReadDatabase(t)
  PROVE  FreshInv'
<1>1. ASSUME NEW b \in Blocks \ raced PROVE HandFresh(b, t)'
  <2>1. BlockFresh(b)
    BY DEF FreshInv
  <2> QED
    BY <2>1, ReadEffect DEF HandFresh, BlockFresh, Making, InMemory, Versions
<1> QED
  BY <1>1, ReadEffect, FreshUnchanged

\* What is written back is built on the newest version.
LEMMA FinishKeepsFresh ==
  ASSUME GenInv, MemInv, FreshInv, NEW t \in Threads, FinishGen(t)
  PROVE  FreshInv'
<1>1. /\ Making(t) /\ db' = db /\ cur' = cur /\ pc' = [pc EXCEPT ![t] = "report"]
      /\ raced \subseteq raced' /\ modified \subseteq modified'
      /\ \A b \in Blocks : WrittenBack(b, t) \/ (latest'[b] = latest[b] /\ mem'[b] = mem[b])
  BY FinishGenEffect
<1>2. pc'[t] = "report" /\ \A u \in Threads : u # t => pc'[u] = pc[u] /\ cur'[u] = cur[u]
  BY <1>1 DEF GenInv
<1> SUFFICES ASSUME NEW b \in Blocks \ raced' PROVE BlockFresh(b)' /\ \A u \in Threads : HandFresh(b, u)'
  BY DEF FreshInv
<1>3. BlockFresh(b) /\ \A u \in Threads : HandFresh(b, u)
  BY <1>1 DEF FreshInv
<1>4. HandFresh(b, t)'
  BY <1>2 DEF HandFresh, Making
<1>5. CASE latest'[b] = latest[b] /\ mem'[b] = mem[b]
  <2>1. BlockFresh(b)'
    BY <1>1, <1>3, <1>5, BlockStaysFresh
  <2>2. \A u \in Threads : u # t => HandFresh(b, u)'
    BY <1>2, <1>3, <1>5, HandStaysFresh
  <2> QED
    BY <1>4, <2>1, <2>2
<1>6. CASE WrittenBack(b, t)
  <2>1. cur[t].area[b].ver = latest[b] /\ Copied(b) = {t} /\ b \in modified'
    BY <1>1, <1>3, <1>6 DEF HandFresh, WrittenBack
  <2>2. latest[b] \in Nat /\ latest'[b] = latest[b] + 1
        /\ \E gen \in BOOLEAN : mem'[b] = Content(gen, latest[b] + 1)
    BY <1>6, <2>1 DEF WrittenBack, MemInv
  <2>3. mem'[b] # NoBlock /\ mem'[b].ver = latest'[b]
    BY <2>2, ContentIsThere
  <2>4. BlockFresh(b)'
    BY <2>1, <2>3 DEF BlockFresh
  <2>5. ASSUME NEW u \in Threads, u # t PROVE HandFresh(b, u)'
    <3>1. ~(Making(u) /\ b \in Area[ChunkOf(u)])
      BY <2>1, <2>5, CopiedIs
    <3> QED
      BY <1>2, <2>3, <2>5, <3>1 DEF HandFresh, Making, ChunkOf
  <2> QED
    BY <1>4, <2>4, <2>5
<1> QED
  BY <1>1, <1>5, <1>6

\* A thread goes where nothing in hand can get stale.
LEMMA GoesFresh ==
  ASSUME GenInv, FreshInv, NEW t \in Threads, UNCHANGED <<mem, db, latest, raced, modified>>,
         \E label \in Labels \ {"second", "make"} : Goto(t, label),
         \A u \in Threads : u # t => cur'[u] = cur[u]
  PROVE  FreshInv'
<1>1. pc'[t] \notin {"second", "make"} /\ \A u \in Threads : u # t => pc'[u] = pc[u]
  BY DEF Goto, GenInv
<1>2. \A b \in Blocks : HandFresh(b, t)'
  BY <1>1 DEF HandFresh, Making
<1> QED
  BY <1>1, <1>2, FreshUnchanged

LEMMA FreshNext == GenInv /\ MemInv /\ FreshInv /\ [Next]_vars => FreshInv'
<1> SUFFICES ASSUME GenInv, MemInv, FreshInv, [Next]_vars PROVE FreshInv'
  OBVIOUS
<1> USE DEF map
<1>0. cur = [u \in Threads |-> cur[u]]
  BY DEF GenInv
<1>1. CASE EnqueueForPeer \/ EmergeArea \/ Enqueue \/ Signal
  <2>1. UNCHANGED <<mem, db, latest, raced, modified, pc, cur>>
    BY <1>1 DEF EnqueueForPeer, EmergeArea, Ask, Enqueue, Signal
  <2> QED
    BY <2>1, FreshUnchanged
<1>2. ASSUME NEW t \in Threads, StopThread(t) \/ CancelItem(t) PROVE FreshInv'
  BY <1>2, FreshUnchanged DEF StopThread, CancelItem
<1>3. ASSUME NEW t \in Threads, GenerateFails(t) PROVE FreshInv'
  BY <1>3, GoesFresh DEF GenerateFails, Labels
<1>4. ASSUME NEW t \in Threads, WaitEvent(t) \/ LockQueue(t) \/ EndThread(t) PROVE FreshInv'
  BY <1>4, GoesFresh DEF WaitEvent, LockQueue, EndThread, Labels
<1>5. ASSUME NEW t \in Threads, LoadFails(t) \/ Report(t) PROVE FreshInv'
  <2>1. /\ cur' = [cur EXCEPT ![t] = Idle] /\ UNCHANGED <<mem, db, latest, raced, modified>>
        /\ Goto(t, "loop") \/ Goto(t, "stop")
    BY <1>5 DEF LoadFails, LeaveLoop, Report
  <2> QED
    BY <1>0, <2>1, GoesFresh DEF Labels
<1>6. ASSUME NEW t \in Threads, PopBlock(t) PROVE FreshInv'
  <2>1. UNCHANGED <<mem, db, latest, raced, modified>> /\ \A u \in Threads : u # t => cur'[u] = cur[u]
    BY <1>0, <1>6 DEF PopBlock
  <2>2. \/ UNCHANGED <<pc, cur>>
        \/ Goto(t, "stop") \/ Goto(t, "wait") \/ Goto(t, "first")
    BY <1>6 DEF PopBlock
  <2> QED
    BY <2>1, <2>2, GoesFresh, FreshUnchanged DEF Labels
<1>7. ASSUME NEW t \in Threads, GetBlock(t) \/ LoadBlock(t) \/ AreaFails(t) PROVE FreshInv'
  <2>1. pc[t] \in WithBlock
    BY <1>7 DEF GetBlock, LoadBlock, AreaFails, WithBlock
  <2> QED
    BY <1>7, <2>1, GetFetches, LoadFetches, AreaFetches, FetchedKeepsFresh
<1>8. CASE UNCHANGED vars
  BY <1>8, FreshUnchanged DEF vars
<1> QED
  BY <1>1, <1>2, <1>3, <1>4, <1>5, <1>6, <1>7, <1>8, ReadKeepsFresh,
     FinishKeepsFresh, ModifyKeepsFresh, UnloadKeepsFresh, DeleteKeepsFresh DEF Next, Thread

\* What a thread loads or writes back does not undo a change or a deletion, however
\* many threads there are and whatever their chunks have in common; but for the
\* blocks that were touched while a thread worked on what it had read of them.
THEOREM NeverStale == Spec => []NoStaleBlock
<1>1. ASSUME FreshInv PROVE NoStaleBlock
  BY <1>1 DEF FreshInv, BlockFresh, NoStaleBlock
<1> QED
  BY <1>1, GenInit, GenNext, QueueInit, QueueNext, MemInit, MemNext, FreshInit, FreshNext, PTL DEF Spec
=============================================================================
