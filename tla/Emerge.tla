------------------------------- MODULE Emerge -------------------------------
(***************************************************************************)
(* The emerge threads (src/src/emerge.cpp, with initBlockMake and           *)
(* finishBlockMake of servermap.cpp and the unloading of map.cpp): requests *)
(* for map blocks are queued under a mutex, each thread takes blocks off    *)
(* its own queue and finds them in memory, loads them from the database or  *)
(* generates their chunk, releasing the environment lock in between, while  *)
(* the server thread changes, saves, unloads and deletes blocks.            *)
(*                                                                         *)
(* The content of a block is a version number: latest[b] is the newest one  *)
(* ever written, so that a stale copy shows.                                *)
(***************************************************************************)
EXTENDS Naturals, Sequences, SequencesExt, FiniteSets, FiniteSetsExt

CONSTANTS Threads,            \* indices of m_threads
          Blocks, Peers,
          Chunk,              \* the chunk a block is generated with
          Area,               \* the blocks copied to generate a chunk: it and its border
          OverLimit,          \* blocks outside of the map
          Outside,            \* chunks whose area is not inside of the mapgen limit
          Saved,              \* blocks an earlier session generated and saved
          Corrupt,            \* blocks whose data cannot be read
          NoPeer, NoBlock, NoThread, NoRequest, Garbage,
          QTotal, QDiskOnly, QGenerate,   \* the queue limits
          MaxCallbacks, MaxRequests, MaxChanges   \* bounds of the model

ASSUME EmergeAssumption ==
  /\ Threads # {} /\ Threads \subseteq Nat /\ OverLimit \subseteq Blocks /\ NoPeer \notin Peers
  /\ Chunk \in [Blocks -> Blocks] /\ Area \in [Blocks -> SUBSET Blocks]
  /\ Outside \subseteq Blocks /\ \A b \in Blocks : b \in Area[Chunk[b]]
  /\ NoBlock # Garbage /\ {NoBlock, Garbage} \cap [gen : BOOLEAN, ver : Nat] = {}
  /\ {QTotal, QDiskOnly, QGenerate, MaxCallbacks, MaxRequests, MaxChanges} \subseteq Nat

VARIABLES
  enqueued,    \* m_blocks_enqueued: the data of each block asked for
  count,       \* m_peer_queue_count
  queue,       \* m_block_queue of each thread
  event,       \* m_queue_event of each thread
  asking,      \* the request the server thread is making, the environment locked
  toSignal,    \* the thread it is then about to signal
  stopping,    \* threads asked to stop
  pc, cur,     \* where each thread is, and the block it has in hand
  mem, db,     \* blocks in memory and in the database, or NoBlock
  modified,    \* blocks in memory that were changed since they were read
  inProgress,  \* m_chunks_in_progress
  fatal,       \* setAsyncFatalError was called
  latest,      \* the newest version of each block
  raced,       \* blocks touched while a thread worked on what it had read of them
  calls,       \* how often each callback has run
  requests, changes       \* how many there have been

queues == <<enqueued, count, queue>>
map == <<mem, db, modified, inProgress, latest, raced>>
server == <<asking, toSignal, stopping>>
bounds == <<requests, changes>>
vars == <<queues, event, server, pc, cur, map, fatal, calls, bounds>>

Callbacks == 1 .. MaxCallbacks
Hand(b, gen, callbacks) ==
  [pos |-> b, gen |-> gen, callbacks |-> callbacks, bytes |-> NoBlock, area |-> <<>>]
Idle == Hand(NoBlock, FALSE, {})
Content(generated, version) == [gen |-> generated, ver |-> version]

Init ==
  /\ enqueued = <<>> /\ count = [p \in Peers \cup {NoPeer} |-> 0]
  /\ queue = [t \in Threads |-> <<>>] /\ event = [t \in Threads |-> FALSE]
  /\ asking = NoRequest /\ toSignal = NoThread /\ stopping = {}
  /\ pc = [t \in Threads |-> "loop"] /\ cur = [t \in Threads |-> Idle]
  /\ mem = [b \in Blocks |-> NoBlock]
  /\ db = [b \in Blocks |-> IF b \in Corrupt THEN Garbage
                       ELSE IF b \in Saved THEN Content(TRUE, 0) ELSE NoBlock]
  /\ modified = {} /\ inProgress = {} /\ fatal = FALSE
  /\ latest = [b \in Blocks |-> 0] /\ raced = {}
  /\ calls = <<>> /\ requests = 0 /\ changes = 0

-----------------------------------------------------------------------------
(* The two locks.  What a thread does in one step it does with its lock held;   *)
(* only two stretches hold one lock while they wait for the other.           *)

\* The server thread asks for blocks with the environment locked.
EnvFree == asking = NoRequest /\ toSignal = NoThread

\* cancelPendingItems runs callbacks with the queue locked.
QueueFree == \A t \in Threads : pc[t] # "cancel"

-----------------------------------------------------------------------------
(* EmergeManager, on the server thread.                                     *)

\* pushBlockEmergeData: the limits, unless the request forces its way in.
WithinLimits(r) ==
  \/ r.force
  \/ /\ Cardinality(DOMAIN enqueued) < QTotal
     /\ IF r.peer = NoPeer THEN count[r.peer] * 2 < QTotal
                           ELSE count[r.peer] < (IF r.gen THEN QGenerate ELSE QDiskOnly)

\* getOptimalThread: the first thread with the shortest queue.
Optimal(t) == \A u \in Threads :
  Len(queue[t]) < Len(queue[u]) \/ (Len(queue[t]) = Len(queue[u]) /\ t <= u)

\* The server thread is about to call enqueueBlockEmergeEx.
Ask(r) ==
  /\ stopping = {} /\ EnvFree /\ requests < MaxRequests
  /\ requests' = requests + 1
  /\ asking' = r
  /\ UNCHANGED <<queues, event, toSignal, stopping, pc, cur, map, fatal, calls, changes>>

\* A client's request, and core.emerge_area with a callback.
EnqueueForPeer == \E b \in Blocks, p \in Peers, gen \in BOOLEAN :
  Ask([pos |-> b, peer |-> p, gen |-> gen, force |-> FALSE, callbacks |-> {}])
EmergeArea == \E b \in Blocks :
  /\ Len(calls) < MaxCallbacks
  /\ Ask([pos |-> b, peer |-> NoPeer, gen |-> TRUE, force |-> TRUE, callbacks |-> {Len(calls) + 1}])

\* Mutant: the peer is charged for a block that is enqueued already, too.
CountWith_Merged(r) == [count EXCEPT ![r.peer] = @ + 1]

\* The peer is charged for a block that was not enqueued yet.
CountWith(r) ==
  IF r.pos \in DOMAIN enqueued THEN count ELSE [count EXCEPT ![r.peer] = @ + 1]

\* enqueueBlockEmergeEx up to the release of the queue mutex.  A block that is
\* enqueued already only gets the flags and the callback added.
Enqueue ==
  LET r == asking
      b == r.pos
  IN /\ asking # NoRequest /\ QueueFree
     /\ asking' = NoRequest
     /\ calls' = calls \o [c \in 1 .. Cardinality(r.callbacks) |-> 0]
     /\ count' = IF WithinLimits(r) THEN CountWith(r) ELSE count
     /\ IF ~WithinLimits(r) THEN UNCHANGED <<enqueued, queue, toSignal>>
        ELSE IF b \in DOMAIN enqueued
        THEN /\ enqueued' = [enqueued EXCEPT ![b].gen = @ \/ r.gen,
                                             ![b].callbacks = @ \cup r.callbacks]
             /\ UNCHANGED <<queue, toSignal>>
        ELSE \E t \in Threads :
             /\ Optimal(t)
             /\ enqueued' = [x \in DOMAIN enqueued \cup {b} |->
                  IF x = b THEN [peer |-> r.peer, gen |-> r.gen, callbacks |-> r.callbacks]
                           ELSE enqueued[x]]
             /\ queue' = [queue EXCEPT ![t] = Append(@, b)]
             /\ toSignal' = t
     /\ UNCHANGED <<event, stopping, pc, cur, map, fatal, bounds>>

\* The end of enqueueBlockEmergeEx.
Signal ==
  /\ toSignal # NoThread
  /\ event' = [event EXCEPT ![toSignal] = TRUE]
  /\ toSignal' = NoThread
  /\ UNCHANGED <<queues, asking, stopping, pc, cur, map, fatal, calls, bounds>>

NextToStop(t) == t \notin stopping /\ \A u \in Threads : u < t => u \in stopping

\* Mutant: the thread is stopped without a signal.
StopThread_NoSignal(t) ==
  /\ NextToStop(t) /\ EnvFree
  /\ stopping' = stopping \cup {t}
  /\ UNCHANGED <<queues, event, asking, toSignal, pc, cur, map, fatal, calls, bounds>>

\* stopThreads, one thread after the other; the server thread no longer runs.
StopThread(t) ==
  /\ NextToStop(t) /\ EnvFree
  /\ stopping' = stopping \cup {t}
  /\ event' = [event EXCEPT ![t] = TRUE]
  /\ UNCHANGED <<queues, asking, toSignal, pc, cur, map, fatal, calls, bounds>>

-----------------------------------------------------------------------------
(* The map, changed by the server thread under the environment lock.        *)

\* Threads that generate from a copy of the block, and that have read its bytes.
Copied(b) == {t \in Threads : pc[t] = "make" /\ b \in DOMAIN cur[t].area}
Read(b) == {t \in Threads : pc[t] = "second" /\ cur[t].pos = b}

Change ==
  /\ EnvFree /\ stopping = {} /\ changes < MaxChanges
  /\ changes' = changes + 1
  /\ UNCHANGED <<queues, event, server, pc, cur, inProgress, fatal, calls, requests>>

\* A node of a block is set, or removed.
ModifyBlock(b) ==
  /\ Change
  /\ mem[b] # NoBlock
  /\ latest' = [latest EXCEPT ![b] = @ + 1]
  /\ mem' = [mem EXCEPT ![b] = Content(mem[b].gen, latest[b] + 1)]
  /\ modified' = modified \cup {b}
  /\ raced' = IF Copied(b) = {} THEN raced ELSE raced \cup {b}
  /\ UNCHANGED db

\* Map::timerUpdate unloads a block, saved if it was modified.
UnloadBlock(b) ==
  /\ Change
  /\ mem[b] # NoBlock
  /\ db' = IF b \in modified THEN [db EXCEPT ![b] = mem[b]] ELSE db
  /\ mem' = [mem EXCEPT ![b] = NoBlock]
  /\ modified' = modified \ {b}
  /\ raced' = IF Read(b) = {} THEN raced ELSE raced \cup {b}
  /\ UNCHANGED latest

\* core.delete_area: ServerMap::deleteBlock.
DeleteBlock(b) ==
  /\ Change
  /\ db[b] # NoBlock \/ mem[b] # NoBlock
  /\ db' = [db EXCEPT ![b] = NoBlock]
  /\ mem' = [mem EXCEPT ![b] = NoBlock]
  /\ modified' = modified \ {b}
  /\ latest' = [latest EXCEPT ![b] = @ + 1]
  /\ raced' = IF Copied(b) \cup Read(b) = {} THEN raced ELSE raced \cup {b}

-----------------------------------------------------------------------------
(* EmergeThread::run.                                                       *)

Goto(t, label) == pc' = [pc EXCEPT ![t] = label]

\* runCompletionCallbacks; LuaEmergeAreaCallback takes the environment lock.
RunCallbacks(callbacks) ==
  /\ callbacks # {} => EnvFree
  /\ calls' = [c \in DOMAIN calls |-> IF c \in callbacks THEN calls[c] + 1 ELSE calls[c]]

\* popBlockEmergeData.
Forget(b) ==
  /\ enqueued' = [x \in DOMAIN enqueued \ {b} |-> enqueued[x]]
  /\ count' = [count EXCEPT ![enqueued[b].peer] = @ - 1]

\* The top of the loop and popBlockEmerge.  A block outside of the map is dropped
\* without a word to its callbacks.
PopBlock(t) ==
  /\ pc[t] = "loop"
  /\ IF t \in stopping THEN Goto(t, "stop") /\ UNCHANGED <<queues, cur>>
     ELSE /\ QueueFree
          /\ IF queue[t] = <<>> THEN Goto(t, "wait") /\ UNCHANGED <<queues, cur>>
             ELSE LET b == Head(queue[t])
                  IN  /\ queue' = [queue EXCEPT ![t] = Tail(@)]
                      /\ Forget(b)
                      /\ IF b \in OverLimit THEN UNCHANGED <<pc, cur>>
                         ELSE /\ Goto(t, "first")
                              /\ cur' = [cur EXCEPT ![t] =
                                           Hand(b, enqueued[b].gen, enqueued[b].callbacks)]
  /\ UNCHANGED <<event, server, map, fatal, calls, bounds>>

\* m_queue_event.wait()
WaitEvent(t) ==
  /\ pc[t] = "wait" /\ event[t]
  /\ event' = [event EXCEPT ![t] = FALSE]
  /\ Goto(t, "loop")
  /\ UNCHANGED <<queues, server, cur, map, fatal, calls, bounds>>

\* Mutant: the block is noted instead of its chunk.
ProgressKey_Block(t) == cur[t].pos

\* What m_chunks_in_progress holds of the block in hand: its chunk.
ProgressKey(t) == Chunk[cur[t].pos]

\* Mutant: a chunk in progress does not keep another thread off.
MayGenerate_Anyway(t) == cur[t].gen

\* Generation is allowed, and the chunk not in progress.
MayGenerate(t) == cur[t].gen /\ ProgressKey(t) \notin inProgress

\* What emergeBlock, or else createBlock, finds a block of the area to be, given
\* the blocks "loaded" in memory.
Present(b, loaded) ==
  IF loaded[b] # NoBlock THEN loaded[b]
  ELSE IF db[b] # NoBlock THEN db[b] ELSE Content(FALSE, latest[b])
Created(loaded) == {b \in Blocks : loaded[b] = NoBlock /\ db[b] = NoBlock}
Unreadable(loaded) == {b \in Blocks : loaded[b] = NoBlock /\ db[b] = Garbage}

\* The third part of getBlockOrStartGen, with ServerMap::initBlockMake.  A chunk
\* that is not inside of the mapgen limit is left in progress.  Of any other, all
\* of the area is brought into memory and copied for the map generator.
StartGen(t, loaded) ==
  LET chunk == Chunk[cur[t].pos]
      area == Area[chunk]
  IN  \/ /\ ~MayGenerate(t)
         /\ mem' = loaded /\ Goto(t, "report") /\ UNCHANGED <<inProgress, modified, cur>>
      \/ /\ MayGenerate(t) /\ chunk \in Outside
         /\ inProgress' = inProgress \cup {ProgressKey(t)}
         /\ mem' = loaded /\ Goto(t, "report") /\ UNCHANGED <<modified, cur>>
      \/ /\ MayGenerate(t) /\ chunk \notin Outside /\ area \cap Unreadable(loaded) = {}
         /\ inProgress' = inProgress \cup {ProgressKey(t)}
         /\ mem' = [b \in Blocks |-> IF b \in area THEN Present(b, loaded) ELSE loaded[b]]
         /\ modified' = modified \cup (area \cap Created(loaded))
         /\ cur' = [cur EXCEPT ![t].area = [b \in area |-> Present(b, loaded)]]
         /\ Goto(t, "make")

\* getBlockOrStartGen without bytes from the database.
GetBlock(t) ==
  LET b == cur[t].pos
  IN /\ pc[t] = "first" /\ EnvFree
     /\ IF mem[b] = NoBlock
        THEN Goto(t, "disk") /\ UNCHANGED <<mem, modified, inProgress, cur>>
        ELSE IF mem[b].gen
        THEN Goto(t, "report") /\ UNCHANGED <<mem, modified, inProgress, cur>>
        ELSE StartGen(t, mem)
     /\ UNCHANGED <<queues, event, server, db, latest, raced, fatal, calls, bounds>>

\* The bytes are read under the database's mutex only.
ReadDatabase(t) ==
  /\ pc[t] = "disk"
  /\ cur' = [cur EXCEPT ![t].bytes = db[cur[t].pos]]
  /\ Goto(t, "second")
  /\ UNCHANGED <<queues, event, server, map, fatal, calls, bounds>>

\* Mutant: what was read replaces the block in memory.
Loaded_Overwrites(t) ==
  IF cur[t].bytes = NoBlock THEN mem ELSE [mem EXCEPT ![cur[t].pos] = cur[t].bytes]

\* The blocks in memory once the bytes are used: a block that is there by now is
\* not touched.
Loaded(t) ==
  LET b == cur[t].pos
  IN  IF mem[b] = NoBlock THEN [mem EXCEPT ![b] = cur[t].bytes] ELSE mem

\* getBlockOrStartGen with those bytes.
LoadBlock(t) ==
  LET b == cur[t].pos
      loaded == Loaded(t)
  IN /\ pc[t] = "second" /\ EnvFree
     /\ loaded[b] # Garbage
     /\ IF loaded[b] # NoBlock /\ loaded[b].gen
        THEN mem' = loaded /\ Goto(t, "report") /\ UNCHANGED <<modified, inProgress, cur>>
        ELSE StartGen(t, loaded)
     /\ UNCHANGED <<queues, event, server, db, latest, raced, fatal, calls, bounds>>

\* A SerializationError ends the loop, and the block in hand is forgotten.
LeaveLoop(t) ==
  /\ fatal' = TRUE
  /\ cur' = [cur EXCEPT ![t] = Idle]
  /\ Goto(t, "stop")
  /\ UNCHANGED <<queues, event, server, db, latest, raced, calls, bounds>>

\* The bytes of the block cannot be read ...
LoadFails(t) ==
  /\ pc[t] = "second" /\ EnvFree
  /\ Loaded(t)[cur[t].pos] = Garbage
  /\ LeaveLoop(t)
  /\ UNCHANGED <<mem, modified, inProgress>>

\* ... or those of another block of the area, which initBlockMake loads after it has
\* noted the chunk.
AreaFails(t) ==
  LET b == cur[t].pos
      loaded == IF pc[t] = "second" THEN Loaded(t) ELSE mem
      area == Area[Chunk[b]] \ Unreadable(loaded)
  IN /\ \/ pc[t] = "first" /\ mem[b] # NoBlock
        \/ pc[t] = "second" /\ loaded[b] # Garbage
     /\ EnvFree
     /\ loaded[b] # NoBlock => ~loaded[b].gen
     /\ MayGenerate(t) /\ Chunk[b] \notin Outside /\ area # Area[Chunk[b]]
     /\ inProgress' = inProgress \cup {ProgressKey(t)}
     /\ \E seen \in SUBSET area :
          /\ mem' = [x \in Blocks |-> IF x \in seen THEN Present(x, loaded) ELSE loaded[x]]
          /\ modified' = modified \cup (seen \cap Created(loaded))
     /\ LeaveLoop(t)

\* makeChunk and finishGen: the generator changes its copy, which is written back
\* over the blocks still in memory.  What is built on the newest version of a block
\* is a newer one; else it brings the older one back.
FinishGen(t) ==
  LET chunk == Chunk[cur[t].pos]
      copy == cur[t].area
      back == {b \in DOMAIN copy : mem[b] # NoBlock}
      new == {b \in back : copy[b].ver = latest[b]}
  IN /\ pc[t] = "make" /\ EnvFree
     /\ inProgress' = inProgress \ {chunk}
     /\ latest' = [b \in Blocks |-> IF b \in new THEN latest[b] + 1 ELSE latest[b]]
     /\ mem' = [b \in Blocks |->
          IF b \in back
          THEN Content(mem[b].gen \/ Chunk[b] = chunk,
                       IF b \in new THEN latest[b] + 1 ELSE copy[b].ver)
          ELSE mem[b]]
     /\ modified' = modified \cup back
     /\ raced' = raced \cup {b \in back : Copied(b) # {t}}
     /\ Goto(t, "report")
     /\ UNCHANGED <<queues, event, server, cur, db, fatal, calls, bounds>>

\* Mutant: a failed generation runs the callbacks itself.
GenerateFails_Reports(t) ==
  /\ pc[t] = "make"
  /\ fatal' = TRUE
  /\ RunCallbacks(cur[t].callbacks)
  /\ Goto(t, "report")
  /\ UNCHANGED <<queues, event, server, cur, map, bounds>>

\* The mapgen environment's on_generated raises: finishGen is not called, and the
\* chunk stays in progress.
GenerateFails(t) ==
  /\ pc[t] = "make"
  /\ fatal' = TRUE
  /\ Goto(t, "report")
  /\ UNCHANGED <<queues, event, server, cur, map, calls, bounds>>

\* runCompletionCallbacks, then the next round.
Report(t) ==
  /\ pc[t] = "report"
  /\ RunCallbacks(cur[t].callbacks)
  /\ cur' = [cur EXCEPT ![t] = Idle]
  /\ Goto(t, "loop")
  /\ UNCHANGED <<queues, event, server, map, fatal, bounds>>

\* cancelPendingItems takes the queue mutex, ...
LockQueue(t) ==
  /\ pc[t] = "stop" /\ QueueFree
  /\ Goto(t, "cancel")
  /\ UNCHANGED <<queues, event, server, cur, map, fatal, calls, bounds>>

\* Mutant: a cancelled block's callbacks do not run.
CancelItem_Silent(t) ==
  LET b == Head(queue[t])
  IN /\ pc[t] = "cancel" /\ queue[t] # <<>>
     /\ queue' = [queue EXCEPT ![t] = Tail(@)]
     /\ Forget(b)
     /\ UNCHANGED <<event, server, pc, cur, map, fatal, calls, bounds>>

\* ... runs the callbacks of one item after the other ...
CancelItem(t) ==
  LET b == Head(queue[t])
  IN /\ pc[t] = "cancel" /\ queue[t] # <<>>
     /\ RunCallbacks(enqueued[b].callbacks)
     /\ queue' = [queue EXCEPT ![t] = Tail(@)]
     /\ Forget(b)
     /\ UNCHANGED <<event, server, pc, cur, map, fatal, bounds>>

\* ... and releases it; the thread ends.
EndThread(t) ==
  /\ pc[t] = "cancel" /\ queue[t] = <<>>
  /\ Goto(t, "ended")
  /\ UNCHANGED <<queues, event, server, cur, map, fatal, calls, bounds>>

Thread(t) ==
  \/ PopBlock(t) \/ WaitEvent(t) \/ GetBlock(t) \/ ReadDatabase(t) \/ LoadBlock(t)
  \/ LoadFails(t) \/ AreaFails(t) \/ FinishGen(t) \/ Report(t)
  \/ LockQueue(t) \/ CancelItem(t) \/ EndThread(t)

Next ==
  \/ EnqueueForPeer \/ EmergeArea \/ Enqueue \/ Signal
  \/ \E b \in Blocks : ModifyBlock(b) \/ UnloadBlock(b) \/ DeleteBlock(b)
  \/ \E t \in Threads : StopThread(t) \/ Thread(t) \/ GenerateFails(t)

Spec == Init /\ [][Next]_vars

\* The threads run, and the server thread ends the enqueue it has begun.
FairSpec == Spec /\ WF_vars(Enqueue) /\ WF_vars(Signal) /\ \A t \in Threads : WF_vars(Thread(t))

-----------------------------------------------------------------------------
(* Properties.                                                              *)

TypeOK ==
  /\ DOMAIN enqueued \subseteq Blocks
  /\ count \in [Peers \cup {NoPeer} -> Nat]
  /\ \A t \in Threads : queue[t] \in Seq(Blocks)
  /\ event \in [Threads -> BOOLEAN] /\ toSignal \in Threads \cup {NoThread}
  /\ stopping \subseteq Threads /\ fatal \in BOOLEAN
  /\ pc \in [Threads -> {"loop", "wait", "first", "disk", "second", "make", "report",
                         "stop", "cancel", "ended"}]
  /\ \A b \in Blocks : {mem[b], db[b]}
       \subseteq {NoBlock, Garbage} \cup [gen : BOOLEAN, ver : 0 .. latest[b]]
  /\ modified \subseteq Blocks /\ raced \subseteq Blocks
  /\ inProgress \subseteq {Chunk[b] : b \in Blocks}

\* The three views of what is queued agree: a block has data exactly if one
\* thread has it in its queue, once, and a peer's count is the number of its
\* blocks.  A count that is too high locks the peer out for ever; one too low
\* underflows.
InOneQueue ==
  /\ \A b \in Blocks : b \in DOMAIN enqueued <=>
       \E t \in Threads : \E i \in DOMAIN queue[t] : queue[t][i] = b
  /\ \A t, u \in Threads : \A i \in DOMAIN queue[t], j \in DOMAIN queue[u] :
       queue[t][i] = queue[u][j] => t = u /\ i = j
OfPeer(p) == {b \in DOMAIN enqueued : enqueued[b].peer = p}
QueuesAgree == InOneQueue /\ \A p \in DOMAIN count : count[p] = Cardinality(OfPeer(p))

\* A chunk is generated by one thread at a time, and is in progress only then,
\* until an error has condemned the server.  A chunk that is not inside of the mapgen
\* limit stays in progress once it was asked for.
OneGeneratorPerChunk ==
  LET making == {t \in Threads : pc[t] = "make"}
  IN  /\ \A t, u \in making : Chunk[cur[t].pos] = Chunk[cur[u].pos] => t = u
      /\ ~fatal => inProgress \ Outside = {Chunk[cur[t].pos] : t \in making}

\* A block in memory is never an older version than the newest that was written:
\* what a thread loads or writes back does not undo a change or a deletion.  The
\* only ways to an older one are the stretches in which a thread works on what it
\* has read with the environment unlocked: the block was unloaded or deleted after
\* its bytes were read, or it was changed, deleted or generated by another thread
\* (as a part of its chunk or of its border) after it was copied.
NoStaleBlock == \A b \in Blocks \ raced :
  mem[b] \notin {NoBlock, Garbage} => mem[b].ver = latest[b]

\* No callback runs twice, whether its block was merged with other requests,
\* taken by a thread or cancelled.
CallbackOnce == \A c \in DOMAIN calls : calls[c] <= 1

\* A thread that has left its loop runs a callback with the queue locked, and the
\* server thread asks for a block with the environment locked: each waits for the
\* other's lock, and nothing more is emerged.
LockedOut == asking # NoRequest /\ \E t \in Threads :
  pc[t] = "cancel" /\ queue[t] # <<>> /\ enqueued[Head(queue[t])].callbacks # {}

\* Every callback of a block inside of the map runs, whichever thread gets the
\* block, whatever becomes of it, and when the threads stop first; unless the two
\* locks get stuck.  Only a block with one in its area whose data cannot be read
\* takes its callbacks with it, and leaves a thread that has ended for later
\* requests to be queued at.
Doomed == {b \in Blocks : Area[Chunk[b]] \cap Corrupt # {}}
Pending(c) == c \in DOMAIN calls /\ calls[c] = 0 /\ \E t \in Threads :
  \/ c \in cur[t].callbacks /\ cur[t].pos \notin Doomed
  \/ pc[t] # "ended" /\ \E b \in ToSet(queue[t]) \ (OverLimit \cup Doomed) :
                          c \in enqueued[b].callbacks
CallbacksRun == \A c \in Callbacks :
  Pending(c) ~> (c \in DOMAIN calls /\ calls[c] > 0) \/ LockedOut

\* A thread that is stopped or leaves its loop cancels what it has queued and ends,
\* unless the two locks get stuck.
Leaving(t) == t \in stopping \/ pc[t] = "stop"
ThreadsEnd == \A t \in Threads : Leaving(t) ~> pc[t] = "ended" \/ LockedOut

-----------------------------------------------------------------------------
\* What ~Server expects of stopThreads: "Stop all emerge activity and finish off
\* mapgen callbacks".
ThreadsFinish == \A t \in Threads : Leaving(t) ~> pc[t] = "ended"
=============================================================================
