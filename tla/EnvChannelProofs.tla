-------------------------- MODULE EnvChannelProofs --------------------------
(* The typing of the environments' channel and processes; that no process  *)
(* is left behind; that Python and its processes take turns; and that the  *)
(* channel implements GymEnv: for any number of environments, calls,       *)
(* processes and crashes.                                                  *)
EXTENDS EnvChannel, FiniteSetTheorems, SequenceTheorems, WellFoundedInduction, TLAPS

Busy(e) == py[e] \notin {"idle", "closed"}

(* An environment holds a process it started; a process that has not       *)
(* connected has no connection.                                            *)
Processes ==
  /\ \A e \in Envs : proc[e] # None => proc[e] \in 1 .. started /\ owner[proc[e]] = e
  /\ \A p \in Procs : p > started => mt[p] = "none"
  /\ \A p \in Procs : mt[p] \in {"none", "starting"} => conn[p] = "none"

OneCall == \A d, e \in Envs : Busy(d) /\ Busy(e) => d = e

(* What a call has left to do fits the bounds.                             *)
Budget ==
  \A e \in Envs :
    /\ py[e] = "kill" => started + 1 <= MaxProcs /\ sends + InitFrames <= MaxSends
    /\ py[e] \in {"started", "accept", "init"} => sends + initLeft[e] <= MaxSends
    /\ py[e] = "init" => initLeft[e] > 0

(* A connection waits once, on the socket of its own environment.          *)
Queues ==
  \A e \in Envs :
    /\ \A i \in 1 .. Len(backlog[e]) :
         conn[backlog[e][i]] = "queued" /\ owner[backlog[e][i]] = e
    /\ \A i, j \in 1 .. Len(backlog[e]) : backlog[e][i] = backlog[e][j] => i = j

(* A descriptor is an accepted connection, and each has one: so a          *)
(* connection that is accepted finds a free descriptor.                    *)
Descriptors ==
  /\ \A f \in Fds : fdTable[f] # None => conn[fdTable[f]] \notin {"none", "queued"}
  /\ \A f, g \in Fds : fdTable[f] = fdTable[g] /\ fdTable[f] # None => f = g

(* Without a descriptor an environment's process is gone, or on its way to *)
(* one, or was left behind by a listen that timed out.                     *)
Channels ==
  \A e \in Envs :
    connfd[e] = None /\ proc[e] # None /\ mt[proc[e]] # "gone" =>
      e \in timedOut \/ py[e] \in {"kill", "started", "accept", "close", "closed"}

IInv ==
  /\ TypeOK
  /\ Processes /\ OneCall /\ Budget
  /\ Queues /\ Descriptors /\ Channels
  /\ NoStrayProcess

-----------------------------------------------------------------------------
LEMMA Least ==
  ASSUME NEW S, S \subseteq Nat, S # {}
  PROVE  \E x \in S : \A y \in S : x <= y
<1> DEFINE R == OpToRel(<, Nat)
<1>1. \A x, y \in Nat : <<x, y>> \in R <=> x < y
  BY DEF OpToRel
<1>2. IsWellFoundedOn(R, Nat)
  BY NatLessThanWellFounded, Zenon
<1> HIDE DEF R
<1>3. PICK x \in S : \A y \in S : ~(<<y, x>> \in R)
  BY <1>2, WFMin, Zenon
<1>4. ASSUME NEW y \in S PROVE x <= y
  <2>1. x \in Nat /\ y \in Nat
    BY <1>4
  <2>2. ~(y < x)
    BY <1>1, <1>3, <2>1
  <2>3. QED
    BY <2>1, <2>2
<1>5. QED
  BY <1>4

(* A connection that is not accepted leaves a descriptor free: there are   *)
(* as many descriptors as processes.                                       *)
LEMMA LowestFreeExists ==
  ASSUME TypeOK, Descriptors, NEW p \in Procs, conn[p] = "queued"
  PROVE  LowestFree \in Fds /\ fdTable[LowestFree] = None
<1> USE EnvAssumption
<1> DEFINE Free == {f \in Fds : fdTable[f] = None}
<1>1. Free # {}
  <2> SUFFICES ASSUME Free = {} PROVE FALSE
    OBVIOUS
  <2>1. fdTable \in [Fds -> Procs \ {p}]
    BY DEF TypeOK, Descriptors
  <2>2. IsFiniteSet(Procs) /\ Cardinality(Procs) = MaxProcs
    BY FS_Interval DEF Procs
  <2>3. IsFiniteSet(Procs \ {p}) /\ Cardinality(Procs \ {p}) = MaxProcs - 1
    BY <2>2, FS_RemoveElement
  <2>4. Fds = Procs
    BY DEF Fds, Procs
  <2>5. \E f, g \in Fds : f # g /\ fdTable[f] = fdTable[g]
    <3>1. Cardinality(Procs \ {p}) < Cardinality(Fds) /\ IsFiniteSet(Fds)
      BY <2>2, <2>3, <2>4
    <3>2. QED
      BY <2>1, <2>3, <3>1, FS_PigeonHole
  <2>6. QED
    BY <2>5 DEF Descriptors
<1>2. PICK f \in Free : \A g \in Free : f <= g
  <2>1. Free \subseteq Nat
    BY DEF Fds
  <2>2. QED
    BY <1>1, <2>1, Least
<1>3. fdTable[f] = None /\ \A g \in 1 .. f - 1 : fdTable[g] # None
  BY <1>2 DEF Fds
<1>4. QED
  BY <1>2, <1>3 DEF LowestFree

LEMMA Queued ==
  ASSUME TypeOK, Queues, NEW d \in Envs, NEW i \in 1 .. Len(backlog[d])
  PROVE  backlog[d][i] \in Procs /\ conn[backlog[d][i]] = "queued" /\ owner[backlog[d][i]] = d
<1>1. backlog[d] \in Seq(Procs)
  BY DEF TypeOK
<1>2. backlog[d][i] \in Procs
  BY <1>1, ElementOfSeq
<1>3. QED
  BY <1>2 DEF Queues

LEMMA PeerType ==
  ASSUME TypeOK, NEW e \in Envs
  PROVE  /\ Peer(e) \in Procs \union {None}
         /\ Peer(e) # None => connfd[e] \in Fds /\ fdTable[connfd[e]] = Peer(e)
<1>1. CASE connfd[e] = None
  BY <1>1 DEF Peer
<1>2. CASE connfd[e] # None
  BY <1>2 DEF Peer, TypeOK, Fds, Procs, None
<1>3. QED
  BY <1>1, <1>2

LEMMA PeerAccepted ==
  ASSUME TypeOK, Descriptors, NEW e \in Envs, Peer(e) # None
  PROVE  Peer(e) \in Procs /\ conn[Peer(e)] \notin {"none", "queued"}
<1>1. Peer(e) \in Procs /\ connfd[e] \in Fds /\ fdTable[connfd[e]] = Peer(e)
  BY PeerType
<1>2. QED
  BY <1>1 DEF Descriptors

Message == [action : 0 .. MaxSends, kill : BOOLEAN]

LEMMA DeliverType ==
  ASSUME TypeOK, NEW p \in Procs, NEW message \in Message, Deliver(p, message)
  PROVE  toMt' \in [Procs -> Seq(Message)]
<1>1. toMt \in [Procs -> Seq(Message)]
  BY DEF TypeOK, Message
<1>2. Append(toMt[p], message) \in Seq(Message)
  BY <1>1
<1>3. QED
  BY <1>1, <1>2 DEF Deliver

LEMMA SendActionType ==
  ASSUME TypeOK, NEW e \in Envs, SendAction(e), sends + 1 <= MaxSends
  PROVE  /\ sends' \in 0 .. MaxSends
         /\ toMt' \in [Procs -> Seq(Message)]
<1>1. sends' = sends + 1 /\ sends' \in 0 .. MaxSends
  BY EnvAssumption DEF SendAction, TypeOK
<1>2. Peer(e) \in Procs
  BY PeerType DEF SendAction, CanSend
<1>3. [action |-> sends', kill |-> FALSE] \in Message
  BY <1>1 DEF Message
<1>4. Deliver(Peer(e), [action |-> sends', kill |-> FALSE])
  BY DEF SendAction
<1>5. QED
  BY <1>1, <1>2, <1>3, <1>4, DeliverType

LEMMA SendKillType ==
  ASSUME TypeOK, NEW e \in Envs, CanSend(e),
         Deliver(Peer(e), [action |-> 0, kill |-> TRUE])
  PROVE  toMt' \in [Procs -> Seq(Message)]
<1>1. Peer(e) \in Procs
  BY PeerType DEF CanSend
<1>2. [action |-> 0, kill |-> TRUE] \in Message
  BY EnvAssumption DEF Message
<1>3. QED
  BY <1>1, <1>2, DeliverType

Observations == [action : 0 .. MaxSends, whole : BOOLEAN]

(* Hanging up on connections that were accepted, or on those of a socket.  *)
LEMMA HangupType ==
  ASSUME TypeOK, NEW ps, Hangup(ps)
  PROVE  /\ conn' \in [Procs -> {"none", "queued", "open", "closed", "reset"}]
         /\ toPy' \in [Procs -> Seq(Observations)]
<1>1. toPy \in [Procs -> Seq(Observations)]
  BY DEF TypeOK, Observations
<1>2. QED
  BY <1>1 DEF Hangup, TypeOK

-----------------------------------------------------------------------------
(* The new process takes the next number, and nothing else of the table    *)
(* changes.                                                                *)
LEMMA StartProcessFacts ==
  ASSUME TypeOK, NEW e \in Envs, StartProcess(e), started + 1 <= MaxProcs
  PROVE  /\ started' = started + 1 /\ started' \in Procs /\ started' \in 0 .. MaxProcs
         /\ owner' \in [1 .. started' -> Envs] /\ owner'[started'] = e
         /\ \A p \in 1 .. started : owner'[p] = owner[p]
         /\ mt' \in [Procs -> {"none", "starting", "running", "waiting", "gone", "hung"}]
         /\ mt'[started'] = "starting"
         /\ \A p \in Procs : p # started' => mt'[p] = mt[p]
         /\ proc' \in [Envs -> Procs \union {None}] /\ proc'[e] = started'
         /\ \A d \in Envs : d # e => proc'[d] = proc[d]
         /\ initLeft' \in [Envs -> 0 .. InitFrames] /\ initLeft'[e] = InitFrames
         /\ \A d \in Envs : d # e => initLeft'[d] = initLeft[d]
<1> USE EnvAssumption
<1>1. started' = started + 1 /\ started' \in Procs /\ started' \in 0 .. MaxProcs
  BY DEF StartProcess, TypeOK, Procs
<1>2. owner \in [1 .. started -> Envs] /\ started \in Nat
  BY DEF TypeOK
<1>3. owner \in Seq(Envs) /\ Len(owner) = started
  BY <1>2
<1>4. owner' \in Seq(Envs) /\ Len(owner') = started'
  <2>1. Append(owner, e) \in Seq(Envs) /\ Len(Append(owner, e)) = Len(owner) + 1
    BY <1>3, AppendProperties
  <2>2. QED
    BY <1>1, <1>3, <2>1 DEF StartProcess
<1>5. /\ owner' \in [1 .. started' -> Envs] /\ owner'[started'] = e
      /\ \A p \in 1 .. started : owner'[p] = owner[p]
  <2>1. owner' \in [1 .. started' -> Envs]
    BY <1>4, LenProperties
  <2>2. owner'[started'] = e
    BY <1>1, <1>3, AppendProperties DEF StartProcess
  <2>3. \A p \in 1 .. started : owner'[p] = owner[p]
    BY <1>3, AppendProperties DEF StartProcess
  <2>4. QED
    BY <2>1, <2>2, <2>3
<1>6. /\ mt' \in [Procs -> {"none", "starting", "running", "waiting", "gone", "hung"}]
      /\ mt'[started'] = "starting"
      /\ \A p \in Procs : p # started' => mt'[p] = mt[p]
  BY <1>1 DEF StartProcess, TypeOK
<1>7. /\ proc' \in [Envs -> Procs \union {None}] /\ proc'[e] = started'
      /\ \A d \in Envs : d # e => proc'[d] = proc[d]
  BY <1>1 DEF StartProcess, TypeOK
<1>8. /\ initLeft' \in [Envs -> 0 .. InitFrames] /\ initLeft'[e] = InitFrames
      /\ \A d \in Envs : d # e => initLeft'[d] = initLeft[d]
  BY DEF StartProcess, TypeOK
<1>9. QED
  BY <1>1, <1>5, <1>6, <1>7, <1>8

(* What a new process means for the processes, the queues and the limits,  *)
(* whichever call starts it.                                               *)
LEMMA StartProcessKeeps ==
  ASSUME IInv, NEW e \in Envs, StartProcess(e), started + 1 <= MaxProcs,
         proc[e] # None => mt[proc[e]] = "gone" \/ e \in timedOut,
         UNCHANGED <<conn, backlog, timedOut>>
  PROVE  Processes' /\ Queues' /\ NoStrayProcess'
<1> USE EnvAssumption DEF IInv, None
<1> DEFINE n == started'
<1>0. started \in Nat /\ started <= MaxProcs
  BY DEF TypeOK
<1>1. /\ n = started + 1 /\ n \in Procs
      /\ owner'[n] = e /\ \A p \in 1 .. started : owner'[p] = owner[p]
      /\ mt'[n] = "starting" /\ \A p \in Procs : p # n => mt'[p] = mt[p]
      /\ proc'[e] = n /\ \A d \in Envs : d # e => proc'[d] = proc[d]
  BY StartProcessFacts
<1>2. mt[n] = "none" /\ conn[n] = "none"
  BY <1>0, <1>1 DEF Processes
<1>3. Processes'
  <2>1. \A d \in Envs : proc'[d] # None => proc'[d] \in 1 .. n /\ owner'[proc'[d]] = d
    BY <1>0, <1>1 DEF Processes
  <2>2. \A p \in Procs : p > n => mt'[p] = "none"
    BY <1>0, <1>1 DEF Processes, Procs
  <2>3. \A p \in Procs : mt'[p] \in {"none", "starting"} => conn'[p] = "none"
    BY <1>1, <1>2 DEF Processes
  <2>4. QED
    BY <2>1, <2>2, <2>3 DEF Processes
<1>4. Queues'
  <2> SUFFICES ASSUME NEW d \in Envs, NEW i \in 1 .. Len(backlog[d])
               PROVE  owner'[backlog[d][i]] = d
    BY DEF Queues
  <2>1. backlog[d][i] \in Procs /\ conn[backlog[d][i]] = "queued" /\ owner[backlog[d][i]] = d
    BY Queued
  <2>2. ~(backlog[d][i] > started)
    BY <2>1 DEF Processes
  <2>3. backlog[d][i] \in 1 .. started
    BY <1>0, <2>1, <2>2 DEF Procs
  <2>4. QED
    BY <1>1, <2>1, <2>3
<1>5. NoStrayProcess'
  <2> SUFFICES ASSUME NEW p \in 1 .. n, mt'[p] # "gone", p # proc'[owner'[p]]
               PROVE  owner'[p] \in timedOut
    BY DEF NoStrayProcess
  <2>1. p \in 1 .. started /\ p \in Procs /\ p # n
    BY <1>0, <1>1 DEF Procs
  <2>2. owner'[p] = owner[p] /\ owner[p] \in Envs /\ mt[p] # "gone"
    BY <1>1, <2>1 DEF TypeOK
  <2>3. CASE p = proc[owner[p]]
    <3>1. owner[p] = e
      BY <1>1, <2>2, <2>3
    <3>2. QED
      BY <2>1, <2>2, <2>3, <3>1
  <2>4. CASE p # proc[owner[p]]
    BY <2>1, <2>2, <2>4 DEF NoStrayProcess
  <2>5. QED
    BY <2>3, <2>4
<1>6. QED
  BY <1>3, <1>4, <1>5

(* A process that was started and is not gone may change its state without *)
(* becoming another environment's stray.                                   *)
LEMMA BecomeKeeps ==
  ASSUME IInv, NEW p \in Procs, NEW state \in {"running", "waiting", "gone", "hung"}, Become(p, state),
         mt[p] \in {"starting", "running", "waiting"},
         UNCHANGED <<proc, started, owner, timedOut>>,
         \A q \in Procs : q # p => conn'[q] = conn[q]
  PROVE  /\ mt' \in [Procs -> {"none", "starting", "running", "waiting", "gone", "hung"}]
         /\ Processes' /\ NoStrayProcess' /\ p \in 1 .. started
<1> USE EnvAssumption DEF IInv, None
<1>1. p \in 1 .. started
  BY DEF Processes, Procs, TypeOK
<1>2. /\ mt' \in [Procs -> {"none", "starting", "running", "waiting", "gone", "hung"}]
      /\ mt'[p] = state /\ \A q \in Procs : q # p => mt'[q] = mt[q]
  BY DEF Become, TypeOK
<1>3. Processes'
  <2>1. \A e \in Envs : proc[e] # None => proc[e] \in 1 .. started /\ owner[proc[e]] = e
    BY DEF Processes
  <2>2. \A q \in Procs : q > started => mt'[q] = "none"
    BY <1>1, <1>2 DEF Processes
  <2>3. \A q \in Procs : mt'[q] \in {"none", "starting"} => conn'[q] = "none"
    BY <1>2 DEF Processes
  <2>4. QED
    BY <2>1, <2>2, <2>3 DEF Processes
<1>4. NoStrayProcess'
  <2> SUFFICES ASSUME NEW q \in 1 .. started, mt'[q] # "gone", q # proc[owner[q]]
               PROVE  owner[q] \in timedOut
    BY DEF NoStrayProcess
  <2>1. q \in Procs
    BY DEF TypeOK, Procs
  <2>2. mt[q] # "gone"
    BY <1>2, <2>1
  <2>3. QED
    BY <2>2 DEF NoStrayProcess
<1>5. QED
  BY <1>1, <1>2, <1>3, <1>4

-----------------------------------------------------------------------------
LEMMA CallStepKeeps ==
  ASSUME IInv, NEW e \in Envs, CallStep(e)
  PROVE  IInv'
<1> USE EnvAssumption DEF IInv, None
<1>1. TypeOK'
  <2>1. sends' \in 0 .. MaxSends /\ toMt' \in [Procs -> Seq(Message)]
    BY SendActionType DEF CallStep, WithinBounds
  <2>2. py' \in [Envs -> PyPC]
    BY DEF CallStep, Goto, TypeOK, PyPC
  <2>3. QED
    BY <2>1, <2>2 DEF CallStep, Message, TypeOK, mtVars
<1>2. Processes' /\ Queues' /\ Descriptors' /\ NoStrayProcess'
  BY DEF CallStep, Processes, Queues, Descriptors, NoStrayProcess, mtVars
<1>3. OneCall' /\ Budget' /\ Channels'
  BY DEF CallStep, Goto, Callable, OneCall, Budget, Channels, Busy, mtVars, TypeOK
<1>4. QED
  BY <1>1, <1>2, <1>3

LEMMA CallSoftResetKeeps ==
  ASSUME IInv, NEW e \in Envs, CallSoftReset(e)
  PROVE  IInv'
<1> USE EnvAssumption DEF IInv, None
<1>1. TypeOK'
  <2>1. sends' \in 0 .. MaxSends /\ toMt' \in [Procs -> Seq(Message)]
    BY SendActionType DEF CallSoftReset, WithinBounds
  <2>2. py' \in [Envs -> PyPC]
    BY DEF CallSoftReset, Goto, TypeOK, PyPC
  <2>3. QED
    BY <2>1, <2>2 DEF CallSoftReset, Message, TypeOK, mtVars
<1>2. Processes' /\ Queues' /\ Descriptors' /\ NoStrayProcess'
  BY DEF CallSoftReset, Processes, Queues, Descriptors, NoStrayProcess, mtVars
<1>3. OneCall' /\ Budget' /\ Channels'
  BY DEF CallSoftReset, Goto, Callable, OneCall, Budget, Channels, Busy, mtVars, TypeOK
<1>4. QED
  BY <1>1, <1>2, <1>3

LEMMA CallFirstResetKeeps ==
  ASSUME IInv, NEW e \in Envs, CallFirstReset(e)
  PROVE  IInv'
<1> USE EnvAssumption DEF IInv, None
<1>1. /\ StartProcess(e) /\ started + 1 <= MaxProcs
      /\ proc[e] # None => mt[proc[e]] = "gone" \/ e \in timedOut
  BY DEF CallFirstReset, WithinBounds, Callable, Channels
<1>2. /\ started' = started + 1 /\ started' \in Procs /\ started' \in 0 .. MaxProcs
      /\ owner' \in [1 .. started' -> Envs]
      /\ mt' \in [Procs -> {"none", "starting", "running", "waiting", "gone", "hung"}]
      /\ \A p \in Procs : p # started' => mt'[p] = mt[p]
      /\ proc' \in [Envs -> Procs \union {None}]
      /\ \A d \in Envs : d # e => proc'[d] = proc[d]
      /\ initLeft' \in [Envs -> 0 .. InitFrames] /\ initLeft'[e] = InitFrames
      /\ \A d \in Envs : d # e => initLeft'[d] = initLeft[d]
  BY <1>1, StartProcessFacts
<1>3. Processes' /\ Queues' /\ NoStrayProcess'
  BY <1>1, StartProcessKeeps DEF CallFirstReset, netVars, history
<1>4. TypeOK'
  <2>1. py' \in [Envs -> PyPC]
    BY DEF CallFirstReset, Goto, TypeOK, PyPC
  <2>2. QED
    BY <1>2, <2>1 DEF CallFirstReset, TypeOK, netVars, history
<1>5. Budget'
  <2>1. \A d \in Envs : d # e => py'[d] = py[d] /\ py[d] \in {"idle", "closed"}
    BY DEF CallFirstReset, Goto, TypeOK, WithinBounds, Callable, Channels, Busy
  <2>2. py'[e] = "started" /\ sends' + initLeft'[e] <= MaxSends
    BY <1>2 DEF CallFirstReset, Goto, TypeOK, WithinBounds, Callable, Channels, netVars,
                history
  <2>3. QED
    BY <2>1, <2>2 DEF Budget
<1>6. Channels'
  <2> SUFFICES ASSUME NEW d \in Envs, d # e
               PROVE  proc'[d] = proc[d] /\ (proc[d] # None => mt'[proc[d]] = mt[proc[d]])
    BY DEF CallFirstReset, Goto, Channels, TypeOK, netVars, history
  <2>1. proc[d] # None => proc[d] \in Procs /\ proc[d] <= started /\ started \in Nat
    BY DEF Processes, TypeOK, Procs
  <2>2. proc[d] # None => proc[d] # started'
    BY <1>2, <2>1
  <2>3. QED
    BY <1>2, <2>1, <2>2
<1>7. Descriptors'
  BY DEF CallFirstReset, Descriptors, netVars
<1>8. OneCall'
  BY DEF CallFirstReset, Goto, Callable, OneCall, Busy, netVars, TypeOK
<1>9. QED
  BY <1>3, <1>4, <1>5, <1>6, <1>7, <1>8

LEMMA CallHardResetKeeps ==
  ASSUME IInv, NEW e \in Envs, CallHardReset(e)
  PROVE  IInv'
<1> USE EnvAssumption DEF IInv, None
<1>1. /\ CanSend(e) /\ Deliver(Peer(e), [action |-> 0, kill |-> TRUE])
      /\ Hangup({Peer(e)}) /\ CloseDescriptor(e)
      /\ Peer(e) \in Procs /\ conn[Peer(e)] \notin {"none", "queued"}
  BY PeerAccepted DEF CallHardReset, KillAndHangup, CanSend
<1>2. /\ \A q \in Procs : conn'[q] = conn[q] \/ (q = Peer(e) /\ conn'[q] \in {"closed", "reset"})
      /\ fdTable' \in [Fds -> Procs \union {None}]
      /\ \A f \in Fds : fdTable'[f] # None => fdTable'[f] = fdTable[f]
      /\ connfd' \in [Envs -> Fds \union {None}]
      /\ \A d \in Envs : d # e => connfd'[d] = connfd[d]
  BY <1>1 DEF Hangup, CloseDescriptor, TypeOK
<1>3. TypeOK'
  <2>1. toMt' \in [Procs -> Seq(Message)]
    BY <1>1, SendKillType
  <2>2. /\ conn' \in [Procs -> {"none", "queued", "open", "closed", "reset"}]
        /\ toPy' \in [Procs -> Seq(Observations)]
    BY <1>1, HangupType
  <2>3. py' \in [Envs -> PyPC]
    BY DEF CallHardReset, Goto, TypeOK, PyPC
  <2>4. QED
    BY <1>2, <2>1, <2>2, <2>3 DEF CallHardReset, Message, Observations, TypeOK, mtVars
<1>4. Processes'
  BY <1>1, <1>2 DEF CallHardReset, mtVars, Processes
<1>5. Queues'
  <2> SUFFICES ASSUME NEW d \in Envs, NEW i \in 1 .. Len(backlog[d])
               PROVE  conn'[backlog[d][i]] = "queued"
    BY DEF CallHardReset, mtVars, Queues
  <2>1. backlog[d][i] \in Procs /\ conn[backlog[d][i]] = "queued"
    BY Queued
  <2>2. QED
    BY <1>1, <1>2, <2>1
<1>6. Descriptors'
  <2>1. \A f \in Fds : fdTable'[f] # None => fdTable'[f] = fdTable[f] /\ fdTable[f] \in Procs
    BY <1>2 DEF TypeOK
  <2>2. \A f \in Fds : fdTable'[f] # None => conn'[fdTable'[f]] \notin {"none", "queued"}
    BY <1>2, <2>1 DEF Descriptors
  <2>3. QED
    BY <2>1, <2>2 DEF Descriptors
<1>7. Channels'
  BY <1>2 DEF CallHardReset, Goto, mtVars, Channels, TypeOK
<1>8. NoStrayProcess'
  BY DEF CallHardReset, NoStrayProcess, mtVars
<1>9. OneCall' /\ Budget'
  BY DEF CallHardReset, KillAndHangup, CloseDescriptor, WithinBounds, Goto, Callable,
         OneCall, Budget, Busy, mtVars, TypeOK
<1>10. QED
  BY <1>3, <1>4, <1>5, <1>6, <1>7, <1>8, <1>9

LEMMA CallRaisesKeeps ==
  ASSUME IInv, NEW e \in Envs, CallRaises(e)
  PROVE  IInv'
<1> USE EnvAssumption DEF IInv, None
<1>1. TypeOK'
  BY DEF CallRaises, TypeOK, PyPC, pyVars, mtVars, netVars
<1>2. Processes' /\ Queues' /\ Descriptors' /\ NoStrayProcess'
  BY DEF CallRaises, Processes, Queues, Descriptors, NoStrayProcess, pyVars, mtVars, netVars
<1>3. OneCall' /\ Budget' /\ Channels'
  BY DEF CallRaises, OneCall, Budget, Channels, Busy, pyVars, mtVars, netVars, TypeOK
<1>4. QED
  BY <1>1, <1>2, <1>3

LEMMA CallCloseKeeps ==
  ASSUME IInv, NEW e \in Envs, CallClose(e)
  PROVE  IInv'
<1> USE EnvAssumption DEF IInv, None
<1>1. /\ CanSend(e) /\ Deliver(Peer(e), [action |-> 0, kill |-> TRUE])
      /\ Hangup({Peer(e)} \union Range(backlog[e])) /\ CloseDescriptor(e)
      /\ Peer(e) \in Procs /\ conn[Peer(e)] \notin {"none", "queued"}
  BY PeerAccepted DEF CallClose, CanSend
<1>2. \A q \in Range(backlog[e]) : q \in Procs /\ conn[q] = "queued" /\ owner[q] = e
  BY DEF Range, Queues, TypeOK
<1>3. /\ \A q \in Procs : conn'[q] = conn[q] \/ (q = Peer(e) /\ conn'[q] \in {"closed", "reset"})
                          \/ (q \in Range(backlog[e]) /\ conn'[q] \in {"closed", "reset"})
      /\ fdTable' \in [Fds -> Procs \union {None}]
      /\ \A f \in Fds : fdTable'[f] # None => fdTable'[f] = fdTable[f]
      /\ connfd' \in [Envs -> Fds \union {None}]
      /\ \A d \in Envs : d # e => connfd'[d] = connfd[d]
  BY <1>1 DEF Hangup, CloseDescriptor, TypeOK
<1>4. TypeOK'
  <2>1. toMt' \in [Procs -> Seq(Message)]
    BY <1>1, SendKillType
  <2>2. /\ conn' \in [Procs -> {"none", "queued", "open", "closed", "reset"}]
        /\ toPy' \in [Procs -> Seq(Observations)]
    BY <1>1, HangupType
  <2>3. py' \in [Envs -> PyPC] /\ backlog' \in [Envs -> Seq(Procs)]
        /\ sock' \in [Envs -> {"bound", "listening", "closed"}]
    BY DEF CallClose, Goto, TypeOK, PyPC
  <2>4. QED
    BY <1>3, <2>1, <2>2, <2>3 DEF CallClose, Message, Observations, TypeOK, mtVars
<1>5. Processes'
  BY <1>1, <1>2, <1>3 DEF CallClose, mtVars, Processes
<1>6. Queues'
  <2>1. ASSUME NEW d \in Envs, d # e, NEW i \in 1 .. Len(backlog[d])
        PROVE  conn'[backlog[d][i]] = "queued"
    <3>1. backlog[d][i] \in Procs /\ conn[backlog[d][i]] = "queued" /\ owner[backlog[d][i]] = d
      BY Queued
    <3>2. QED
      BY <1>1, <1>2, <1>3, <2>1, <3>1
  <2>2. /\ \A d \in Envs : d # e => backlog'[d] = backlog[d]
        /\ 1 .. Len(backlog'[e]) = {} /\ owner' = owner
    BY DEF CallClose, mtVars, TypeOK
  <2>3. QED
    BY <2>1, <2>2 DEF Queues
<1>7. Descriptors'
  <2>1. \A f \in Fds : fdTable'[f] # None => fdTable'[f] = fdTable[f] /\ fdTable[f] \in Procs
    BY <1>3 DEF TypeOK
  <2>2. \A f \in Fds : fdTable'[f] # None => conn'[fdTable'[f]] \notin {"none", "queued"}
    BY <1>3, <2>1 DEF Descriptors
  <2>3. QED
    BY <2>1, <2>2 DEF Descriptors
<1>8. Channels'
  BY <1>3 DEF CallClose, Goto, mtVars, Channels, TypeOK
<1>9. NoStrayProcess'
  BY DEF CallClose, NoStrayProcess, mtVars
<1>10. OneCall' /\ Budget'
  BY DEF CallClose, CloseDescriptor, Goto, Callable, OneCall, Budget, Busy, mtVars, TypeOK
<1>11. QED
  BY <1>4, <1>5, <1>6, <1>7, <1>8, <1>9, <1>10

LEMMA CloseNothingKeeps ==
  ASSUME IInv, NEW e \in Envs, CloseNothing(e)
  PROVE  IInv'
<1> USE EnvAssumption DEF IInv, None
<1>1. TypeOK'
  BY DEF CloseNothing, Goto, TypeOK, PyPC, mtVars, netVars, history
<1>2. Processes' /\ Queues' /\ Descriptors' /\ NoStrayProcess'
  BY DEF CloseNothing, Processes, Queues, Descriptors, NoStrayProcess, mtVars, netVars,
         history
<1>3. OneCall' /\ Budget' /\ Channels'
  BY DEF CloseNothing, Goto, Callable, OneCall, Budget, Channels, Busy, mtVars, netVars,
         history, TypeOK
<1>4. QED
  BY <1>1, <1>2, <1>3

LEMMA WaitCloseKeeps ==
  ASSUME IInv, NEW e \in Envs, WaitClose(e)
  PROVE  IInv'
<1> USE EnvAssumption DEF IInv, None
<1>1. /\ StartProcess(e) /\ started + 1 <= MaxProcs
      /\ proc[e] # None => mt[proc[e]] = "gone" \/ e \in timedOut
  BY DEF WaitClose, Budget, OneCall
<1>2. /\ started' = started + 1 /\ started' \in Procs /\ started' \in 0 .. MaxProcs
      /\ owner' \in [1 .. started' -> Envs]
      /\ mt' \in [Procs -> {"none", "starting", "running", "waiting", "gone", "hung"}]
      /\ \A p \in Procs : p # started' => mt'[p] = mt[p]
      /\ proc' \in [Envs -> Procs \union {None}]
      /\ \A d \in Envs : d # e => proc'[d] = proc[d]
      /\ initLeft' \in [Envs -> 0 .. InitFrames] /\ initLeft'[e] = InitFrames
      /\ \A d \in Envs : d # e => initLeft'[d] = initLeft[d]
  BY <1>1, StartProcessFacts
<1>3. Processes' /\ Queues' /\ NoStrayProcess'
  BY <1>1, StartProcessKeeps DEF WaitClose, netVars, history
<1>4. TypeOK'
  <2>1. py' \in [Envs -> PyPC]
    BY DEF WaitClose, Goto, TypeOK, PyPC
  <2>2. QED
    BY <1>2, <2>1 DEF WaitClose, TypeOK, netVars, history
<1>5. Budget'
  <2>1. \A d \in Envs : d # e => py'[d] = py[d] /\ py[d] \in {"idle", "closed"}
    BY DEF WaitClose, Goto, TypeOK, Budget, OneCall, Busy
  <2>2. py'[e] = "started" /\ sends' + initLeft'[e] <= MaxSends
    BY <1>2 DEF WaitClose, Goto, TypeOK, Budget, OneCall, netVars, history
  <2>3. QED
    BY <2>1, <2>2 DEF Budget
<1>6. Channels'
  <2> SUFFICES ASSUME NEW d \in Envs, d # e
               PROVE  proc'[d] = proc[d] /\ (proc[d] # None => mt'[proc[d]] = mt[proc[d]])
    BY DEF WaitClose, Goto, Channels, TypeOK, netVars, history
  <2>1. proc[d] # None => proc[d] \in Procs /\ proc[d] <= started /\ started \in Nat
    BY DEF Processes, TypeOK, Procs
  <2>2. proc[d] # None => proc[d] # started'
    BY <1>2, <2>1
  <2>3. QED
    BY <1>2, <2>1, <2>2
<1>7. Descriptors'
  BY DEF WaitClose, Descriptors, netVars, history
<1>8. OneCall'
  BY DEF WaitClose, Goto, OneCall, Busy, netVars, history, TypeOK
<1>9. QED
  BY <1>3, <1>4, <1>5, <1>6, <1>7, <1>8

LEMMA ListenKeeps ==
  ASSUME IInv, NEW e \in Envs, Listen(e)
  PROVE  IInv'
<1> USE EnvAssumption DEF IInv, None
<1>1. TypeOK'
  BY DEF Listen, Goto, TypeOK, PyPC, mtVars, netVars, history
<1>2. Processes' /\ Queues' /\ Descriptors' /\ NoStrayProcess'
  BY DEF Listen, Processes, Queues, Descriptors, NoStrayProcess, mtVars, netVars, history
<1>3. OneCall' /\ Budget' /\ Channels'
  BY DEF Listen, Goto, OneCall, Budget, Channels, Busy, mtVars, netVars, history, TypeOK
<1>4. QED
  BY <1>1, <1>2, <1>3

LEMMA AcceptKeeps ==
  ASSUME IInv, NEW e \in Envs, Accept(e)
  PROVE  IInv'
<1> USE EnvAssumption DEF IInv, None
<1> DEFINE p == Head(backlog[e])
<1>1. /\ backlog[e] \in Seq(Procs) /\ backlog[e] # <<>> /\ 1 \in 1 .. Len(backlog[e])
      /\ p = backlog[e][1]
  BY DEF Accept, TypeOK
<1>2. p \in Procs /\ conn[p] = "queued" /\ owner[p] = e
  BY <1>1 DEF Queues
<1>3. LowestFree \in Fds /\ fdTable[LowestFree] = None
  BY <1>2, LowestFreeExists
<1>4. /\ py[e] = "accept" /\ py' = [py EXCEPT ![e] = IF initLeft[e] = 0 THEN "reset" ELSE "init"]
      /\ backlog' = [backlog EXCEPT ![e] = Tail(@)]
      /\ conn' = [conn EXCEPT ![p] = "open"]
      /\ connfd' = [connfd EXCEPT ![e] = LowestFree]
      /\ fdTable' = [fdTable EXCEPT ![LowestFree] = p]
      /\ UNCHANGED <<soft, initLeft, sock, proc, mtVars, toPy, toMt, crashes, history>>
  BY DEF Accept, Goto
<1> HIDE DEF p
<1>5. TypeOK'
  <2>1. Tail(backlog[e]) \in Seq(Procs)
    BY <1>1
  <2>2. py' \in [Envs -> PyPC]
    BY <1>4 DEF TypeOK, PyPC
  <2>3. QED
    BY <1>2, <1>3, <1>4, <2>1, <2>2 DEF TypeOK, mtVars, history
<1>6. Processes'
  BY <1>2, <1>4 DEF Processes, mtVars, TypeOK
<1>7. OneCall'
  BY <1>4 DEF OneCall, Busy, TypeOK
<1>8. Budget'
  <2>1. initLeft[e] # 0 => initLeft[e] > 0
    BY DEF TypeOK
  <2>2. QED
    BY <1>4, <2>1 DEF Budget, TypeOK, mtVars, history
<1>9. Queues'
  <2>1. ASSUME NEW d \in Envs, d # e, NEW i \in 1 .. Len(backlog[d])
        PROVE  conn'[backlog[d][i]] = "queued"
    <3>1. backlog[d][i] \in Procs /\ conn[backlog[d][i]] = "queued" /\ owner[backlog[d][i]] = d
      BY <2>1, Queued
    <3>2. QED
      BY <1>2, <1>4, <2>1, <3>1 DEF TypeOK
  <2>2. /\ Len(Tail(backlog[e])) = Len(backlog[e]) - 1
        /\ \A i \in 1 .. Len(Tail(backlog[e])) : Tail(backlog[e])[i] = backlog[e][i + 1]
    BY <1>1, HeadTailProperties
  <2>3. ASSUME NEW i \in 1 .. Len(Tail(backlog[e]))
        PROVE  /\ i + 1 \in 1 .. Len(backlog[e]) /\ Tail(backlog[e])[i] = backlog[e][i + 1]
               /\ conn'[backlog[e][i + 1]] = "queued" /\ owner[backlog[e][i + 1]] = e
    <3>1. Len(backlog[e]) \in Nat /\ i + 1 \in 1 .. Len(backlog[e]) /\ i + 1 # 1
      BY <1>1, <2>2
    <3>2. backlog[e][i + 1] \in Procs /\ conn[backlog[e][i + 1]] = "queued"
          /\ owner[backlog[e][i + 1]] = e /\ backlog[e][i + 1] # backlog[e][1]
      BY <1>1, <3>1 DEF Queues
    <3>3. QED
      BY <1>1, <1>4, <2>2, <3>1, <3>2 DEF TypeOK
  <2>4. \A i, j \in 1 .. Len(Tail(backlog[e])) : Tail(backlog[e])[i] = Tail(backlog[e])[j] => i = j
    <3> SUFFICES ASSUME NEW i \in 1 .. Len(Tail(backlog[e])), NEW j \in 1 .. Len(Tail(backlog[e])),
                        Tail(backlog[e])[i] = Tail(backlog[e])[j]
                 PROVE  i = j
      OBVIOUS
    <3>1. backlog[e][i + 1] = backlog[e][j + 1]
          /\ i + 1 \in 1 .. Len(backlog[e]) /\ j + 1 \in 1 .. Len(backlog[e])
      BY <2>3
    <3>2. i + 1 = j + 1
      BY <3>1 DEF Queues
    <3>3. QED
      BY <3>2
  <2>5. backlog'[e] = Tail(backlog[e]) /\ \A d \in Envs : d # e => backlog'[d] = backlog[d]
    BY <1>4 DEF TypeOK
  <2>6. owner' = owner
    BY <1>4 DEF mtVars
  <2>7. ASSUME NEW d \in Envs, d # e
        PROVE  /\ \A i \in 1 .. Len(backlog'[d]) :
                    conn'[backlog'[d][i]] = "queued" /\ owner'[backlog'[d][i]] = d
               /\ \A i, j \in 1 .. Len(backlog'[d]) : backlog'[d][i] = backlog'[d][j] => i = j
    BY <2>1, <2>5, <2>6, <2>7 DEF Queues
  <2>8. /\ \A i \in 1 .. Len(backlog'[e]) :
             conn'[backlog'[e][i]] = "queued" /\ owner'[backlog'[e][i]] = e
        /\ \A i, j \in 1 .. Len(backlog'[e]) : backlog'[e][i] = backlog'[e][j] => i = j
    <3>1. \A i \in 1 .. Len(Tail(backlog[e])) :
            conn'[Tail(backlog[e])[i]] = "queued" /\ owner'[Tail(backlog[e])[i]] = e
      BY <2>3, <2>6
    <3>2. QED
      BY <2>4, <2>5, <3>1, Zenon
  <2>9. QED
    BY <2>7, <2>8 DEF Queues
<1>10. Descriptors'
  BY <1>2, <1>3, <1>4 DEF Descriptors, TypeOK
<1>11. Channels'
  <2>1. LowestFree # None
    BY <1>3 DEF Fds
  <2>2. QED
    BY <1>4, <2>1 DEF Channels, TypeOK, mtVars, history
<1>12. NoStrayProcess'
  BY <1>4 DEF NoStrayProcess, mtVars, history
<1>13. QED
  BY <1>5, <1>6, <1>7, <1>8, <1>9, <1>10, <1>11, <1>12

LEMMA ListenTimeoutKeeps ==
  ASSUME IInv, NEW e \in Envs, ListenTimeout(e)
  PROVE  IInv'
<1> USE EnvAssumption DEF IInv, None
<1>1. TypeOK'
  BY DEF ListenTimeout, Ends, Goto, TypeOK, PyPC, mtVars, netVars
<1>2. Processes' /\ Queues' /\ Descriptors' /\ NoStrayProcess'
  BY DEF ListenTimeout, Processes, Queues, Descriptors, NoStrayProcess, mtVars, netVars
<1>3. OneCall' /\ Budget' /\ Channels'
  BY DEF ListenTimeout, Ends, Goto, OneCall, Budget, Channels, Busy, mtVars, netVars, TypeOK
<1>4. QED
  BY <1>1, <1>2, <1>3

LEMMA InitFrameKeeps ==
  ASSUME IInv, NEW e \in Envs, InitFrame(e)
  PROVE  IInv'
<1> USE EnvAssumption DEF IInv, None
<1>1. SendAction(e) /\ sends + 1 <= MaxSends /\ sends' = sends + 1 /\ initLeft[e] > 0
      /\ initLeft[e] \in 0 .. InitFrames /\ sends \in Nat /\ sends + initLeft[e] <= MaxSends
  BY DEF InitFrame, SendAction, Budget, TypeOK
<1>2. TypeOK'
  <2>1. sends' \in 0 .. MaxSends /\ toMt' \in [Procs -> Seq(Message)]
    BY <1>1, SendActionType
  <2>2. toPy' \in [Procs -> Seq(Observations)]
    <3>1. Peer(e) \in Procs /\ toPy[Peer(e)] # <<>>
      BY PeerType DEF InitFrame, HasObservation
    <3>2. toPy \in [Procs -> Seq(Observations)]
      BY DEF TypeOK, Observations
    <3>3. Tail(toPy[Peer(e)]) \in Seq(Observations)
      BY <3>1, <3>2
    <3>4. QED
      BY <3>1, <3>2, <3>3 DEF InitFrame
  <2>3. py' \in [Envs -> PyPC]
    BY DEF InitFrame, Goto, TypeOK, PyPC
  <2>4. initLeft' \in [Envs -> 0 .. InitFrames]
    BY <1>1 DEF InitFrame, TypeOK
  <2>5. QED
    BY <2>1, <2>2, <2>3, <2>4 DEF InitFrame, Message, Observations, TypeOK, mtVars
<1>3. Budget'
  <2>1. \A d \in Envs : d # e => py'[d] = py[d] /\ py[d] \in {"idle", "closed"}
    BY DEF InitFrame, Goto, OneCall, Busy, TypeOK
  <2>2. py'[e] = (IF initLeft[e] = 1 THEN "reset" ELSE "init") /\ initLeft'[e] = initLeft[e] - 1
    BY DEF InitFrame, Goto, TypeOK
  <2>3. QED
    BY <1>1, <2>1, <2>2 DEF Budget
<1>4. Processes' /\ Queues' /\ Descriptors' /\ NoStrayProcess'
  BY DEF InitFrame, Processes, Queues, Descriptors, NoStrayProcess, mtVars
<1>5. OneCall' /\ Channels'
  BY DEF InitFrame, Goto, OneCall, Channels, Busy, mtVars, TypeOK
<1>6. QED
  BY <1>2, <1>3, <1>4, <1>5

LEMMA InitFrameRaisesKeeps ==
  ASSUME IInv, NEW e \in Envs, InitFrameRaises(e)
  PROVE  IInv'
<1> USE EnvAssumption DEF IInv, None
<1>1. TypeOK'
  <2>1. toPy' \in [Procs -> Seq(Observations)]
    <3>1. Peer(e) \in Procs /\ toPy[Peer(e)] # <<>>
      BY PeerType DEF InitFrameRaises, HasObservation
    <3>2. toPy \in [Procs -> Seq(Observations)]
      BY DEF TypeOK, Observations
    <3>3. Tail(toPy[Peer(e)]) \in Seq(Observations)
      BY <3>1, <3>2
    <3>4. QED
      BY <3>1, <3>2, <3>3 DEF InitFrameRaises
  <2>2. py' \in [Envs -> PyPC]
    BY DEF InitFrameRaises, Ends, Goto, TypeOK, PyPC
  <2>3. QED
    BY <2>1, <2>2 DEF InitFrameRaises, Observations, TypeOK, mtVars
<1>2. Processes' /\ Queues' /\ Descriptors' /\ NoStrayProcess'
  BY DEF InitFrameRaises, Processes, Queues, Descriptors, NoStrayProcess, mtVars
<1>3. OneCall' /\ Budget' /\ Channels'
  BY DEF InitFrameRaises, Ends, Goto, OneCall, Budget, Channels, Busy, mtVars, TypeOK
<1>4. QED
  BY <1>1, <1>2, <1>3

LEMMA ReceiveKeeps ==
  ASSUME IInv, NEW e \in Envs, Receive(e)
  PROVE  IInv'
<1> USE EnvAssumption DEF IInv, None
<1>1. TypeOK'
  <2>1. toPy' \in [Procs -> Seq(Observations)]
    <3>1. Peer(e) \in Procs /\ toPy[Peer(e)] # <<>>
      BY PeerType DEF Receive, HasObservation
    <3>2. toPy \in [Procs -> Seq(Observations)]
      BY DEF TypeOK, Observations
    <3>3. Tail(toPy[Peer(e)]) \in Seq(Observations)
      BY <3>1, <3>2
    <3>4. QED
      BY <3>1, <3>2, <3>3 DEF Receive
  <2>2. py' \in [Envs -> PyPC]
    BY DEF Receive, Ends, Goto, TypeOK, PyPC
  <2>3. QED
    BY <2>1, <2>2 DEF Receive, Observations, TypeOK, mtVars
<1>2. Processes' /\ Queues' /\ Descriptors' /\ NoStrayProcess'
  BY DEF Receive, Processes, Queues, Descriptors, NoStrayProcess, mtVars
<1>3. OneCall' /\ Budget' /\ Channels'
  BY DEF Receive, Ends, Goto, OneCall, Budget, Channels, Busy, mtVars, TypeOK
<1>4. QED
  BY <1>1, <1>2, <1>3

LEMMA ReceiveFailsKeeps ==
  ASSUME IInv, NEW e \in Envs, ReceiveFails(e)
  PROVE  IInv'
<1> USE EnvAssumption DEF IInv, None
<1>1. /\ Peer(e) # None => Peer(e) \in Procs /\ conn[Peer(e)] \notin {"none", "queued"}
      /\ UNCHANGED <<fdTable, conn>>
         \/ /\ Peer(e) # None
            /\ fdTable' = [fdTable EXCEPT ![connfd[e]] = None]
            /\ conn' = [conn EXCEPT ![Peer(e)] = "closed"]
  BY PeerAccepted DEF ReceiveFails
<1>2. TypeOK'
  BY DEF ReceiveFails, Ends, Goto, TypeOK, PyPC, mtVars
<1>3. Processes'
  <2>1. \A q \in Procs : conn[q] = "none" => conn'[q] = "none"
    BY <1>1 DEF TypeOK
  <2>2. QED
    BY <2>1 DEF ReceiveFails, Processes, mtVars
<1>4. Queues'
  <2> SUFFICES ASSUME NEW d \in Envs, NEW i \in 1 .. Len(backlog[d])
               PROVE  conn'[backlog[d][i]] = "queued"
    BY DEF ReceiveFails, mtVars, Queues
  <2>1. backlog[d][i] \in Procs /\ conn[backlog[d][i]] = "queued"
    BY Queued
  <2>2. QED
    BY <1>1, <2>1 DEF TypeOK
<1>5. Descriptors'
  <2>1. CASE UNCHANGED <<fdTable, conn>>
    BY <2>1 DEF Descriptors
  <2>2. CASE ~UNCHANGED <<fdTable, conn>>
    <3>1. \A f \in Fds : fdTable'[f] # None => fdTable'[f] = fdTable[f]
      BY <1>1, <2>2 DEF TypeOK
    <3>2. \A q \in Procs : conn'[q] = conn[q] \/ conn'[q] = "closed"
      BY <1>1, <2>2 DEF TypeOK
    <3>3. QED
      BY <3>1, <3>2 DEF Descriptors, TypeOK
  <2>3. QED
    BY <2>1, <2>2
<1>6. NoStrayProcess'
  BY DEF ReceiveFails, NoStrayProcess, mtVars
<1>7. OneCall' /\ Budget' /\ Channels'
  BY DEF ReceiveFails, Ends, Goto, Receiving, OneCall, Budget, Channels, Busy, mtVars,
         TypeOK
<1>8. QED
  BY <1>2, <1>3, <1>4, <1>5, <1>6, <1>7

LEMMA CloseWaitsKeeps ==
  ASSUME IInv, NEW e \in Envs, CloseWaits(e)
  PROVE  IInv'
<1> USE EnvAssumption DEF IInv, None
<1>1. TypeOK'
  BY DEF CloseWaits, Goto, TypeOK, PyPC, mtVars, netVars, history
<1>2. Processes' /\ Queues' /\ Descriptors' /\ NoStrayProcess'
  BY DEF CloseWaits, Processes, Queues, Descriptors, NoStrayProcess, mtVars, netVars,
         history
<1>3. OneCall' /\ Budget' /\ Channels'
  BY DEF CloseWaits, Goto, OneCall, Budget, Channels, Busy, mtVars, netVars, history, TypeOK
<1>4. QED
  BY <1>1, <1>2, <1>3

LEMMA MtConnectKeeps ==
  ASSUME IInv, NEW p \in Procs, MtConnect(p)
  PROVE  IInv'
<1> USE EnvAssumption DEF IInv, None
<1>1. PICK state \in {"running", "waiting", "gone"} : Become(p, state)
  BY DEF MtConnect
<1>2. /\ mt' \in [Procs -> {"none", "starting", "running", "waiting", "gone", "hung"}]
      /\ Processes' /\ NoStrayProcess' /\ p \in 1 .. started
  BY <1>1, BecomeKeeps DEF MtConnect, pyVars, history, TypeOK
<1>3. TypeOK'
  <2>1. owner[p] \in Envs
    BY <1>2 DEF TypeOK
  <2>2. backlog' \in [Envs -> Seq(Procs)]
    <3>1. Append(backlog[owner[p]], p) \in Seq(Procs)
      BY <2>1 DEF TypeOK
    <3>2. backlog' = backlog
          \/ backlog' = [backlog EXCEPT ![owner[p]] = Append(backlog[owner[p]], p)]
      BY DEF MtConnect
    <3>3. QED
      BY <2>1, <3>1, <3>2 DEF TypeOK
  <2>3. conn' \in [Procs -> {"none", "queued", "open", "closed", "reset"}]
    BY DEF MtConnect, TypeOK
  <2>4. QED
    BY <1>2, <2>2, <2>3 DEF MtConnect, TypeOK, pyVars, history
<1>4. Queues'
  <2>1. CASE UNCHANGED <<backlog, conn>>
    BY <2>1 DEF MtConnect, Queues
  <2>2. CASE sock[owner[p]] = "listening"
    <3> DEFINE b == backlog[owner[p]]
    <3>1. conn[p] = "none" /\ owner[p] \in Envs /\ b \in Seq(Procs)
      BY <1>2 DEF MtConnect, Processes, TypeOK
    <3>2. /\ conn' = [conn EXCEPT ![p] = "queued"] /\ owner' = owner
          /\ backlog' = [backlog EXCEPT ![owner[p]] = Append(b, p)]
      BY <2>2 DEF MtConnect
    <3>3. \A d \in Envs : \A i \in 1 .. Len(backlog[d]) :
            backlog[d][i] \in Procs /\ backlog[d][i] # p /\ conn'[backlog[d][i]] = "queued"
      <4> SUFFICES ASSUME NEW d \in Envs, NEW i \in 1 .. Len(backlog[d])
                   PROVE  /\ backlog[d][i] \in Procs /\ backlog[d][i] # p
                          /\ conn'[backlog[d][i]] = "queued"
        OBVIOUS
      <4>1. backlog[d][i] \in Procs /\ conn[backlog[d][i]] = "queued"
        BY Queued
      <4>2. QED
        BY <3>1, <3>2, <4>1 DEF TypeOK
    <3>4. \A d \in Envs : d # owner[p] => backlog'[d] = backlog[d]
      BY <3>2 DEF TypeOK
    <3>5. /\ backlog'[owner[p]] = Append(b, p) /\ Len(b) \in Nat
          /\ Len(Append(b, p)) = Len(b) + 1 /\ Append(b, p)[Len(b) + 1] = p
          /\ \A i \in 1 .. Len(b) : Append(b, p)[i] = b[i]
      <4>1. backlog'[owner[p]] = Append(b, p)
        BY <3>1, <3>2 DEF TypeOK
      <4>2. /\ Len(b) \in Nat /\ Len(Append(b, p)) = Len(b) + 1 /\ Append(b, p)[Len(b) + 1] = p
            /\ \A i \in 1 .. Len(b) : Append(b, p)[i] = b[i]
        BY <3>1, AppendProperties, LenProperties
      <4>3. QED
        BY <4>1, <4>2
    <3>6. conn'[p] = "queued"
      BY <3>2 DEF TypeOK
    <3>7. ASSUME NEW d \in Envs, d # owner[p]
          PROVE  /\ \A i \in 1 .. Len(backlog'[d]) :
                      conn'[backlog'[d][i]] = "queued" /\ owner[backlog'[d][i]] = d
                 /\ \A i, j \in 1 .. Len(backlog'[d]) :
                      backlog'[d][i] = backlog'[d][j] => i = j
      BY <3>3, <3>4, <3>7 DEF Queues
    <3>8. /\ \A i \in 1 .. Len(Append(b, p)) :
               conn'[Append(b, p)[i]] = "queued" /\ owner[Append(b, p)[i]] = owner[p]
          /\ \A i, j \in 1 .. Len(Append(b, p)) : Append(b, p)[i] = Append(b, p)[j] => i = j
      <4>1. \A i \in 1 .. Len(Append(b, p)) : i \in 1 .. Len(b) \/ i = Len(b) + 1
        BY <3>5
      <4>2. /\ \A i \in 1 .. Len(b) : conn'[b[i]] = "queued" /\ owner[b[i]] = owner[p] /\ b[i] # p
            /\ \A i, j \in 1 .. Len(b) : b[i] = b[j] => i = j
        BY <3>1, <3>3 DEF Queues
      <4> HIDE DEF b
      <4>3. QED
        BY <3>5, <3>6, <4>1, <4>2
    <3>9. QED
      BY <3>1, <3>2, <3>5, <3>7, <3>8 DEF Queues
  <2>3. QED
    BY <2>1, <2>2 DEF MtConnect
<1>5. Descriptors'
  <2>1. CASE UNCHANGED conn
    BY <2>1 DEF MtConnect, Descriptors, pyVars
  <2>2. CASE conn' = [conn EXCEPT ![p] = "queued"]
    <3>1. conn[p] = "none"
      BY DEF MtConnect, Processes
    <3>2. QED
      BY <2>2, <3>1 DEF MtConnect, Descriptors, TypeOK, pyVars
  <2>3. QED
    BY <2>1, <2>2 DEF MtConnect
<1>6. OneCall' /\ Budget' /\ Channels'
  BY DEF MtConnect, Become, OneCall, Budget, Channels, Busy, pyVars, history, TypeOK
<1>7. QED
  BY <1>2, <1>3, <1>4, <1>5, <1>6

LEMMA MtSendKeeps ==
  ASSUME IInv, NEW p \in Procs, MtSend(p)
  PROVE  IInv'
<1> USE EnvAssumption DEF IInv, None
<1>1. PICK state \in {"running", "waiting", "gone"} : Become(p, state)
  BY DEF MtSend
<1>2. /\ mt' \in [Procs -> {"none", "starting", "running", "waiting", "gone", "hung"}]
      /\ Processes' /\ NoStrayProcess' /\ p \in 1 .. started
  BY <1>1, BecomeKeeps DEF MtSend, pyVars, history, TypeOK
<1>3. TypeOK'
  <2>1. toPy' \in [Procs -> Seq(Observations)]
    <3>1. [action |-> applied[p], whole |-> TRUE] \in Observations
      BY DEF TypeOK, Observations
    <3>2. toPy \in [Procs -> Seq(Observations)]
      BY DEF TypeOK, Observations
    <3>3. Append(toPy[p], [action |-> applied[p], whole |-> TRUE]) \in Seq(Observations)
      BY <3>1, <3>2
    <3>4. QED
      BY <3>2, <3>3 DEF MtSend
  <2>2. conn' \in [Procs -> {"none", "queued", "open", "closed", "reset"}]
    BY DEF MtSend, TypeOK
  <2>3. QED
    BY <1>2, <2>1, <2>2 DEF MtSend, Observations, TypeOK, pyVars, history
<1>4. Queues'
  <2> SUFFICES ASSUME NEW d \in Envs, NEW i \in 1 .. Len(backlog[d])
               PROVE  conn'[backlog[d][i]] = "queued"
    BY DEF MtSend, Queues
  <2>1. backlog[d][i] \in Procs /\ conn[backlog[d][i]] = "queued"
    BY Queued
  <2>2. QED
    BY <2>1 DEF MtSend, TypeOK
<1>5. Descriptors'
  BY DEF MtSend, Descriptors, TypeOK, pyVars
<1>6. OneCall' /\ Budget' /\ Channels'
  BY DEF MtSend, Become, OneCall, Budget, Channels, Busy, pyVars, history, TypeOK
<1>7. QED
  BY <1>2, <1>3, <1>4, <1>5, <1>6

LEMMA MtReceiveKeeps ==
  ASSUME IInv, NEW p \in Procs, MtReceive(p)
  PROVE  IInv'
<1> USE EnvAssumption DEF IInv, None
<1>1. PICK state \in {"running", "waiting", "gone"} : Become(p, state)
  BY DEF MtReceive
<1>2. /\ mt' \in [Procs -> {"none", "starting", "running", "waiting", "gone", "hung"}]
      /\ Processes' /\ NoStrayProcess' /\ p \in 1 .. started
  BY <1>1, BecomeKeeps DEF MtReceive, pyVars, history
<1>3. TypeOK'
  <2>1. toMt \in [Procs -> Seq(Message)] /\ toMt[p] \in Seq(Message) /\ toMt[p] # <<>>
    BY DEF MtReceive, TypeOK, Message
  <2>2. Head(toMt[p]) \in Message /\ Tail(toMt[p]) \in Seq(Message)
    BY <2>1, HeadTailProperties
  <2>3. toMt' \in [Procs -> Seq(Message)]
    BY <2>1, <2>2 DEF MtReceive
  <2>4. applied' \in [Procs -> 0 .. MaxSends]
    BY <2>2 DEF MtReceive, Message, TypeOK
  <2>5. QED
    BY <1>2, <2>3, <2>4 DEF MtReceive, Message, TypeOK, pyVars, history
<1>4. Queues' /\ Descriptors'
  BY DEF MtReceive, Queues, Descriptors, pyVars, history
<1>5. OneCall' /\ Budget' /\ Channels'
  BY DEF MtReceive, Become, OneCall, Budget, Channels, Busy, pyVars, history, TypeOK
<1>6. QED
  BY <1>2, <1>3, <1>4, <1>5

LEMMA MtReceiveFailsKeeps ==
  ASSUME IInv, NEW p \in Procs, MtReceiveFails(p)
  PROVE  IInv'
<1> USE EnvAssumption DEF IInv, None
<1>1. PICK state \in {"running", "waiting", "gone"} : Become(p, state)
  BY DEF MtReceiveFails
<1>2. /\ mt' \in [Procs -> {"none", "starting", "running", "waiting", "gone", "hung"}]
      /\ Processes' /\ NoStrayProcess' /\ p \in 1 .. started
  BY <1>1, BecomeKeeps DEF MtReceiveFails, pyVars, history, netVars
<1>3. TypeOK'
  BY <1>2 DEF MtReceiveFails, TypeOK, pyVars, netVars, history
<1>4. Queues' /\ Descriptors'
  BY DEF MtReceiveFails, Queues, Descriptors, pyVars, netVars, history
<1>5. OneCall' /\ Budget' /\ Channels'
  BY DEF MtReceiveFails, Become, OneCall, Budget, Channels, Busy, pyVars, netVars, history,
         TypeOK
<1>6. QED
  BY <1>2, <1>3, <1>4, <1>5

LEMMA CrashKeeps ==
  ASSUME IInv, NEW p \in Procs, Crash(p)
  PROVE  IInv'
<1> USE EnvAssumption DEF IInv, None
<1>1. PICK state \in {"running", "waiting", "gone"} : Become(p, state)
  BY DEF Crash
<1>2. /\ mt' \in [Procs -> {"none", "starting", "running", "waiting", "gone", "hung"}]
      /\ Processes' /\ NoStrayProcess' /\ p \in 1 .. started
  BY <1>1, BecomeKeeps DEF Crash, pyVars, history
<1>3. TypeOK'
  <2>1. toPy' \in [Procs -> Seq(Observations)]
    <3>1. [action |-> 0, whole |-> FALSE] \in Observations
      BY DEF Observations
    <3>2. toPy \in [Procs -> Seq(Observations)]
      BY DEF TypeOK, Observations
    <3>3. Append(toPy[p], [action |-> 0, whole |-> FALSE]) \in Seq(Observations)
      BY <3>1, <3>2
    <3>4. QED
      BY <3>2, <3>3 DEF Crash
  <2>2. toMt' \in [Procs -> Seq(Message)]
    <3>1. toMt \in [Procs -> Seq(Message)] /\ <<>> \in Seq(Message)
      BY EmptySeq DEF TypeOK, Message
    <3>2. QED
      BY <3>1 DEF Crash
  <2>3. crashes' \in 0 .. MaxCrashes
    BY DEF Crash, TypeOK
  <2>4. QED
    BY <1>2, <2>1, <2>2, <2>3 DEF Crash, Message, Observations, TypeOK, pyVars, history
<1>4. Queues' /\ Descriptors'
  BY DEF Crash, Queues, Descriptors, pyVars, history
<1>5. OneCall' /\ Budget' /\ Channels'
  BY DEF Crash, Become, OneCall, Budget, Channels, Busy, pyVars, history, TypeOK
<1>6. QED
  BY <1>2, <1>3, <1>4, <1>5

LEMMA HangKeeps ==
  ASSUME IInv, NEW p \in Procs, Hang(p)
  PROVE  IInv'
<1> USE EnvAssumption DEF IInv, None
<1>1. Become(p, "hung") /\ crashes' \in 0 .. MaxCrashes
  BY DEF Hang, TypeOK
<1>2. /\ mt' \in [Procs -> {"none", "starting", "running", "waiting", "gone", "hung"}]
      /\ Processes' /\ NoStrayProcess' /\ p \in 1 .. started
  BY <1>1, BecomeKeeps DEF Hang, pyVars, netVars, history
<1>3. TypeOK'
  BY <1>1, <1>2 DEF Hang, TypeOK, pyVars, netVars, history
<1>4. Queues' /\ Descriptors'
  BY DEF Hang, Queues, Descriptors, pyVars, netVars, history
<1>5. OneCall' /\ Budget' /\ Channels'
  BY DEF Hang, Become, OneCall, Budget, Channels, Busy, pyVars, netVars, history, TypeOK
<1>6. QED
  BY <1>2, <1>3, <1>4, <1>5

-----------------------------------------------------------------------------
LEMMA InitIInv == Init => IInv
<1> SUFFICES ASSUME Init PROVE IInv
  OBVIOUS
<1> USE EnvAssumption DEF None
<1>1. TypeOK
  <2>1. <<>> \in [1 .. 0 -> Envs]
    OBVIOUS
  <2>2. QED
    BY <2>1 DEF Init, TypeOK, PyPC
<1>2. Processes /\ OneCall /\ Budget
  BY DEF Init, Processes, OneCall, Busy, Budget, Procs
<1>3. Queues /\ Descriptors /\ Channels /\ NoStrayProcess
  BY DEF Init, Queues, Descriptors, Channels, NoStrayProcess
<1>4. QED
  BY <1>1, <1>2, <1>3 DEF IInv

LEMMA CallsKeep ==
  ASSUME IInv, NEW e \in Envs, Calls(e)
  PROVE  IInv'
<1>1. QED
  BY CallStepKeeps, CallSoftResetKeeps, CallFirstResetKeeps, CallHardResetKeeps,
     CallRaisesKeeps, CallCloseKeeps, CloseNothingKeeps DEF Calls

LEMMA ProgressKeeps ==
  ASSUME IInv, NEW e \in Envs, Progress(e)
  PROVE  IInv'
<1>1. QED
  BY WaitCloseKeeps, ListenKeeps, AcceptKeeps, ListenTimeoutKeeps, InitFrameKeeps,
     InitFrameRaisesKeeps, ReceiveKeeps, ReceiveFailsKeeps, CloseWaitsKeeps DEF Progress

LEMMA MtKeeps ==
  ASSUME IInv, NEW p \in Procs, MtNext(p) \/ Crash(p) \/ Hang(p)
  PROVE  IInv'
<1>1. QED
  BY MtConnectKeeps, MtSendKeeps, MtReceiveKeeps, MtReceiveFailsKeeps, CrashKeeps,
     HangKeeps DEF MtNext

LEMMA StutterKeeps ==
  ASSUME IInv, UNCHANGED vars
  PROVE  IInv'
<1> USE DEF vars, pyVars, mtVars, netVars, history
<1>1. TypeOK'
  BY DEF IInv, TypeOK
<1>2. Processes' /\ OneCall' /\ Budget'
  BY DEF IInv, Processes, OneCall, Busy, Budget
<1>3. Queues' /\ Descriptors' /\ Channels' /\ NoStrayProcess'
  BY DEF IInv, Queues, Descriptors, Channels, NoStrayProcess
<1>4. QED
  BY <1>1, <1>2, <1>3 DEF IInv

LEMMA NextKeeps == IInv /\ [Next]_vars => IInv'
<1> SUFFICES ASSUME IInv, [Next]_vars PROVE IInv'
  OBVIOUS
<1>1. CASE \E e \in Envs : Calls(e) \/ Progress(e)
  BY <1>1, CallsKeep, ProgressKeeps
<1>2. CASE \E p \in Procs : MtNext(p) \/ Crash(p) \/ Hang(p)
  BY <1>2, MtKeeps
<1>3. CASE UNCHANGED vars
  BY <1>3, StutterKeeps
<1>4. QED
  BY <1>1, <1>2, <1>3 DEF Next

(* Whatever is called, in whatever environment, and wherever a process     *)
(* dies: the descriptors, queues and counters of mt_channel.py, mt_server.c*)
(* and craftium_env.py keep their types; a connection that is accepted     *)
(* finds a descriptor.                                                     *)
THEOREM TypeCorrect == Spec => []TypeOK
<1>1. IInv => TypeOK
  BY DEF IInv
<1>2. QED
  BY <1>1, InitIInv, NextKeeps, PTL DEF Spec

(* reset and close leave no process of the environment alive but the one   *)
(* it holds (Minetest.wait_close), unless an open_conn timed out.          *)
THEOREM NoProcessStrays == Spec => []NoStrayProcess
<1>1. IInv => NoStrayProcess
  BY DEF IInv
<1>2. QED
  BY <1>1, InitIInv, NextKeeps, PTL DEF Spec
-----------------------------------------------------------------------------
(* Between two calls a process waits for the next action, or is gone.      *)
AtRest(p) ==
  \/ mt[p] = "gone"
  \/ mt[p] = "waiting" /\ toPy[p] = <<>> /\ toMt[p] = <<>>

(* The messages of process p, and what they allow it to be doing.          *)
TrafficOf(p) ==
  /\ Len(toPy[p]) \in {0, 1} /\ Len(toMt[p]) \in {0, 1}
  /\ toPy[p] = <<>> \/ toMt[p] = <<>>
  /\ mt[p] = "running" => toPy[p] = <<>> /\ toMt[p] = <<>>
  /\ mt[p] = "hung" => toPy[p] = <<>>
  /\ conn[p] = "none" => mt[p] \notin {"running", "waiting"} /\ toPy[p] = <<>> /\ toMt[p] = <<>>
  /\ mt[p] = "gone" => toMt[p] = <<>>
  /\ conn[p] = "queued" => toMt[p] = <<>> /\ (mt[p] = "waiting" => toPy[p] # <<>>)
  /\ conn[p] \in {"closed", "reset"} => toPy[p] = <<>>
  /\ conn[p] = "open" /\ (\A e \in Envs : Busy(e) => Peer(e) # p) => AtRest(p)

(* While Python receives it is somebody's turn.                            *)
TalkOf(e) ==
  /\ connfd[e] # None => py[e] \in {"idle", "init", "reset", "softReset", "step"}
  /\ Peer(e) # None => conn[Peer(e)] = "open"
  /\ Peer(e) # None /\ Receiving(e) /\ mt[Peer(e)] = "waiting" =>
       toPy[Peer(e)] # <<>> \/ toMt[Peer(e)] # <<>>

Turns ==
  /\ IInv
  /\ \A p \in Procs : TrafficOf(p)
  /\ \A e \in Envs : TalkOf(e)

LEMMA Lengths ==
  ASSUME TypeOK, NEW p \in Procs
  PROVE  /\ toPy[p] \in Seq(Observations) /\ toMt[p] \in Seq(Message)
         /\ Len(toPy[p]) \in Nat /\ (Len(toPy[p]) = 0 <=> toPy[p] = <<>>)
         /\ Len(toMt[p]) \in Nat /\ (Len(toMt[p]) = 0 <=> toMt[p] = <<>>)
<1>1. toPy[p] \in Seq(Observations) /\ toMt[p] \in Seq(Message)
  BY DEF TypeOK, Observations, Message
<1>2. QED
  BY <1>1, EmptySeq, LenProperties

LEMMA AtMostOne ==
  ASSUME TypeOK, NEW p \in Procs, TrafficOf(p)
  PROVE  Len(toPy[p]) + Len(toMt[p]) + (IF mt[p] = "running" THEN 1 ELSE 0) <= 1
<1> DEFINE toPython == Len(toPy[p])
           toMinetest == Len(toMt[p])
<1>1. toPython \in {0, 1} /\ toMinetest \in {0, 1}
  BY DEF TrafficOf
<1>2. toPython = 0 \/ toMinetest = 0
  BY Lengths DEF TrafficOf
<1>3. mt[p] = "running" => toPython = 0 /\ toMinetest = 0
  BY Lengths DEF TrafficOf
<1> HIDE DEF toPython, toMinetest
<1>4. toPython + toMinetest + (IF mt[p] = "running" THEN 1 ELSE 0) <= 1
  BY <1>1, <1>2, <1>3
<1>5. QED
  BY <1>4 DEF toPython, toMinetest

LEMMA OneEach ==
  ASSUME NEW S, NEW s \in Seq(S), NEW x \in S
  PROVE  /\ s = <<>> => Len(Append(s, x)) = 1 /\ Append(s, x) # <<>>
         /\ Len(s) = 1 => Len(Tail(s)) = 0 /\ Tail(s) = <<>>
<1>1. s = <<>> => Len(Append(s, x)) = 1 /\ Append(s, x) # <<>>
  BY AppendProperties, EmptySeq
<1>2. Len(s) = 1 => Len(Tail(s)) = 0 /\ Tail(s) = <<>>
  <2> SUFFICES ASSUME Len(s) = 1 PROVE Len(Tail(s)) = 0 /\ Tail(s) = <<>>
    OBVIOUS
  <2>1. s # <<>>
    BY EmptySeq
  <2>2. Tail(s) \in Seq(S) /\ Len(Tail(s)) = 0
    BY <2>1, HeadTailProperties
  <2>3. QED
    BY <2>2, EmptySeq
<1>3. QED
  BY <1>1, <1>2

(* There is one call at a time, so nobody disturbs the other processes.    *)
LEMMA ActsAlone ==
  ASSUME Turns, NEW e \in Envs, Busy(e) \/ Callable(e)
  PROVE  /\ \A d \in Envs : d # e => ~Busy(d)
         /\ \A q \in Procs : conn[q] = "open" /\ q # Peer(e) => AtRest(q)
         /\ Callable(e) => \A q \in Procs : conn[q] = "open" => AtRest(q)
<1>1. \A d \in Envs : d # e => ~Busy(d)
  BY DEF Turns, IInv, OneCall, Callable, Busy
<1>2. \A q \in Procs : conn[q] = "open" /\ q # Peer(e) => AtRest(q)
  BY <1>1 DEF Turns, TrafficOf
<1>3. Callable(e) => \A q \in Procs : conn[q] = "open" => AtRest(q)
  BY DEF Turns, TrafficOf, Callable, Busy
<1>4. QED
  BY <1>1, <1>2, <1>3

(* A process whose state and messages stay as they are.                    *)
LEMMA Untouched ==
  ASSUME NEW p, TrafficOf(p), conn[p] = "open" => AtRest(p),
         UNCHANGED <<toPy[p], toMt[p], mt[p], conn[p]>>
  PROVE  TrafficOf(p)'
<1>1. QED
  BY DEF TrafficOf, AtRest

(* The same when it is a process that acts, and no environment.            *)
LEMMA UntouchedByProcess ==
  ASSUME NEW p, TrafficOf(p), UNCHANGED <<toPy[p], toMt[p], mt[p], conn[p], py, connfd, fdTable>>
  PROVE  TrafficOf(p)'
<1>1. QED
  BY DEF TrafficOf, AtRest, Busy, Peer

(* An environment that is in no call, and keeps its descriptor.            *)
LEMMA OthersTalk ==
  ASSUME Turns, NEW d \in Envs, ~Busy(d), UNCHANGED <<py[d], connfd[d]>>,
         Peer(d)' # None => conn'[Peer(d)'] = "open"
  PROVE  TalkOf(d)'
<1>1. QED
  BY DEF Turns, TalkOf, Busy, Receiving

(* A call that is idle, with a process to talk to, may send.               *)
LEMMA IdleSends ==
  ASSUME Turns, NEW e \in Envs, CanSend(e), Callable(e),
         NEW message \in Message, Deliver(Peer(e), message)
  PROVE  /\ Peer(e) \in Procs /\ connfd[e] # None
         /\ toPy[Peer(e)] = <<>> \/ mt[Peer(e)] = "gone"
         /\ mt[Peer(e)] \in {"gone", "waiting"}
         /\ mt[Peer(e)] = "gone" => toMt'[Peer(e)] = <<>>
         /\ mt[Peer(e)] # "gone" => toMt'[Peer(e)] # <<>> /\ Len(toMt'[Peer(e)]) = 1
         /\ \A q \in Procs : q # Peer(e) => toMt'[q] = toMt[q]
<1> DEFINE p == Peer(e)
<1>1. p \in Procs /\ connfd[e] # None
  BY PeerType DEF Turns, IInv, CanSend, Peer
<1>2. mt[p] = "gone" \/ (mt[p] = "waiting" /\ toPy[p] = <<>> /\ toMt[p] = <<>>)
  <2>1. conn[p] = "open"
    BY DEF Turns, TalkOf, CanSend
  <2>2. QED
    BY <1>1, <2>1, ActsAlone DEF AtRest
<1>3. mt[p] = "gone" => toMt[p] = <<>>
  BY <1>1 DEF Turns, TrafficOf
<1>4. Len(Append(<<>>, message)) = 1 /\ Append(<<>>, message) # <<>> /\ <<>> \in Seq(Message)
  BY OneEach, EmptySeq
<1>5. toMt \in [Procs -> Seq(Message)]
  BY DEF Turns, IInv, TypeOK, Message
<1>6. toMt' = IF mt[p] = "gone" THEN toMt ELSE [toMt EXCEPT ![p] = Append(toMt[p], message)]
  BY DEF Deliver
<1> HIDE DEF p
<1>7. /\ mt[p] = "gone" => toMt'[p] = <<>>
      /\ mt[p] # "gone" => toMt'[p] # <<>> /\ Len(toMt'[p]) = 1
      /\ \A q \in Procs : q # p => toMt'[q] = toMt[q]
  BY <1>1, <1>2, <1>3, <1>4, <1>5, <1>6
<1>8. QED
  BY <1>1, <1>2, <1>7 DEF p

LEMMA CallStepTurns ==
  ASSUME Turns, NEW e \in Envs, CallStep(e)
  PROVE  (\A q \in Procs : TrafficOf(q)') /\ (\A d \in Envs : TalkOf(d)')
<1>1. PICK p \in Procs : p = Peer(e)
  BY PeerType DEF CallStep, SendAction, CanSend, Turns, IInv
<1> USE <1>1
<1>2. CanSend(e) /\ Callable(e) /\ Deliver(p, [action |-> sends', kill |-> FALSE])
  BY DEF CallStep, SendAction
<1>3. /\ \A d \in Envs : d # e => ~Busy(d) /\ py'[d] = py[d]
      /\ \A q \in Procs : conn[q] = "open" /\ q # p => AtRest(q)
  BY <1>2, ActsAlone DEF CallStep, Goto, Turns, IInv, TypeOK
<1>4. [action |-> sends', kill |-> FALSE] \in Message
  BY EnvAssumption DEF CallStep, WithinBounds, SendAction, Message, Turns, IInv, TypeOK
<1>5. /\ p \in Procs /\ connfd[e] # None
      /\ toPy[p] = <<>> \/ mt[p] = "gone"
      /\ mt[p] \in {"gone", "waiting"}
      /\ mt[p] = "gone" => toMt'[p] = <<>>
      /\ mt[p] # "gone" => toMt'[p] # <<>> /\ Len(toMt'[p]) = 1
      /\ \A q \in Procs : q # p => toMt'[q] = toMt[q]
  BY <1>2, <1>4, IdleSends
<1>6. UNCHANGED <<toPy, mt, conn, connfd, fdTable>> /\ py'[e] \in {"step", "softReset"}
  BY DEF CallStep, Goto, mtVars, Turns, IInv, TypeOK
<1>7. conn[p] = "open"
  BY <1>2 DEF Turns, TalkOf, CanSend
<1>8. \A q \in Procs : q # p => TrafficOf(q)'
  BY <1>3, <1>5, <1>6, Untouched DEF Turns
<1>9. TrafficOf(p)'
  <2>1. TrafficOf(p) /\ Busy(e)' /\ Peer(e)' = p
    BY <1>6 DEF Turns, Busy, Peer
  <2>2. Len(<<>>) = 0
    BY EmptySeq
  <2>3. QED
    BY <1>5, <1>6, <1>7, <2>1, <2>2 DEF TrafficOf
<1>10. Peer(e)' = p /\ TalkOf(e)'
  <2>1. Peer(e)' = p
    BY <1>6 DEF Peer
  <2>2. QED
    BY <1>2, <1>5, <1>6, <1>7, <2>1 DEF TalkOf, CanSend
<1>11. ASSUME NEW d \in Envs, d # e PROVE TalkOf(d)'
  BY <1>3, <1>6, <1>11, OthersTalk DEF Turns, TalkOf, Peer
<1>12. QED
  BY <1>8, <1>9, <1>10, <1>11

LEMMA CallSoftResetTurns ==
  ASSUME Turns, NEW e \in Envs, CallSoftReset(e)
  PROVE  (\A q \in Procs : TrafficOf(q)') /\ (\A d \in Envs : TalkOf(d)')
<1>1. PICK p \in Procs : p = Peer(e)
  BY PeerType DEF CallSoftReset, SendAction, CanSend, Turns, IInv
<1> USE <1>1
<1>2. CanSend(e) /\ Callable(e) /\ Deliver(p, [action |-> sends', kill |-> FALSE])
  BY DEF CallSoftReset, SendAction
<1>3. /\ \A d \in Envs : d # e => ~Busy(d) /\ py'[d] = py[d]
      /\ \A q \in Procs : conn[q] = "open" /\ q # p => AtRest(q)
  BY <1>2, ActsAlone DEF CallSoftReset, Goto, Turns, IInv, TypeOK
<1>4. [action |-> sends', kill |-> FALSE] \in Message
  BY EnvAssumption DEF CallSoftReset, WithinBounds, SendAction, Message, Turns, IInv, TypeOK
<1>5. /\ p \in Procs /\ connfd[e] # None
      /\ toPy[p] = <<>> \/ mt[p] = "gone"
      /\ mt[p] \in {"gone", "waiting"}
      /\ mt[p] = "gone" => toMt'[p] = <<>>
      /\ mt[p] # "gone" => toMt'[p] # <<>> /\ Len(toMt'[p]) = 1
      /\ \A q \in Procs : q # p => toMt'[q] = toMt[q]
  BY <1>2, <1>4, IdleSends
<1>6. UNCHANGED <<toPy, mt, conn, connfd, fdTable>> /\ py'[e] \in {"step", "softReset"}
  BY DEF CallSoftReset, Goto, mtVars, Turns, IInv, TypeOK
<1>7. conn[p] = "open"
  BY <1>2 DEF Turns, TalkOf, CanSend
<1>8. \A q \in Procs : q # p => TrafficOf(q)'
  BY <1>3, <1>5, <1>6, Untouched DEF Turns
<1>9. TrafficOf(p)'
  <2>1. TrafficOf(p) /\ Busy(e)' /\ Peer(e)' = p
    BY <1>6 DEF Turns, Busy, Peer
  <2>2. Len(<<>>) = 0
    BY EmptySeq
  <2>3. QED
    BY <1>5, <1>6, <1>7, <2>1, <2>2 DEF TrafficOf
<1>10. Peer(e)' = p /\ TalkOf(e)'
  <2>1. Peer(e)' = p
    BY <1>6 DEF Peer
  <2>2. QED
    BY <1>2, <1>5, <1>6, <1>7, <2>1 DEF TalkOf, CanSend
<1>11. ASSUME NEW d \in Envs, d # e PROVE TalkOf(d)'
  BY <1>3, <1>6, <1>11, OthersTalk DEF Turns, TalkOf, Peer
<1>12. QED
  BY <1>8, <1>9, <1>10, <1>11

LEMMA CallFirstResetTurns ==
  ASSUME Turns, NEW e \in Envs, CallFirstReset(e)
  PROVE  (\A q \in Procs : TrafficOf(q)') /\ (\A d \in Envs : TalkOf(d)')
<1>1. StartProcess(e) /\ started + 1 <= MaxProcs
  BY DEF CallFirstReset, WithinBounds, Turns, IInv
<1>2. PICK n \in Procs : /\ n = started + 1 /\ mt'[n] = "starting"
                          /\ \A q \in Procs : q # n => mt'[q] = mt[q]
  BY <1>1, StartProcessFacts DEF Turns, IInv
<1>3. UNCHANGED <<toPy, toMt, conn, connfd, fdTable>> /\ py'[e] = "started" /\ connfd[e] = None
  BY DEF CallFirstReset, Goto, netVars, Turns, IInv, TypeOK, TalkOf
<1>4. /\ \A d \in Envs : d # e => ~Busy(d) /\ py'[d] = py[d]
      /\ \A q \in Procs : conn[q] = "open" => AtRest(q)
  <2>1. Peer(e) = None /\ (Busy(e) \/ Callable(e))
    BY <1>3 DEF Peer, CallFirstReset, Busy
  <2>2. /\ \A d \in Envs : d # e => ~Busy(d)
        /\ \A q \in Procs : conn[q] = "open" => AtRest(q)
    BY <2>1, ActsAlone DEF Procs, None
  <2>3. QED
    BY <2>2 DEF CallFirstReset, Goto, Turns, IInv, TypeOK
<1>5. \A q \in Procs : q # n => TrafficOf(q)'
  BY <1>4, <1>2, <1>3, Untouched DEF Turns
<1>6. TrafficOf(n)'
  <2>1. conn[n] = "none"
    BY <1>2 DEF Turns, IInv, Processes, TypeOK
  <2>2. toPy[n] = <<>> /\ toMt[n] = <<>>
    BY <1>2, <2>1 DEF Turns, TrafficOf
  <2>3. Len(<<>>) = 0
    BY EmptySeq
  <2>4. mt'[n] = "starting" /\ conn'[n] = "none" /\ toPy'[n] = <<>> /\ toMt'[n] = <<>>
    BY <1>2, <1>3, <2>1, <2>2
  <2>5. QED
    BY <2>3, <2>4 DEF TrafficOf
<1>7. TalkOf(e)'
  BY <1>3 DEF TalkOf, Peer
<1>8. ASSUME NEW d \in Envs, d # e PROVE TalkOf(d)'
  BY <1>4, <1>3, <1>8, OthersTalk DEF Turns, TalkOf, Peer
<1>9. QED
  BY <1>5, <1>6, <1>7, <1>8

LEMMA WaitCloseTurns ==
  ASSUME Turns, NEW e \in Envs, WaitClose(e)
  PROVE  (\A q \in Procs : TrafficOf(q)') /\ (\A d \in Envs : TalkOf(d)')
<1>1. StartProcess(e) /\ started + 1 <= MaxProcs
  BY DEF WaitClose, Budget, Turns, IInv
<1>2. PICK n \in Procs : /\ n = started + 1 /\ mt'[n] = "starting"
                          /\ \A q \in Procs : q # n => mt'[q] = mt[q]
  BY <1>1, StartProcessFacts DEF Turns, IInv
<1>3. UNCHANGED <<toPy, toMt, conn, connfd, fdTable>> /\ py'[e] = "started" /\ connfd[e] = None
  BY DEF WaitClose, Goto, netVars, Turns, IInv, TypeOK, TalkOf
<1>4. /\ \A d \in Envs : d # e => ~Busy(d) /\ py'[d] = py[d]
      /\ \A q \in Procs : conn[q] = "open" => AtRest(q)
  <2>1. Peer(e) = None /\ (Busy(e) \/ Callable(e))
    BY <1>3 DEF Peer, WaitClose, Busy
  <2>2. /\ \A d \in Envs : d # e => ~Busy(d)
        /\ \A q \in Procs : conn[q] = "open" => AtRest(q)
    BY <2>1, ActsAlone DEF Procs, None
  <2>3. QED
    BY <2>2 DEF WaitClose, Goto, Turns, IInv, TypeOK
<1>5. \A q \in Procs : q # n => TrafficOf(q)'
  BY <1>4, <1>2, <1>3, Untouched DEF Turns
<1>6. TrafficOf(n)'
  <2>1. conn[n] = "none"
    BY <1>2 DEF Turns, IInv, Processes, TypeOK
  <2>2. toPy[n] = <<>> /\ toMt[n] = <<>>
    BY <1>2, <2>1 DEF Turns, TrafficOf
  <2>3. Len(<<>>) = 0
    BY EmptySeq
  <2>4. mt'[n] = "starting" /\ conn'[n] = "none" /\ toPy'[n] = <<>> /\ toMt'[n] = <<>>
    BY <1>2, <1>3, <2>1, <2>2
  <2>5. QED
    BY <2>3, <2>4 DEF TrafficOf
<1>7. TalkOf(e)'
  BY <1>3 DEF TalkOf, Peer
<1>8. ASSUME NEW d \in Envs, d # e PROVE TalkOf(d)'
  BY <1>4, <1>3, <1>8, OthersTalk DEF Turns, TalkOf, Peer
<1>9. QED
  BY <1>5, <1>6, <1>7, <1>8

LEMMA CallRaisesTurns ==
  ASSUME Turns, NEW e \in Envs, CallRaises(e)
  PROVE  (\A q \in Procs : TrafficOf(q)') /\ (\A d \in Envs : TalkOf(d)')
<1>1. UNCHANGED <<toPy, toMt, mt, conn, connfd, fdTable>> /\ py' = py
  BY DEF CallRaises, pyVars, mtVars, netVars
<1>2. /\ \A d \in Envs : d # e => ~Busy(d) /\ py'[d] = py[d]
      /\ \A q \in Procs : conn[q] = "open" => AtRest(q)
  <2>1. Callable(e) \/ (Busy(e) /\ Peer(e) = None)
    BY <1>1 DEF CallRaises, Busy, Peer
  <2>2. /\ \A d \in Envs : d # e => ~Busy(d)
        /\ \A q \in Procs : conn[q] = "open" => AtRest(q)
    BY <2>1, ActsAlone DEF Procs, None
  <2>3. QED
    BY <1>1, <2>2 DEF CallRaises, Turns, IInv, TypeOK, pyVars
<1>3. \A q \in Procs : TrafficOf(q)'
  BY <1>2, <1>1, Untouched DEF Turns
<1>4. TalkOf(e)'
  BY <1>1 DEF TalkOf, Peer, Turns, Receiving
<1>5. ASSUME NEW d \in Envs, d # e PROVE TalkOf(d)'
  BY <1>2, <1>1, <1>5, OthersTalk DEF Turns, TalkOf, Peer
<1>6. QED
  BY <1>3, <1>4, <1>5

LEMMA CloseNothingTurns ==
  ASSUME Turns, NEW e \in Envs, CloseNothing(e)
  PROVE  (\A q \in Procs : TrafficOf(q)') /\ (\A d \in Envs : TalkOf(d)')
<1>1. UNCHANGED <<toPy, toMt, mt, conn, connfd, fdTable>> /\ connfd[e] = None
  BY DEF CloseNothing, Callable, mtVars, netVars, history, Turns, TalkOf
<1>2. /\ \A d \in Envs : d # e => ~Busy(d) /\ py'[d] = py[d]
      /\ \A q \in Procs : conn[q] = "open" => AtRest(q)
  <2>1. Callable(e) \/ (Busy(e) /\ Peer(e) = None)
    BY <1>1 DEF CloseNothing, Busy, Peer
  <2>2. /\ \A d \in Envs : d # e => ~Busy(d)
        /\ \A q \in Procs : conn[q] = "open" => AtRest(q)
    BY <2>1, ActsAlone DEF Procs, None
  <2>3. QED
    BY <1>1, <2>2 DEF CloseNothing, Callable, Goto, Turns, IInv, TypeOK, pyVars
<1>3. \A q \in Procs : TrafficOf(q)'
  BY <1>2, <1>1, Untouched DEF Turns
<1>4. TalkOf(e)'
  BY <1>1 DEF TalkOf, Peer
<1>5. ASSUME NEW d \in Envs, d # e PROVE TalkOf(d)'
  BY <1>2, <1>1, <1>5, OthersTalk DEF Turns, TalkOf, Peer
<1>6. QED
  BY <1>3, <1>4, <1>5

LEMMA ListenTurns ==
  ASSUME Turns, NEW e \in Envs, Listen(e)
  PROVE  (\A q \in Procs : TrafficOf(q)') /\ (\A d \in Envs : TalkOf(d)')
<1>1. UNCHANGED <<toPy, toMt, mt, conn, connfd, fdTable>> /\ connfd[e] = None
  BY DEF Listen, mtVars, netVars, history, Turns, TalkOf
<1>2. /\ \A d \in Envs : d # e => ~Busy(d) /\ py'[d] = py[d]
      /\ \A q \in Procs : conn[q] = "open" => AtRest(q)
  <2>1. Callable(e) \/ (Busy(e) /\ Peer(e) = None)
    BY <1>1 DEF Listen, Busy, Peer
  <2>2. /\ \A d \in Envs : d # e => ~Busy(d)
        /\ \A q \in Procs : conn[q] = "open" => AtRest(q)
    BY <2>1, ActsAlone DEF Procs, None
  <2>3. QED
    BY <1>1, <2>2 DEF Listen, Goto, Turns, IInv, TypeOK, pyVars
<1>3. \A q \in Procs : TrafficOf(q)'
  BY <1>2, <1>1, Untouched DEF Turns
<1>4. TalkOf(e)'
  BY <1>1 DEF TalkOf, Peer
<1>5. ASSUME NEW d \in Envs, d # e PROVE TalkOf(d)'
  BY <1>2, <1>1, <1>5, OthersTalk DEF Turns, TalkOf, Peer
<1>6. QED
  BY <1>3, <1>4, <1>5

LEMMA ListenTimeoutTurns ==
  ASSUME Turns, NEW e \in Envs, ListenTimeout(e)
  PROVE  (\A q \in Procs : TrafficOf(q)') /\ (\A d \in Envs : TalkOf(d)')
<1>1. UNCHANGED <<toPy, toMt, mt, conn, connfd, fdTable>> /\ connfd[e] = None
  BY DEF ListenTimeout, Ends, mtVars, netVars, Turns, TalkOf
<1>2. /\ \A d \in Envs : d # e => ~Busy(d) /\ py'[d] = py[d]
      /\ \A q \in Procs : conn[q] = "open" => AtRest(q)
  <2>1. Callable(e) \/ (Busy(e) /\ Peer(e) = None)
    BY <1>1 DEF ListenTimeout, Busy, Peer
  <2>2. /\ \A d \in Envs : d # e => ~Busy(d)
        /\ \A q \in Procs : conn[q] = "open" => AtRest(q)
    BY <2>1, ActsAlone DEF Procs, None
  <2>3. QED
    BY <1>1, <2>2 DEF ListenTimeout, Ends, Goto, Turns, IInv, TypeOK, pyVars
<1>3. \A q \in Procs : TrafficOf(q)'
  BY <1>2, <1>1, Untouched DEF Turns
<1>4. TalkOf(e)'
  BY <1>1 DEF TalkOf, Peer
<1>5. ASSUME NEW d \in Envs, d # e PROVE TalkOf(d)'
  BY <1>2, <1>1, <1>5, OthersTalk DEF Turns, TalkOf, Peer
<1>6. QED
  BY <1>3, <1>4, <1>5

LEMMA CloseWaitsTurns ==
  ASSUME Turns, NEW e \in Envs, CloseWaits(e)
  PROVE  (\A q \in Procs : TrafficOf(q)') /\ (\A d \in Envs : TalkOf(d)')
<1>1. UNCHANGED <<toPy, toMt, mt, conn, connfd, fdTable>> /\ connfd[e] = None
  BY DEF CloseWaits, mtVars, netVars, history, Turns, TalkOf
<1>2. /\ \A d \in Envs : d # e => ~Busy(d) /\ py'[d] = py[d]
      /\ \A q \in Procs : conn[q] = "open" => AtRest(q)
  <2>1. Callable(e) \/ (Busy(e) /\ Peer(e) = None)
    BY <1>1 DEF CloseWaits, Busy, Peer
  <2>2. /\ \A d \in Envs : d # e => ~Busy(d)
        /\ \A q \in Procs : conn[q] = "open" => AtRest(q)
    BY <2>1, ActsAlone DEF Procs, None
  <2>3. QED
    BY <1>1, <2>2 DEF CloseWaits, Goto, Turns, IInv, TypeOK, pyVars
<1>3. \A q \in Procs : TrafficOf(q)'
  BY <1>2, <1>1, Untouched DEF Turns
<1>4. TalkOf(e)'
  BY <1>1 DEF TalkOf, Peer
<1>5. ASSUME NEW d \in Envs, d # e PROVE TalkOf(d)'
  BY <1>2, <1>1, <1>5, OthersTalk DEF Turns, TalkOf, Peer
<1>6. QED
  BY <1>3, <1>4, <1>5

LEMMA CallHardResetTurns ==
  ASSUME Turns, NEW e \in Envs, CallHardReset(e)
  PROVE  (\A q \in Procs : TrafficOf(q)') /\ (\A d \in Envs : TalkOf(d)')
<1>1. PICK p \in Procs : p = Peer(e)
  BY PeerType DEF CallHardReset, Callable, KillAndHangup, CanSend, Turns, IInv
<1> USE <1>1
<1>2. CanSend(e) /\ Callable(e) /\ Deliver(p, [action |-> 0, kill |-> TRUE])
      /\ Hangup({p}) /\ CloseDescriptor(e)
  BY DEF CallHardReset, Callable, KillAndHangup
<1>3. [action |-> 0, kill |-> TRUE] \in Message
  BY EnvAssumption DEF Message
<1>4. /\ p \in Procs /\ mt[p] \in {"gone", "waiting"}
      /\ mt[p] = "gone" => toMt'[p] = <<>>
      /\ mt[p] # "gone" => toMt'[p] # <<>> /\ Len(toMt'[p]) = 1
      /\ \A q \in Procs : q # p => toMt'[q] = toMt[q]
  BY <1>2, <1>3, IdleSends
<1>5. /\ UNCHANGED mt /\ connfd'[e] = None
      /\ \A q \in Procs \ {p} : toPy'[q] = toPy[q] /\ conn'[q] = conn[q]
      /\ \A q \in Procs \cap {p} : toPy'[q] = <<>> /\ conn'[q] \in {"closed", "reset"}
  BY <1>2 DEF CallHardReset, Hangup, CloseDescriptor, mtVars, Turns, IInv, TypeOK
<1>6. /\ \A d \in Envs : d # e => ~Busy(d) /\ py'[d] = py[d] /\ connfd'[d] = connfd[d]
      /\ \A q \in Procs : conn[q] = "open" => AtRest(q)
  BY <1>2, ActsAlone DEF CallHardReset, Goto, CloseDescriptor, Turns, IInv, TypeOK
<1>7. /\ conn[p] = "open" /\ connfd[e] \in Fds /\ fdTable[connfd[e]] = p
      /\ fdTable' = [fdTable EXCEPT ![connfd[e]] = None]
  BY <1>2, PeerType DEF CloseDescriptor, CanSend, Turns, IInv, TalkOf
<1>8. \A q \in Procs : q # p => TrafficOf(q)'
  BY <1>6, <1>4, <1>5, Untouched DEF Turns
<1>9. TrafficOf(p)'
  <2>1. Len(<<>>) = 0
    BY EmptySeq
  <2>2. toPy'[p] = <<>> /\ conn'[p] \in {"closed", "reset"} /\ mt'[p] = mt[p]
    BY <1>4, <1>5
  <2>3. QED
    BY <1>4, <2>1, <2>2 DEF TrafficOf
<1>10. TalkOf(e)'
  BY <1>5 DEF TalkOf, Peer
<1>11. ASSUME NEW d \in Envs, d # e PROVE TalkOf(d)'
  <2> SUFFICES ASSUME Peer(d)' # None PROVE conn'[Peer(d)'] = "open"
    BY <1>6, <1>11, OthersTalk
  <2>1. Peer(d)' = Peer(d) /\ Peer(d) \in Procs /\ Peer(d) # p /\ conn[Peer(d)] = "open"
    <3>1. connfd'[d] = connfd[d] /\ Peer(d)' = fdTable'[connfd[d]] /\ connfd[d] # None
      BY <1>6, <1>11 DEF Peer
    <3>2. connfd[d] \in Fds
      BY <3>1 DEF Turns, IInv, TypeOK
    <3>3. connfd[d] # connfd[e] /\ fdTable'[connfd[d]] = fdTable[connfd[d]]
      BY <1>7, <3>1, <3>2 DEF Turns, IInv, TypeOK
    <3>4. Peer(d)' = Peer(d) /\ Peer(d) # None /\ Peer(d) = fdTable[connfd[d]]
      BY <3>1, <3>3 DEF Peer
    <3>5. Peer(d) # p
      BY <1>7, <3>2, <3>3, <3>4 DEF Turns, IInv, Descriptors
    <3>6. QED
      BY <3>4, <3>5, PeerType DEF Turns, IInv, TalkOf
  <2>2. QED
    BY <1>5, <2>1
<1>12. QED
  BY <1>8, <1>9, <1>10, <1>11

LEMMA CallCloseTurns ==
  ASSUME Turns, NEW e \in Envs, CallClose(e)
  PROVE  (\A q \in Procs : TrafficOf(q)') /\ (\A d \in Envs : TalkOf(d)')
<1>1. PICK p \in Procs : p = Peer(e)
  BY PeerType DEF CallClose, Callable, CanSend, Turns, IInv
<1> USE <1>1
<1>2. CanSend(e) /\ Callable(e) /\ Deliver(p, [action |-> 0, kill |-> TRUE])
      /\ Hangup({p} \union Range(backlog[e])) /\ CloseDescriptor(e)
  BY DEF CallClose, Callable
<1>3. [action |-> 0, kill |-> TRUE] \in Message
  BY EnvAssumption DEF Message
<1>4. /\ p \in Procs /\ mt[p] \in {"gone", "waiting"}
      /\ mt[p] = "gone" => toMt'[p] = <<>>
      /\ mt[p] # "gone" => toMt'[p] # <<>> /\ Len(toMt'[p]) = 1
      /\ \A q \in Procs : q # p => toMt'[q] = toMt[q]
  BY <1>2, <1>3, IdleSends
<1>5. /\ UNCHANGED mt /\ connfd'[e] = None
      /\ \A q \in Procs \ ({p} \union Range(backlog[e])) : toPy'[q] = toPy[q] /\ conn'[q] = conn[q]
      /\ \A q \in Procs \cap ({p} \union Range(backlog[e])) : toPy'[q] = <<>> /\ conn'[q] \in {"closed", "reset"}
  BY <1>2 DEF CallClose, Hangup, CloseDescriptor, mtVars, Turns, IInv, TypeOK
<1>6. /\ \A d \in Envs : d # e => ~Busy(d) /\ py'[d] = py[d] /\ connfd'[d] = connfd[d]
      /\ \A q \in Procs : conn[q] = "open" => AtRest(q)
  BY <1>2, ActsAlone DEF CallClose, Goto, CloseDescriptor, Turns, IInv, TypeOK
<1>7. /\ conn[p] = "open" /\ connfd[e] \in Fds /\ fdTable[connfd[e]] = p
      /\ fdTable' = [fdTable EXCEPT ![connfd[e]] = None]
  BY <1>2, PeerType DEF CloseDescriptor, CanSend, Turns, IInv, TalkOf
<1>8. \A q \in Procs : q # p /\ q \notin Range(backlog[e]) => TrafficOf(q)'
  BY <1>6, <1>4, <1>5, Untouched DEF Turns
<1>9. TrafficOf(p)'
  <2>1. Len(<<>>) = 0
    BY EmptySeq
  <2>2. toPy'[p] = <<>> /\ conn'[p] \in {"closed", "reset"} /\ mt'[p] = mt[p]
    BY <1>4, <1>5
  <2>3. QED
    BY <1>4, <2>1, <2>2 DEF TrafficOf
<1>10. ASSUME NEW q \in Procs, q # p, q \in Range(backlog[e]) PROVE TrafficOf(q)'
  <2>1. conn[q] = "queued"
    <3>1. DOMAIN backlog[e] = 1 .. Len(backlog[e])
      BY LenProperties DEF Turns, IInv, TypeOK
    <3>2. PICK i \in 1 .. Len(backlog[e]) : q = backlog[e][i]
      BY <1>10, <3>1 DEF Range
    <3>3. QED
      BY <3>2 DEF Turns, IInv, Queues
  <2>2. TrafficOf(q) /\ toMt[q] = <<>> /\ toMt'[q] = <<>> /\ toPy'[q] = <<>> /\ mt'[q] = mt[q]
        /\ conn'[q] \in {"closed", "reset"}
    BY <1>4, <1>5, <1>10, <2>1 DEF Turns, TrafficOf
  <2>3. Len(<<>>) = 0
    BY EmptySeq
  <2>4. QED
    BY <2>2, <2>3 DEF TrafficOf
<1>11. TalkOf(e)'
  BY <1>5 DEF TalkOf, Peer
<1>12. ASSUME NEW d \in Envs, d # e PROVE TalkOf(d)'
  <2> SUFFICES ASSUME Peer(d)' # None PROVE conn'[Peer(d)'] = "open"
    BY <1>6, <1>12, OthersTalk
  <2>1. Peer(d)' = Peer(d) /\ Peer(d) \in Procs /\ Peer(d) # p /\ conn[Peer(d)] = "open"
    <3>1. connfd'[d] = connfd[d] /\ Peer(d)' = fdTable'[connfd[d]] /\ connfd[d] # None
      BY <1>6, <1>12 DEF Peer
    <3>2. connfd[d] \in Fds
      BY <3>1 DEF Turns, IInv, TypeOK
    <3>3. connfd[d] # connfd[e] /\ fdTable'[connfd[d]] = fdTable[connfd[d]]
      BY <1>7, <3>1, <3>2 DEF Turns, IInv, TypeOK
    <3>4. Peer(d)' = Peer(d) /\ Peer(d) # None /\ Peer(d) = fdTable[connfd[d]]
      BY <3>1, <3>3 DEF Peer
    <3>5. Peer(d) # p
      BY <1>7, <3>2, <3>3, <3>4 DEF Turns, IInv, Descriptors
    <3>6. QED
      BY <3>4, <3>5, PeerType DEF Turns, IInv, TalkOf
  <2>2. Peer(d) \notin Range(backlog[e])
    <3>1. DOMAIN backlog[e] = 1 .. Len(backlog[e])
      BY LenProperties DEF Turns, IInv, TypeOK
    <3>2. QED
      BY <2>1, <3>1 DEF Range, Turns, IInv, Queues
  <2>3. QED
    BY <1>5, <2>1, <2>2
<1>13. QED
  BY <1>8, <1>9, <1>10, <1>11, <1>12

LEMMA AcceptTurns ==
  ASSUME Turns, NEW e \in Envs, Accept(e)
  PROVE  (\A q \in Procs : TrafficOf(q)') /\ (\A d \in Envs : TalkOf(d)')
<1>1. PICK p \in Procs : p = Head(backlog[e]) /\ conn[p] = "queued"
  <2>1. backlog[e] \in Seq(Procs) /\ backlog[e] # <<>> /\ 1 \in 1 .. Len(backlog[e])
        /\ Head(backlog[e]) = backlog[e][1]
    BY DEF Accept, Turns, IInv, TypeOK
  <2>2. QED
    BY <2>1 DEF Turns, IInv, Queues
<1>2. LowestFree \in Fds
  BY <1>1, LowestFreeExists DEF Turns, IInv
<1>3. /\ UNCHANGED <<toPy, toMt, mt>> /\ py'[e] \in {"reset", "init"}
      /\ conn'[p] = "open" /\ \A q \in Procs : q # p => conn'[q] = conn[q]
      /\ connfd'[e] = LowestFree /\ fdTable'[LowestFree] = p
  BY <1>1, <1>2 DEF Accept, Goto, mtVars, Turns, IInv, TypeOK
<1>4. /\ \A d \in Envs : d # e => ~Busy(d) /\ py'[d] = py[d] /\ connfd'[d] = connfd[d]
      /\ \A q \in Procs : conn[q] = "open" => AtRest(q)
  <2>1. Busy(e) /\ Peer(e) = None
    BY DEF Accept, Busy, Peer, Turns, TalkOf
  <2>2. /\ \A d \in Envs : d # e => ~Busy(d)
        /\ \A q \in Procs : conn[q] = "open" => AtRest(q)
    BY <2>1, ActsAlone DEF Procs, None
  <2>3. QED
    BY <2>2 DEF Accept, Goto, Turns, IInv, TypeOK
<1>5. \A q \in Procs : q # p => TrafficOf(q)'
  BY <1>4, <1>3, Untouched DEF Turns
<1>6. TrafficOf(p) /\ Len(<<>>) = 0 /\ toMt[p] = <<>> /\ (mt[p] = "waiting" => toPy[p] # <<>>)
  BY <1>1, EmptySeq DEF Turns, TrafficOf
<1>7. Peer(e)' = p
  BY <1>2, <1>3 DEF Peer, Fds, None
<1>8. TrafficOf(p)'
  BY <1>3, <1>6, <1>7 DEF TrafficOf, Busy
<1>9. TalkOf(e)'
  BY <1>3, <1>6, <1>7 DEF TalkOf
<1>10. ASSUME NEW d \in Envs, d # e PROVE TalkOf(d)'
  <2>1. \A f \in Fds : f # LowestFree => fdTable'[f] = fdTable[f]
    BY DEF Accept, Turns, IInv, TypeOK
  <2>2. connfd[d] \in Fds \union {None} /\ Peer(d) \in Procs \union {None}
    BY PeerType DEF Turns, IInv, TypeOK
  <2>3. Peer(d)' = p \/ Peer(d)' = Peer(d)
    BY <1>4, <1>3, <1>10, <2>1, <2>2 DEF Peer
  <2>4. Peer(d)' # None => conn'[Peer(d)'] = "open"
    BY <1>3, <2>2, <2>3 DEF Turns, TalkOf
  <2>5. QED
    BY <1>4, <1>10, <2>4, OthersTalk
<1>11. QED
  BY <1>5, <1>8, <1>9, <1>10

LEMMA InitFrameTurns ==
  ASSUME Turns, NEW e \in Envs, InitFrame(e)
  PROVE  (\A q \in Procs : TrafficOf(q)') /\ (\A d \in Envs : TalkOf(d)')
<1>1. PICK p \in Procs : p = Peer(e)
  BY PeerType DEF InitFrame, HasObservation, Turns, IInv
<1> USE <1>1
<1>2. p \in Procs /\ p # None /\ toPy[p] # <<>> /\ conn[p] = "open"
  BY DEF InitFrame, HasObservation, Turns, TalkOf, Procs, None
<1>3. /\ Len(toPy[p]) = 1 /\ toMt[p] = <<>> /\ mt[p] # "running"
      /\ Tail(toPy[p]) = <<>> /\ Len(<<>>) = 0
  <2>1. /\ toPy[p] \in Seq(Observations) /\ Len(toPy[p]) \in Nat /\ Len(toPy[p]) # 0
        /\ Len(toMt[p]) \in Nat /\ (Len(toMt[p]) = 0 <=> toMt[p] = <<>>)
    BY <1>2, Lengths DEF Turns, IInv
  <2>2. Len(toPy[p]) \in {0, 1} /\ toMt[p] = <<>> /\ mt[p] # "running"
    BY <1>2 DEF Turns, TrafficOf
  <2>3. Len(toPy[p]) = 1
    BY <2>1, <2>2
  <2>4. Tail(toPy[p]) = <<>>
    <3>1. PICK x \in Observations : TRUE
      BY EnvAssumption, HeadTailProperties, <1>2, <2>1
    <3>2. QED
      BY <2>1, <2>3, <3>1, OneEach
  <2>5. QED
    BY <2>2, <2>3, <2>4, EmptySeq
<1>4. /\ UNCHANGED <<mt, conn, connfd, fdTable>> /\ py'[e] \in {"reset", "init"} /\ connfd[e] # None
      /\ toPy'[p] = <<>> /\ \A q \in Procs : q # p => toPy'[q] = toPy[q]
  BY <1>2, <1>3 DEF InitFrame, Goto, mtVars, Turns, IInv, TypeOK, Peer
<1>5. /\ mt[p] = "gone" => toMt'[p] = <<>>
      /\ mt[p] # "gone" => toMt'[p] # <<>> /\ Len(toMt'[p]) = 1
      /\ \A q \in Procs : q # p => toMt'[q] = toMt[q]
  <2>0. sends \in Nat /\ initLeft[e] \in Nat /\ MaxSends \in Nat
    BY EnvAssumption DEF Turns, IInv, TypeOK
  <2>1. Deliver(p, [action |-> sends', kill |-> FALSE]) /\ sends + 1 <= MaxSends
        /\ sends' = sends + 1
    BY <2>0 DEF InitFrame, SendAction, Turns, IInv, Budget
  <2>2. [action |-> sends', kill |-> FALSE] \in Message
    BY <2>1, EnvAssumption DEF Message, Turns, IInv, TypeOK
  <2>3. toMt \in [Procs -> Seq(Message)] /\ <<>> \in Seq(Message)
    BY EmptySeq DEF Turns, IInv, TypeOK, Message
  <2>4. Len(Append(<<>>, [action |-> sends', kill |-> FALSE])) = 1
        /\ Append(<<>>, [action |-> sends', kill |-> FALSE]) # <<>>
    BY <2>2, <2>3, OneEach
  <2>5. QED
    BY <1>2, <1>3, <2>1, <2>3, <2>4 DEF Deliver
<1>6. /\ \A d \in Envs : d # e => ~Busy(d) /\ py'[d] = py[d]
      /\ \A q \in Procs : conn[q] = "open" /\ q # p => AtRest(q)
  <2>1. Busy(e)
    BY DEF InitFrame, Busy
  <2>2. QED
    BY <2>1, ActsAlone DEF InitFrame, Goto, Turns, IInv, TypeOK
<1>7. \A q \in Procs : q # p => TrafficOf(q)'
  BY <1>6, <1>4, <1>5, Untouched DEF Turns
<1>8. Peer(e)' = p
  BY <1>4 DEF Peer
<1>9. TrafficOf(p)'
  BY <1>2, <1>3, <1>4, <1>5, <1>8 DEF TrafficOf, Busy
<1>10. TalkOf(e)'
  BY <1>2, <1>4, <1>5, <1>8 DEF TalkOf
<1>11. ASSUME NEW d \in Envs, d # e PROVE TalkOf(d)'
  BY <1>6, <1>4, <1>11, OthersTalk DEF Turns, TalkOf, Peer
<1>12. QED
  BY <1>7, <1>9, <1>10, <1>11

LEMMA InitFrameRaisesTurns ==
  ASSUME Turns, NEW e \in Envs, InitFrameRaises(e)
  PROVE  (\A q \in Procs : TrafficOf(q)') /\ (\A d \in Envs : TalkOf(d)')
<1>1. PICK p \in Procs : p = Peer(e)
  BY PeerType DEF InitFrameRaises, HasObservation, Turns, IInv
<1> USE <1>1
<1>2. p \in Procs /\ p # None /\ toPy[p] # <<>> /\ conn[p] = "open"
  BY DEF InitFrameRaises, HasObservation, Turns, TalkOf, Procs, None
<1>3. /\ Len(toPy[p]) = 1 /\ toMt[p] = <<>> /\ mt[p] # "running"
      /\ Tail(toPy[p]) = <<>> /\ Len(<<>>) = 0
  <2>1. /\ toPy[p] \in Seq(Observations) /\ Len(toPy[p]) \in Nat /\ Len(toPy[p]) # 0
        /\ Len(toMt[p]) \in Nat /\ (Len(toMt[p]) = 0 <=> toMt[p] = <<>>)
    BY <1>2, Lengths DEF Turns, IInv
  <2>2. Len(toPy[p]) \in {0, 1} /\ toMt[p] = <<>> /\ mt[p] # "running"
    BY <1>2 DEF Turns, TrafficOf
  <2>3. Len(toPy[p]) = 1
    BY <2>1, <2>2
  <2>4. Tail(toPy[p]) = <<>>
    <3>1. PICK x \in Observations : TRUE
      BY EnvAssumption, HeadTailProperties, <1>2, <2>1
    <3>2. QED
      BY <2>1, <2>3, <3>1, OneEach
  <2>5. QED
    BY <2>2, <2>3, <2>4, EmptySeq
<1>4. mt[p] \in {"gone", "waiting"}
  BY <1>2, <1>3 DEF Turns, TrafficOf, IInv, Processes, TypeOK
<1>5. /\ UNCHANGED <<toMt, mt, conn, connfd, fdTable>> /\ py'[e] = "idle"
      /\ toPy'[p] = <<>> /\ \A q \in Procs : q # p => toPy'[q] = toPy[q]
  BY <1>2, <1>3 DEF InitFrameRaises, Ends, Goto, mtVars, Turns, IInv, TypeOK
<1>6. /\ \A d \in Envs : d # e => ~Busy(d) /\ py'[d] = py[d]
      /\ \A q \in Procs : conn[q] = "open" /\ q # p => AtRest(q)
  <2>1. Busy(e)
    BY DEF InitFrameRaises, Busy
  <2>2. QED
    BY <2>1, ActsAlone DEF InitFrameRaises, Ends, Goto, Turns, IInv, TypeOK
<1>7. \A q \in Procs : q # p => TrafficOf(q)'
  BY <1>6, <1>5, Untouched DEF Turns
<1>8. Peer(e)' = p
  BY <1>5 DEF Peer
<1>9. TrafficOf(p)'
  BY <1>2, <1>3, <1>4, <1>5 DEF TrafficOf, AtRest
<1>10. TalkOf(e)'
  BY <1>2, <1>3, <1>4, <1>5, <1>8 DEF TalkOf, Receiving
<1>11. ASSUME NEW d \in Envs, d # e PROVE TalkOf(d)'
  BY <1>6, <1>5, <1>11, OthersTalk DEF Turns, TalkOf, Peer
<1>12. QED
  BY <1>7, <1>9, <1>10, <1>11

LEMMA ReceiveTurns ==
  ASSUME Turns, NEW e \in Envs, Receive(e)
  PROVE  (\A q \in Procs : TrafficOf(q)') /\ (\A d \in Envs : TalkOf(d)')
<1>1. PICK p \in Procs : p = Peer(e)
  BY PeerType DEF Receive, HasObservation, Turns, IInv
<1> USE <1>1
<1>2. p \in Procs /\ p # None /\ toPy[p] # <<>> /\ conn[p] = "open"
  BY DEF Receive, HasObservation, Turns, TalkOf, Procs, None
<1>3. /\ Len(toPy[p]) = 1 /\ toMt[p] = <<>> /\ mt[p] # "running"
      /\ Tail(toPy[p]) = <<>> /\ Len(<<>>) = 0
  <2>1. /\ toPy[p] \in Seq(Observations) /\ Len(toPy[p]) \in Nat /\ Len(toPy[p]) # 0
        /\ Len(toMt[p]) \in Nat /\ (Len(toMt[p]) = 0 <=> toMt[p] = <<>>)
    BY <1>2, Lengths DEF Turns, IInv
  <2>2. Len(toPy[p]) \in {0, 1} /\ toMt[p] = <<>> /\ mt[p] # "running"
    BY <1>2 DEF Turns, TrafficOf
  <2>3. Len(toPy[p]) = 1
    BY <2>1, <2>2
  <2>4. Tail(toPy[p]) = <<>>
    <3>1. PICK x \in Observations : TRUE
      BY EnvAssumption, HeadTailProperties, <1>2, <2>1
    <3>2. QED
      BY <2>1, <2>3, <3>1, OneEach
  <2>5. QED
    BY <2>2, <2>3, <2>4, EmptySeq
<1>4. mt[p] \in {"gone", "waiting"}
  BY <1>2, <1>3 DEF Turns, TrafficOf, IInv, Processes, TypeOK
<1>5. /\ UNCHANGED <<toMt, mt, conn, connfd, fdTable>> /\ py'[e] = "idle"
      /\ toPy'[p] = <<>> /\ \A q \in Procs : q # p => toPy'[q] = toPy[q]
  BY <1>2, <1>3 DEF Receive, Ends, Goto, mtVars, Turns, IInv, TypeOK
<1>6. /\ \A d \in Envs : d # e => ~Busy(d) /\ py'[d] = py[d]
      /\ \A q \in Procs : conn[q] = "open" /\ q # p => AtRest(q)
  <2>1. Busy(e)
    BY DEF Receive, Busy
  <2>2. QED
    BY <2>1, ActsAlone DEF Receive, Ends, Goto, Turns, IInv, TypeOK
<1>7. \A q \in Procs : q # p => TrafficOf(q)'
  BY <1>6, <1>5, Untouched DEF Turns
<1>8. Peer(e)' = p
  BY <1>5 DEF Peer
<1>9. TrafficOf(p)'
  BY <1>2, <1>3, <1>4, <1>5 DEF TrafficOf, AtRest
<1>10. TalkOf(e)'
  BY <1>2, <1>3, <1>4, <1>5, <1>8 DEF TalkOf, Receiving
<1>11. ASSUME NEW d \in Envs, d # e PROVE TalkOf(d)'
  BY <1>6, <1>5, <1>11, OthersTalk DEF Turns, TalkOf, Peer
<1>12. QED
  BY <1>7, <1>9, <1>10, <1>11

LEMMA ReceiveFailsTurns ==
  ASSUME Turns, NEW e \in Envs, ReceiveFails(e)
  PROVE  (\A q \in Procs : TrafficOf(q)') /\ (\A d \in Envs : TalkOf(d)')
<1>1. PICK p \in Procs \union {None} : p = Peer(e)
  BY PeerType DEF Turns, IInv
<1> USE <1>1
<1>2. UNCHANGED <<toPy, toMt, mt, connfd>> /\ py'[e] = "idle" /\ (p # None => mt[p] = "gone")
  BY DEF ReceiveFails, Ends, Goto, mtVars, Turns, IInv, TypeOK
<1>3. /\ \A d \in Envs : d # e => ~Busy(d) /\ py'[d] = py[d]
      /\ \A q \in Procs : conn[q] = "open" /\ q # p => AtRest(q)
  <2>1. Busy(e)
    BY DEF ReceiveFails, Receiving, Busy
  <2>2. QED
    BY <2>1, ActsAlone DEF ReceiveFails, Ends, Goto, Turns, IInv, TypeOK
<1>4. \A q \in Procs : conn[q] = "open" => AtRest(q)
  BY <1>3, <1>2 DEF AtRest, Procs, None
<1>5. CASE UNCHANGED <<fdTable, conn>>
  <2>1. \A q \in Procs : TrafficOf(q)'
    BY <1>4, <1>2, <1>5, Untouched DEF Turns
  <2>2. Peer(e)' = p
    BY <1>2, <1>5 DEF Peer
  <2>3. TalkOf(e)'
    BY <1>2, <1>5, <2>2 DEF TalkOf, Turns, Receiving
  <2>4. ASSUME NEW d \in Envs, d # e PROVE TalkOf(d)'
    BY <1>3, <1>2, <1>5, <2>4, OthersTalk DEF Turns, TalkOf, Peer
  <2>5. QED
    BY <2>1, <2>3, <2>4
<1>6. CASE ~UNCHANGED <<fdTable, conn>>
  <2>1. p \in Procs /\ p # None /\ connfd[e] \in Fds
        /\ fdTable' = [fdTable EXCEPT ![connfd[e]] = None]
        /\ conn' = [conn EXCEPT ![p] = "closed"]
        /\ toPy[p] = <<>>
    BY <1>6, PeerType DEF ReceiveFails, HasObservation, Turns, IInv
  <2>2. Peer(e)' = None
    BY <1>2, <2>1 DEF Peer, Turns, IInv, TypeOK
  <2>3. conn'[p] = "closed" /\ \A q \in Procs : q # p => conn'[q] = conn[q]
    BY <2>1 DEF Turns, IInv, TypeOK
  <2>4. \A q \in Procs : q # p => TrafficOf(q)'
    BY <1>4, <1>2, <2>3, Untouched DEF Turns
  <2>5. TrafficOf(p) /\ Len(<<>>) = 0
    BY <2>1, EmptySeq DEF Turns
  <2>6. TrafficOf(p)'
    BY <1>2, <2>1, <2>3, <2>5 DEF TrafficOf
  <2>7. TalkOf(e)'
    BY <1>2, <2>2 DEF TalkOf
  <2>8. ASSUME NEW d \in Envs, d # e PROVE TalkOf(d)'
    <3> SUFFICES ASSUME Peer(d)' # None PROVE conn'[Peer(d)'] = "open"
      BY <1>2, <1>3, <2>8, OthersTalk
    <3>1. connfd'[d] = connfd[d] /\ Peer(d)' = fdTable'[connfd[d]] /\ connfd[d] # None
      BY <1>2 DEF Peer
    <3>2. connfd[d] \in Fds
      BY <3>1 DEF Turns, IInv, TypeOK
    <3>3. connfd[d] # connfd[e] /\ fdTable'[connfd[d]] = fdTable[connfd[d]]
      BY <2>1, <3>1, <3>2 DEF Turns, IInv, TypeOK
    <3>4. Peer(d)' = Peer(d) /\ Peer(d) # None /\ Peer(d) = fdTable[connfd[d]]
      BY <3>1, <3>3 DEF Peer
    <3>5. fdTable[connfd[e]] = p
      BY <2>1, PeerType DEF Turns, IInv
    <3>6. Peer(d) # p
      BY <2>1, <3>2, <3>3, <3>4, <3>5 DEF Turns, IInv, Descriptors
    <3>7. QED
      BY <2>3, <3>4, <3>6, PeerType DEF Turns, IInv, TalkOf
  <2>9. QED
    BY <2>4, <2>6, <2>7, <2>8
<1>7. QED
  BY <1>5, <1>6

LEMMA MtConnectTurns ==
  ASSUME Turns, NEW p \in Procs, MtConnect(p)
  PROVE  (\A q \in Procs : TrafficOf(q)') /\ (\A d \in Envs : TalkOf(d)')
<1>1. /\ UNCHANGED <<toPy, toMt>> /\ \A q \in Procs : q # p => mt'[q] = mt[q] /\ conn'[q] = conn[q]
      /\ \/ mt'[p] = "running" /\ conn'[p] = "queued"
         \/ mt'[p] = "gone" /\ conn'[p] = conn[p]
  BY DEF MtConnect, Become, Turns, IInv, TypeOK
<1>2. conn[p] = "none" /\ toPy[p] = <<>> /\ toMt[p] = <<>> /\ Len(<<>>) = 0
  BY EmptySeq DEF MtConnect, Turns, IInv, Processes, TrafficOf
<1>3. \A q \in Procs : q # p => TrafficOf(q)'
  BY <1>1, UntouchedByProcess DEF Turns, MtConnect, pyVars
<1>4. TrafficOf(p)'
  <2>1. (\A d \in Envs : Busy(d) => Peer(d) # p)' <=> (\A d \in Envs : Busy(d) => Peer(d) # p)
    BY DEF MtConnect, Busy, Peer, pyVars
  <2>2. QED
    BY <1>1, <1>2, <2>1 DEF TrafficOf, AtRest
<1>5. ASSUME NEW d \in Envs PROVE TalkOf(d)'
  <2>1. TalkOf(d) /\ Peer(d)' = Peer(d) /\ Peer(d) \in Procs \union {None}
        /\ UNCHANGED <<connfd, py>>
    BY PeerType DEF Peer, MtConnect, pyVars, Turns, IInv
  <2>2. CASE Peer(d) = p
    BY <1>2, <2>1, <2>2 DEF TalkOf, Receiving, None
  <2>3. CASE Peer(d) # p
    BY <1>1, <2>1, <2>3 DEF TalkOf, Receiving
  <2>4. QED
    BY <2>2, <2>3
<1>6. QED
  BY <1>3, <1>4, <1>5

LEMMA MtSendTurns ==
  ASSUME Turns, NEW p \in Procs, MtSend(p)
  PROVE  (\A q \in Procs : TrafficOf(q)') /\ (\A d \in Envs : TalkOf(d)')
<1>1. /\ UNCHANGED toMt
      /\ \A q \in Procs : q # p => mt'[q] = mt[q] /\ conn'[q] = conn[q] /\ toPy'[q] = toPy[q]
      /\ mt[p] = "running"
  BY DEF MtSend, Become, Turns, IInv, TypeOK
<1>2. toPy[p] = <<>> /\ toMt[p] = <<>> /\ Len(<<>>) = 0 /\ TrafficOf(p)
  BY <1>1, EmptySeq DEF Turns, TrafficOf
<1>3. \/ /\ conn[p] \in {"queued", "open"} /\ conn'[p] = conn[p]
         /\ mt'[p] = "waiting" /\ Len(toPy'[p]) = 1 /\ toPy'[p] # <<>>
      \/ /\ conn[p] \in {"closed", "reset"} /\ conn'[p] = "reset"
         /\ mt'[p] \in {"waiting", "gone"} /\ toPy'[p] = <<>>
  <2>1. [action |-> applied[p], whole |-> TRUE] \in Observations
    BY DEF Turns, IInv, TypeOK, Observations
  <2>2. <<>> \in Seq(Observations)
    BY EmptySeq
  <2>3. /\ Len(Append(<<>>, [action |-> applied[p], whole |-> TRUE])) = 1
        /\ Append(<<>>, [action |-> applied[p], whole |-> TRUE]) # <<>>
    BY <2>1, <2>2, OneEach
  <2>4. toPy \in [Procs -> Seq(Observations)] /\ conn \in [Procs -> {"none", "queued", "open", "closed", "reset"}]
        /\ mt \in [Procs -> {"none", "starting", "running", "waiting", "gone", "hung"}]
    BY DEF Turns, IInv, TypeOK, Observations
  <2>5. CASE conn[p] \in {"queued", "open"}
    <3>1. /\ toPy' = [toPy EXCEPT ![p] = Append(<<>>, [action |-> applied[p], whole |-> TRUE])]
          /\ Become(p, "waiting") /\ conn' = conn
      BY <1>2, <2>5 DEF MtSend
    <3>2. QED
      BY <2>3, <2>4, <2>5, <3>1 DEF Become
  <2>6. CASE conn[p] \in {"closed", "reset"}
    <3>1. /\ toPy' = toPy /\ (Become(p, "waiting") \/ Become(p, "gone"))
          /\ conn' = conn \/ conn' = [conn EXCEPT ![p] = "reset"]
          /\ conn[p] = "closed" => conn' = [conn EXCEPT ![p] = "reset"]
      BY <2>6 DEF MtSend
    <3>2. QED
      BY <1>2, <2>4, <2>6, <3>1 DEF Become
  <2>7. QED
    BY <2>5, <2>6 DEF MtSend
<1>4. \A q \in Procs : q # p => TrafficOf(q)'
  BY <1>1, UntouchedByProcess DEF Turns, MtSend, pyVars
<1>5. TrafficOf(p)'
  <2>1. (\A d \in Envs : Busy(d) => Peer(d) # p)' <=> (\A d \in Envs : Busy(d) => Peer(d) # p)
    BY DEF MtSend, Busy, Peer, pyVars
  <2>2. QED
    BY <1>1, <1>2, <1>3, <2>1 DEF TrafficOf, AtRest
<1>6. ASSUME NEW d \in Envs PROVE TalkOf(d)'
  <2>1. TalkOf(d) /\ Peer(d)' = Peer(d) /\ Peer(d) \in Procs \union {None}
        /\ UNCHANGED <<connfd, py>>
    BY PeerType DEF Peer, MtSend, pyVars, Turns, IInv
  <2>2. CASE Peer(d) = p
    BY <1>1, <1>2, <1>3, <2>1, <2>2 DEF TalkOf, Receiving, None
  <2>3. CASE Peer(d) # p
    BY <1>1, <2>1, <2>3 DEF TalkOf, Receiving
  <2>4. QED
    BY <2>2, <2>3
<1>7. QED
  BY <1>4, <1>5, <1>6

LEMMA MtReceiveTurns ==
  ASSUME Turns, NEW p \in Procs, MtReceive(p)
  PROVE  (\A q \in Procs : TrafficOf(q)') /\ (\A d \in Envs : TalkOf(d)')
<1>1. /\ UNCHANGED <<toPy, conn>>
      /\ \A q \in Procs : q # p => mt'[q] = mt[q] /\ toMt'[q] = toMt[q]
      /\ mt[p] = "waiting" /\ toMt[p] # <<>> /\ mt'[p] \in {"running", "gone"}
      /\ toMt'[p] = Tail(toMt[p])
  BY DEF MtReceive, Become, Turns, IInv, TypeOK
<1>2. toPy[p] = <<>> /\ Tail(toMt[p]) = <<>> /\ Len(<<>>) = 0 /\ TrafficOf(p)
  <2>1. /\ toMt[p] \in Seq(Message) /\ Len(toMt[p]) \in Nat /\ Len(toMt[p]) # 0
        /\ Len(toPy[p]) \in Nat /\ (Len(toPy[p]) = 0 <=> toPy[p] = <<>>)
    BY <1>1, Lengths DEF Turns, IInv
  <2>2. TrafficOf(p) /\ Len(toMt[p]) \in {0, 1} /\ toPy[p] = <<>>
    BY <1>1 DEF Turns, TrafficOf
  <2>3. Len(toMt[p]) = 1
    BY <2>1, <2>2
  <2>4. Head(toMt[p]) \in Message
    BY <1>1, <2>1, HeadTailProperties
  <2>5. Tail(toMt[p]) = <<>>
    BY <2>1, <2>3, <2>4, OneEach
  <2>6. QED
    BY <2>1, <2>2, <2>3, <2>5, EmptySeq
<1>3. \A q \in Procs : q # p => TrafficOf(q)'
  BY <1>1, UntouchedByProcess DEF Turns, MtReceive, pyVars
<1>4. TrafficOf(p)'
  <2>1. (\A d \in Envs : Busy(d) => Peer(d) # p)' <=> (\A d \in Envs : Busy(d) => Peer(d) # p)
    BY DEF MtReceive, Busy, Peer, pyVars
  <2>2. QED
    BY <1>1, <1>2, <2>1 DEF TrafficOf, AtRest
<1>5. ASSUME NEW d \in Envs PROVE TalkOf(d)'
  <2>1. TalkOf(d) /\ Peer(d)' = Peer(d) /\ Peer(d) \in Procs \union {None}
        /\ UNCHANGED <<connfd, py>>
    BY PeerType DEF Peer, MtReceive, pyVars, Turns, IInv
  <2>2. CASE Peer(d) = p
    BY <1>1, <1>2, <2>1, <2>2 DEF TalkOf, Receiving, None
  <2>3. CASE Peer(d) # p
    BY <1>1, <2>1, <2>3 DEF TalkOf, Receiving
  <2>4. QED
    BY <2>2, <2>3
<1>6. QED
  BY <1>3, <1>4, <1>5

LEMMA MtReceiveFailsTurns ==
  ASSUME Turns, NEW p \in Procs, MtReceiveFails(p)
  PROVE  (\A q \in Procs : TrafficOf(q)') /\ (\A d \in Envs : TalkOf(d)')
<1>1. /\ UNCHANGED <<toPy, toMt, conn>> /\ \A q \in Procs : q # p => mt'[q] = mt[q]
      /\ mt'[p] = "running" /\ toMt[p] = <<>> /\ conn[p] \in {"closed", "reset"}
  BY DEF MtReceiveFails, Become, netVars, Turns, IInv, TypeOK
<1>2. toPy[p] = <<>> /\ Len(<<>>) = 0 /\ TrafficOf(p)
  BY <1>1, EmptySeq DEF Turns, TrafficOf
<1>3. \A q \in Procs : q # p => TrafficOf(q)'
  BY <1>1, UntouchedByProcess DEF Turns, MtReceiveFails, pyVars
<1>4. TrafficOf(p)'
  <2>1. (\A d \in Envs : Busy(d) => Peer(d) # p)' <=> (\A d \in Envs : Busy(d) => Peer(d) # p)
    BY DEF MtReceiveFails, Busy, Peer, pyVars
  <2>2. QED
    BY <1>1, <1>2, <2>1 DEF TrafficOf, AtRest
<1>5. ASSUME NEW d \in Envs PROVE TalkOf(d)'
  <2>1. TalkOf(d) /\ Peer(d)' = Peer(d) /\ Peer(d) \in Procs \union {None}
        /\ UNCHANGED <<connfd, py>>
    BY PeerType DEF Peer, MtReceiveFails, pyVars, Turns, IInv
  <2>2. CASE Peer(d) = p
    BY <1>1, <1>2, <2>1, <2>2 DEF TalkOf, Receiving, None
  <2>3. CASE Peer(d) # p
    BY <1>1, <2>1, <2>3 DEF TalkOf, Receiving
  <2>4. QED
    BY <2>2, <2>3
<1>6. QED
  BY <1>3, <1>4, <1>5

LEMMA CrashTurns ==
  ASSUME Turns, NEW p \in Procs, Crash(p)
  PROVE  (\A q \in Procs : TrafficOf(q)') /\ (\A d \in Envs : TalkOf(d)')
<1>1. /\ UNCHANGED conn
      /\ \A q \in Procs : q # p => mt'[q] = mt[q] /\ toMt'[q] = toMt[q] /\ toPy'[q] = toPy[q]
      /\ mt'[p] = "gone" /\ toMt'[p] = <<>>
  BY DEF Crash, Become, Turns, IInv, TypeOK
<1>2. TrafficOf(p) /\ Len(<<>>) = 0 /\ Len(toPy[p]) \in Nat /\ Len(toMt[p]) \in Nat
  BY Lengths, EmptySeq DEF Turns, IInv
<1>3. \/ toPy'[p] = toPy[p]
      \/ conn[p] \in {"queued", "open"} /\ Len(toPy'[p]) = 1
  <2>1. mt[p] = "running" => toPy[p] = <<>>
    BY DEF Turns, TrafficOf
  <2>2. [action |-> 0, whole |-> FALSE] \in Observations
    BY EnvAssumption DEF Observations
  <2>3. <<>> \in Seq(Observations)
    BY EmptySeq
  <2>4. Len(Append(<<>>, [action |-> 0, whole |-> FALSE])) = 1
    BY <2>2, <2>3, OneEach
  <2>5. QED
    BY <2>1, <2>4 DEF Crash, Turns, IInv, TypeOK
<1>4. \A q \in Procs : q # p => TrafficOf(q)'
  BY <1>1, UntouchedByProcess DEF Turns, Crash, pyVars
<1>5. TrafficOf(p)'
  <2>1. (\A d \in Envs : Busy(d) => Peer(d) # p)' <=> (\A d \in Envs : Busy(d) => Peer(d) # p)
    BY DEF Crash, Busy, Peer, pyVars
  <2>2. QED
    BY <1>1, <1>2, <1>3, <2>1 DEF TrafficOf, AtRest
<1>6. ASSUME NEW d \in Envs PROVE TalkOf(d)'
  <2>1. TalkOf(d) /\ Peer(d)' = Peer(d) /\ Peer(d) \in Procs \union {None}
        /\ UNCHANGED <<connfd, py>>
    BY PeerType DEF Peer, Crash, pyVars, Turns, IInv
  <2>2. CASE Peer(d) = p
    BY <1>1, <1>2, <2>1, <2>2 DEF TalkOf, Receiving, None
  <2>3. CASE Peer(d) # p
    BY <1>1, <2>1, <2>3 DEF TalkOf, Receiving
  <2>4. QED
    BY <2>2, <2>3
<1>7. QED
  BY <1>4, <1>5, <1>6

LEMMA HangTurns ==
  ASSUME Turns, NEW p \in Procs, Hang(p)
  PROVE  (\A q \in Procs : TrafficOf(q)') /\ (\A d \in Envs : TalkOf(d)')
<1>1. /\ UNCHANGED <<toPy, toMt, conn>> /\ \A q \in Procs : q # p => mt'[q] = mt[q]
      /\ mt'[p] = "hung" /\ mt[p] \in {"starting", "running"}
  BY DEF Hang, Become, netVars, Turns, IInv, TypeOK
<1>2. TrafficOf(p) /\ toPy[p] = <<>> /\ (mt[p] = "starting" => conn[p] = "none")
  BY <1>1 DEF Turns, IInv, Processes, TrafficOf
<1>3. \A q \in Procs : q # p => TrafficOf(q)'
  BY <1>1, UntouchedByProcess DEF Turns, Hang, pyVars
<1>4. TrafficOf(p)'
  <2>1. (\A d \in Envs : Busy(d) => Peer(d) # p)' <=> (\A d \in Envs : Busy(d) => Peer(d) # p)
    BY DEF Hang, Busy, Peer, pyVars
  <2>2. QED
    BY <1>1, <1>2, <2>1 DEF TrafficOf, AtRest
<1>5. ASSUME NEW d \in Envs PROVE TalkOf(d)'
  <2>1. TalkOf(d) /\ Peer(d)' = Peer(d) /\ Peer(d) \in Procs \union {None}
        /\ UNCHANGED <<connfd, py>>
    BY PeerType DEF Peer, Hang, pyVars, Turns, IInv
  <2>2. CASE Peer(d) = p
    BY <1>1, <1>2, <2>1, <2>2 DEF TalkOf, Receiving, None
  <2>3. CASE Peer(d) # p
    BY <1>1, <2>1, <2>3 DEF TalkOf, Receiving
  <2>4. QED
    BY <2>2, <2>3
<1>6. QED
  BY <1>3, <1>4, <1>5

LEMMA InitTurns == Init => Turns
<1> SUFFICES ASSUME Init PROVE Turns
  OBVIOUS
<1>1. Len(<<>>) = 0
  BY EmptySeq
<1>2. \A p \in Procs : TrafficOf(p)
  BY <1>1 DEF Init, TrafficOf
<1>3. \A e \in Envs : TalkOf(e)
  BY DEF Init, TalkOf, Peer
<1>4. QED
  BY <1>2, <1>3, InitIInv DEF Turns

LEMMA NextTurns == Turns /\ [Next]_vars => Turns'
<1> SUFFICES ASSUME Turns, [Next]_vars PROVE Turns'
  OBVIOUS
<1>1. IInv'
  BY NextKeeps DEF Turns
<1>2. (\A q \in Procs : TrafficOf(q)') /\ (\A d \in Envs : TalkOf(d)')
  <2>1. ASSUME NEW e \in Envs, Calls(e)
        PROVE  (\A q \in Procs : TrafficOf(q)') /\ (\A d \in Envs : TalkOf(d)')
    BY <2>1, CallStepTurns, CallSoftResetTurns, CallFirstResetTurns, CallHardResetTurns,
       CallRaisesTurns, CallCloseTurns, CloseNothingTurns DEF Calls
  <2>2. ASSUME NEW e \in Envs, Progress(e)
        PROVE  (\A q \in Procs : TrafficOf(q)') /\ (\A d \in Envs : TalkOf(d)')
    BY <2>2, WaitCloseTurns, ListenTurns, AcceptTurns, ListenTimeoutTurns, InitFrameTurns,
       InitFrameRaisesTurns, ReceiveTurns, ReceiveFailsTurns, CloseWaitsTurns DEF Progress
  <2>3. ASSUME NEW p \in Procs, MtNext(p) \/ Crash(p) \/ Hang(p)
        PROVE  (\A q \in Procs : TrafficOf(q)') /\ (\A d \in Envs : TalkOf(d)')
    BY <2>3, MtConnectTurns, MtSendTurns, MtReceiveTurns, MtReceiveFailsTurns,
       CrashTurns, HangTurns DEF MtNext
  <2>4. CASE UNCHANGED vars
    <3>1. UNCHANGED <<toPy, toMt, mt, conn, connfd, fdTable, py>>
      BY <2>4 DEF vars, pyVars, mtVars, netVars
    <3>2. QED
      BY <3>1, UntouchedByProcess DEF Turns, TalkOf, Peer, Receiving
  <2>5. QED
    BY <2>1, <2>2, <2>3, <2>4 DEF Next
<1>3. QED
  BY <1>1, <1>2 DEF Turns

(* Between Python and each of its processes there is never more than one   *)
(* message, whatever fails: the strict alternation on which       *)
(* mt_channel.py and pyConnStep rely, neither numbering its messages.      *)
THEOREM OneMessageAtATime == Spec => []OneInFlight
<1>1. Turns => OneInFlight
  BY AtMostOne DEF Turns, IInv, OneInFlight
<1>2. QED
  BY <1>1, InitTurns, NextTurns, PTL DEF Spec

(* server_recv and pyConnStep's recv never block on each other.            *)
THEOREM NoMutualWait == Spec => []NeverBothWaiting
<1>1. Turns => NeverBothWaiting
  BY DEF Turns, TalkOf, NeverBothWaiting
<1>2. QED
  BY <1>1, InitTurns, NextTurns, PTL DEF Spec
-----------------------------------------------------------------------------
(* What the calls answer.                                                   *)

(* Whatever is under way between Python and process p, or p is working at, *)
(* bears one of the numbers.                                                *)
Carries(p, numbers) ==
  /\ toMt[p] # <<>> => Head(toMt[p]).action \in numbers
  /\ mt[p] = "running" => applied[p] \in numbers
  /\ toPy[p] # <<>> /\ Head(toPy[p]).whole => Head(toPy[p]).action \in numbers

(* A process nobody has accepted has heard nothing and was not heard; a    *)
(* torn observation is the last one.                                       *)
NumbersOf(p) ==
  /\ conn[p] \in {"none", "queued"} =>
       /\ p \notin heard /\ applied[p] = 0
       /\ toPy[p] # <<>> => Head(toPy[p]).action = 0
  /\ toPy[p] # <<>> /\ ~Head(toPy[p]).whole => mt[p] = "gone"

(* The process an environment talks to is new while it is being reset, and *)
(* then the one that answered the reset, unless it is gone with nothing    *)
(* left to read; and what is under way belongs to the call.                *)
AnswersOf(e) ==
  LET p == Peer(e) IN
  p # None =>
    /\ py[e] \in {"init", "reset"} => p \notin heard /\ Carries(p, {0, issued[e]})
    /\ py[e] \in {"step", "softReset"} => Carries(p, {issued[e]})
    /\ py[e] = "idle" => toPy[p] = <<>>
    /\ py[e] \in {"idle", "step", "softReset"} =>
         (p = source[e] /\ p \in heard) \/ (mt[p] = "gone" /\ toPy[p] = <<>>)

Recorded == DOMAIN source = Envs /\ issued \in [Envs -> Nat] /\ \A e \in Envs : issued[e] <= sends

Answers ==
  /\ Recorded
  /\ \A p \in Procs : NumbersOf(p)
  /\ \A e \in Envs : AnswersOf(e)

LEMMA AnswersInit == Init => Answers
<1> SUFFICES ASSUME Init PROVE Answers
  OBVIOUS
<1>1. Recorded /\ \A e \in Envs : Peer(e) = None
  BY DEF Init, Recorded, Peer
<1>2. \A p \in Procs : NumbersOf(p)
  BY DEF Init, NumbersOf
<1> QED
  BY <1>1, <1>2 DEF Answers, AnswersOf

(* Processes nobody has accepted are left alone by the calls.              *)
LEMMA NumbersKept ==
  ASSUME \A p \in Procs : NumbersOf(p), UNCHANGED applied,
         \A p \in Procs : conn'[p] \in {"none", "queued"} =>
           /\ conn[p] \in {"none", "queued"} /\ toPy'[p] = toPy[p]
           /\ p \in heard' => p \in heard,
         \A p \in Procs : toPy'[p] \in {toPy[p], <<>>} /\ (mt[p] = "gone" => mt'[p] = "gone")
  PROVE  \A p \in Procs : NumbersOf(p)'
<1> SUFFICES ASSUME NEW p \in Procs PROVE NumbersOf(p)'
  OBVIOUS
<1>1. NumbersOf(p)
  OBVIOUS
<1>2. CASE toPy'[p] = <<>>
  BY <1>1, <1>2 DEF NumbersOf
<1>3. CASE toPy'[p] = toPy[p]
  BY <1>1, <1>3 DEF NumbersOf
<1> QED
  BY <1>2, <1>3

(* An environment in no call, while another one's goes on.                 *)
LEMMA OtherAnswers ==
  ASSUME NEW d \in Envs, AnswersOf(d), ~Busy(d), py'[d] = py[d],
         Peer(d)' \in {Peer(d), None}, source'[d] = source[d], heard \subseteq heard',
         Peer(d) # None => /\ mt[Peer(d)] = "gone" => mt'[Peer(d)] = "gone"
                           /\ toPy'[Peer(d)] \in {toPy[Peer(d)], <<>>}
  PROVE  AnswersOf(d)'
<1> DEFINE p == Peer(d)
<1>1. CASE Peer(d)' = None
  BY <1>1 DEF AnswersOf
<1>2. CASE Peer(d)' # None
  <2>1. p' = p /\ p # None /\ py[d] \in {"idle", "closed"}
    BY <1>2 DEF Busy
  <2> QED
    BY <2>1 DEF AnswersOf
<1> QED
  BY <1>1, <1>2

(* The environment whose call ends, or that has no connection any more.    *)
LEMMA EndsWell ==
  ASSUME NEW e \in Envs, AnswersOf(e), py'[e] = "idle", Peer(e)' \in {Peer(e), None},
         Peer(e) # None => (py[e] = "idle" /\ UNCHANGED <<source, heard, mt, toPy>>)
                           \/ (mt'[Peer(e)] = "gone" /\ toPy'[Peer(e)] = <<>>)
  PROVE  AnswersOf(e)'
<1> DEFINE p == Peer(e)
<1>1. CASE Peer(e)' = None
  BY <1>1 DEF AnswersOf
<1>2. CASE Peer(e)' # None
  <2>1. p' = p /\ p # None
    BY <1>2
  <2> QED
    BY <2>1 DEF AnswersOf
<1> QED
  BY <1>1, <1>2

(* Together: a step of the call of e.                                       *)
LEMMA CallAnswers ==
  ASSUME Turns, Answers, NEW e \in Envs, Busy(e) \/ Callable(e),
         \A d \in Envs : d # e =>
           py'[d] = py[d] /\ Peer(d)' \in {Peer(d), None} /\ source'[d] = source[d],
         \A p \in Procs : conn'[p] \in {"none", "queued"} =>
           /\ conn[p] \in {"none", "queued"} /\ toPy'[p] = toPy[p]
           /\ p \in heard' => p \in heard,
         \A p \in Procs : toPy'[p] \in {toPy[p], <<>>} /\ (mt[p] = "gone" => mt'[p] = "gone"),
         UNCHANGED applied, heard \subseteq heard', Recorded', AnswersOf(e)'
  PROVE  Answers'
<1>1. \A p \in Procs : NumbersOf(p)'
  BY NumbersKept DEF Answers
<1>2. ASSUME NEW d \in Envs, d # e PROVE AnswersOf(d)'
  <2>1. ~Busy(d)
    BY <1>2, ActsAlone
  <2>2. Peer(d) \in Procs \union {None}
    BY PeerType DEF Turns, IInv
  <2> QED
    BY <1>2, <2>1, <2>2, OtherAnswers DEF Answers
<1> QED
  BY <1>1, <1>2 DEF Answers

(* Steps of an environment without a connection.                            *)
LEMMA ApartAnswers ==
  ASSUME Turns, Answers, NEW e \in Envs, Busy(e) \/ Callable(e), connfd[e] = None,
         UNCHANGED <<connfd, fdTable, conn, toPy, applied, source, heard, issued, sends>>,
         \A d \in Envs : d # e => py'[d] = py[d],
         \A p \in Procs : mt[p] = "gone" => mt'[p] = "gone"
  PROVE  Answers'
<1>1. \A d \in Envs : Peer(d)' = Peer(d)
  BY DEF Peer
<1>2. AnswersOf(e)' /\ Recorded'
  BY DEF Peer, AnswersOf, Recorded, Answers
<1> QED
  BY <1>1, <1>2, CallAnswers

LEMMA StartStays ==
  ASSUME Turns, NEW e \in Envs, StartProcess(e), started + 1 <= MaxProcs
  PROVE  \A p \in Procs : mt[p] = "gone" => mt'[p] = "gone"
<1>1. started' \in Procs /\ mt[started'] = "none"
  BY EnvAssumption DEF StartProcess, Procs, Turns, IInv, TypeOK, Processes
<1> QED
  BY <1>1 DEF StartProcess, Turns, IInv, TypeOK

LEMMA CallFirstResetAnswers ==
  ASSUME Turns, Answers, NEW e \in Envs, CallFirstReset(e)
  PROVE  Answers'
<1>1. started + 1 <= MaxProcs /\ StartProcess(e) /\ Callable(e) /\ connfd[e] = None
  BY DEF CallFirstReset, WithinBounds
<1>2. /\ UNCHANGED <<connfd, fdTable, conn, toPy, applied, source, heard, issued, sends>>
      /\ \A d \in Envs : d # e => py'[d] = py[d]
  BY DEF CallFirstReset, netVars, Goto, Turns, IInv, TypeOK
<1> QED
  BY <1>1, <1>2, StartStays, ApartAnswers

LEMMA WaitCloseAnswers ==
  ASSUME Turns, Answers, NEW e \in Envs, WaitClose(e)
  PROVE  Answers'
<1>1. started + 1 <= MaxProcs /\ StartProcess(e) /\ Busy(e) /\ connfd[e] = None
  BY DEF WaitClose, Busy, Turns, IInv, Budget, TalkOf
<1>2. /\ UNCHANGED <<connfd, fdTable, conn, toPy, applied, source, heard, issued, sends>>
      /\ \A d \in Envs : d # e => py'[d] = py[d]
  BY DEF WaitClose, netVars, history, Goto, Turns, IInv, TypeOK
<1> QED
  BY <1>1, <1>2, StartStays, ApartAnswers

LEMMA QuietAnswers ==
  ASSUME Turns, Answers, NEW e \in Envs,
         Listen(e) \/ ListenTimeout(e) \/ CloseWaits(e) \/ CloseNothing(e)
  PROVE  Answers'
<1>1. (Busy(e) \/ Callable(e)) /\ connfd[e] = None
  BY DEF Listen, ListenTimeout, CloseWaits, CloseNothing, Busy, Turns, TalkOf
<1>2. /\ UNCHANGED <<connfd, fdTable, conn, toPy, applied, source, heard, issued, sends, mt>>
      /\ \A d \in Envs : d # e => py'[d] = py[d]
  BY DEF Listen, ListenTimeout, CloseWaits, CloseNothing, netVars, mtVars, history, Ends, Goto,
     Turns, IInv, TypeOK
<1> QED
  BY <1>1, <1>2, ApartAnswers

LEMMA CallRaisesAnswers ==
  ASSUME Turns, Answers, NEW e \in Envs, CallRaises(e)
  PROVE  Answers'
<1>1. UNCHANGED <<connfd, fdTable, conn, toPy, toMt, applied, source, heard, issued, sends, mt, py>>
  BY DEF CallRaises, netVars, mtVars, pyVars
<1> QED
  BY <1>1 DEF Answers, Recorded, NumbersOf, AnswersOf, Peer, Carries

(* A descriptor that is closed is nobody's any more.                        *)
LEMMA FdClosed ==
  ASSUME TypeOK, NEW e \in Envs, connfd[e] # None, NEW d \in Envs, connfd'[d] = connfd[d],
         fdTable' = [fdTable EXCEPT ![connfd[e]] = None]
  PROVE  Peer(d)' \in {Peer(d), None}
<1>1. connfd[e] \in Fds /\ connfd[d] \in Fds \union {None} /\ fdTable \in [Fds -> Procs \union {None}]
  BY DEF TypeOK
<1> QED
  BY <1>1 DEF Peer

LEMMA HangupLeaves ==
  ASSUME TypeOK, NEW ps, Hangup(ps)
  PROVE  \A p \in Procs :
           /\ toPy'[p] \in {toPy[p], <<>>}
           /\ conn'[p] \in {"none", "queued"} => conn[p] \in {"none", "queued"} /\ toPy'[p] = toPy[p]
<1> SUFFICES ASSUME NEW p \in Procs
             PROVE  /\ toPy'[p] \in {toPy[p], <<>>}
                    /\ conn'[p] \in {"none", "queued"} =>
                         conn[p] \in {"none", "queued"} /\ toPy'[p] = toPy[p]
  OBVIOUS
<1>1. conn'[p] = (IF p \notin ps THEN conn[p] ELSE IF toPy[p] = <<>> THEN "closed" ELSE "reset")
      /\ toPy'[p] = (IF p \in ps THEN <<>> ELSE toPy[p])
  BY DEF Hangup
<1> QED
  BY <1>1

LEMMA HangupAnswers ==
  ASSUME Turns, Answers, NEW e \in Envs, CallHardReset(e) \/ CallClose(e)
  PROVE  Answers'
<1>1. /\ Callable(e) /\ connfd[e] # None /\ (\E ps : Hangup(ps)) /\ CloseDescriptor(e)
      /\ UNCHANGED <<applied, source, heard, issued, sends, mt>>
      /\ py' = [py EXCEPT ![e] = py'[e]]
  BY DEF CallHardReset, CallClose, KillAndHangup, mtVars, Goto, Turns, IInv, TypeOK
<1>2. \A d \in Envs : d # e => py'[d] = py[d] /\ connfd'[d] = connfd[d]
  BY <1>1 DEF CloseDescriptor, Turns, IInv, TypeOK
<1>3. \A d \in Envs : d # e => Peer(d)' \in {Peer(d), None}
  BY <1>1, <1>2, FdClosed DEF CloseDescriptor, Turns, IInv
<1>4. AnswersOf(e)' /\ Recorded'
  BY <1>1 DEF CloseDescriptor, AnswersOf, Peer, Answers, Recorded, Turns, IInv, TypeOK
<1>5. \A p \in Procs :
        /\ toPy'[p] \in {toPy[p], <<>>}
        /\ conn'[p] \in {"none", "queued"} => conn[p] \in {"none", "queued"} /\ toPy'[p] = toPy[p]
  BY <1>1, HangupLeaves DEF Turns, IInv
<1> QED
  BY <1>1, <1>2, <1>3, <1>4, <1>5, CallAnswers

LEMMA ReceiveFailsAnswers ==
  ASSUME Turns, Answers, NEW e \in Envs, ReceiveFails(e)
  PROVE  Answers'
<1>1. Busy(e) /\ UNCHANGED <<applied, source, heard, issued, sends, mt, toPy, connfd>>
      /\ Peer(e) \in Procs \union {None}
      /\ (Peer(e) # None => mt[Peer(e)] = "gone" /\ toPy[Peer(e)] = <<>>)
  BY PeerType DEF ReceiveFails, Receiving, HasObservation, Busy, mtVars, Turns, IInv
<1>2. py'[e] = "idle" /\ \A d \in Envs : d # e => py'[d] = py[d]
  BY DEF ReceiveFails, Ends, Goto, Turns, IInv, TypeOK
<1>3. \A d \in Envs : Peer(d)' \in {Peer(d), None}
  <2>1. CASE UNCHANGED fdTable
    BY <1>1, <2>1 DEF Peer
  <2>2. CASE ~UNCHANGED fdTable
    <3>1. connfd[e] # None /\ fdTable' = [fdTable EXCEPT ![connfd[e]] = None]
      BY <2>2 DEF ReceiveFails, Peer
    <3> QED
      BY <1>1, <3>1, FdClosed DEF Turns, IInv
  <2> QED
    BY <2>1, <2>2
<1>4. AnswersOf(e)' /\ Recorded'
  BY <1>1, <1>2, <1>3, EndsWell DEF Answers, Recorded
<1>5. \A p \in Procs : conn'[p] \in {"none", "queued"} => conn[p] \in {"none", "queued"}
  BY DEF ReceiveFails, Turns, IInv, TypeOK
<1> QED
  BY <1>1, <1>2, <1>3, <1>4, <1>5, CallAnswers

(* The observation a call reads is the only message.                        *)
LEMMA OnlyMessage ==
  ASSUME Turns, NEW e \in Envs, HasObservation(e), NEW list, list = toPy[Peer(e)]
  PROVE  /\ Peer(e) \in Procs /\ Peer(e) # None /\ connfd[e] # None
         /\ conn[Peer(e)] = "open" /\ toMt[Peer(e)] = <<>>
         /\ mt[Peer(e)] \in {"gone", "waiting"}
         /\ Tail(list) = <<>>
         /\ Head(list) \in Observations
<1> DEFINE p == Peer(e)
<1>1. p \in Procs /\ p # None /\ connfd[e] # None /\ conn[p] = "open" /\ list # <<>> /\ TrafficOf(p)
  BY PeerType DEF HasObservation, Peer, Turns, IInv, TalkOf
<1>2. list \in Seq(Observations) /\ Len(list) \in Nat /\ Len(list) # 0
  BY <1>1, Lengths DEF Turns, IInv
<1>3. Len(list) \in {0, 1} /\ toMt[p] = <<>> /\ mt[p] # "running"
  BY <1>1 DEF TrafficOf
<1>4. Head(list) \in Observations
  BY <1>1, <1>2, HeadTailProperties
<1>5. Tail(list) = <<>>
  BY <1>2, <1>3, <1>4, OneEach
<1>6. mt[p] \in {"gone", "waiting"}
  BY <1>1, <1>3 DEF Turns, TrafficOf, IInv, Processes, TypeOK
<1> QED
  BY <1>1, <1>3, <1>4, <1>5, <1>6

LEMMA ReadsOne ==
  ASSUME Turns, NEW e \in Envs, HasObservation(e), toPy' = [toPy EXCEPT ![Peer(e)] = Tail(@)]
  PROVE  toPy'[Peer(e)] = <<>> /\ \A p \in Procs : p # Peer(e) => toPy'[p] = toPy[p]
<1>1. Peer(e) \in Procs /\ Tail(toPy[Peer(e)]) = <<>>
  BY OnlyMessage
<1>2. toPy \in [Procs -> Seq(Observations)]
  BY DEF Turns, IInv, TypeOK, Observations
<1> QED
  BY <1>1, <1>2

LEMMA InitFrameRaisesAnswers ==
  ASSUME Turns, Answers, NEW e \in Envs, InitFrameRaises(e)
  PROVE  Answers'
<1>1. /\ Busy(e) /\ UNCHANGED <<applied, source, heard, issued, sends, mt, conn, connfd, fdTable>>
      /\ HasObservation(e) /\ toPy' = [toPy EXCEPT ![Peer(e)] = Tail(@)]
      /\ mt[Peer(e)] = "gone"
  BY DEF InitFrameRaises, CanFailToSend, HasObservation, Busy, mtVars
<1>2. toPy'[Peer(e)] = <<>> /\ (\A p \in Procs : p # Peer(e) => toPy'[p] = toPy[p])
      /\ conn[Peer(e)] = "open"
  BY <1>1, ReadsOne, OnlyMessage
<1>3. py'[e] = "idle" /\ \A d \in Envs : d # e => py'[d] = py[d]
  BY DEF InitFrameRaises, Ends, Goto, Turns, IInv, TypeOK
<1>4. \A d \in Envs : Peer(d)' = Peer(d)
  BY <1>1 DEF Peer
<1>5. AnswersOf(e)' /\ Recorded'
  BY <1>1, <1>2, <1>3, <1>4, EndsWell DEF Answers, Recorded
<1> QED
  BY <1>1, <1>2, <1>3, <1>4, <1>5, CallAnswers

LEMMA ReceiveAnswers ==
  ASSUME Turns, Answers, NEW e \in Envs, Receive(e)
  PROVE  Answers'
<1> DEFINE p == Peer(e)
           obs == Head(toPy[p])
<1>1. /\ Busy(e) /\ UNCHANGED <<applied, issued, sends, mt, conn, connfd, fdTable>>
      /\ HasObservation(e) /\ toPy' = [toPy EXCEPT ![p] = Tail(@)]
      /\ py[e] \in {"reset", "softReset", "step"}
      /\ source' = (IF py[e] = "reset" /\ obs.whole THEN [source EXCEPT ![e] = p] ELSE source)
      /\ heard' = (IF obs.whole THEN heard \union {p} ELSE heard)
  BY DEF Receive, Busy, mtVars
<1>2. toPy'[p] = <<>> /\ (\A q \in Procs : q # p => toPy'[q] = toPy[q])
      /\ conn[p] = "open" /\ p \in Procs /\ p # None /\ toPy[p] # <<>>
  BY <1>1, ReadsOne, OnlyMessage DEF HasObservation
<1>3. py'[e] = "idle" /\ \A d \in Envs : d # e => py'[d] = py[d]
  BY DEF Receive, Ends, Goto, Turns, IInv, TypeOK
<1>4. \A d \in Envs : Peer(d)' = Peer(d)
  BY <1>1 DEF Peer
<1>5. (source'[e] = p /\ p \in heard') \/ mt'[p] = "gone"
  <2>1. CASE ~obs.whole
    BY <1>1, <1>2, <2>1 DEF Answers, NumbersOf
  <2>2. CASE obs.whole /\ py[e] = "reset"
    <3>1. e \in DOMAIN source
      BY DEF Answers, Recorded
    <3> QED
      BY <1>1, <2>2, <3>1
  <2>3. CASE obs.whole /\ py[e] # "reset"
    BY <1>1, <1>2, <2>3 DEF Answers, AnswersOf
  <2> QED
    BY <2>1, <2>2, <2>3
<1>6. AnswersOf(e)' /\ Recorded'
  BY <1>1, <1>2, <1>3, <1>4, <1>5 DEF AnswersOf, Answers, Recorded
<1>7. \A d \in Envs : d # e => source'[d] = source[d]
  BY <1>1
<1> HIDE DEF p
<1> QED
  BY <1>1, <1>2, <1>3, <1>4, <1>6, <1>7, CallAnswers

(* The number of the action that is sent is new, and alone under way.       *)
LEMMA SendsNext ==
  ASSUME Turns, Answers, NEW e \in Envs, SendAction(e), sends + 1 <= MaxSends,
         toMt[Peer(e)] = <<>>, mt[Peer(e)] \in {"gone", "waiting"}
  PROVE  /\ Recorded' <=> DOMAIN source' = Envs
         /\ issued'[e] = sends' /\ issued[e] < sends'
         /\ \A d \in Envs : d # e => issued'[d] = issued[d]
         /\ toMt'[Peer(e)] # <<>> => Head(toMt'[Peer(e)]).action = issued'[e]
<1> DEFINE p == Peer(e)
           message == [action |-> sends', kill |-> FALSE]
<1>0. p \in Procs /\ Deliver(p, message) /\ sends' = sends + 1 /\ issued' = [issued EXCEPT ![e] = sends']
  BY PeerType DEF SendAction, CanSend, Turns, IInv
<1>1. /\ sends \in Nat /\ sends' \in Nat /\ issued \in [Envs -> Nat]
      /\ \A d \in Envs : issued[d] <= sends
  BY <1>0 DEF Turns, IInv, TypeOK, Answers, Recorded
<1>2. issued' \in [Envs -> Nat] /\ issued'[e] = sends' /\ issued[e] < sends'
      /\ (\A d \in Envs : d # e => issued'[d] = issued[d])
  BY <1>0, <1>1
<1>3. \A d \in Envs : issued'[d] <= sends'
  BY <1>0, <1>1, <1>2
<1>4. message \in Message
  BY <1>0, <1>1, EnvAssumption DEF Message
<1>5. Append(<<>>, message) = <<message>> /\ Head(<<message>>) = message
  OBVIOUS
<1>6. toMt \in [Procs -> Seq(Message)]
  BY DEF Turns, IInv, TypeOK, Message
<1>7. mt[p] = "gone" => toMt' = toMt
  BY <1>0 DEF Deliver
<1>8. mt[p] # "gone" => toMt'[p] = Append(toMt[p], message)
  BY <1>0, <1>6 DEF Deliver
<1>9. toMt'[p] = <<>> \/ toMt'[p] = <<message>>
  BY <1>5, <1>7, <1>8
<1> QED
  BY <1>2, <1>3, <1>5, <1>9 DEF Recorded

(* A call that has sent its action and waits for the answer.                *)
LEMMA WaitsForIt ==
  ASSUME NEW e \in Envs, NEW p, Peer(e)' = p, mt'[p] # "running", toPy'[p] = <<>>,
         toMt'[p] # <<>> => Head(toMt'[p]).action = issued'[e]
  PROVE  /\ py'[e] \in {"step", "softReset"} /\ p = source'[e] /\ p \in heard' => AnswersOf(e)'
         /\ py'[e] \in {"step", "softReset"} /\ mt'[p] = "gone" => AnswersOf(e)'
         /\ py'[e] \in {"init", "reset"} /\ p \notin heard' => AnswersOf(e)'
BY DEF AnswersOf, Carries

LEMMA CallSendsAnswers ==
  ASSUME Turns, Answers, NEW e \in Envs, CallStep(e) \/ CallSoftReset(e)
  PROVE  Answers'
<1>1. /\ Callable(e) /\ SendAction(e) /\ CanSend(e) /\ sends + 1 <= MaxSends
      /\ UNCHANGED <<applied, mt, conn, connfd, fdTable, toPy, source, heard>>
      /\ py' = [py EXCEPT ![e] = py'[e]] /\ py'[e] \in {"step", "softReset"}
  BY DEF CallStep, CallSoftReset, SendAction, WithinBounds, Goto, mtVars, Turns, IInv, TypeOK
<1>2. PICK p \in Procs : p = Peer(e) /\ p # None /\ conn[p] = "open" /\ AtRest(p) /\ TrafficOf(p)
  BY <1>1, ActsAlone, PeerType DEF CanSend, Turns, IInv, TalkOf
<1>3. mt[p] \in {"gone", "waiting"} /\ toMt[p] = <<>>
  BY <1>2 DEF AtRest, TrafficOf
<1>4. Recorded' /\ (toMt'[p] # <<>> => Head(toMt'[p]).action = issued'[e])
  BY <1>1, <1>2, <1>3, SendsNext DEF Answers, Recorded
<1>5. \A d \in Envs : Peer(d)' = Peer(d)
  BY <1>1 DEF Peer
<1>6. toPy[p] = <<>> /\ ((p = source[e] /\ p \in heard) \/ mt[p] = "gone")
  BY <1>1, <1>2 DEF Answers, AnswersOf, Callable
<1>7. AnswersOf(e)'
  BY <1>1, <1>2, <1>3, <1>4, <1>5, <1>6, WaitsForIt
<1>8. \A d \in Envs : d # e => py'[d] = py[d]
  BY <1>1 DEF Turns, IInv, TypeOK
<1> QED
  BY <1>1, <1>4, <1>5, <1>7, <1>8, CallAnswers

LEMMA InitFrameAnswers ==
  ASSUME Turns, Answers, NEW e \in Envs, InitFrame(e)
  PROVE  Answers'
<1>1. /\ Busy(e) /\ SendAction(e) /\ HasObservation(e) /\ toPy' = [toPy EXCEPT ![Peer(e)] = Tail(@)]
      /\ UNCHANGED <<applied, mt, conn, connfd, fdTable, source, heard>>
      /\ py[e] = "init" /\ py'[e] \in {"init", "reset"} /\ \A d \in Envs : d # e => py'[d] = py[d]
  BY DEF InitFrame, Busy, Goto, mtVars, Turns, IInv, TypeOK
<1>2. sends + 1 <= MaxSends
  <2>1. sends \in Nat /\ initLeft[e] \in Nat /\ sends + initLeft[e] <= MaxSends /\ initLeft[e] > 0
        /\ MaxSends \in Nat
    BY <1>1, EnvAssumption DEF Turns, IInv, TypeOK, Budget
  <2> QED
    BY <2>1
<1>3. PICK p \in Procs : /\ p = Peer(e) /\ p # None /\ conn[p] = "open" /\ toMt[p] = <<>>
                         /\ mt[p] \in {"gone", "waiting"}
  BY <1>1, OnlyMessage
<1>4. toPy'[p] = <<>> /\ \A q \in Procs : q # p => toPy'[q] = toPy[q]
  BY <1>1, <1>3, ReadsOne
<1>5. Recorded' /\ (toMt'[p] # <<>> => Head(toMt'[p]).action = issued'[e])
  BY <1>1, <1>2, <1>3, SendsNext DEF Answers, Recorded
<1>6. \A d \in Envs : Peer(d)' = Peer(d)
  BY <1>1 DEF Peer
<1>7. p \notin heard
  BY <1>1, <1>3 DEF Answers, AnswersOf
<1>8. AnswersOf(e)'
  BY <1>1, <1>3, <1>4, <1>5, <1>6, <1>7, WaitsForIt
<1> QED
  BY <1>1, <1>3, <1>4, <1>5, <1>6, <1>8, CallAnswers

LEMMA AcceptAnswers ==
  ASSUME Turns, Answers, NEW e \in Envs, Accept(e), OnlyOwnConnection'
  PROVE  Answers'
<1>1. PICK p \in Procs : p = Head(backlog[e]) /\ conn[p] = "queued" /\ owner[p] = e
  <2>1. backlog[e] \in Seq(Procs) /\ backlog[e] # <<>> /\ 1 \in 1 .. Len(backlog[e])
        /\ Head(backlog[e]) = backlog[e][1]
    BY DEF Accept, Turns, IInv, TypeOK
  <2> QED
    BY <2>1 DEF Turns, IInv, Queues
<1>2. LowestFree \in Fds /\ Busy(e)
  BY <1>1, LowestFreeExists DEF Accept, Busy, Turns, IInv
<1>3. /\ UNCHANGED <<toPy, toMt, mt, applied, source, heard, issued, sends, owner>>
      /\ py'[e] \in {"reset", "init"} /\ (\A d \in Envs : d # e => py'[d] = py[d])
      /\ connfd' = [connfd EXCEPT ![e] = LowestFree] /\ fdTable' = [fdTable EXCEPT ![LowestFree] = p]
      /\ conn' = [conn EXCEPT ![p] = "open"]
  BY <1>1 DEF Accept, Goto, mtVars, history, Turns, IInv, TypeOK
<1>4. connfd'[e] = LowestFree /\ fdTable'[LowestFree] = p /\ p # None
      /\ (\A d \in Envs : d # e => connfd'[d] = connfd[d])
      /\ \A f \in Fds : f # LowestFree => fdTable'[f] = fdTable[f]
  BY <1>2, <1>3 DEF Turns, IInv, TypeOK, Procs, None
<1>5. Peer(e)' = p
  BY <1>2, <1>4 DEF Peer, Fds, None
<1>6. ASSUME NEW d \in Envs, d # e PROVE Peer(d)' = Peer(d)
  <2>1. connfd[d] \in Fds \union {None}
    BY DEF Turns, IInv, TypeOK
  <2>2. Peer(d)' # p
    BY <1>1, <1>3, <1>4, <1>6 DEF OnlyOwnConnection
  <2> QED
    BY <1>4, <1>6, <2>1, <2>2 DEF Peer
<1>7. p \notin heard /\ applied[p] = 0 /\ (toPy[p] # <<>> => Head(toPy[p]).action = 0) /\ toMt[p] = <<>>
  BY <1>1 DEF Answers, NumbersOf, Turns, TrafficOf
<1>8. AnswersOf(e)'
  BY <1>3, <1>5, <1>7 DEF AnswersOf, Carries
<1>9. Recorded'
  BY <1>3 DEF Answers, Recorded
<1>10. \A q \in Procs : conn'[q] \in {"none", "queued"} => conn[q] \in {"none", "queued"}
  BY <1>3 DEF Turns, IInv, TypeOK
<1> QED
  BY <1>2, <1>3, <1>6, <1>8, <1>9, <1>10, CallAnswers

(* A process answers with the number it was sent.                           *)
LEMMA ProcessCarries ==
  ASSUME Turns, Answers, NEW p \in Procs, MtNext(p) \/ Crash(p) \/ Hang(p),
         conn[p] = "open", NEW CONSTANT numbers, Carries(p, numbers)
  PROVE  Carries(p, numbers)'
<1>1. /\ toPy \in [Procs -> Seq(Observations)] /\ toMt \in [Procs -> Seq(Message)]
      /\ mt \in [Procs -> {"none", "starting", "running", "waiting", "gone", "hung"}]
      /\ applied \in [Procs -> 0 .. MaxSends]
      /\ TrafficOf(p)
  BY DEF Turns, IInv, TypeOK, Observations, Message
<1>2. CASE MtSend(p)
  <2>1. /\ toPy[p] = <<>> /\ toMt[p] = <<>> /\ mt[p] = "running" /\ applied[p] \in numbers
    BY <1>1, <1>2 DEF MtSend, TrafficOf, Carries
  <2>2. /\ toPy'[p] = Append(<<>>, [action |-> applied[p], whole |-> TRUE])
        /\ mt'[p] = "waiting" /\ toMt'[p] = <<>>
    BY <1>1, <1>2, <2>1 DEF MtSend, Become
  <2>3. toPy'[p] = <<[action |-> applied[p], whole |-> TRUE]>>
    BY <2>2
  <2>4. Head(toPy'[p]).action = applied[p]
    BY <2>3
  <2> QED
    BY <2>1, <2>2, <2>4 DEF Carries
<1>3. CASE MtReceive(p)
  <2>1. toPy[p] = <<>> /\ toMt[p] # <<>> /\ toPy' = toPy
    BY <1>1, <1>3 DEF MtReceive, TrafficOf
  <2>2. Tail(toMt[p]) = <<>>
    <3>1. Len(toMt[p]) = 1
      BY <1>1, <2>1, Lengths DEF TrafficOf, Turns, IInv
    <3>2. Head(toMt[p]) \in Message /\ toMt[p] \in Seq(Message)
      BY <1>1, <2>1, HeadTailProperties
    <3> QED
      BY <3>1, <3>2, OneEach
  <2>3. toMt'[p] = <<>> /\ (mt'[p] = "running" => applied'[p] = Head(toMt[p]).action)
    BY <1>1, <1>3, <2>2 DEF MtReceive, Become
  <2> QED
    BY <2>1, <2>3 DEF Carries
<1>4. CASE Crash(p)
  <2>1. toMt'[p] = <<>> /\ mt'[p] = "gone"
    BY <1>1, <1>4 DEF Crash, Become
  <2>2. CASE toPy' = toPy
    BY <2>1, <2>2 DEF Carries
  <2>3. CASE toPy' # toPy
    <3>1. mt[p] = "running" /\ toPy' = [toPy EXCEPT ![p] = Append(@, [action |-> 0, whole |-> FALSE])]
      BY <1>4, <2>3 DEF Crash
    <3>2. toPy[p] = <<>>
      BY <1>1, <3>1 DEF TrafficOf
    <3>3. toPy'[p] = Append(<<>>, [action |-> 0, whole |-> FALSE])
      BY <1>1, <3>1, <3>2
    <3>4. toPy'[p] = <<[action |-> 0, whole |-> FALSE]>>
      BY <3>3
    <3>5. ~Head(toPy'[p]).whole
      BY <3>4
    <3> QED
      BY <2>1, <3>5 DEF Carries
  <2> QED
    BY <2>2, <2>3
<1>5. ~MtReceiveFails(p) /\ ~MtConnect(p)
  BY DEF MtReceiveFails, MtConnect, Turns, IInv, Processes
<1>6. CASE Hang(p)
  <2>1. UNCHANGED <<toPy, toMt>> /\ mt'[p] = "hung"
    BY <1>1, <1>6 DEF Hang, Become, netVars
  <2> QED
    BY <2>1 DEF Carries
<1> QED
  BY <1>2, <1>3, <1>4, <1>5, <1>6 DEF MtNext

LEMMA ProcessNumbers ==
  ASSUME Turns, Answers, NEW p \in Procs, MtNext(p) \/ Crash(p) \/ Hang(p)
  PROVE  NumbersOf(p)'
<1>1. /\ toPy \in [Procs -> Seq(Observations)]
      /\ mt \in [Procs -> {"none", "starting", "running", "waiting", "gone", "hung"}]
      /\ conn \in [Procs -> {"none", "queued", "open", "closed", "reset"}]
      /\ TrafficOf(p) /\ NumbersOf(p)
  BY DEF Turns, IInv, TypeOK, Observations, Answers
<1>2. UNCHANGED heard
  BY DEF MtNext, MtConnect, MtSend, MtReceive, MtReceiveFails, Crash, Hang, history
<1>3. CASE MtSend(p)
  <2>1. /\ toPy[p] = <<>> /\ mt[p] = "running" /\ UNCHANGED applied
    BY <1>1, <1>3 DEF MtSend, TrafficOf
  <2>2. CASE conn[p] \in {"queued", "open"}
    <3>1. /\ toPy'[p] = Append(<<>>, [action |-> applied[p], whole |-> TRUE]) /\ conn' = conn
      BY <1>1, <1>3, <2>1, <2>2 DEF MtSend
    <3>2. toPy'[p] = <<[action |-> applied[p], whole |-> TRUE]>>
      BY <3>1
    <3>3. Head(toPy'[p]).whole /\ Head(toPy'[p]).action = applied[p]
      BY <3>2
    <3> QED
      BY <1>1, <1>2, <2>1, <3>1, <3>3 DEF NumbersOf
  <2>3. CASE conn[p] \notin {"queued", "open"}
    <3>1. toPy'[p] = <<>> /\ conn'[p] \notin {"none", "queued"}
      BY <1>1, <1>3, <2>1, <2>3 DEF MtSend
    <3> QED
      BY <3>1 DEF NumbersOf
  <2> QED
    BY <2>2, <2>3
<1>4. CASE MtReceive(p)
  <2>1. toMt[p] # <<>> /\ toPy' = toPy /\ conn' = conn
    BY <1>4 DEF MtReceive
  <2>2. conn[p] \notin {"none", "queued"} /\ toPy[p] = <<>>
    BY <1>1, <2>1 DEF TrafficOf
  <2> QED
    BY <2>1, <2>2 DEF NumbersOf
<1>5. CASE Crash(p)
  <2>1. mt'[p] = "gone" /\ conn' = conn /\ applied' = applied
    BY <1>1, <1>5 DEF Crash, Become
  <2>2. CASE toPy' = toPy
    BY <1>1, <1>2, <2>1, <2>2 DEF NumbersOf
  <2>3. CASE toPy' # toPy
    <3>1. mt[p] = "running" /\ toPy' = [toPy EXCEPT ![p] = Append(@, [action |-> 0, whole |-> FALSE])]
      BY <1>5, <2>3 DEF Crash
    <3>2. toPy[p] = <<>>
      BY <1>1, <3>1 DEF TrafficOf
    <3>3. toPy'[p] = Append(<<>>, [action |-> 0, whole |-> FALSE])
      BY <1>1, <3>1, <3>2
    <3>4. toPy'[p] = <<[action |-> 0, whole |-> FALSE]>>
      BY <3>3
    <3>5. Head(toPy'[p]).action = 0
      BY <3>4
    <3> QED
      BY <1>1, <1>2, <2>1, <3>5 DEF NumbersOf
  <2> QED
    BY <2>2, <2>3
<1>6. CASE MtReceiveFails(p)
  <2>1. UNCHANGED <<toPy, applied, conn>> /\ mt[p] # "gone" /\ conn[p] \in {"closed", "reset"}
    BY <1>6 DEF MtReceiveFails, netVars
  <2>2. toPy[p] = <<>>
    BY <1>1, <2>1 DEF TrafficOf
  <2> QED
    BY <2>1, <2>2 DEF NumbersOf
<1>7. CASE MtConnect(p)
  <2>1. UNCHANGED <<toPy, applied>> /\ conn[p] = "none" /\ mt[p] # "gone"
    BY <1>7 DEF MtConnect, Turns, IInv, Processes
  <2>2. toPy[p] = <<>>
    BY <1>1, <2>1 DEF TrafficOf
  <2> QED
    BY <1>1, <1>2, <2>1, <2>2 DEF NumbersOf
<1>8. CASE Hang(p)
  <2>1. UNCHANGED <<toPy, applied, conn>> /\ mt[p] # "gone"
    BY <1>8 DEF Hang, netVars
  <2>2. toPy[p] = <<>>
    BY <1>1, <1>8 DEF TrafficOf, Hang, Turns, IInv, Processes
  <2> QED
    BY <1>1, <1>2, <2>1, <2>2 DEF NumbersOf
<1> QED
  BY <1>3, <1>4, <1>5, <1>6, <1>7, <1>8 DEF MtNext

LEMMA ProcessAnswers ==
  ASSUME Turns, Answers, OnlyOwnConnection, NEW p \in Procs, MtNext(p) \/ Crash(p) \/ Hang(p)
  PROVE  Answers'
<1>1. /\ UNCHANGED <<py, connfd, fdTable, source, heard, issued, sends>>
      /\ \A q \in Procs : q # p =>
           /\ mt'[q] = mt[q] /\ toPy'[q] = toPy[q] /\ toMt'[q] = toMt[q]
           /\ applied'[q] = applied[q] /\ conn'[q] = conn[q]
  <2>1. CASE MtConnect(p)
    BY <2>1 DEF MtConnect, Become, pyVars, history, Turns, IInv, TypeOK
  <2>2. CASE MtSend(p)
    BY <2>2 DEF MtSend, Become, pyVars, history, Turns, IInv, TypeOK
  <2>3. CASE MtReceive(p)
    BY <2>3 DEF MtReceive, Become, pyVars, history, Turns, IInv, TypeOK
  <2>4. CASE MtReceiveFails(p)
    BY <2>4 DEF MtReceiveFails, Become, pyVars, netVars, history, Turns, IInv, TypeOK
  <2>5. CASE Crash(p)
    BY <2>5 DEF Crash, Become, pyVars, history, Turns, IInv, TypeOK
  <2>6. CASE Hang(p)
    BY <2>6 DEF Hang, Become, pyVars, netVars, history, Turns, IInv, TypeOK
  <2> QED
    BY <2>1, <2>2, <2>3, <2>4, <2>5, <2>6 DEF MtNext
<1>2. ASSUME NEW q \in Procs PROVE NumbersOf(q)'
  <2>1. CASE q = p
    BY <2>1, ProcessNumbers
  <2>2. CASE q # p
    BY <1>1, <2>2 DEF Answers, NumbersOf
  <2> QED
    BY <2>1, <2>2
<1>3. ASSUME NEW e \in Envs PROVE AnswersOf(e)'
  <2>1. Peer(e)' = Peer(e) /\ Peer(e) \in Procs \union {None} /\ AnswersOf(e)
    BY <1>1, PeerType DEF Peer, Turns, IInv, Answers
  <2>2. CASE Peer(e) # p
    <3>1. CASE Peer(e) = None
      BY <2>1, <3>1 DEF AnswersOf
    <3>2. CASE Peer(e) # None
      <4>1. PICK q \in Procs : q = Peer(e) /\ q # p
        BY <2>1, <2>2, <3>2
      <4> QED
        BY <1>1, <2>1, <4>1 DEF AnswersOf, Carries
    <3> QED
      BY <3>1, <3>2
  <2>3. CASE Peer(e) = p
    <3>1. conn[p] = "open" /\ p # None /\ TrafficOf(p)
      BY <2>3 DEF Turns, TalkOf, Procs, None
    <3>2. PICK n : n = issued[e]
      OBVIOUS
    <3>3. \A numbers : Carries(p, numbers) => Carries(p, numbers)'
      BY <3>1, ProcessCarries
    <3>4. py[e] = "idle" => toPy'[p] = <<>>
      <4> SUFFICES ASSUME py[e] = "idle" PROVE toPy'[p] = <<>>
        OBVIOUS
      <4>1. \A d \in Envs : Peer(d) = p => d = e
        BY <2>3, <3>1 DEF OnlyOwnConnection
      <4>2. AtRest(p)
        BY <3>1, <4>1 DEF TrafficOf, Busy
      <4>3. toPy[p] = <<>>
        BY <2>1, <2>3, <3>1 DEF AnswersOf
      <4>4. toPy' = toPy
        <5>1. mt[p] \notin {"starting", "running"} /\ (mt[p] = "waiting" => toMt[p] = <<>>)
          BY <4>2 DEF AtRest
        <5> QED
          BY <3>1, <5>1 DEF MtNext, MtConnect, MtSend, MtReceive, MtReceiveFails, Crash, Hang
      <4> QED
        BY <4>3, <4>4
    <3>5. mt[p] # "gone"
      BY DEF MtNext, MtConnect, MtSend, MtReceive, MtReceiveFails, Crash, Hang
    <3>6. /\ py[e] \in {"init", "reset"} => p \notin heard /\ Carries(p, {0, n})
          /\ py[e] \in {"step", "softReset"} => Carries(p, {n})
          /\ py[e] \in {"idle", "step", "softReset"} => p = source[e] /\ p \in heard
      BY <2>1, <2>3, <3>1, <3>2, <3>5 DEF AnswersOf
    <3>7. /\ Peer(e)' = p /\ UNCHANGED <<py, source, heard>> /\ issued'[e] = n
      BY <1>1, <2>1, <2>3, <3>2
    <3>8. /\ py[e] \in {"init", "reset"} => Carries(p, {0, n})'
          /\ py[e] \in {"step", "softReset"} => Carries(p, {n})'
      BY <3>3, <3>6
    <3> QED
      BY <3>4, <3>6, <3>7, <3>8 DEF AnswersOf, Carries
  <2> QED
    BY <2>2, <2>3
<1> QED
  BY <1>1, <1>2, <1>3 DEF Answers, Recorded

LEMMA AnswersNext ==
  Turns /\ Answers /\ OnlyOwnConnection /\ OnlyOwnConnection' /\ [Next]_vars => Answers'
<1> SUFFICES ASSUME Turns, Answers, OnlyOwnConnection, OnlyOwnConnection', [Next]_vars
             PROVE  Answers'
  OBVIOUS
<1>1. ASSUME NEW e \in Envs, Calls(e) PROVE Answers'
  BY <1>1, CallSendsAnswers, CallFirstResetAnswers, HangupAnswers, CallRaisesAnswers,
     QuietAnswers DEF Calls
<1>2. ASSUME NEW e \in Envs, Progress(e) PROVE Answers'
  BY <1>2, WaitCloseAnswers, QuietAnswers, AcceptAnswers, InitFrameAnswers,
     InitFrameRaisesAnswers, ReceiveAnswers, ReceiveFailsAnswers DEF Progress
<1>3. ASSUME NEW p \in Procs, MtNext(p) \/ Crash(p) \/ Hang(p) PROVE Answers'
  BY <1>3, ProcessAnswers
<1>4. CASE UNCHANGED vars
  <2>1. UNCHANGED <<toPy, toMt, mt, conn, connfd, fdTable, py, applied, source, heard, issued, sends>>
    BY <1>4 DEF vars, pyVars, mtVars, netVars, history
  <2> QED
    BY <2>1 DEF Answers, Recorded, NumbersOf, AnswersOf, Peer, Carries
<1> QED
  BY <1>1, <1>2, <1>3, <1>4 DEF Next

-----------------------------------------------------------------------------
(* Every step is a step of GymEnv, or none.                                 *)

PhaseOf(pc) ==
  CASE pc \in {"kill", "started", "accept", "init", "reset"} -> "hardReset"
    [] OTHER -> pc
Phase == [e \in Envs |-> PhaseOf(py[e])]

LEMMA PhaseGoes ==
  ASSUME TypeOK, NEW e \in Envs, NEW pc, Goto(e, pc)
  PROVE  Phase' = [Phase EXCEPT ![e] = PhaseOf(pc)]
<1>1. py' = [py EXCEPT ![e] = pc] /\ py \in [Envs -> PyPC]
  BY DEF Goto, TypeOK
<1> QED
  BY <1>1 DEF Phase

LEMMA Starts ==
  ASSUME Turns, Answers, NEW e \in Envs, Callable(e), NEW pc, Goto(e, pc),
         PhaseOf(pc) \in {"step", "hardReset", "softReset", "close"},
         answer' = [answer EXCEPT ![e] = G!Silent], UNCHANGED <<source, heard>>,
         UNCHANGED issued \/ (SendAction(e) /\ CanSend(e))
  PROVE  G!Call(e)
<1>1. Phase[e] = "idle" /\ Phase' = [Phase EXCEPT ![e] = PhaseOf(pc)]
  BY PhaseGoes DEF Phase, PhaseOf, Callable, Turns, IInv
<1>2. G!Send(e) \/ UNCHANGED issued
  <2>1. CASE SendAction(e)
    <3>1. /\ sends' = sends + 1 /\ issued' = [issued EXCEPT ![e] = sends']
          /\ issued \in [Envs -> Nat] /\ issued[e] <= sends /\ sends \in Nat
      BY <2>1 DEF SendAction, Answers, Recorded, Turns, IInv, TypeOK
    <3>2. issued'[e] = sends' /\ sends' > issued[e]
      BY <3>1
    <3> QED
      BY <3>1, <3>2 DEF G!Send
  <2> QED
    BY <2>1
<1> QED
  BY <1>1, <1>2 DEF G!Call, G!Phases, Phase, PhaseOf

LEMMA Raises ==
  ASSUME Turns, NEW e \in Envs, PhaseOf(py[e]) # "closed",
         Goto(e, "idle") \/ (py[e] = "idle" /\ UNCHANGED py),
         NEW how \in {G!Raised, G!Torn}, answer' = [answer EXCEPT ![e] = how],
         UNCHANGED <<issued, source, heard>>
  PROVE  G!Fail(e)
<1>1. Phase' = [Phase EXCEPT ![e] = "idle"] /\ Phase[e] # "closed"
  <2>1. CASE Goto(e, "idle")
    <3>1. PhaseOf("idle") = "idle"
      BY DEF PhaseOf
    <3> QED
      BY <2>1, <3>1, PhaseGoes DEF Phase, Turns, IInv
  <2>2. CASE py[e] = "idle" /\ UNCHANGED py
    BY <2>2 DEF Phase, PhaseOf
  <2> QED
    BY <2>1, <2>2
<1> QED
  BY <1>1 DEF G!Fail, Phase, PhaseOf

LEMMA CallsMap ==
  ASSUME Turns, Answers, NEW e \in Envs, Calls(e)
  PROVE  G!Next
<1>1. CASE \/ CallStep(e) \/ CallSoftReset(e) \/ CallFirstReset(e) \/ CallHardReset(e) \/ CallClose(e)
  <2>1. PICK pc \in {"step", "softReset", "started", "kill", "close"} : Goto(e, pc)
    BY <1>1 DEF CallStep, CallSoftReset, CallFirstReset, CallHardReset, CallClose
  <2>2. /\ Callable(e) /\ answer' = [answer EXCEPT ![e] = G!Silent] /\ UNCHANGED <<source, heard>>
        /\ UNCHANGED issued \/ (SendAction(e) /\ CanSend(e))
    BY <1>1 DEF CallStep, CallSoftReset, CallFirstReset, CallHardReset, CallClose, SendAction
  <2>3. PhaseOf(pc) \in {"step", "hardReset", "softReset", "close"}
    BY DEF PhaseOf
  <2> QED
    BY <2>1, <2>2, <2>3, Starts DEF G!Next
<1>2. CASE CallRaises(e)
  <2>1. py[e] = "idle" /\ PhaseOf("idle") = "idle" /\ answer' = [answer EXCEPT ![e] = G!Raised]
        /\ UNCHANGED <<py, issued, source, heard>>
    BY <1>2 DEF CallRaises, Callable, PhaseOf, pyVars
  <2> QED
    BY <2>1, Raises DEF G!Next
<1>3. CASE CloseNothing(e)
  <2>1. Goto(e, "closed") /\ py[e] = "idle" /\ UNCHANGED <<issued, source, heard, answer>>
    BY <1>3 DEF CloseNothing, Callable, history
  <2>2. PhaseOf("closed") = "closed" /\ PhaseOf("idle") = "idle"
    BY DEF PhaseOf
  <2>3. Phase[e] = "idle" /\ Phase' = [Phase EXCEPT ![e] = "closed"]
    BY <2>1, <2>2, PhaseGoes DEF Phase, Turns, IInv
  <2> QED
    BY <2>1, <2>3 DEF G!Next, G!Closed, Phase, PhaseOf
<1> QED
  BY <1>1, <1>2, <1>3 DEF Calls

(* An observation answers the action that was sent last, from the process   *)
(* of the last reset or a new one.                                          *)
LEMMA ReceiveMaps ==
  ASSUME Turns, Answers, NEW e \in Envs, Receive(e)
  PROVE  G!Next
<1>1. /\ HasObservation(e) /\ Ends(e, IF Head(toPy[Peer(e)]).whole
                                      THEN G!Observation(Peer(e), Head(toPy[Peer(e)]).action) ELSE G!Torn)
      /\ py[e] \in {"reset", "softReset", "step"} /\ UNCHANGED issued
      /\ source' = (IF py[e] = "reset" /\ Head(toPy[Peer(e)]).whole THEN [source EXCEPT ![e] = Peer(e)] ELSE source)
      /\ heard' = (IF Head(toPy[Peer(e)]).whole THEN heard \union {Peer(e)} ELSE heard)
  BY DEF Receive
<1>2. PICK p \in Procs : p = Peer(e) /\ p # None /\ toPy[p] # <<>>
  BY <1>1, OnlyMessage DEF HasObservation
<1>3. PICK n : n = Head(toPy[p]).action
  OBVIOUS
<1>4. Phase' = [Phase EXCEPT ![e] = "idle"]
  <2>1. PhaseOf("idle") = "idle"
    BY DEF PhaseOf
  <2> QED
    BY <1>1, <2>1, PhaseGoes DEF Ends, Turns, IInv
<1>5. CASE ~Head(toPy[p]).whole
  <2>1. Ends(e, G!Torn) /\ UNCHANGED <<issued, source, heard>> /\ PhaseOf(py[e]) # "closed"
    BY <1>1, <1>2, <1>5 DEF PhaseOf
  <2> QED
    BY <2>1, Raises DEF Ends, G!Next
<1>6. CASE Head(toPy[p]).whole /\ py[e] = "reset"
  <2>1. /\ answer' = [answer EXCEPT ![e] = G!Observation(p, n)]
        /\ source' = [source EXCEPT ![e] = p] /\ heard' = heard \union {p} /\ UNCHANGED issued
    BY <1>1, <1>2, <1>3, <1>6 DEF Ends
  <2>2. p \in Procs \ heard /\ n \in {0, issued[e]}
    BY <1>2, <1>3, <1>6 DEF Answers, AnswersOf, Carries
  <2>3. Phase[e] = "hardReset"
    BY <1>6 DEF Phase, PhaseOf
  <2>4. G!AnswerHardReset(e)
    BY <1>4, <2>1, <2>2, <2>3 DEF G!AnswerHardReset, Phase, PhaseOf
  <2> QED
    BY <2>4 DEF G!Next
<1>7. CASE Head(toPy[p]).whole /\ py[e] # "reset"
  <2>1. p = source[e] /\ p \in heard /\ n = issued[e]
    BY <1>1, <1>2, <1>3, <1>7 DEF Answers, AnswersOf, Carries
  <2>2. /\ answer' = [answer EXCEPT ![e] = G!Observation(source[e], issued[e])]
        /\ UNCHANGED <<issued, source, heard>>
    BY <1>1, <1>2, <1>3, <1>7, <2>1 DEF Ends
  <2>3. Phase[e] \in {"step", "softReset"}
    BY <1>1, <1>7 DEF Phase, PhaseOf
  <2>4. G!AnswerStep(e) \/ G!AnswerSoftReset(e)
    BY <1>4, <2>2, <2>3 DEF G!AnswerStep, G!AnswerSoftReset, Phase, PhaseOf
  <2> QED
    BY <2>4 DEF G!Next
<1> QED
  BY <1>5, <1>6, <1>7

LEMMA ProgressMaps ==
  ASSUME Turns, Answers, NEW e \in Envs, Progress(e)
  PROVE  G!Next \/ UNCHANGED (G!vars)
<1>1. CASE WaitClose(e) \/ Listen(e) \/ Accept(e)
  <2>1. /\ UNCHANGED <<issued, source, heard, answer>>
        /\ PhaseOf(py[e]) = "hardReset"
        /\ \E pc \in {"started", "accept", "reset", "init"} : Goto(e, pc)
    BY <1>1 DEF WaitClose, Listen, Accept, history, PhaseOf
  <2>2. \A pc \in {"started", "accept", "reset", "init"} : PhaseOf(pc) = "hardReset"
    BY DEF PhaseOf
  <2>3. Phase' = [Phase EXCEPT ![e] = "hardReset"] /\ Phase[e] = "hardReset"
    BY <2>1, <2>2, PhaseGoes DEF Phase, Turns, IInv
  <2>4. Phase' = Phase
    BY <2>3 DEF Phase
  <2> QED
    BY <2>1, <2>4 DEF G!vars, Phase, PhaseOf
<1>2. CASE ListenTimeout(e) \/ InitFrameRaises(e) \/ ReceiveFails(e)
  <2>1. Ends(e, G!Raised) /\ UNCHANGED <<issued, source, heard>> /\ PhaseOf(py[e]) # "closed"
    BY <1>2 DEF ListenTimeout, InitFrameRaises, ReceiveFails, Receiving, PhaseOf
  <2> QED
    BY <2>1, Raises DEF Ends, G!Next
<1>3. CASE InitFrame(e)
  <2>1. /\ SendAction(e) /\ UNCHANGED <<source, heard, answer>> /\ PhaseOf(py[e]) = "hardReset"
        /\ \E pc \in {"reset", "init"} : Goto(e, pc)
    BY <1>3 DEF InitFrame, PhaseOf
  <2>2. \A pc \in {"reset", "init"} : PhaseOf(pc) = "hardReset"
    BY DEF PhaseOf
  <2>3. Phase' = [Phase EXCEPT ![e] = "hardReset"] /\ Phase[e] = "hardReset"
    BY <2>1, <2>2, PhaseGoes DEF Phase, Turns, IInv
  <2>4. Phase' = Phase
    BY <2>3 DEF Phase
  <2>5. G!Send(e)
    <3>1. /\ sends' = sends + 1 /\ issued' = [issued EXCEPT ![e] = sends']
          /\ issued \in [Envs -> Nat] /\ issued[e] <= sends /\ sends \in Nat
      BY <2>1 DEF SendAction, Answers, Recorded, Turns, IInv, TypeOK
    <3>2. issued'[e] = sends' /\ sends' > issued[e]
      BY <3>1
    <3> QED
      BY <3>1, <3>2 DEF G!Send
  <2>6. G!SendInit(e)
    BY <2>1, <2>3, <2>4, <2>5 DEF G!SendInit, Phase, PhaseOf
  <2> QED
    BY <2>6 DEF G!Next
<1>4. CASE Receive(e)
  BY <1>4, ReceiveMaps
<1>5. CASE CloseWaits(e)
  <2>1. Goto(e, "closed") /\ py[e] = "close" /\ UNCHANGED <<issued, source, heard, answer>>
    BY <1>5 DEF CloseWaits, history
  <2>2. PhaseOf("closed") = "closed" /\ PhaseOf("close") = "close"
    BY DEF PhaseOf
  <2>3. Phase[e] = "close" /\ Phase' = [Phase EXCEPT ![e] = "closed"]
    BY <2>1, <2>2, PhaseGoes DEF Phase, Turns, IInv
  <2> QED
    BY <2>1, <2>3 DEF G!Next, G!Closed, Phase, PhaseOf
<1> QED
  BY <1>1, <1>2, <1>3, <1>4, <1>5 DEF Progress

LEMMA NextMaps == Turns /\ Answers /\ [Next]_vars => [G!Next]_(G!vars)
<1> SUFFICES ASSUME Turns, Answers, [Next]_vars PROVE [G!Next]_(G!vars)
  OBVIOUS
<1>1. CASE \E p \in Procs : MtNext(p) \/ Crash(p) \/ Hang(p)
  <2>1. UNCHANGED <<py, issued, source, heard, answer>>
    BY <1>1 DEF MtNext, MtConnect, MtSend, MtReceive, MtReceiveFails, Crash, Hang, pyVars,
                  netVars, history
  <2> QED
    BY <2>1 DEF G!vars
<1>2. CASE UNCHANGED vars
  <2>1. UNCHANGED <<py, issued, source, heard, answer>>
    BY <1>2 DEF vars, pyVars, history
  <2> QED
    BY <2>1 DEF G!vars
<1> QED
  BY <1>1, <1>2, CallsMap, ProgressMaps DEF Next

LEMMA InitMaps == Init => G!Init
<1> SUFFICES ASSUME Init PROVE G!Init
  OBVIOUS
<1>1. py = [e \in Envs |-> "idle"] /\ issued = [e \in Envs |-> 0] /\ source = [e \in Envs |-> 0]
      /\ heard = {} /\ answer = [e \in Envs |-> G!Silent]
  BY DEF Init, None
<1>2. Phase = [e \in Envs |-> "idle"]
  BY <1>1 DEF Phase, PhaseOf
<1> QED
  BY <1>1, <1>2 DEF G!Init, Phase, PhaseOf

(* The environments answer as the Gymnasium interface promises, any number *)
(* of them, as long as none uses a descriptor that became another one's:   *)
(* the condition is what the comment of close_conn says, and a receive that *)
(* failed breaks it when two environments live in one Python process.      *)
THEOREM GymContract == Spec /\ []OnlyOwnConnection => GymSpec
<1>1. Init => Turns /\ Answers
  BY InitTurns, AnswersInit
<1>2. Turns /\ Answers /\ OnlyOwnConnection /\ OnlyOwnConnection' /\ [Next]_vars => (Turns /\ Answers)'
  BY NextTurns, AnswersNext
<1> QED
  BY <1>1, <1>2, InitMaps, NextMaps, PTL DEF Spec, GymSpec, G!Spec

(* An environment that is alone keeps to its own connections, and so to the *)
(* contract, for any number of calls, processes, crashes and time-outs.     *)
THEOREM GymContractAlone ==
  ASSUME \A d, e \in Envs : d = e
  PROVE  Spec => GymSpec
<1>1. Turns => OnlyOwnConnection
  <2> SUFFICES ASSUME Turns, NEW e \in Envs, Peer(e) # None PROVE owner[Peer(e)] = e
    BY DEF OnlyOwnConnection
  <2>1. Peer(e) \in Procs /\ conn[Peer(e)] = "open"
    BY PeerType DEF Turns, IInv, TalkOf
  <2>2. Peer(e) \in 1 .. started
    BY <2>1, EnvAssumption DEF Turns, IInv, Processes, TypeOK, Procs
  <2>3. owner[Peer(e)] \in Envs
    BY <2>2 DEF Turns, IInv, TypeOK
  <2> QED
    BY <2>3
<1> QED
  BY <1>1, InitTurns, NextTurns, GymContract, PTL DEF Spec
=============================================================================
