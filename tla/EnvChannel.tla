----------------------------- MODULE EnvChannel -----------------------------
(***************************************************************************)
(* A CraftiumEnv and the Minetest processes it starts: the calls reset,    *)
(* step and close of craftium_env.py, the TCP channel of mt_channel.py and *)
(* mt_server.c with the descriptors it uses, and the client's side of the  *)
(* channel, Client::startPyConn and pyConnStep.                            *)
(*                                                                         *)
(* The environments share one Python process, which runs one call at a     *)
(* time (the C functions keep the interpreter's lock).  Process p is the   *)
(* p-th process started.  Frames that do not talk to Python (frameskip,    *)
(* the first ten frames) are part of a process that is "running".          *)
(***************************************************************************)
EXTENDS Integers, Sequences, FiniteSets, Functions

CONSTANTS
  Envs,        (* the environments                                         *)
  InitFrames,  (* frames played by a hard reset before its observation     *)
  SyncMode,    (* sync_env_mode: a process's server thread waits for the   *)
               (* client's frames                                          *)
  MaxProcs,    (* bound: processes started                                 *)
  MaxSends,    (* bound: actions sent                                      *)
  MaxCrashes   (* bound: processes that die or hang at an arbitrary point  *)

ASSUME EnvAssumption ==
  /\ IsFiniteSet(Envs) /\ SyncMode \in BOOLEAN
  /\ InitFrames \in Nat /\ MaxProcs \in Nat /\ MaxSends \in Nat /\ MaxCrashes \in Nat

Procs == 1 .. MaxProcs
Fds == 1 .. MaxProcs
None == 0   (* no process, no descriptor *)

VARIABLES
  soft,     (* CraftiumEnv.soft_reset, fixed at construction               *)
  py,       (* the call an environment is in, and where                    *)
  initLeft, (* what is left of the loop over init_frames                   *)
  connfd,   (* MtChannel.connfd                                            *)
  sock,     (* MtChannel.sockfd, the listening socket                      *)
  backlog,  (* connections completed and not accepted                      *)
  proc,     (* Minetest.proc                                               *)
  fdTable,  (* descriptors of the Python process: whose connection         *)
  started,  (* processes started so far                                    *)
  owner,    (* the environment whose configuration a process reads         *)
  mt,       (* where a process is                                          *)
  conn,     (* Python's end of its connection                              *)
  toPy, toMt,  (* bytes under way, a message at a time                     *)
  applied,  (* the number of the last action a process received            *)
  crashes,
  (* History: actions sent in all, the last one of each environment, the   *)
  (* process that answered its last reset, the processes that ever         *)
  (* answered, how its last call ended, and whether a listen timed out.    *)
  sends, issued, source, heard, answer, timedOut

pyVars == <<soft, py, initLeft, connfd, sock, proc, fdTable>>
mtVars == <<started, owner, mt, applied>>
netVars == <<backlog, conn, toPy, toMt>>
history == <<sends, issued, source, heard, answer, timedOut>>
vars == <<pyVars, mtVars, netVars, crashes, history>>

PyPC == {"idle", "kill", "started", "accept", "init", "reset", "softReset", "step",
         "close", "closed"}

TypeOK ==
  /\ soft \in [Envs -> BOOLEAN]
  /\ py \in [Envs -> PyPC]
  /\ initLeft \in [Envs -> 0 .. InitFrames]
  /\ connfd \in [Envs -> Fds \union {None}]
  /\ sock \in [Envs -> {"bound", "listening", "closed"}]
  /\ backlog \in [Envs -> Seq(Procs)]
  /\ proc \in [Envs -> Procs \union {None}]
  /\ fdTable \in [Fds -> Procs \union {None}]
  /\ started \in 0 .. MaxProcs
  /\ owner \in [1 .. started -> Envs]
  /\ mt \in [Procs -> {"none", "starting", "running", "waiting", "gone", "hung"}]
  /\ conn \in [Procs -> {"none", "queued", "open", "closed", "reset"}]
  /\ toPy \in [Procs -> Seq([action : 0 .. MaxSends, whole : BOOLEAN])]
  /\ toMt \in [Procs -> Seq([action : 0 .. MaxSends, kill : BOOLEAN])]
  /\ applied \in [Procs -> 0 .. MaxSends]
  /\ crashes \in 0 .. MaxCrashes
  /\ sends \in 0 .. MaxSends
  /\ timedOut \in SUBSET Envs

G == INSTANCE GymEnv WITH
  phase <- [e \in Envs |->
              CASE py[e] \in {"kill", "started", "accept", "init", "reset"} -> "hardReset"
                [] OTHER -> py[e]]

Init ==
  /\ soft \in [Envs -> BOOLEAN]
  /\ py = [e \in Envs |-> "idle"]
  /\ initLeft = [e \in Envs |-> 0]
  /\ connfd = [e \in Envs |-> None]
  /\ sock = [e \in Envs |-> "bound"]
  /\ backlog = [e \in Envs |-> <<>>]
  /\ proc = [e \in Envs |-> None]
  /\ fdTable = [f \in Fds |-> None]
  /\ started = 0 /\ owner = <<>>
  /\ mt = [p \in Procs |-> "none"]
  /\ conn = [p \in Procs |-> "none"]
  /\ toPy = [p \in Procs |-> <<>>] /\ toMt = [p \in Procs |-> <<>>]
  /\ applied = [p \in Procs |-> 0]
  /\ crashes = 0
  /\ sends = 0
  /\ issued = [e \in Envs |-> 0] /\ source = [e \in Envs |-> None] /\ heard = {}
  /\ answer = [e \in Envs |-> G!Silent]
  /\ timedOut = {}

-----------------------------------------------------------------------------
Goto(e, pc) == py' = [py EXCEPT ![e] = pc]

(* Python is free to enter a call of e.                                    *)
Callable(e) == py[e] = "idle" /\ \A d \in Envs : py[d] \in {"idle", "closed"}

(* The process behind e's descriptor: None when the descriptor is closed.  *)
Peer(e) == IF connfd[e] = None THEN None ELSE fdTable[connfd[e]]

Ends(e, how) ==
  /\ Goto(e, "idle")
  /\ answer' = [answer EXCEPT ![e] = how]

(* server_send fails on a closed descriptor, and may fail once the peer is *)
(* gone: the first write after that still succeeds.                        *)
CanSend(e) == Peer(e) # None
CanFailToSend(e) == Peer(e) # None => mt[Peer(e)] = "gone"

Deliver(p, message) ==
  toMt' = IF mt[p] = "gone" THEN toMt ELSE [toMt EXCEPT ![p] = Append(@, message)]

SendAction(e) ==
  /\ CanSend(e)
  /\ sends' = sends + 1
  /\ issued' = [issued EXCEPT ![e] = sends']
  /\ Deliver(Peer(e), [action |-> sends', kill |-> FALSE])

(* Python closes its ends of the connections ps: unread observations are   *)
(* dropped, and answered with a reset.                                     *)
Hangup(ps) ==
  /\ conn' = [p \in Procs |-> IF p \notin ps THEN conn[p]
                              ELSE IF toPy[p] = <<>> THEN "closed" ELSE "reset"]
  /\ toPy' = [p \in Procs |-> IF p \in ps THEN <<>> ELSE toPy[p]]

CloseDescriptor(e) ==
  /\ fdTable' = [fdTable EXCEPT ![connfd[e]] = None]
  /\ connfd' = [connfd EXCEPT ![e] = None]

(* Minetest.start_process.                                                 *)
StartProcess(e) ==
  /\ started' = started + 1
  /\ owner' = Append(owner, e)
  /\ mt' = [mt EXCEPT ![started'] = "starting"]
  /\ proc' = [proc EXCEPT ![e] = started']
  /\ initLeft' = [initLeft EXCEPT ![e] = InitFrames]

(* The bounds are kept where a call starts: one that starts can end.       *)
WithinBounds(procs, actions) == started + procs <= MaxProcs /\ sends + actions <= MaxSends

-----------------------------------------------------------------------------
(* CraftiumEnv.step: the action goes out.                                  *)
CallStep(e) ==
  /\ Callable(e) /\ connfd[e] # None /\ WithinBounds(0, 1)
  /\ SendAction(e)
  /\ Goto(e, "step")
  /\ answer' = [answer EXCEPT ![e] = G!Silent]
  /\ UNCHANGED <<soft, initLeft, connfd, sock, proc, fdTable, mtVars, backlog, conn, toPy,
                 crashes, source, heard, timedOut>>

(* CraftiumEnv.reset of an open channel, soft_reset set.                   *)
CallSoftReset(e) ==
  /\ Callable(e) /\ soft[e] /\ connfd[e] # None /\ WithinBounds(0, 1)
  /\ SendAction(e)
  /\ Goto(e, "softReset")
  /\ answer' = [answer EXCEPT ![e] = G!Silent]
  /\ UNCHANGED <<soft, initLeft, connfd, sock, proc, fdTable, mtVars, backlog, conn, toPy,
                 crashes, source, heard, timedOut>>

(* reset with no channel: a process is started at once.                    *)
CallFirstReset(e) ==
  /\ Callable(e) /\ connfd[e] = None /\ WithinBounds(1, InitFrames)
  /\ StartProcess(e)
  /\ Goto(e, "started")
  /\ answer' = [answer EXCEPT ![e] = G!Silent]
  /\ UNCHANGED <<soft, connfd, sock, fdTable, applied, netVars, crashes,
                 sends, issued, source, heard, timedOut>>

(* The hang-up of a killed process: send_kill, then close_conn.            *)
KillAndHangup(e) ==
  /\ CanSend(e)
  /\ Deliver(Peer(e), [action |-> 0, kill |-> TRUE])
  /\ Hangup({Peer(e)})
  /\ CloseDescriptor(e)

(* reset of an open channel, soft_reset not set: the old process goes.     *)
CallHardReset(e) ==
  /\ Callable(e) /\ ~soft[e] /\ connfd[e] # None /\ WithinBounds(1, InitFrames)
  /\ KillAndHangup(e)
  /\ Goto(e, "kill")
  /\ answer' = [answer EXCEPT ![e] = G!Silent]
  /\ UNCHANGED <<soft, initLeft, sock, proc, mtVars, backlog, crashes,
                 sends, issued, source, heard, timedOut>>

(* Any of these calls raises when its send fails, before it changes        *)
(* anything.  The descriptor stays.                                        *)
CallRaises(e) ==
  /\ Callable(e) /\ connfd[e] # None /\ CanFailToSend(e)
  /\ answer' = [answer EXCEPT ![e] = G!Raised]
  /\ UNCHANGED <<pyVars, mtVars, netVars, crashes, sends, issued, source, heard, timedOut>>

(* Mutant: the new process is started without waiting for the old one.     *)
WaitClose_Skips(e) ==
  /\ py[e] = "kill"
  /\ StartProcess(e)
  /\ Goto(e, "started")
  /\ UNCHANGED <<soft, connfd, sock, fdTable, applied, netVars, crashes, history>>

(* wait_close returns, and reset starts the new process.                   *)
WaitClose(e) ==
  /\ py[e] = "kill" /\ mt[proc[e]] = "gone"
  /\ StartProcess(e)
  /\ Goto(e, "started")
  /\ UNCHANGED <<soft, connfd, sock, fdTable, applied, netVars, crashes, history>>

(* open_conn: listen(sockfd, 1), then poll with mt_listen_timeout.         *)
Listen(e) ==
  /\ py[e] = "started"
  /\ sock' = [sock EXCEPT ![e] = "listening"]
  /\ Goto(e, "accept")
  /\ UNCHANGED <<soft, initLeft, connfd, proc, fdTable, mtVars, netVars, crashes, history>>

LowestFree == CHOOSE f \in Fds : fdTable[f] = None /\ \A g \in 1 .. f - 1 : fdTable[g] # None

Accept(e) ==
  LET p == Head(backlog[e]) IN
  /\ py[e] = "accept" /\ backlog[e] # <<>>
  /\ backlog' = [backlog EXCEPT ![e] = Tail(@)]
  /\ conn' = [conn EXCEPT ![p] = "open"]
  /\ connfd' = [connfd EXCEPT ![e] = LowestFree]
  /\ fdTable' = [fdTable EXCEPT ![LowestFree] = p]
  /\ Goto(e, IF initLeft[e] = 0 THEN "reset" ELSE "init")
  /\ UNCHANGED <<soft, initLeft, sock, proc, mtVars, toPy, toMt, crashes, history>>

(* No process came in time: open_conn raises, the process is not killed.   *)
ListenTimeout(e) ==
  /\ py[e] = "accept" /\ backlog[e] = <<>>
  /\ Ends(e, G!Raised)
  /\ timedOut' = timedOut \union {e}
  /\ UNCHANGED <<soft, initLeft, connfd, sock, proc, fdTable, mtVars, netVars, crashes,
                 sends, issued, source, heard>>

HasObservation(e) == Peer(e) # None /\ toPy[Peer(e)] # <<>>

(* Mutant: the loop sends without reading the observation first.           *)
InitFrame_NoReceive(e) ==
  /\ py[e] = "init" /\ HasObservation(e)
  /\ SendAction(e)
  /\ initLeft' = [initLeft EXCEPT ![e] = @ - 1]
  /\ Goto(e, IF initLeft[e] = 1 THEN "reset" ELSE "init")
  /\ UNCHANGED <<soft, connfd, sock, proc, fdTable, mtVars, backlog, conn, toPy, crashes,
                 source, heard, answer, timedOut>>

(* Mutant: the loop leaves with its observation unanswered.                *)
InitFrame_NoSend(e) ==
  /\ py[e] = "init" /\ HasObservation(e)
  /\ toPy' = [toPy EXCEPT ![Peer(e)] = Tail(@)]
  /\ initLeft' = [initLeft EXCEPT ![e] = @ - 1]
  /\ Goto(e, IF initLeft[e] = 1 THEN "reset" ELSE "init")
  /\ UNCHANGED <<soft, connfd, sock, proc, fdTable, mtVars, backlog, conn, toMt, crashes,
                 sends, issued, source, heard, answer, timedOut>>

(* Mutant: the loop runs once too often.                                   *)
InitFrame_OneMore(e) ==
  /\ py[e] = "init" /\ HasObservation(e)
  /\ SendAction(e)
  /\ toPy' = [toPy EXCEPT ![Peer(e)] = Tail(@)]
  /\ initLeft' = [initLeft EXCEPT ![e] = @ - 1]
  /\ Goto(e, IF initLeft[e] = 0 THEN "reset" ELSE "init")
  /\ UNCHANGED <<soft, connfd, sock, proc, fdTable, mtVars, backlog, conn, crashes,
                 source, heard, answer, timedOut>>

(* A turn of the init_frames loop: an observation is read and dropped, an  *)
(* action sent.                                                            *)
InitFrame(e) ==
  /\ py[e] = "init" /\ HasObservation(e)
  /\ SendAction(e)
  /\ toPy' = [toPy EXCEPT ![Peer(e)] = Tail(@)]
  /\ initLeft' = [initLeft EXCEPT ![e] = @ - 1]
  /\ Goto(e, IF initLeft[e] = 1 THEN "reset" ELSE "init")
  /\ UNCHANGED <<soft, connfd, sock, proc, fdTable, mtVars, backlog, conn, crashes,
                 source, heard, answer, timedOut>>

InitFrameRaises(e) ==
  /\ py[e] = "init" /\ HasObservation(e) /\ CanFailToSend(e)
  /\ toPy' = [toPy EXCEPT ![Peer(e)] = Tail(@)]
  /\ Ends(e, G!Raised)
  /\ UNCHANGED <<soft, initLeft, connfd, sock, proc, fdTable, mtVars, backlog, conn, toMt,
                 crashes, sends, issued, source, heard, timedOut>>

(* server_recv returns the observation of a reset or a step.  When the     *)
(* connection ended inside it, it returns what the buffer holds.           *)
Receive(e) ==
  LET p == Peer(e)
      obs == Head(toPy[p]) IN
  /\ py[e] \in {"reset", "softReset", "step"} /\ HasObservation(e)
  /\ toPy' = [toPy EXCEPT ![p] = Tail(@)]
  /\ Ends(e, IF obs.whole THEN G!Observation(p, obs.action) ELSE G!Torn)
  /\ source' = IF py[e] = "reset" /\ obs.whole THEN [source EXCEPT ![e] = p] ELSE source
  /\ heard' = IF obs.whole THEN heard \union {p} ELSE heard
  /\ UNCHANGED <<soft, initLeft, connfd, sock, proc, fdTable, mtVars, backlog, conn, toMt,
                 crashes, sends, issued, timedOut>>

Receiving(e) == py[e] \in {"init", "reset", "softReset", "step"}

(* Mutant: the end of the stream is taken for a short read, and retried.   *)
ReceiveFails_RetriesEnd(e) ==
  /\ Receiving(e) /\ Peer(e) = None
  /\ Ends(e, G!Raised)
  /\ UNCHANGED <<soft, initLeft, connfd, sock, proc, fdTable, mtVars, netVars,
                 crashes, sends, issued, source, heard, timedOut>>

(* The peer is gone and nothing is left to read: server_recv closes the    *)
(* descriptor when it sees the end of the stream, not on an error, and     *)
(* raises.  connfd keeps the number.                                       *)
ReceiveFails(e) ==
  LET p == Peer(e) IN
  /\ Receiving(e) /\ ~HasObservation(e)
  /\ p # None => mt[p] = "gone"
  /\ \/ UNCHANGED <<fdTable, conn>>
     \/ /\ p # None
        /\ fdTable' = [fdTable EXCEPT ![connfd[e]] = None]
        /\ conn' = [conn EXCEPT ![p] = "closed"]
  /\ Ends(e, G!Raised)
  /\ UNCHANGED <<soft, initLeft, connfd, sock, proc, mtVars, backlog, toPy, toMt,
                 crashes, sends, issued, source, heard, timedOut>>

(* CraftiumEnv.close of an open channel: send_kill, MtChannel.close with   *)
(* its listening socket, and the connections queued on it, then wait_close.*)
CallClose(e) ==
  /\ Callable(e) /\ connfd[e] # None /\ CanSend(e)
  /\ Deliver(Peer(e), [action |-> 0, kill |-> TRUE])
  /\ Hangup({Peer(e)} \union Range(backlog[e]))
  /\ CloseDescriptor(e)
  /\ backlog' = [backlog EXCEPT ![e] = <<>>]
  /\ sock' = [sock EXCEPT ![e] = "closed"]
  /\ Goto(e, "close")
  /\ answer' = [answer EXCEPT ![e] = G!Silent]
  /\ UNCHANGED <<soft, initLeft, proc, mtVars, crashes, sends, issued, source, heard,
                 timedOut>>

CloseWaits(e) ==
  /\ py[e] = "close" /\ mt[proc[e]] = "gone"
  /\ Goto(e, "closed")
  /\ UNCHANGED <<soft, initLeft, connfd, sock, proc, fdTable, mtVars, netVars, crashes,
                 history>>

(* close without a channel only removes the files.                         *)
CloseNothing(e) ==
  /\ Callable(e) /\ connfd[e] = None
  /\ Goto(e, "closed")
  /\ UNCHANGED <<soft, initLeft, connfd, sock, proc, fdTable, mtVars, netVars, crashes,
                 history>>

-----------------------------------------------------------------------------
Become(p, state) == mt' = [mt EXCEPT ![p] = state]

(* startPyConn: the connection is refused before the first listen and      *)
(* after close, and the process exits; a full queue (two connections)      *)
(* makes it wait.                                                          *)
MtConnect(p) ==
  LET e == owner[p] IN
  /\ mt[p] = "starting"
  /\ IF sock[e] = "listening"
     THEN /\ Len(backlog[e]) < 2
          /\ backlog' = [backlog EXCEPT ![e] = Append(@, p)]
          /\ conn' = [conn EXCEPT ![p] = "queued"]
          /\ Become(p, "running")
     ELSE Become(p, "gone") /\ UNCHANGED <<backlog, conn>>
  /\ UNCHANGED <<pyVars, started, owner, applied, toPy, toMt, crashes, history>>

(* pyConnStep sends the observation.  Python's hang-up is only noticed one *)
(* message later, when SIGPIPE ends the process.                           *)
MtSend(p) ==
  /\ mt[p] = "running"
  /\ \/ /\ conn[p] \in {"queued", "open"}
        /\ toPy' = [toPy EXCEPT ![p] = Append(@, [action |-> applied[p], whole |-> TRUE])]
        /\ Become(p, "waiting") /\ UNCHANGED conn
     \/ /\ conn[p] = "closed"
        /\ conn' = [conn EXCEPT ![p] = "reset"]
        /\ Become(p, "waiting") /\ UNCHANGED toPy
     \/ /\ conn[p] = "reset"
        /\ Become(p, "gone") /\ UNCHANGED <<toPy, conn>>
  /\ UNCHANGED <<pyVars, started, owner, applied, backlog, toMt, crashes, history>>

(* It receives the action, and exits when the kill byte is set.            *)
MtReceive(p) ==
  LET message == Head(toMt[p]) IN
  /\ mt[p] = "waiting" /\ toMt[p] # <<>>
  /\ toMt' = [toMt EXCEPT ![p] = Tail(@)]
  /\ IF message.kill
     THEN Become(p, "gone") /\ UNCHANGED applied
     ELSE Become(p, "running") /\ applied' = [applied EXCEPT ![p] = message.action]
  /\ UNCHANGED <<pyVars, started, owner, backlog, conn, toPy, crashes, history>>

(* recv fails on the hang-up: n_send + n_recv is not below 2, so the frame *)
(* goes on with the actions it has.                                        *)
MtReceiveFails(p) ==
  /\ mt[p] = "waiting" /\ toMt[p] = <<>> /\ conn[p] \in {"closed", "reset"}
  /\ Become(p, "running")
  /\ UNCHANGED <<pyVars, started, owner, applied, netVars, crashes, history>>

(* The process dies wherever it is, perhaps in the middle of a send.       *)
Crash(p) ==
  /\ mt[p] \in {"starting", "running", "waiting"} /\ crashes < MaxCrashes
  /\ crashes' = crashes + 1
  /\ Become(p, "gone")
  /\ toMt' = [toMt EXCEPT ![p] = <<>>]
  /\ \/ UNCHANGED toPy
     \/ /\ mt[p] = "running" /\ conn[p] \in {"queued", "open"}
        /\ toPy' = [toPy EXCEPT ![p] = Append(@, [action |-> 0, whole |-> FALSE])]
  /\ UNCHANGED <<pyVars, started, owner, applied, backlog, conn, history>>

(* A main loop that ends in sync mode: Server::stop waits for a thread     *)
(* that waits for a frame, and the socket, which ~Client does not close    *)
(* either, stays open without a reader.                                    *)
Hang(p) ==
  /\ SyncMode
  /\ mt[p] \in {"starting", "running"} /\ crashes < MaxCrashes
  /\ crashes' = crashes + 1
  /\ Become(p, "hung")
  /\ UNCHANGED <<pyVars, started, owner, applied, netVars, history>>

-----------------------------------------------------------------------------
Calls(e) ==
  \/ CallStep(e) \/ CallSoftReset(e) \/ CallFirstReset(e) \/ CallHardReset(e)
  \/ CallRaises(e) \/ CallClose(e) \/ CloseNothing(e)

Progress(e) ==
  \/ WaitClose(e) \/ Listen(e) \/ Accept(e) \/ ListenTimeout(e)
  \/ InitFrame(e) \/ InitFrameRaises(e) \/ Receive(e) \/ ReceiveFails(e) \/ CloseWaits(e)

MtNext(p) == MtConnect(p) \/ MtSend(p) \/ MtReceive(p) \/ MtReceiveFails(p)

Next ==
  \/ \E e \in Envs : Calls(e) \/ Progress(e)
  \/ \E p \in Procs : MtNext(p) \/ Crash(p) \/ Hang(p)

Spec == Init /\ [][Next]_vars

(* A call that can go on goes on (poll ends by its timeout), and a process *)
(* whose main loop goes round gets to its next exchange.  Calling, and the *)
(* end of the main loop by a crash or into a hang, are choices.            *)
FairSpec ==
  /\ Spec
  /\ \A e \in Envs : WF_vars(Progress(e))
  /\ \A p \in Procs : WF_vars(MtNext(p))

-----------------------------------------------------------------------------
(* The environment answers as the Gymnasium interface promises.            *)
GymSpec == G!Spec

(* One message is under way between a process and Python, or the process   *)
(* is computing the next: nobody sends out of turn, whatever calls failed. *)
OneInFlight ==
  \A p \in Procs :
    Len(toPy[p]) + Len(toMt[p]) + (IF mt[p] = "running" THEN 1 ELSE 0) <= 1

(* Python and the process never both wait for the other's message.         *)
NeverBothWaiting ==
  \A e \in Envs :
    LET p == Peer(e) IN
    Receiving(e) /\ p # None /\ mt[p] = "waiting" => toPy[p] # <<>> \/ toMt[p] # <<>>

(* An environment keeps at most one process alive, unless a listen timed   *)
(* out and left its process behind.                                        *)
NoStrayProcess ==
  \A p \in 1 .. started :
    LET e == owner[p] IN
    mt[p] # "gone" /\ p # proc[e] => e \in timedOut

(* Every call returns or raises, unless a listen timed out before or the   *)
(* process it talks to hangs in its shutdown: recv and wait have no        *)
(* timeout, and nothing tells Python of a process that only hangs.         *)
Hung(e) == proc[e] # None /\ mt[proc[e]] = "hung"
CallsReturn ==
  \A e \in Envs :
    py[e] \notin {"idle", "closed"} ~> py[e] \in {"idle", "closed"} \/ e \in timedOut \/ Hung(e)

-----------------------------------------------------------------------------
(* What reset says ("Resets the environment to an initial internal state,  *)
(* returning an initial observation"): the wait for the old process ends.  *)
ResetReturns == \A e \in Envs : py[e] = "kill" ~> py[e] # "kill"

(* What close_conn says ("Close the connection with MT, if it's open"): a   *)
(* descriptor an environment holds is no other environment's connection.   *)
OnlyOwnConnection ==
  \A e \in Envs : Peer(e) # None => owner[Peer(e)] = e
=============================================================================
