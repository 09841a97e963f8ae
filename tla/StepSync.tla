------------------------------ MODULE StepSync ------------------------------
(***************************************************************************)
(* The step synchronisation of sync_env_mode (src/src/client/craftium.h).  *)
(*                                                                         *)
(* A single-player process runs a server thread (ServerThread::run) and a  *)
(* main thread whose frames call Client::step.  Before each of its steps a *)
(* thread posts the other thread's named POSIX semaphore and then waits on *)
(* its own: the server posts B and waits on A, the client posts A and      *)
(* waits on B.  The semaphores are named after the `port` setting.  Python *)
(* keeps that setting for every process it starts (Minetest.config), and   *)
(* nobody unlinks the names, so their values survive the process.          *)
(***************************************************************************)
EXTENDS Integers

CONSTANTS
  MaxBoots,    (* bound: processes started on one port                     *)
  MaxCrashes   (* bound: processes that die at an arbitrary point          *)

ASSUME StepSyncAssumption ==
  /\ MaxBoots \in Nat
  /\ MaxCrashes \in Nat

Names == {"A", "B"}

VARIABLES
  named,       (* the semaphore names that exist in the kernel             *)
  semA, semB,  (* their values; a name that does not exist holds 0         *)
  srv, cli,    (* where the server thread and the main thread are          *)
  lastExit,    (* how the last process ended                               *)
  boots, crashes,
  (* History of the current process: client steps begun minus server steps *)
  (* begun, and the names and values its threads found when it started.    *)
  lead, preNamed, baseA, baseB

procVars == <<lastExit, boots, crashes, preNamed, baseA, baseB>>
vars == <<named, semA, semB, srv, cli, lead, procVars>>

SrvPC == {"off", "start", "openA", "openB", "post", "wait", "step", "exited"}
Exits == {"none", "openFailed", "killed", "crashed", "quit"}
CliPC == {"off", "start", "openA", "openB", "post", "wait", "step", "gone"}

TypeOK ==
  /\ named \in SUBSET Names
  /\ preNamed \in SUBSET Names
  /\ semA \in Nat
  /\ semB \in Nat
  /\ baseA \in Nat
  /\ baseB \in Nat
  /\ srv \in SrvPC
  /\ cli \in CliPC
  /\ lastExit \in Exits
  /\ boots \in Nat
  /\ crashes \in Nat
  /\ lead \in Int

Init ==
  /\ named = {} /\ preNamed = {}
  /\ semA = 0 /\ semB = 0 /\ baseA = 0 /\ baseB = 0
  /\ srv = "off" /\ cli = "off"
  /\ lastExit = "none"
  /\ boots = 0 /\ crashes = 0 /\ lead = 0

Off == srv = "off" /\ cli = "off"

(* The process is gone: no thread runs, the kernel keeps the semaphores.   *)
ProcessEnds(how) ==
  /\ srv' = "off"
  /\ cli' = "off"
  /\ lastExit' = how
  /\ UNCHANGED <<named, semA, semB, lead, boots, preNamed, baseA, baseB>>

(* Thread::m_request_stop of the server thread: Game::shutdown sets it     *)
(* when the client is gone.                                                *)
StopRequested == cli = "gone"

-----------------------------------------------------------------------------
(* Python's CraftiumEnv.reset starts a process with the configured port.   *)
Launch ==
  /\ Off /\ boots < MaxBoots
  /\ srv' = "start" /\ cli' = "start"
  /\ lastExit' = "none"
  /\ boots' = boots + 1
  /\ lead' = 0
  /\ preNamed' = named /\ baseA' = semA /\ baseB' = semB
  /\ UNCHANGED <<named, semA, semB, crashes>>

(* ServerThread::run: the initial AsyncRunStep precedes the loop, whose    *)
(* head tests stopRequested; the first syncServerStep opens the names.     *)
SrvStart ==
  /\ srv = "start"
  /\ srv' = IF StopRequested THEN "exited" ELSE "openA"
  /\ UNCHANGED <<named, semA, semB, cli, lead, procVars>>

(* Mutant: the server unlinks both names before it creates them anew.      *)
SrvOpenA_Unlinks ==
  /\ srv = "openA"
  /\ srv' = "openB"
  /\ named' = {"A"}
  /\ UNCHANGED <<semA, semB, cli, lead, procVars>>

(* sem_open(.., O_CREAT, 0644, 0): the value 0 is used only for a new name *)
SrvOpenA ==
  /\ srv = "openA"
  /\ srv' = "openB"
  /\ named' = named \union {"A"}
  /\ UNCHANGED <<semA, semB, cli, lead, procVars>>

SrvOpenB ==
  /\ srv = "openB"
  /\ srv' = "post"
  /\ named' = named \union {"B"}
  /\ UNCHANGED <<semA, semB, cli, lead, procVars>>

(* Mutant: the server forgets to let the client through.                   *)
SrvPost_Forgets ==
  /\ srv = "post"
  /\ srv' = "wait"
  /\ UNCHANGED <<named, semA, semB, cli, lead, procVars>>

(* Mutant: the server posts the semaphore it is about to wait on.          *)
SrvPost_OwnSemaphore ==
  /\ srv = "post"
  /\ srv' = "wait"
  /\ semA' = semA + 1
  /\ UNCHANGED <<named, semB, cli, lead, procVars>>

SrvPost ==
  /\ srv = "post"
  /\ srv' = "wait"
  /\ semB' = semB + 1
  /\ UNCHANGED <<named, semA, cli, lead, procVars>>

(* Mutant: the server does not wait when the semaphore holds no token.     *)
SrvWait_DoesNotBlock ==
  /\ srv = "wait"
  /\ srv' = "step"
  /\ semA' = semA - 1
  /\ lead' = lead - 1
  /\ UNCHANGED <<named, semB, cli, procVars>>

SrvWait ==
  /\ srv = "wait" /\ semA > 0
  /\ srv' = "step"
  /\ semA' = semA - 1
  /\ lead' = lead - 1
  /\ UNCHANGED <<named, semB, cli, procVars>>

(* AsyncRunStep and Receive, then the loop head again.                     *)
SrvStep ==
  /\ srv = "step"
  /\ srv' = IF StopRequested THEN "exited" ELSE "post"
  /\ UNCHANGED <<named, semA, semB, cli, lead, procVars>>

-----------------------------------------------------------------------------
(* The main thread creates the client; the first Client::step opens the    *)
(* names without O_CREAT, and exits the process when one does not exist.   *)
CliStart ==
  /\ cli = "start"
  /\ cli' = "openA"
  /\ UNCHANGED <<named, semA, semB, srv, lead, procVars>>

CliOpenA ==
  /\ cli = "openA" /\ "A" \in named
  /\ cli' = "openB"
  /\ UNCHANGED <<named, semA, semB, srv, lead, procVars>>

CliOpenB ==
  /\ cli = "openB" /\ "B" \in named
  /\ cli' = "post"
  /\ UNCHANGED <<named, semA, semB, srv, lead, procVars>>

CliOpenFails ==
  /\ \/ cli = "openA" /\ "A" \notin named
     \/ cli = "openB" /\ "B" \notin named
  /\ ProcessEnds("openFailed")
  /\ UNCHANGED crashes

(* Mutant: the client forgets to let the server through.                   *)
CliPost_Forgets ==
  /\ cli = "post"
  /\ cli' = "wait"
  /\ UNCHANGED <<named, semA, semB, srv, lead, procVars>>

(* Mutant: the client posts A once more than it waits.                     *)
CliPost_Twice ==
  /\ cli = "post"
  /\ cli' = "wait"
  /\ semA' = semA + 2
  /\ UNCHANGED <<named, semB, srv, lead, procVars>>

CliPost ==
  /\ cli = "post"
  /\ cli' = "wait"
  /\ semA' = semA + 1
  /\ UNCHANGED <<named, semB, srv, lead, procVars>>

CliWait ==
  /\ cli = "wait" /\ semB > 0
  /\ cli' = "step"
  /\ semB' = semB - 1
  /\ lead' = lead + 1
  /\ UNCHANGED <<named, semA, srv, procVars>>

(* The rest of Client::step, pyConnStep and the frame around it.           *)
CliStep ==
  /\ cli = "step"
  /\ cli' = "post"
  /\ UNCHANGED <<named, semA, semB, srv, lead, procVars>>

(* pyConnStep receives an action whose kill byte is set: exit(0).          *)
CliKilled ==
  /\ cli = "step"
  /\ ProcessEnds("killed")
  /\ UNCHANGED crashes

-----------------------------------------------------------------------------
(* The process dies wherever its threads are.                              *)
Crash ==
  /\ ~Off /\ crashes < MaxCrashes
  /\ crashes' = crashes + 1
  /\ ProcessEnds("crashed")

(* The client cannot be created, or the main loop of Game::run ends        *)
(* between frames.  Game::shutdown deletes the client, then the server:    *)
(* Server::stop sets the stop flag and joins the thread.                   *)
Quit ==
  /\ cli \in {"start", "post"}
  /\ cli' = "gone"
  /\ UNCHANGED <<named, semA, semB, srv, lead, procVars>>

(* The join returns and the process exits.                                 *)
ExitAfterJoin ==
  /\ cli = "gone" /\ srv = "exited"
  /\ ProcessEnds("quit")
  /\ UNCHANGED crashes

SrvNext == SrvStart \/ SrvOpenA \/ SrvOpenB \/ SrvPost \/ SrvWait \/ SrvStep
CliNext == \/ CliStart \/ CliOpenA \/ CliOpenB \/ CliOpenFails
           \/ CliPost \/ CliWait \/ CliStep \/ ExitAfterJoin

Next == Launch \/ SrvNext \/ CliNext \/ CliKilled \/ Crash \/ Quit

(* Each thread that can run is run: the scheduler starves nobody, and the  *)
(* agent answers every observation (CliStep).  Starting, killing, crashing *)
(* and quitting are choices of others and carry no fairness.               *)
Fairness == WF_vars(SrvNext) /\ WF_vars(CliNext)

Spec == Init /\ [][Next]_vars
FairSpec == Spec /\ Fairness

-----------------------------------------------------------------------------
Posted(pc) == IF pc = "wait" THEN 1 ELSE 0

(* Every token is accounted for: what a semaphore holds is what its        *)
(* process found, plus what was posted and not yet taken.  This is the     *)
(* pairing of syncServerStep and syncClientStep.                           *)
TokensBalance ==
  ~Off => /\ semA = baseA + lead + Posted(cli)
          /\ semB = baseB - lead + Posted(srv)

(* The threads of a process never drift apart by more than one step plus   *)
(* the tokens its semaphores held when it started.                         *)
SkewBound == ~Off => -(baseA + 1) <= lead /\ lead <= baseB + 1

(* A process leaves at most one token more than it found, a crash at most  *)
(* two: over the life of a port the tokens a process can inherit never     *)
(* exceed the processes that ran before it plus the crashes.               *)
DebtBound == IF Off THEN semA + semB <= boots + crashes
                    ELSE baseA + baseB <= boots - 1 + crashes

(* The client's sem_open can fail only in a process that started before    *)
(* both names existed: the first server to run creates them for good.      *)
OpenFailsOnlyOnFreshPort == lastExit = "openFailed" => preNamed # Names

(* Neither thread is left waiting while the other keeps running: the post  *)
(* before each wait always lets the partner through, until the main loop   *)
(* ends.                                                                   *)
ServerNotStuck == srv = "wait" ~> (srv # "wait" \/ StopRequested)
ClientNotStuck == cli = "wait" ~> cli # "wait"

(* What the documentation of sync_mode says (craftium_env.py:48, "internal *)
(* client and server steps are synchronized"): neither thread gets more    *)
(* than one step ahead, in every process the environment starts.           *)
StepsSynchronized == ~Off => lead \in -1 .. 1

(* What Server::stop relies on (server.cpp:613, "set run=false first so    *)
(* both start stopping"): once stop is requested the threads end and the   *)
(* process exits.                                                          *)
ShutdownCompletes == StopRequested ~> Off
=============================================================================
