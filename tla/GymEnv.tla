------------------------------- MODULE GymEnv -------------------------------
(***************************************************************************)
(* What CraftiumEnv promises a training loop: the calls of Gymnasium's Env *)
(* and what each may answer.  An episode source is a Minetest process.     *)
(*                                                                         *)
(*  - step answers with the observation made after its own action, by the  *)
(*    process that answered the last reset;                                *)
(*  - a hard reset answers from a process nobody has heard from before, a  *)
(*    soft reset from the same process;                                    *)
(*  - a call may also raise, or hand out a torn observation of a process   *)
(*    that died while it sent it.                                          *)
(***************************************************************************)
EXTENDS Integers

CONSTANTS
  Envs,   (* the environments of one Python process                        *)
  Procs   (* the Minetest processes                                        *)

VARIABLES
  phase,   (* the call each environment is in                              *)
  issued,  (* the number of the last action it sent                        *)
  source,  (* the process that answered its last reset, 0 for none         *)
  heard,   (* the processes that ever answered                             *)
  answer   (* how its last call ended                                      *)

vars == <<phase, issued, source, heard, answer>>

Phases == {"idle", "step", "hardReset", "softReset", "close", "closed"}

Observation(proc, action) == [kind |-> "observation", proc |-> proc, action |-> action]
Torn   == [kind |-> "torn", proc |-> 0, action |-> 0]
Raised == [kind |-> "raised", proc |-> 0, action |-> 0]
Silent == [kind |-> "none", proc |-> 0, action |-> 0]

Init ==
  /\ phase = [e \in Envs |-> "idle"]
  /\ issued = [e \in Envs |-> 0]
  /\ source = [e \in Envs |-> 0]
  /\ heard = {}
  /\ answer = [e \in Envs |-> Silent]

Send(e) ==
  /\ issued' = [issued EXCEPT ![e] = issued'[e]]
  /\ issued'[e] > issued[e]

(* A call starts.  Every action that is sent has a number of its own.      *)
Call(e) ==
  /\ phase[e] = "idle"
  /\ \E call \in Phases \ {"idle", "closed"} : phase' = [phase EXCEPT ![e] = call]
  /\ answer' = [answer EXCEPT ![e] = Silent]
  /\ UNCHANGED <<source, heard>>
  /\ Send(e) \/ UNCHANGED issued

(* A hard reset lets the new process play a few frames.                    *)
SendInit(e) ==
  /\ phase[e] = "hardReset"
  /\ Send(e)
  /\ UNCHANGED <<phase, source, heard, answer>>

AnswerStep(e) ==
  /\ phase[e] = "step"
  /\ answer' = [answer EXCEPT ![e] = Observation(source[e], issued[e])]
  /\ phase' = [phase EXCEPT ![e] = "idle"]
  /\ UNCHANGED <<issued, source, heard>>

AnswerSoftReset(e) ==
  /\ phase[e] = "softReset"
  /\ answer' = [answer EXCEPT ![e] = Observation(source[e], issued[e])]
  /\ phase' = [phase EXCEPT ![e] = "idle"]
  /\ UNCHANGED <<issued, source, heard>>

AnswerHardReset(e) ==
  /\ phase[e] = "hardReset"
  /\ \E p \in Procs \ heard, n \in {0, issued[e]} :
       /\ answer' = [answer EXCEPT ![e] = Observation(p, n)]
       /\ source' = [source EXCEPT ![e] = p]
       /\ heard' = heard \union {p}
  /\ phase' = [phase EXCEPT ![e] = "idle"]
  /\ UNCHANGED issued

(* The answer is torn, or the call raises: at once or after a while.       *)
Fail(e) ==
  /\ phase[e] # "closed"
  /\ phase' = [phase EXCEPT ![e] = "idle"]
  /\ \E how \in {Torn, Raised} : answer' = [answer EXCEPT ![e] = how]
  /\ Send(e) \/ UNCHANGED issued
  /\ UNCHANGED <<source, heard>>

Closed(e) ==
  /\ phase[e] \in {"idle", "close"}
  /\ phase' = [phase EXCEPT ![e] = "closed"]
  /\ UNCHANGED <<issued, source, heard, answer>>

Next == \E e \in Envs :
  \/ Call(e) \/ SendInit(e) \/ AnswerStep(e) \/ AnswerSoftReset(e) \/ AnswerHardReset(e)
  \/ Fail(e) \/ Closed(e)

Spec == Init /\ [][Next]_vars
=============================================================================
