---------------------------- MODULE ResetSignals ----------------------------
(***************************************************************************)
(* The termination and soft-reset flags of an environment: plain globals   *)
(* of craftium.h.  The mods set and reset them on the server thread,       *)
(* pyConnStep reports and clears the termination and sets the soft-reset   *)
(* flag on the main thread, without a lock.                                *)
(*                                                                         *)
(* One action is one access to a flag.  reset_termination's two stores may *)
(* take effect in either order.  The mod polls get_soft_reset in its       *)
(* globalstep, as the soft-reset environments of craftium-envs do.         *)
(***************************************************************************)
EXTENDS Integers

CONSTANTS
  MaxTerms,    (* bound: calls of set_termination                          *)
  MaxResets    (* bound: soft resets the agent asks for                    *)

ASSUME ResetAssumption == MaxTerms \in Nat /\ MaxResets \in Nat

VARIABLES
  termination, (* g_termination: "up" or "down"                            *)
  softReset,   (* g_soft_reset                                             *)
  lua,         (* the server thread                                        *)
  cli,         (* the main thread in pyConnStep                            *)
  bufTerm,     (* the termination byte of obs_rwd_buffer                   *)
  answering,   (* the Python call that waits for the observation           *)
  shot,        (* whether its screenshot shows the reset world             *)
  (* History: terminations set and reported, whether one is owed to the    *)
  (* agent, resets asked for and done, and how the last request stands.    *)
  sets, reports, owed, asked, done, request

flags == <<termination, softReset>>
cliVars == <<cli, bufTerm, answering, shot>>
termHistory == <<sets, reports, owed>>
resetHistory == <<asked, done, request>>
vars == <<flags, lua, cliVars, termHistory, resetHistory>>

Flag == {"up", "down"}

TypeOK ==
  /\ termination \in Flag /\ softReset \in Flag
  /\ lua \in {"idle", "polled", "clearBoth", "clearTermination", "clearSoftReset"}
  /\ cli \in {"shot", "test", "clear", "exchange", "soft"}
  /\ bufTerm \in Flag
  /\ answering \in {"step", "reset"} /\ shot \in {"current", "old"}
  /\ sets \in 0 .. MaxTerms /\ reports \in 0 .. MaxTerms /\ owed \in {"yes", "no"}
  /\ asked \in 0 .. MaxResets /\ done \in 0 .. MaxResets
  /\ request \in {"none", "made", "set", "overlapped"}

Init ==
  /\ termination = "down" /\ softReset = "down"
  /\ lua = "idle"
  /\ cli = "shot" /\ bufTerm = "down" /\ answering = "step" /\ shot = "current"
  /\ sets = 0 /\ reports = 0 /\ owed = "no"
  /\ asked = 0 /\ done = 0 /\ request = "none"

-----------------------------------------------------------------------------
(* lua_set_termination: one store.                                         *)
SetTermination ==
  /\ lua = "idle" /\ sets < MaxTerms
  /\ termination' = "up"
  /\ sets' = sets + 1 /\ owed' = "yes"
  /\ UNCHANGED <<softReset, lua, cliVars, reports, resetHistory>>

(* The globalstep reads get_soft_reset ...                                 *)
PollSoftReset ==
  /\ lua = "idle" /\ softReset = "up"
  /\ lua' = "polled"
  /\ UNCHANGED <<flags, cliVars, termHistory, resetHistory>>

(* ... resets the world, and calls reset_termination.                      *)
ResetWorld ==
  /\ lua = "polled"
  /\ lua' = "clearBoth"
  /\ done' = done + 1 /\ request' = "none"
  /\ UNCHANGED <<flags, cliVars, termHistory, asked>>

ClearTermination ==
  /\ lua \in {"clearBoth", "clearTermination"}
  /\ lua' = IF lua = "clearBoth" THEN "clearSoftReset" ELSE "idle"
  /\ termination' = "down" /\ owed' = "no"
  /\ UNCHANGED <<softReset, cliVars, sets, reports, resetHistory>>

(* Mutant: reset_termination leaves the soft-reset flag up.                *)
ClearSoftReset_Forgets ==
  /\ lua \in {"clearBoth", "clearSoftReset"}
  /\ lua' = IF lua = "clearBoth" THEN "clearTermination" ELSE "idle"
  /\ UNCHANGED <<flags, cliVars, termHistory, resetHistory>>

ClearSoftReset ==
  /\ lua \in {"clearBoth", "clearSoftReset"}
  /\ lua' = IF lua = "clearBoth" THEN "clearTermination" ELSE "idle"
  /\ softReset' = "down"
  /\ UNCHANGED <<termination, cliVars, termHistory, resetHistory>>

-----------------------------------------------------------------------------
(* pyConnStep, in a frame that talks to Python: the screenshot ...         *)
TakeScreenshot ==
  /\ cli = "shot"
  /\ cli' = "test"
  /\ shot' = IF request = "none" THEN "current" ELSE "old"
  /\ UNCHANGED <<flags, lua, bufTerm, answering, termHistory, resetHistory>>

(* Mutant: the flag is cleared before it is tested.                        *)
TestTermination_ClearsFirst ==
  /\ cli = "test"
  /\ termination' = "down"
  /\ bufTerm' = "down"
  /\ cli' = "exchange"
  /\ UNCHANGED <<softReset, lua, answering, shot, termHistory, resetHistory>>

(* Mutant: the flag is not cleared when it is reported.                    *)
TestTermination_Keeps ==
  /\ cli = "test"
  /\ bufTerm' = termination
  /\ cli' = "exchange"
  /\ UNCHANGED <<flags, lua, answering, shot, termHistory, resetHistory>>

(* ... the test of g_termination ...                                       *)
TestTermination ==
  /\ cli = "test"
  /\ bufTerm' = termination
  /\ cli' = IF termination = "up" THEN "clear" ELSE "exchange"
  /\ UNCHANGED <<flags, lua, answering, shot, termHistory, resetHistory>>

(* ... and its reset.                                                      *)
ResetTermination ==
  /\ cli = "clear"
  /\ cli' = "exchange"
  /\ termination' = "down"
  /\ UNCHANGED <<softReset, lua, bufTerm, answering, shot, termHistory, resetHistory>>

Report ==
  /\ reports' = IF bufTerm = "up" THEN reports + 1 ELSE reports
  /\ owed' = IF bufTerm = "up" THEN "no" ELSE owed
  /\ bufTerm' = "down"
  /\ UNCHANGED <<flags, lua, shot, sets, done>>

(* Mutant: the soft_reset byte of the action is dropped.                   *)
AnswerSoftReset_Ignored ==
  /\ cli = "exchange" /\ asked < MaxResets
  /\ Report
  /\ cli' = "shot" /\ answering' = "reset"
  /\ asked' = asked + 1 /\ request' = "made"

(* The observation reaches Python, which answers with the action of a step *)
(* (or a kill, which ends the process and its flags with it) ...           *)
AnswerStep ==
  /\ cli = "exchange"
  /\ Report
  /\ cli' = "shot" /\ answering' = "step"
  /\ UNCHANGED <<asked, request>>

(* ... or with a soft reset.                                               *)
AnswerSoftReset ==
  /\ cli = "exchange" /\ asked < MaxResets
  /\ Report
  /\ cli' = "soft" /\ answering' = "reset"
  /\ asked' = asked + 1 /\ request' = "made"

(* g_soft_reset is set.  Between the mod's reset of the world and its      *)
(* clearing of the flag, the request goes under in that clearing.          *)
SetSoftReset ==
  /\ cli = "soft"
  /\ cli' = "shot"
  /\ softReset' = "up"
  /\ request' = IF request = "none" THEN "none"
                ELSE IF lua \in {"clearBoth", "clearSoftReset"} THEN "overlapped"
                ELSE "set"
  /\ UNCHANGED <<termination, lua, bufTerm, answering, shot, termHistory, asked, done>>

-----------------------------------------------------------------------------
LuaNext == PollSoftReset \/ ResetWorld \/ ClearTermination \/ ClearSoftReset
CliNext ==
  \/ TakeScreenshot \/ TestTermination \/ ResetTermination
  \/ AnswerStep \/ AnswerSoftReset \/ SetSoftReset

Next == SetTermination \/ LuaNext \/ CliNext

Spec == Init /\ [][Next]_vars

(* The mod's globalstep is called again and again and finishes, and the    *)
(* agent keeps answering.  Terminations are the mod's choice.              *)
FairSpec == Spec /\ WF_vars(LuaNext) /\ WF_vars(CliNext)

-----------------------------------------------------------------------------
(* The agent is never told of more terminations than the mods have set.    *)
TerminationNotInvented == reports <= sets

(* A termination that is owed is still in the flag or on its way to the    *)
(* agent: the unlocked test and reset of pyConnStep swallow none.          *)
TerminationNotLost ==
  owed = "yes" => termination = "up" \/ bufTerm = "up"

(* Every termination is reported, or withdrawn by reset_termination.       *)
TerminationReported == owed = "yes" ~> owed = "no"

(* The mod resets the world at most once for each soft reset asked for.    *)
NoSpuriousReset == done <= asked

(* A soft reset is followed by a reset of the world, unless it came while  *)
(* the mod was finishing an earlier one.                                   *)
SoftResetServed == request \in {"made", "set"} ~> request \in {"none", "overlapped"}

-----------------------------------------------------------------------------
(* What CraftiumEnv.reset says ("Resets the environment to an initial      *)
(* internal state, returning an initial observation"): the observation it  *)
(* returns shows the world as the mod has reset it.                        *)
ResetObservationInitial == cli = "exchange" /\ answering = "reset" => shot = "current"
=============================================================================
