------------------------- MODULE ResetSignalsProofs -------------------------
(* The safety of the termination and soft-reset flags, for any number of   *)
(* terminations and soft resets.                                           *)
EXTENDS ResetSignals, TLAPS

One(condition) == IF condition THEN 1 ELSE 0

(* The byte of the buffer is up only between its test and its sending, and *)
(* then pyConnStep is about to put the flag down, or has.                  *)
ByteInUse ==
  /\ bufTerm = "up" => cli \in {"clear", "exchange"}
  /\ cli = "clear" => bufTerm = "up"

(* A termination that was set is counted once: where it was reported, in   *)
(* the byte, or in the flag, unless that is about to be put down with it.  *)
TermsBalance ==
  reports + One(bufTerm = "up") + One(termination = "up" /\ cli # "clear") <= sets

(* Resets still to come: of a request the mod has seen or will see in the  *)
(* flag, and of one that pyConnStep has not put there yet.                 *)
Due ==
  One(lua = "polled" \/ (softReset = "up" /\ lua \in {"idle", "clearTermination"}))
    + One(cli = "soft")

ResetsBalance == done + Due <= asked

(* TypeOK bounds reports and done, so it only follows from the balances.   *)
TypeInv ==
  /\ termination \in Flag /\ softReset \in Flag
  /\ lua \in {"idle", "polled", "clearBoth", "clearTermination", "clearSoftReset"}
  /\ cli \in {"shot", "test", "clear", "exchange", "soft"}
  /\ bufTerm \in Flag
  /\ answering \in {"step", "reset"} /\ shot \in {"current", "old"}
  /\ sets \in 0 .. MaxTerms /\ reports \in Nat /\ owed \in {"yes", "no"}
  /\ asked \in 0 .. MaxResets /\ done \in Nat
  /\ request \in {"none", "made", "set", "overlapped"}

IInv == TypeInv /\ ByteInUse /\ TermsBalance /\ ResetsBalance /\ TerminationNotLost

LEMMA InitIInv == Init => IInv
<1> SUFFICES ASSUME Init PROVE IInv
  OBVIOUS
<1>1. TypeInv
  BY ResetAssumption DEF Init, TypeInv, Flag
<1>2. ByteInUse /\ TermsBalance /\ ResetsBalance /\ TerminationNotLost
  BY DEF Init, ByteInUse, TermsBalance, ResetsBalance, Due, One, TerminationNotLost
<1>3. QED
  BY <1>1, <1>2 DEF IInv

(* The mod's side: what it does to the flags leaves the byte alone.        *)
LEMMA LuaKeepsIInv ==
  ASSUME IInv, SetTermination \/ LuaNext
  PROVE  IInv'
<1> USE ResetAssumption DEF IInv
<1>1. CASE SetTermination
  <2>1. TypeInv'
    BY <1>1 DEF SetTermination, TypeInv, Flag, cliVars, resetHistory
  <2>2. ByteInUse' /\ TermsBalance'
    BY <1>1 DEF SetTermination, ByteInUse, TermsBalance, One, TypeInv, cliVars
  <2>3. ResetsBalance' /\ TerminationNotLost'
    BY <1>1 DEF SetTermination, ResetsBalance, Due, One, TerminationNotLost, TypeInv,
                cliVars, resetHistory
  <2>4. QED
    BY <2>1, <2>2, <2>3
<1>2. CASE PollSoftReset
  <2>1. TypeInv'
    BY <1>2 DEF PollSoftReset, TypeInv, flags, cliVars, termHistory, resetHistory
  <2>2. ByteInUse' /\ TermsBalance' /\ TerminationNotLost'
    BY <1>2 DEF PollSoftReset, ByteInUse, TermsBalance, One, TerminationNotLost,
                flags, cliVars, termHistory
  <2>3. ResetsBalance'
    BY <1>2 DEF PollSoftReset, ResetsBalance, Due, One, TypeInv, flags, cliVars, resetHistory
  <2>4. QED
    BY <2>1, <2>2, <2>3
<1>3. CASE ResetWorld
  <2>1. TypeInv'
    BY <1>3 DEF ResetWorld, TypeInv, flags, cliVars, termHistory
  <2>2. ByteInUse' /\ TermsBalance' /\ TerminationNotLost'
    BY <1>3 DEF ResetWorld, ByteInUse, TermsBalance, One, TerminationNotLost,
                flags, cliVars, termHistory
  <2>3. ResetsBalance'
    BY <1>3 DEF ResetWorld, ResetsBalance, Due, One, TypeInv, flags, cliVars
  <2>4. QED
    BY <2>1, <2>2, <2>3
<1>4. CASE ClearTermination
  <2>1. TypeInv'
    BY <1>4 DEF ClearTermination, TypeInv, Flag, cliVars, resetHistory
  <2>2. ByteInUse' /\ TermsBalance' /\ TerminationNotLost'
    BY <1>4 DEF ClearTermination, ByteInUse, TermsBalance, One, TerminationNotLost, TypeInv,
                cliVars
  <2>3. ResetsBalance'
    BY <1>4 DEF ClearTermination, ResetsBalance, Due, One, TypeInv, cliVars, resetHistory
  <2>4. QED
    BY <2>1, <2>2, <2>3
<1>5. CASE ClearSoftReset
  <2>1. TypeInv'
    BY <1>5 DEF ClearSoftReset, TypeInv, Flag, cliVars, termHistory, resetHistory
  <2>2. ByteInUse' /\ TermsBalance' /\ TerminationNotLost'
    BY <1>5 DEF ClearSoftReset, ByteInUse, TermsBalance, One, TerminationNotLost,
                cliVars, termHistory
  <2>3. ResetsBalance'
    BY <1>5 DEF ClearSoftReset, ResetsBalance, Due, One, TypeInv, cliVars, resetHistory
  <2>4. QED
    BY <2>1, <2>2, <2>3
<1>6. QED
  BY <1>1, <1>2, <1>3, <1>4, <1>5 DEF LuaNext

(* pyConnStep's side.                                                      *)
LEMMA CliKeepsIInv ==
  ASSUME IInv, CliNext
  PROVE  IInv'
<1> USE ResetAssumption DEF IInv
<1>1. CASE TakeScreenshot
  BY <1>1 DEF TakeScreenshot, TypeInv, ByteInUse, TermsBalance, ResetsBalance, Due, One,
              TerminationNotLost, flags, termHistory, resetHistory
<1>2. CASE TestTermination
  <2>1. TypeInv'
    BY <1>2 DEF TestTermination, TypeInv, Flag, flags, termHistory, resetHistory
  <2>2. ByteInUse' /\ TermsBalance' /\ TerminationNotLost'
    BY <1>2 DEF TestTermination, ByteInUse, TermsBalance, One, TerminationNotLost, TypeInv,
                Flag, flags, termHistory
  <2>3. ResetsBalance'
    BY <1>2 DEF TestTermination, ResetsBalance, Due, One, flags, resetHistory
  <2>4. QED
    BY <2>1, <2>2, <2>3
<1>3. CASE ResetTermination
  <2>1. TypeInv'
    BY <1>3 DEF ResetTermination, TypeInv, Flag, termHistory, resetHistory
  <2>2. ByteInUse' /\ TermsBalance' /\ TerminationNotLost'
    BY <1>3 DEF ResetTermination, ByteInUse, TermsBalance, One, TerminationNotLost, TypeInv,
                termHistory
  <2>3. ResetsBalance'
    BY <1>3 DEF ResetTermination, ResetsBalance, Due, One, resetHistory
  <2>4. QED
    BY <2>1, <2>2, <2>3
<1>4. CASE AnswerStep
  <2>1. TypeInv'
    BY <1>4 DEF AnswerStep, Report, TypeInv, Flag, flags
  <2>2. ByteInUse' /\ TermsBalance' /\ TerminationNotLost'
    BY <1>4 DEF AnswerStep, Report, ByteInUse, TermsBalance, One, TerminationNotLost, TypeInv,
                Flag, flags
  <2>3. ResetsBalance'
    BY <1>4 DEF AnswerStep, Report, ResetsBalance, Due, One, flags
  <2>4. QED
    BY <2>1, <2>2, <2>3
<1>5. CASE AnswerSoftReset
  <2>1. TypeInv'
    BY <1>5 DEF AnswerSoftReset, Report, TypeInv, Flag, flags
  <2>2. ByteInUse' /\ TermsBalance' /\ TerminationNotLost'
    BY <1>5 DEF AnswerSoftReset, Report, ByteInUse, TermsBalance, One, TerminationNotLost,
                TypeInv, Flag, flags
  <2>3. ResetsBalance'
    BY <1>5 DEF AnswerSoftReset, Report, ResetsBalance, Due, One, TypeInv, flags
  <2>4. QED
    BY <2>1, <2>2, <2>3
<1>6. CASE SetSoftReset
  <2>1. TypeInv'
    BY <1>6 DEF SetSoftReset, TypeInv, Flag, termHistory
  <2>2. ByteInUse' /\ TermsBalance' /\ TerminationNotLost'
    BY <1>6 DEF SetSoftReset, ByteInUse, TermsBalance, One, TerminationNotLost, termHistory
  <2>3. ResetsBalance'
    BY <1>6 DEF SetSoftReset, ResetsBalance, Due, One, TypeInv
  <2>4. QED
    BY <2>1, <2>2, <2>3
<1>7. QED
  BY <1>1, <1>2, <1>3, <1>4, <1>5, <1>6 DEF CliNext

LEMMA NextIInv == IInv /\ [Next]_vars => IInv'
<1> SUFFICES ASSUME IInv, [Next]_vars PROVE IInv'
  OBVIOUS
<1>1. CASE SetTermination \/ LuaNext
  BY <1>1, LuaKeepsIInv
<1>2. CASE CliNext
  BY <1>2, CliKeepsIInv
<1>3. CASE UNCHANGED vars
  BY <1>3 DEF IInv, TypeInv, ByteInUse, TermsBalance, ResetsBalance, Due, One,
              TerminationNotLost, vars, flags, cliVars, termHistory, resetHistory
<1>4. QED
  BY <1>1, <1>2, <1>3 DEF Next

LEMMA IInvHolds == Spec => []IInv
  BY InitIInv, NextIInv, PTL DEF Spec

(* The agent is never told of a termination that no mod has set, whatever  *)
(* the interleaving of the unlocked flag accesses.                         *)
THEOREM NothingInvented == Spec => []TerminationNotInvented
<1>1. IInv => TerminationNotInvented
  BY DEF IInv, TypeInv, TermsBalance, One, TerminationNotInvented
<1>2. QED
  BY <1>1, IInvHolds, PTL

(* A termination that is neither reported nor withdrawn is still in the    *)
(* flag or in the buffer: test-then-clear swallows none.                   *)
THEOREM NothingLost == Spec => []TerminationNotLost
<1>1. IInv => TerminationNotLost
  BY DEF IInv
<1>2. QED
  BY <1>1, IInvHolds, PTL

(* The mod never resets the world more often than the agent asked.         *)
THEOREM NoResetUnasked == Spec => []NoSpuriousReset
<1>1. IInv => NoSpuriousReset
  BY DEF IInv, TypeInv, ResetsBalance, Due, One, NoSpuriousReset
<1>2. QED
  BY <1>1, IInvHolds, PTL

(* The variables stay in their types, the bounds of the history included.  *)
THEOREM TypeCorrect == Spec => []TypeOK
<1>1. IInv => TypeOK
  <2> SUFFICES ASSUME IInv PROVE TypeOK
    OBVIOUS
  <2>1. reports <= sets /\ done <= asked
    BY DEF IInv, TypeInv, TermsBalance, ResetsBalance, Due, One
  <2>2. QED
    BY <2>1, ResetAssumption DEF IInv, TypeInv, TypeOK
<1>2. QED
  BY <1>1, IInvHolds, PTL
=============================================================================
