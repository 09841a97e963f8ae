--------------------------- MODULE StepSyncProofs ---------------------------
(* The safety of the step synchronisation, for every number of processes   *)
(* started on a port and every number of crashes.                          *)
EXTENDS StepSync, TLAPS

(* Both threads of a process start together and end together.              *)
Coupled == srv = "off" <=> cli = "off"

(* A name, once created, stays.                                            *)
NamesKept == ~Off => preNamed \subseteq named

(* SkewBound is not inductive: a post only shows in a semaphore, so the    *)
(* invariant relates the semaphores' values to the drift and to the        *)
(* threads between their post and their wait.                              *)
IInv ==
  /\ TypeOK
  /\ Coupled
  /\ NamesKept
  /\ TokensBalance
  /\ DebtBound
  /\ OpenFailsOnlyOnFreshPort

LEMMA InitIInv == Init => IInv
<1> SUFFICES ASSUME Init PROVE IInv
  OBVIOUS
<1>1. TypeOK
  BY DEF Init, TypeOK, Names, SrvPC, CliPC, Exits
<1>2. Coupled /\ NamesKept /\ TokensBalance /\ DebtBound
  BY DEF Init, Coupled, NamesKept, TokensBalance, DebtBound, Off
<1>3. OpenFailsOnlyOnFreshPort
  BY DEF Init, OpenFailsOnlyOnFreshPort
<1>4. QED
  BY <1>1, <1>2, <1>3 DEF IInv

(* The arithmetic of a process that ends: a and b are what its semaphores  *)
(* held when it started, l its lead, p and q its threads' pending posts.   *)
LEMMA EndedTokens ==
  ASSUME NEW a \in Int, NEW b \in Int, NEW l \in Int, NEW p \in Int, NEW q \in Int,
         NEW n \in Int, NEW c \in Int, NEW d \in Int,
         a + b <= n - 1 + c, p + q <= 1 + (d - c)
  PROVE  (a + l + q) + (b - l + p) <= n + d
  OBVIOUS

(* A process that ends keeps its tokens: at most the posts its threads     *)
(* still wait on are added to what it found.                               *)
LEMMA EndsKeepIInv ==
  ASSUME NEW how \in Exits, IInv, ProcessEnds(how), ~Off,
         how = "openFailed" => preNamed # Names,
         crashes' \in Nat,
         Posted(srv) + Posted(cli) <= 1 + (crashes' - crashes),
         crashes <= crashes'
  PROVE  IInv'
<1> USE DEF ProcessEnds, Off
<1>0. /\ TypeOK /\ Coupled /\ NamesKept /\ TokensBalance /\ DebtBound
      /\ OpenFailsOnlyOnFreshPort
  BY DEF IInv
<1>1. TypeOK'
  BY <1>0 DEF TypeOK, SrvPC, CliPC
<1>2. Coupled' /\ NamesKept' /\ TokensBalance'
  BY <1>0 DEF Coupled, NamesKept, TokensBalance
<1>3. DebtBound'
  <2>1. /\ semA = baseA + lead + Posted(cli)
        /\ semB = baseB - lead + Posted(srv)
        /\ baseA + baseB <= boots - 1 + crashes
    BY <1>0 DEF TokensBalance, DebtBound
  <2>2. Posted(srv) \in Int /\ Posted(cli) \in Int
    BY DEF Posted
  <2>3. /\ baseA \in Int /\ baseB \in Int /\ lead \in Int
        /\ boots \in Int /\ crashes \in Int
    BY <1>0 DEF TypeOK
  <2>4. semA + semB <= boots + crashes'
    BY <2>1, <2>2, <2>3, EndedTokens
  <2>5. QED
    BY <2>4 DEF DebtBound
<1>4. OpenFailsOnlyOnFreshPort'
  BY <1>0 DEF OpenFailsOnlyOnFreshPort
<1>5. QED
  BY <1>1, <1>2, <1>3, <1>4 DEF IInv

LEMMA NextIInv == IInv /\ [Next]_vars => IInv'
<1> SUFFICES ASSUME IInv, [Next]_vars PROVE IInv'
  OBVIOUS
<1> USE DEF IInv
<1>1. CASE Launch
  BY <1>1 DEF Launch, TypeOK, Coupled, NamesKept, TokensBalance, DebtBound,
              OpenFailsOnlyOnFreshPort, Off, Posted, SrvPC, CliPC, Exits
<1>2. CASE SrvStart
  BY <1>2 DEF SrvStart, StopRequested, TypeOK, Coupled, NamesKept, TokensBalance,
              DebtBound,
              OpenFailsOnlyOnFreshPort, Off, Posted, SrvPC, procVars
<1>3. CASE SrvOpenA
  BY <1>3 DEF SrvOpenA, Names, TypeOK, Coupled, NamesKept, TokensBalance, DebtBound,
              OpenFailsOnlyOnFreshPort, Off, Posted, SrvPC, procVars
<1>4. CASE SrvOpenB
  BY <1>4 DEF SrvOpenB, Names, TypeOK, Coupled, NamesKept, TokensBalance, DebtBound,
              OpenFailsOnlyOnFreshPort, Off, Posted, SrvPC, procVars
<1>5. CASE SrvPost
  BY <1>5 DEF SrvPost, TypeOK, Coupled, NamesKept, TokensBalance, DebtBound,
              OpenFailsOnlyOnFreshPort, Off, Posted, SrvPC, procVars
<1>6. CASE SrvWait
  BY <1>6 DEF SrvWait, TypeOK, Coupled, NamesKept, TokensBalance, DebtBound,
              OpenFailsOnlyOnFreshPort, Off, Posted, SrvPC, procVars
<1>7. CASE SrvStep
  BY <1>7 DEF SrvStep, StopRequested, TypeOK, Coupled, NamesKept, TokensBalance,
              DebtBound,
              OpenFailsOnlyOnFreshPort, Off, Posted, SrvPC, procVars
<1>8. CASE CliStart
  BY <1>8 DEF CliStart, TypeOK, Coupled, NamesKept, TokensBalance, DebtBound,
              OpenFailsOnlyOnFreshPort, Off, Posted, CliPC, procVars
<1>9. CASE CliOpenA
  BY <1>9 DEF CliOpenA, TypeOK, Coupled, NamesKept, TokensBalance, DebtBound,
              OpenFailsOnlyOnFreshPort, Off, Posted, CliPC, procVars
<1>10. CASE CliOpenB
  BY <1>10 DEF CliOpenB, TypeOK, Coupled, NamesKept, TokensBalance, DebtBound,
              OpenFailsOnlyOnFreshPort, Off, Posted, CliPC, procVars
<1>11. CASE CliOpenFails
  <2>1. preNamed # Names
    BY <1>11 DEF CliOpenFails, NamesKept, Off, Names
  <2>2. Posted(srv) + Posted(cli) <= 1 + (crashes' - crashes)
    BY <1>11 DEF CliOpenFails, Posted, TypeOK
  <2>3. QED
    BY <1>11, <2>1, <2>2, EndsKeepIInv DEF CliOpenFails, Off, TypeOK, Exits
<1>12. CASE CliPost
  BY <1>12 DEF CliPost, TypeOK, Coupled, NamesKept, TokensBalance, DebtBound,
              OpenFailsOnlyOnFreshPort, Off, Posted, CliPC, procVars
<1>13. CASE CliWait
  BY <1>13 DEF CliWait, TypeOK, Coupled, NamesKept, TokensBalance, DebtBound,
              OpenFailsOnlyOnFreshPort, Off, Posted, CliPC, procVars
<1>14. CASE CliStep
  BY <1>14 DEF CliStep, TypeOK, Coupled, NamesKept, TokensBalance, DebtBound,
              OpenFailsOnlyOnFreshPort, Off, Posted, CliPC, procVars
<1>15. CASE Quit
  BY <1>15 DEF Quit, TypeOK, Coupled, NamesKept, TokensBalance, DebtBound,
              OpenFailsOnlyOnFreshPort, Off, Posted, CliPC, procVars
<1>16. CASE CliKilled
  <2>1. Posted(srv) + Posted(cli) <= 1 + (crashes' - crashes)
    BY <1>16 DEF CliKilled, Posted, TypeOK
  <2>2. QED
    BY <1>16, <2>1, EndsKeepIInv DEF CliKilled, Off, TypeOK, Exits
<1>17. CASE ExitAfterJoin
  <2>1. Posted(srv) + Posted(cli) <= 1 + (crashes' - crashes)
    BY <1>17 DEF ExitAfterJoin, Posted, TypeOK
  <2>2. QED
    BY <1>17, <2>1, EndsKeepIInv DEF ExitAfterJoin, Off, TypeOK, Exits
<1>18. CASE Crash
  <2>1. Posted(srv) + Posted(cli) <= 1 + (crashes' - crashes)
    BY <1>18 DEF Crash, Posted, TypeOK
  <2>2. QED
    BY <1>18, <2>1, EndsKeepIInv DEF Crash, TypeOK, Exits
<1>19. CASE UNCHANGED vars
  BY <1>19 DEF vars, procVars, TypeOK, Coupled, NamesKept, TokensBalance,
               DebtBound, OpenFailsOnlyOnFreshPort, Off, Posted
<1>20. QED
  BY <1>1, <1>2, <1>3, <1>4, <1>5, <1>6, <1>7, <1>8, <1>9, <1>10,
     <1>11, <1>12, <1>13, <1>14, <1>15, <1>16, <1>17, <1>18, <1>19
  DEF Next, SrvNext, CliNext

LEMMA IInvHolds == Spec => []IInv
  BY InitIInv, NextIInv, PTL DEF Spec

(* The values of the variables stay in their types.                        *)
THEOREM TypeCorrect == Spec => []TypeOK
<1>1. IInv => TypeOK
  BY DEF IInv
<1>2. QED
  BY <1>1, IInvHolds, PTL

(* No post of syncServerStep or syncClientStep is ever lost or taken       *)
(* twice, whatever the interleaving and however earlier processes ended.   *)
THEOREM TokensBalanced == Spec => []TokensBalance
<1>1. IInv => TokensBalance
  BY DEF IInv
<1>2. QED
  BY <1>1, IInvHolds, PTL

(* The drift between the threads is bounded by the tokens the process      *)
(* inherited: one step exactly when it inherited none.                     *)
THEOREM SkewBounded == Spec => []SkewBound
<1>1. IInv => SkewBound
  BY DEF IInv, TypeOK, TokensBalance, SkewBound, Posted
<1>2. QED
  BY <1>1, IInvHolds, PTL

(* Inherited tokens grow by at most one per process and one more per crash.*)
THEOREM DebtBounded == Spec => []DebtBound
<1>1. IInv => DebtBound
  BY DEF IInv
<1>2. QED
  BY <1>1, IInvHolds, PTL

(* After a process has created both names, no client fails to open them.   *)
THEOREM OpenFailureIsFresh == Spec => []OpenFailsOnlyOnFreshPort
<1>1. IInv => OpenFailsOnlyOnFreshPort
  BY DEF IInv
<1>2. QED
  BY <1>1, IInvHolds, PTL
=============================================================================
