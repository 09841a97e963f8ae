-------------------------- MODULE RewardSignalProofs --------------------------
(***************************************************************************)
(* Proofs about RewardSignal, for any number of calls of the reward        *)
(* functions: the variables keep their types, and a set_reward_once that   *)
(* does not overlap pyConnStep's use of the reward is reported at most     *)
(* once and then replaced by r_after.                                      *)
(***************************************************************************)
EXTENDS RewardSignal, TLAPS

(* The set_reward_once that do not overlap pyConnStep's use.               *)
Clean == once \ raced

(* The last call is a set_reward_once that still has stores to do.         *)
Storing(k) == calls = k /\ pending # {}

(* What is in memory, and in the buffer, comes from calls made so far.     *)
Origins ==
  /\ pending # {} => calls \in once
  /\ once \subseteq 1 .. calls
  /\ \A k \in Calls : k > calls => seen[k] = 0
  /\ rewardLo <= calls /\ rewardHi <= calls /\ bufLo <= calls /\ bufHi <= calls
  /\ resetValue <= 0 /\ copied <= 0
  /\ cli = "low" => bufLo = 0 /\ bufHi = 0

(* A reward in the buffer, or in memory, was not reported yet: once it is  *)
(* in the buffer, the flag is up, and the reset that follows replaces it   *)
(* before the next observation.                                            *)
NotYetSeen(k) ==
  /\ seen[k] <= 1
  /\ bufLo = k => seen[k] = 0
  /\ rewardLo = k \/ rewardHi = k =>
       /\ seen[k] = 0
       /\ cli = "exchange" => bufLo # k
       /\ ~Storing(k) => IF cli = "reset" THEN "store" \in todo ELSE resetFlag

(* While the stores are done, pyConnStep is elsewhere.                     *)
Stores(k) ==
  Storing(k) =>
    /\ cli \in {"low", "exchange"}
    /\ seen[k] = 0 /\ bufLo # k
    /\ "flag" \in pending \/ resetFlag
    /\ "value" \in pending \/ resetValue = -k
    /\ "reward" \in pending \/ (rewardLo = k /\ rewardHi = k)

(* Afterwards the reward is r_now or r_after, and both halves agree.       *)
Stored(k) ==
  calls = k /\ pending = {} =>
    /\ resetValue = -k
    /\ \/ rewardLo = k /\ rewardHi = k
       \/ rewardLo = -k /\ rewardHi = -k
    /\ cli = "reset" /\ "load" \notin todo => copied = -k

IInv ==
  /\ TypeOK
  /\ Origins
  /\ \A k \in Clean : NotYetSeen(k) /\ Stores(k) /\ Stored(k)

LEMMA InitIInv == Init => IInv
<1> SUFFICES ASSUME Init PROVE IInv
  OBVIOUS
<1>1. TypeOK
  <2>1. 0 \in Values /\ 0 \in 0 .. MaxRewards
    BY RewardAssumption DEF Values
  <2>2. seen \in [Calls -> 0 .. 2]
    BY DEF Init
  <2>3. once \in SUBSET Calls /\ raced \in SUBSET Calls /\ todo \in SUBSET Accesses
        /\ pending \in SUBSET Places
    BY DEF Init
  <2>4. QED
    BY <2>1, <2>2, <2>3 DEF Init, TypeOK
<1>2. Clean = {}
  BY DEF Init, Clean
<1>3. Origins
  BY DEF Init, Origins
<1>4. QED
  BY <1>1, <1>2, <1>3 DEF IInv

(* A new call: it is clean only when pyConnStep is elsewhere, and nothing  *)
(* carries its reward yet.                                                 *)
LEMMA LuaKeepsIInv ==
  ASSUME IInv, SetReward \/ SetRewardOnce \/ LuaStore
  PROVE  IInv'
<1> USE RewardAssumption DEF IInv, Calls, Values
<1>1. CASE SetReward
  <2>1. TypeOK'
    BY <1>1 DEF SetReward, NewCall, cliVars, TypeOK
  <2>2. Origins'
    BY <1>1 DEF SetReward, NewCall, cliVars, TypeOK, Origins
  <2>3. ASSUME NEW k \in Clean' PROVE NotYetSeen(k)' /\ Stores(k)' /\ Stored(k)'
    <3>1. k \in Nat /\ k > 0 /\ k \in Calls
      BY <1>1, <2>1 DEF Clean, TypeOK
    <3>2. CASE k \in Clean
      <4>1. k <= calls /\ k # calls' /\ ~Storing(k)
        BY <1>1, <3>1, <3>2 DEF SetReward, NewCall, Clean, TypeOK, Origins, Storing
      <4>2. NotYetSeen(k)'
        BY <1>1, <3>1, <3>2, <4>1 DEF SetReward, NewCall, cliVars, NotYetSeen
      <4>3. Stores(k)' /\ Stored(k)'
        BY <4>1 DEF Stores, Stored, Storing
      <4>4. QED
        BY <4>2, <4>3
    <3>3. CASE k \notin Clean
      BY <1>1, <3>3 DEF SetReward, NewCall, Clean
    <3>4. QED
      BY <3>2, <3>3
  <2>4. QED
    BY <2>1, <2>2, <2>3
<1>2. CASE SetRewardOnce
  <2>1. TypeOK'
    BY <1>2 DEF SetRewardOnce, NewCall, cliVars, TypeOK
  <2>2. Origins'
    BY <1>2 DEF SetRewardOnce, NewCall, cliVars, TypeOK, Origins
  <2>3. ASSUME NEW k \in Clean' PROVE NotYetSeen(k)' /\ Stores(k)' /\ Stored(k)'
    <3>1. k \in Nat /\ k > 0 /\ k \in Calls
      BY <1>2, <2>1 DEF Clean, TypeOK
    <3>2. CASE k \in Clean
      <4>1. k <= calls /\ k # calls' /\ ~Storing(k)
        BY <1>2, <3>1, <3>2 DEF SetRewardOnce, NewCall, Clean, TypeOK, Origins, Storing
      <4>2. NotYetSeen(k)'
        BY <1>2, <3>1, <3>2, <4>1 DEF SetRewardOnce, NewCall, cliVars, NotYetSeen
      <4>3. Stores(k)' /\ Stored(k)'
        BY <4>1 DEF Stores, Stored, Storing
      <4>4. QED
        BY <4>2, <4>3
    <3>3. CASE k \notin Clean
      <4>1. k = calls' /\ ~Using
        BY <1>2, <3>3 DEF SetRewardOnce, NewCall, Clean
      <4>2. seen[k] = 0 /\ k > rewardLo /\ k > rewardHi /\ k > bufLo
        BY <1>2, <3>1, <4>1 DEF SetRewardOnce, NewCall, TypeOK, Origins
      <4>3. cli \in {"low", "exchange"}
        BY <4>1 DEF Using, TypeOK
      <4>4. NotYetSeen(k)' /\ Stores(k)' /\ Stored(k)'
        BY <1>2, <3>1, <4>1, <4>2, <4>3 DEF SetRewardOnce, NewCall, cliVars, NotYetSeen, Stores, Stored, Places
      <4>5. QED
        BY <4>4
    <3>4. QED
      BY <3>2, <3>3
  <2>4. QED
    BY <2>1, <2>2, <2>3
<1>3. CASE LuaStore
  <2>1. TypeOK'
    BY <1>3 DEF LuaStore, Store, cliVars, history, TypeOK
  <2>2. Origins'
    BY <1>3 DEF LuaStore, Store, cliVars, history, TypeOK, Origins
  <2>3. ASSUME NEW k \in Clean' PROVE NotYetSeen(k)' /\ Stores(k)' /\ Stored(k)'
    <3>1. k \in Clean /\ k \in Calls /\ k \in Nat /\ k > 0
      BY <1>3 DEF LuaStore, history, Clean, TypeOK
    <3>2. NotYetSeen(k)'
      BY <1>3, <3>1 DEF LuaStore, Store, cliVars, history, NotYetSeen, Stores, Storing
    <3>3. Stores(k)'
      BY <1>3, <3>1 DEF LuaStore, Store, cliVars, history, TypeOK, NotYetSeen, Stores, Storing
    <3>4. Stored(k)'
      BY <1>3, <3>1 DEF LuaStore, Store, cliVars, history, NotYetSeen, Stores, Stored, Storing
    <3>5. QED
      BY <3>2, <3>3, <3>4
  <2>4. QED
    BY <2>1, <2>2, <2>3
<1>4. QED
  BY <1>1, <1>2, <1>3

(* pyConnStep's side.                                                      *)
LEMMA CliKeepsIInv ==
  ASSUME IInv, CliNext
  PROVE  IInv'
<1> USE RewardAssumption DEF IInv, Calls, Values
<1>1. CASE ReadRewardLow
  <2>1. TypeOK'
    BY <1>1 DEF ReadRewardLow, memory, TypeOK, Origins
  <2>2. Origins'
    BY <1>1 DEF ReadRewardLow, memory, Origins
  <2>3. ASSUME NEW k \in Clean' PROVE NotYetSeen(k)' /\ Stores(k)' /\ Stored(k)'
    <3>1. k \in Clean /\ k \in Calls /\ k \in Nat /\ k > 0
      BY <1>1 DEF ReadRewardLow, Clean, TypeOK
    <3>2. NotYetSeen(k)'
      BY <1>1, <3>1 DEF ReadRewardLow, memory, NotYetSeen, Storing
    <3>3. Stores(k)'
      <4>1. ~Storing(k)
        BY <1>1 DEF ReadRewardLow, Clean, Storing
      <4>2. QED
        BY <1>1, <4>1 DEF ReadRewardLow, Stores, Storing
    <3>4. Stored(k)'
      BY <1>1, <3>1 DEF ReadRewardLow, memory, Stored
    <3>5. QED
      BY <3>2, <3>3, <3>4
  <2>4. QED
    BY <2>1, <2>2, <2>3
<1>2. CASE ReadRewardHigh
  <2>1. TypeOK'
    BY <1>2 DEF ReadRewardHigh, memory, history, TypeOK
  <2>2. Origins'
    BY <1>2 DEF ReadRewardHigh, memory, history, Origins
  <2>3. ASSUME NEW k \in Clean' PROVE NotYetSeen(k)' /\ Stores(k)' /\ Stored(k)'
    <3>1. k \in Clean /\ k \in Calls /\ k \in Nat /\ k > 0
      BY <1>2 DEF ReadRewardHigh, history, Clean, TypeOK
    <3>2. NotYetSeen(k)'
      BY <1>2, <3>1 DEF ReadRewardHigh, memory, history, NotYetSeen, Storing
    <3>3. Stores(k)'
      BY <1>2, <3>1 DEF ReadRewardHigh, history, Stores, Storing
    <3>4. Stored(k)'
      BY <1>2, <3>1 DEF ReadRewardHigh, memory, history, Stored
    <3>5. QED
      BY <3>2, <3>3, <3>4
  <2>4. QED
    BY <2>1, <2>2, <2>3
<1>3. CASE TestRewardReset
  <2>1. TypeOK'
    BY <1>3 DEF TestRewardReset, memory, history, TypeOK
  <2>2. Origins'
    BY <1>3 DEF TestRewardReset, memory, history, Origins
  <2>3. ASSUME NEW k \in Clean' PROVE NotYetSeen(k)' /\ Stores(k)' /\ Stored(k)'
    <3>1. k \in Clean /\ k \in Calls /\ k \in Nat /\ k > 0
      BY <1>3 DEF TestRewardReset, history, Clean, TypeOK
    <3>2. NotYetSeen(k)'
      BY <1>3, <3>1 DEF TestRewardReset, memory, history, NotYetSeen, Stores, Accesses
    <3>3. Stores(k)'
      BY <1>3, <3>1 DEF TestRewardReset, history, Stores, Storing
    <3>4. Stored(k)'
      BY <1>3, <3>1 DEF TestRewardReset, memory, history, Stored, Accesses
    <3>5. QED
      BY <3>2, <3>3, <3>4
  <2>4. QED
    BY <2>1, <2>2, <2>3
<1>4. CASE ResetReward
  <2>1. TypeOK'
    BY <1>4 DEF ResetReward, history, TypeOK
  <2>2. Origins'
    BY <1>4 DEF ResetReward, history, TypeOK, Origins
  <2>3. ASSUME NEW k \in Clean' PROVE NotYetSeen(k)' /\ Stores(k)' /\ Stored(k)'
    <3>1. k \in Clean /\ k \in Calls /\ k \in Nat /\ k > 0
      BY <1>4 DEF ResetReward, history, Clean, TypeOK
    <3>2. NotYetSeen(k)'
      BY <1>4, <3>1 DEF ResetReward, history, Origins, NotYetSeen, Stores
    <3>3. Stores(k)'
      BY <1>4, <3>1 DEF ResetReward, history, Stores, Storing
    <3>4. Stored(k)'
      BY <1>4, <3>1 DEF ResetReward, history, Stored
    <3>5. QED
      BY <3>2, <3>3, <3>4
  <2>4. QED
    BY <2>1, <2>2, <2>3
<1>5. CASE Exchange
  <2>1. TypeOK'
    BY <1>5 DEF Exchange, memory, TypeOK
  <2>2. Origins'
    BY <1>5 DEF Exchange, memory, TypeOK, Origins
  <2>3. ASSUME NEW k \in Clean' PROVE NotYetSeen(k)' /\ Stores(k)' /\ Stored(k)'
    <3>1. k \in Clean /\ k \in Calls /\ k \in Nat /\ k > 0
      BY <1>5 DEF Exchange, Clean, TypeOK
    <3>2. NotYetSeen(k)'
      BY <1>5, <3>1 DEF Exchange, memory, NotYetSeen, Storing
    <3>3. Stores(k)'
      BY <1>5, <3>1 DEF Exchange, memory, Stores, Storing
    <3>4. Stored(k)'
      BY <1>5, <3>1 DEF Exchange, memory, Stored
    <3>5. QED
      BY <3>2, <3>3, <3>4
  <2>4. QED
    BY <2>1, <2>2, <2>3
<1>6. QED
  BY <1>1, <1>2, <1>3, <1>4, <1>5 DEF CliNext

LEMMA NextIInv == IInv /\ [Next]_vars => IInv'
<1> SUFFICES ASSUME IInv, [Next]_vars PROVE IInv'
  OBVIOUS
<1>1. CASE SetReward \/ SetRewardOnce \/ LuaStore
  BY <1>1, LuaKeepsIInv
<1>2. CASE CliNext
  BY <1>2, CliKeepsIInv
<1>3. CASE UNCHANGED vars
  BY <1>3 DEF IInv, TypeOK, Origins, Clean, NotYetSeen, Stores, Stored, Storing,
              vars, memory, cliVars, history
<1>4. QED
  BY <1>1, <1>2, <1>3 DEF Next

LEMMA IInvHolds == Spec => []IInv
  BY InitIInv, NextIInv, PTL DEF Spec

(* The globals, the buffer and the history keep their types, for any       *)
(* number of calls.                                                        *)
THEOREM TypeCorrect == Spec => []TypeOK
<1>1. IInv => TypeOK
  BY DEF IInv
<1>2. QED
  BY <1>1, IInvHolds, PTL

(* A set_reward_once that does not overlap pyConnStep's use of the reward  *)
(* is reported in one observation at most, whatever the calls before and   *)
(* after it raced with.                                                    *)
THEOREM ReportedOnce == Spec => []OnceAtMostOnce
<1>1. IInv => OnceAtMostOnce
  BY DEF IInv, Clean, NotYetSeen, OnceAtMostOnce
<1>2. QED
  BY <1>1, IInvHolds, PTL

(* Once such a reward is reported, g_reward is its r_after.                *)
THEOREM ReplacedByAfter == Spec => []OnceRestores
<1>1. IInv => OnceRestores
  <2> SUFFICES ASSUME IInv, NEW k \in Clean, calls = k, seen[k] > 0
               PROVE  rewardLo = -k /\ rewardHi = -k
    BY DEF OnceRestores, Clean
  <2>1. k \in Nat /\ k > 0 /\ seen[k] # 0
    BY RewardAssumption DEF IInv, TypeOK, Clean, Calls
  <2>2. pending = {}
    BY <2>1 DEF IInv, Stores, Storing
  <2>3. QED
    BY <2>1, <2>2 DEF IInv, NotYetSeen, Stored
<1>2. QED
  BY <1>1, IInvHolds, PTL
=============================================================================
