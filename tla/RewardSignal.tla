---------------------------- MODULE RewardSignal ----------------------------
(***************************************************************************)
(* The reward of an environment: plain globals of craftium.h that the      *)
(* mods' Lua functions write on the server thread while pyConnStep reads   *)
(* and resets them on the main thread, without a lock.                     *)
(*                                                                         *)
(* One action is one access to a global.  The stores of one Lua function   *)
(* may take effect in any order: C++ leaves them unordered, and an         *)
(* optimising build does reorder them.  pyConnStep copies g_reward byte by *)
(* byte, here in two halves.                                               *)
(*                                                                         *)
(* The k-th reward function called stores the reward k; r_after is -k.     *)
(***************************************************************************)
EXTENDS Integers

CONSTANT MaxRewards  (* bound: calls of set_reward and set_reward_once     *)

ASSUME RewardAssumption == MaxRewards \in Nat

VARIABLES
  rewardLo, rewardHi,  (* g_reward                                         *)
  resetFlag,           (* g_reward_reset                                   *)
  resetValue,          (* g_reward_reset_value                             *)
  pending,             (* the stores the running Lua function has to do    *)
  cli,                 (* the main thread in pyConnStep                    *)
  todo, copied,        (* the accesses of a reward reset left to do, and   *)
                       (* the g_reward_reset_value it has loaded           *)
  bufLo, bufHi,        (* the reward in obs_rwd_buffer                     *)
  (* History: the calls made, the set_reward_once among them, those that   *)
  (* overlapped pyConnStep's use of the reward, and how many observations  *)
  (* have carried each reward (2 stands for more than one).                *)
  calls, once, raced, seen

memory  == <<rewardLo, rewardHi, resetFlag, resetValue>>
cliVars == <<cli, todo, copied, bufLo, bufHi>>
history == <<calls, once, raced, seen>>
vars == <<memory, pending, cliVars, history>>

Calls  == 1 .. MaxRewards
Values == -MaxRewards .. MaxRewards
Places == {"reward", "value", "flag"}
Accesses == {"clear", "load", "store"}

TypeOK ==
  /\ rewardLo \in Values /\ rewardHi \in Values
  /\ resetFlag \in BOOLEAN /\ resetValue \in Values
  /\ pending \in SUBSET Places
  /\ cli \in {"low", "high", "test", "reset", "exchange"}
  /\ todo \in SUBSET Accesses /\ copied \in Values
  /\ bufLo \in Values /\ bufHi \in Values
  /\ calls \in 0 .. MaxRewards
  /\ once \in SUBSET Calls /\ raced \in SUBSET Calls
  /\ seen \in [Calls -> 0 .. 2]

Init ==
  /\ rewardLo = 0 /\ rewardHi = 0 /\ resetFlag = FALSE /\ resetValue = 0
  /\ pending = {}
  /\ cli = "low" /\ todo = {} /\ copied = 0 /\ bufLo = 0 /\ bufHi = 0
  /\ calls = 0 /\ once = {} /\ raced = {} /\ seen = [k \in Calls |-> 0]

(* pyConnStep is between its first and its last access to the reward.      *)
Using == cli \in {"high", "test", "reset"}

-----------------------------------------------------------------------------
NewCall ==
  /\ pending = {} /\ calls < MaxRewards
  /\ calls' = calls + 1
  /\ raced' = IF Using THEN raced \union {calls'} ELSE raced
  /\ UNCHANGED <<resetFlag, resetValue, cliVars, seen>>

(* lua_set_reward: one store.                                              *)
SetReward ==
  /\ NewCall
  /\ rewardLo' = calls' /\ rewardHi' = calls'
  /\ UNCHANGED <<pending, once>>

(* Mutant: set_reward_once forgets to store the reward itself.             *)
SetRewardOnce_NoReward ==
  /\ NewCall
  /\ pending' = {"value", "flag"}
  /\ once' = once \union {calls'}
  /\ UNCHANGED <<rewardLo, rewardHi>>

(* lua_set_reward_once: three stores.                                      *)
SetRewardOnce ==
  /\ NewCall
  /\ pending' = Places
  /\ once' = once \union {calls'}
  /\ UNCHANGED <<rewardLo, rewardHi>>

(* Mutant: r_after is taken relative to the old value.                     *)
Store_AddsValue(place) ==
  /\ rewardLo' = IF place = "reward" THEN calls ELSE rewardLo
  /\ rewardHi' = IF place = "reward" THEN calls ELSE rewardHi
  /\ resetValue' = IF place = "value" THEN resetValue - calls ELSE resetValue
  /\ resetFlag' = (place = "flag" \/ resetFlag)

(* Mutant: r_after is not stored.                                          *)
Store_NoValue(place) ==
  /\ rewardLo' = IF place = "reward" THEN calls ELSE rewardLo
  /\ rewardHi' = IF place = "reward" THEN calls ELSE rewardHi
  /\ resetFlag' = (place = "flag" \/ resetFlag)
  /\ UNCHANGED resetValue

(* A store of set_reward_once.                                             *)
Store(place) ==
  /\ rewardLo' = IF place = "reward" THEN calls ELSE rewardLo
  /\ rewardHi' = IF place = "reward" THEN calls ELSE rewardHi
  /\ resetValue' = IF place = "value" THEN -calls ELSE resetValue
  /\ resetFlag' = (place = "flag" \/ resetFlag)

(* The next store of the running set_reward_once.                          *)
LuaStore ==
  /\ \E place \in pending : Store(place) /\ pending' = pending \ {place}
  /\ UNCHANGED <<cliVars, history>>

-----------------------------------------------------------------------------
(* pyConnStep, in a frame that talks to Python.                            *)
ReadRewardLow ==
  /\ cli = "low"
  /\ cli' = "high"
  /\ bufLo' = rewardLo
  /\ raced' = IF pending # {} THEN raced \union {calls} ELSE raced
  /\ UNCHANGED <<memory, pending, todo, copied, bufHi, calls, once, seen>>

ReadRewardHigh ==
  /\ cli = "high"
  /\ cli' = "test"
  /\ bufHi' = rewardHi
  /\ UNCHANGED <<memory, pending, todo, copied, bufLo, history>>

(* Mutant: the reward is never reset.                                      *)
TestRewardReset_Never ==
  /\ cli = "test"
  /\ cli' = "exchange"
  /\ UNCHANGED <<memory, pending, todo, copied, bufLo, bufHi, history>>

TestRewardReset ==
  /\ cli = "test"
  /\ IF resetFlag THEN cli' = "reset" /\ todo' = Accesses
                  ELSE cli' = "exchange" /\ todo' = {}
  /\ UNCHANGED <<memory, pending, copied, bufLo, bufHi, history>>

(* The flag is cleared, and g_reward_reset_value copied into g_reward: the *)
(* copy's load comes before its store, the clearing anywhere.              *)
ResetReward ==
  /\ cli = "reset"
  /\ \E access \in todo :
       /\ todo' = todo \ {access}
       /\ \/ /\ access = "clear"
             /\ resetFlag' = FALSE
             /\ UNCHANGED <<rewardLo, rewardHi, copied>>
          \/ /\ access = "load"
             /\ copied' = resetValue
             /\ UNCHANGED <<rewardLo, rewardHi, resetFlag>>
          \/ /\ access = "store" /\ "load" \notin todo
             /\ rewardLo' = copied /\ rewardHi' = copied
             /\ UNCHANGED <<resetFlag, copied>>
  /\ cli' = IF todo' = {} THEN "exchange" ELSE "reset"
  /\ UNCHANGED <<resetValue, pending, bufLo, bufHi, history>>

(* The observation reaches Python, which answers with an action.  The      *)
(* buffer is written anew before it is sent again, so its reward is        *)
(* forgotten here.                                                         *)
Exchange ==
  /\ cli = "exchange"
  /\ cli' = "low"
  /\ seen' = [k \in Calls |-> IF k = bufLo /\ k = bufHi /\ seen[k] < 2
                              THEN seen[k] + 1 ELSE seen[k]]
  /\ bufLo' = 0 /\ bufHi' = 0 /\ copied' = 0
  /\ UNCHANGED <<memory, pending, todo, calls, once, raced>>

-----------------------------------------------------------------------------
CliNext == ReadRewardLow \/ ReadRewardHigh \/ TestRewardReset \/ ResetReward \/ Exchange

Next == SetReward \/ SetRewardOnce \/ LuaStore \/ CliNext

Spec == Init /\ [][Next]_vars

(* A Lua function that was called returns, and the agent keeps answering.  *)
(* What the mods call is their choice.                                     *)
FairSpec == Spec /\ WF_vars(LuaStore) /\ WF_vars(CliNext)

-----------------------------------------------------------------------------
(* A set_reward_once that does not overlap pyConnStep's use of the reward  *)
(* does what lua_functions.md says, whatever other calls race with it: its *)
(* reward is reported at most once ...                                     *)
OnceAtMostOnce == \A k \in once \ raced : seen[k] <= 1

(* ... and it is reported, unless another call comes before.               *)
OnceReported ==
  \A k \in Calls : (k \in once \ raced) ~> (seen[k] > 0 \/ calls > k \/ k \in raced)

(* Once it is reported, the reward is r_after, until another call.         *)
OnceRestores ==
  \A k \in once \ raced :
    calls = k /\ seen[k] > 0 => rewardLo = -k /\ rewardHi = -k

-----------------------------------------------------------------------------
(* What lua_functions.md says of set_reward_once ("Sets the reward to      *)
(* `r_now` for the current timestep, resetting it to `r_after` after"): no *)
(* more than one observation carries r_now.                                *)
OnceForOneTimestep == \A k \in once : seen[k] <= 1

(* What lua_functions.md says of set_reward ("the reward value is          *)
(* maintained for the following timesteps until another call"): as long as *)
(* no other call follows, g_reward keeps the value, even without a race.   *)
SetRewardMaintained ==
  calls \in Calls \ once /\ raced = {} => rewardLo = calls /\ rewardHi = calls
=============================================================================
