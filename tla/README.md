# A TLA+ verification of Craftium

Craftium turns the Luanti (Minetest) voxel engine into reinforcement-learning
environments: a Python object with Gymnasium's `reset`, `step` and `close`
drives a game process that it starts, over a TCP connection. This directory
models what Craftium adds to the engine, and three parts of the engine below it
on which many steps of several threads or hosts have to agree: the reliable
channels of the network layer, the threads that bring map blocks into memory,
and the sending of blocks to a client. The models are checked with TLC, and the
safety of six of them is proved with TLAPS.

Paths below are relative to the repository's root.

## The system and its parts

| Part | State it keeps | Operations | Talks to |
|---|---|---|---|
| Python environment: `craftium/craftium_env.py`, `mt_channel.py`, `minetest.py` | `mt_chann.connfd`, `sockfd`, `mt.proc`, `soft_reset`, `init_frames` | `reset` (hard, soft), `step`, `close` | the C extension by calls, the process by `Popen` and `wait` |
| C extension: `mt_server.c` | none of its own; descriptors of the Python process | `init_server`, `server_listen`, `server_recv`, `server_send` | TCP with the client |
| Client side: `Client::startPyConn`, `Client::pyConnStep` in `src/client/client.cpp` | `actions`, `obs_rwd_buffer`, the frame counters | connect once; per frame send an observation and receive an action | TCP with Python; globals with the server thread |
| Signals: `src/client/craftium.h` | `g_reward`, `g_reward_reset`, `g_reward_reset_value`, `g_termination`, `g_soft_reset`, the voxel vectors | Lua functions on the server thread; reads and resets in `pyConnStep` on the main thread | shared memory, no lock |
| Step synchronisation: `src/client/craftium.h` | the two named semaphores of a port | `syncServerStep`, `syncClientStep` | the kernel; earlier and later processes on the same port |
| Server thread and game loop: `src/server.cpp`, `src/client/game.cpp` | where each thread is, the stop request | `ServerThread::run`, `Game::run`, `Game::shutdown`, `Server::stop` | each other |
| Multi-agent environment: `craftium/multiagent_env.py` | N channels, N client processes, one server process | `reset`, `step_agent`, `step` | as above |
| Network layer (MTP): `src/network/mtp` | per channel: the next numbers, packets sent, queued and received early; per peer: commands, pending disconnect | `Send`, `processReliableSendCommand`, `sendPackets`, `runTimeouts`, `handlePacketType_*` | the other host over UDP; its send and receive thread share the lists of sent packets |
| Emerge threads: `src/emerge.cpp`, `initBlockMake` and `finishBlockMake` in `src/servermap.cpp` | blocks enqueued, queue and event of each thread, counts per peer, chunks in progress | `enqueueBlockEmergeEx`, `EmergeThread::run`, `stopThreads` | the server thread, by the queue mutex and the environment lock; mods, by callbacks |
| Client interface: `src/server/clientiface.cpp`, with `server.cpp` and the packet handlers | per client: blocks on the wire, blocks sent, where the scan goes on | `SendBlocks`, `GotBlock`, `SetBlockNotSent`, `sendNodeChangePkt` | the client, over two channels of MTP; the emerge threads |
| Map and server environment: `src/map.cpp`, `src/servermap.cpp` | blocks in memory and in the database | change, load, unload, delete | everything above |
| Inventories, map generation, databases, scripting API, rendering | | | |

One environment step crosses all of the upper parts. Python sends an action and
waits; the main thread, blocked in `recv` at the end of its frame, applies it,
plays a frame (in `sync_env_mode` after exchanging semaphore posts with the
server thread), takes a screenshot, adds the signals the mods have set, sends
all of it and waits for the next action.

What is hard about it:

* **concurrency**: two threads share the signals without a lock, and build
  their lock step out of two counting semaphores;
* **restarts**: a hard reset replaces the process, but the port, the run
  directory, the listening socket and the semaphores stay;
* **failure**: a process may die before it connects, between two messages or
  in the middle of one, and a listen may time out while it still starts;
* **ordering**: the channel has no framing and no numbering, so one message
  too many or too few silently shifts every later answer, or blocks both sides;
* **an unreliable network** under the engine's own protocol: 16-bit sequence
  numbers that wrap around, a send thread and a receive thread on one list;
* **two locks**: the emerge threads release the environment lock between looking
  for a block, reading it and generating it, and have a mutex of their own;
* **two copies of the map**, kept alike by messages on channels that do not
  order each other, while the client predicts changes and forgets blocks.

What makes each part correct: the semaphores pair posts and waits and bound the
drift (StepSync); a reward or a termination is reported when the documentation
says, and once (RewardSignal, ResetSignals); the channel alternates strictly,
no call blocks for ever, no process is left behind, and what a call answers is
what the Gymnasium interface promises (EnvChannel, GymEnv); a channel of the
network layer hands out every message once and in order (Mtp, FifoChannel); a
block is queued once, generated by one thread, never overwritten by an older
copy, and every callback runs once (Emerge); and the server's idea of what the
client holds is right, so that the client catches up (BlockSend).

## Modules

### StepSync: `sync_env_mode`

`semA`, `semB` are the values of the kernel's semaphores, `named` the names that
exist. `srv` and `cli` say where the two threads of the process are; each action
is one system call or one stretch of code between two of them:

| Action | Code |
|---|---|
| `Launch` | `Minetest.start_process` (the port does not change between processes) |
| `SrvStart`, `SrvStep` | `ServerThread::run` around `syncServerStep`, with the loop head's `stopRequested` |
| `SrvOpenA/B`, `SrvPost`, `SrvWait` | `syncServerInit`, `syncServerStep` |
| `CliStart`, `CliOpenA/B`, `CliOpenFails`, `CliPost`, `CliWait` | `syncClientInit`, `syncClientStep` |
| `CliStep`, `CliKilled` | the rest of the frame; the kill byte in `pyConnStep` |
| `Quit`, `ExitAfterJoin` | `Game::shutdown`, `Server::stop` |
| `Crash` | the process dies anywhere |

`lead`, `preNamed`, `baseA` and `baseB` are history: the drift between the two
threads, and what the process found when it started.

### RewardSignal: the reward

One action is one access to a global. C++ leaves the stores of
`set_reward_once` unordered and the three accesses of `pyConnStep`'s reset
partly so, and optimising compilers use this freedom; the model lets them take
effect in every order the language allows a build to produce
(`pending`, `todo`). `g_reward` is copied byte by byte, here in two halves, so a
torn reward is possible. The k-th call stores the reward k and the after-value
-k, which lets a property say whose reward an observation carries. `raced`
collects the calls that overlap `pyConnStep`'s use of the reward.

### ResetSignals: termination and soft reset

Again one action per access to a flag. The mod is the globalstep of the
soft-reset environments under `craftium-envs` (`room`, `small-room`,
`test-room`, `procgen-dungeons`): poll `get_soft_reset`, reset the world, call
`reset_termination`, whose two stores may come in either order. `owed`,
`request` and the counters are history.

### GymEnv and EnvChannel: the environment

`GymEnv` is the abstract specification: the calls of an environment and what
each may answer. A step answers with the observation made after its own action
by the process that answered the last reset, a hard reset answers from a process
nobody heard from before, a soft reset from the same process; a call may raise,
and may hand out a torn observation of a process that died while sending.

`EnvChannel` is the code: the calls with their steps between two blocking
operations (`py`), the descriptor numbers of the Python process and `connfd`
(`fdTable`, `connfd`), the listening socket and its queue (`sock`, `backlog`),
the processes (`mt`, `applied`) and the two directions of the connections
(`toPy`, `toMt`, `conn`). A message is a record with the number of the action it
carries or answers. `EnvChannel` instantiates `GymEnv` as `G`, with the phase of
a call computed from `py`, and `GymSpec` (`G!Spec`) is checked as a property.

Frames that do not talk to Python (the first ten of a process, and those
`frameskip` skips) are part of a "running" process. TCP delivers in order and
loses nothing until an end is closed; unread data of a closed end is dropped,
which turns the hang-up into a reset. The first write after a hang-up succeeds,
the second ends the process.

Where `StepSync` shows that a process in `sync_env_mode` may hang in its shutdown,
`EnvChannel` takes up what that means for Python: a main loop that has ended leaves
a process that is "hung" (`Hang`, for `SyncMode`) in `Server::stop`, in front of the
destruction of the client, and whose socket nobody closes. Python then waits in
`recv`, or for the end of the process, and there is no time-out for either.

### SeqNum, Mtp and FifoChannel: a reliable channel

`SeqNum` holds the arithmetic of the 16-bit numbers, each comparison as the code
makes it, over a space of `SeqSpace` numbers. `Mtp` is one direction of one
reliable channel. The send thread goes round `timeouts`, `queues`, `commands`,
`split`, `send`, `sending` (`spc`); numbering a message is one action per number
(`TakeSeqnum`) and sending what is queued one per packet (`SendPacket`), because
acknowledgements shorten the list of sent packets in between (`HandleAck`, the
receive thread). How many packets the quota lets through in one round is left
open (`EndSending`), but one at least.

| Action | Code |
|---|---|
| `Send`, `TakeCommand`, `RunCommandQueues` | `Connection::Send`, `UDPPeer::PutReliableSendCommand`, `RunCommandQueues` |
| `TakeSeqnum`, `QueuePackets`, `PutBack` | `processReliableSendCommand`, with `getOutgoingSequenceNumber` and `putBackSequenceNumber` |
| `RunTimeouts`, `SendPing`, `PeerTimedOut` | `runTimeouts` and the ping it gives to `rawSendAsPacket` |
| `SendPacket`, `EndSending`, `DisconnectPeer`, `NoMoreCommands` | `sendPackets`, `disconnect_peer`, the end of the command loop of `run` |
| `HandleAck`, `Receive`, `CheckIncomingBuffers`, `Process` | `handlePacketType_Control`, `_Reliable`, `getFromBuffers`, `_Original` and `_Split` |
| `ReceiverDeletesPeer` | `deletePeer` at the receiver, by time-out or DISCO |

A packet is a number, the message it belongs to and the chunk. The network is a
set: what was sent can be received at any time, again and again, or never.
`FifoChannel` is what the users of the layer rely on: messages are handed out in
order, each once, and all of them while the link is up. `Mtp` instantiates it as
`Fifo`; the link is up while both peers exist and no disconnect is pending.

What the models and proofs of the arithmetic say of the code: the calculation
marked "wtf is this calculation??" (`threads.cpp:322`) is the next number minus
half of the space, for every number; the window admits one number more across
the wrap-around than elsewhere (`impl.cpp:683`), and no bound at all while
nothing is outstanding (`impl.cpp:664`); `seqnum_higher` is ambiguous only at a
distance of exactly half of the space. How far apart the numbers in use can be
(`SpreadBound`) depends on two different limits on what is queued when a message
is split: `RunCommandQueues` wants less than `m_max_packets_requeued`, but a
message that `PutReliableSendCommand` splits at once (`impl.cpp:1051`) only less
than half of the window. None of it breaks the channel as long as the numbers in
use stay within half of the space (`MtpAssumption`); the code itself only checks
that one message does.

### Emerge: the emerge threads

`pc` is where a thread is between two locked stretches: what it does under a lock
is one action. `EnvFree` and `QueueFree` are the two locks where a stretch holds
one while it waits for the other: the server thread asks for blocks with the
environment locked (`Ask`, `Enqueue`, `Signal`), and `cancelPendingItems` runs
callbacks with the queue locked (`LockQueue`, `CancelItem`, `EndThread`).

| Action | Code |
|---|---|
| `EnqueueForPeer`, `EmergeArea`, `Enqueue`, `Signal` | `enqueueBlockEmerge`, `l_emerge_area`, `enqueueBlockEmergeEx` with `pushBlockEmergeData` and `getOptimalThread` |
| `PopBlock`, `WaitEvent` | the top of `EmergeThread::run`, `popBlockEmerge`, `Event::wait` |
| `GetBlock`, `ReadDatabase`, `LoadBlock`, `LoadFails` | `getBlockOrStartGen` twice, with the read of the database between |
| `StartGen` (in both), `AreaFails` | `initBlockMake`: the chunk in progress, the mapgen limit, the blocks of the area loaded or created; one of them unreadable |
| `FinishGen`, `GenerateFails` | `finishBlockMake` with `blitBackAll`, a mod's error in `on_generated` |
| `Report`, `StopThread` | `runCompletionCallbacks`, `stopThreads` |
| `ModifyBlock`, `UnloadBlock`, `DeleteBlock` | the server thread's changes of the map |

The content of a block is a version; `latest` is the newest ever written, so an
old copy in memory shows. `Area[c]` is what is copied to generate the chunk `c`: its
blocks and those around them, which other chunks have in their areas too. What is
built on the newest version of a block becomes the newest; what is built on an older
one brings that one back.

The server thread changes, unloads and deletes blocks whenever the environment is
free, and so in the stretches where an emerge thread works on what it has read with
the environment unlocked (between `ReadDatabase` and `LoadBlock`, and while a chunk
is made). `raced` is history: the blocks unloaded or deleted after their bytes were
read, and those changed, deleted or written by another thread after they were
copied. A block of `raced` may fall back to an older version (hazards
`emerge.cpp:558`, `map.cpp:840`); `NoStaleBlock` says that no other block does,
over all interleavings.

A chunk whose area is not inside of the mapgen limit (`Outside`) is noted as in
progress before the limit is looked at, and nobody takes the note back:
`OneGeneratorPerChunk` says that this is the only kind of chunk that stays in
progress without a thread that makes it, until an error condemns the server. It does
no harm, since such a chunk can never be generated.

The callbacks lost with an unreadable block (in hand, or in the area of the chunk),
with a block outside of the map and at a thread that has ended are in the model and
excluded from `CallbacksRun` by name; so is the deadlock of the two locks
(`LockedOut`), in `CallbacksRun` and `ThreadsEnd`, which say that nothing else keeps
a callback from running or a thread from ending. `EmergeDeadlock` shows the deadlock.

### BlockSend: a client's copy of the map

One client and the blocks around it, one at each distance. `version` is the
server's map, `copy` the client's; in between are two channels to the client
(whole blocks; changes of a node) and two kinds of messages back. `phase` is the
server thread's loop: send blocks, step, send the noted changes one after the
other with the environment locked, receive.

| Action | Code |
|---|---|
| `SendBlocks`, `PauseEnds` | `Server::SendBlocks`, `RemoteClient::GetNextBlocks`: what the scan chooses (`Chosen`), asks of the emerge threads (`Wanted`), where it breaks off (`End`) and goes on (`NextNearest`) |
| `EditMap`, `SendMapEdits` | `onMapEditEvent`; the end of `AsyncRunStep` with `sendNodeChangePkt` |
| `HandleNotice`, `HandleDig` | `handleCommand_GotBlocks`, `_DeletedBlocks`, `_Interact` for a completed dig |
| `ReceiveBlock`, `ReceiveNode` | the client's `handleCommand_BlockData`, `_AddNode`, `_RemoveNode` |
| `SendGotBlocks`, `DeleteBlock`, `PredictDig` | `Client::step`, `Game::handleDigging` |
| `RestartScan` | the player moves or turns, or the scan has not got round for too long |
| `EmergeBlock` | the emerge threads (module Emerge): a block and its neighbours come into memory, or it is not there and too far away to be generated |

Nondeterministic, because it depends on data left out: whether the player is near
enough for a change to be sent by itself, what becomes of a dig (air, another
node, nothing), which block the client has not used for long, which blocks consist of
air. `raced` is history: the blocks of which a copy and a different change were under
way at the same time.

`Skipped` are the blocks that the scan passes by: an incomplete one too far away to be
generated, and from `OptDistance` on any block of nothing but air. The second has a
consequence for the client: when a far block that it holds turns into air and is to be
sent again as a whole, it is not, and the client keeps the old one until it comes near.
`CatchesUp` excludes such blocks (`air`), and those the scan never gets to
(`OutOfReach`): beyond a block that is neither in memory nor near enough to be
generated the scan stops and starts again, over and over.

## Runs

| Run | Expect | Shows |
|---|---|---|
| `StepSync` | pass | token accounting, drift bound, inheritance bound, when `sem_open` can fail, neither thread starved |
| `StepSyncShutdown` | violation | `Server::stop` can join a thread that waits for a post nobody makes |
| `RewardSignal` | pass | a `set_reward_once` that does not overlap `pyConnStep` is reported once and then replaced |
| `RewardKept` | violation | `set_reward` after a pending `set_reward_once` is lost, without a race |
| `ResetSignals` | pass | no termination invented or lost, none unreported, soft resets served, none spurious |
| `EnvChannel` | pass | strict alternation, no mutual wait, no stray process, the Gymnasium contract; every call returns unless a listen timed out or the process hangs |
| `EnvTimeout` | violation | after a listen timeout, a later `reset` waits for ever |
| `Mtp` | pass | numbers taken and put back agree, none is forgotten, buffers ordered across the wrap-around, the spread bounded; the channel implements `FifoChannel`, delivery included |
| `Emerge` | pass | the queues agree, one generator per chunk, and none left in progress but those beyond the limit; a block falls back to an older version only if it was touched while a thread worked on what it had read; callbacks run once |
| `EmergeEnds` | pass | callbacks run and stopped threads end, unless an unreadable block or the two locks prevent it |
| `EmergeDeadlock` | violation | an unreadable block leads to a deadlock of its thread and the server thread |
| `BlockSend` | pass | blocks counted as sent are held and current, and the client catches up, but for races and far air |

The four violations are disagreements between the code and a sentence of its
own documentation or comments; `PROJECT.json` quotes them. Five more such
sentences are stated in the modules and belong to no run: `NeverSentAgain` (a whole
block and a change of one of its nodes overtake each other on their two channels, and
the client keeps an old node in a block counted as sent), `StepsSynchronized`
(the tokens a killed process leaves let the next one's threads drift apart by more than one
step), `OnceForOneTimestep` (a `set_reward_once` that overlaps `pyConnStep` can
be reported again and again), `ResetObservationInitial` (a soft reset's
observation may picture the world before the reset) and `OnlyOwnConnection` (a
descriptor number closed in `server_recv` is used after another environment got
it; two environments). Naming one as an invariant of its component's
configuration shows the counterexample.

### Bounds, and why they are enough

* `StepSync`: `MaxBoots = 3`, `MaxCrashes = 1`. One process leaves tokens, the
  second adds to them, the third inherits both; the proofs cover all values.
  The semaphores themselves are not bounded.
* `RewardSignal`: `MaxRewards = 3` calls. Two calls make every pair (a pending
  reset under a later call), the third shows the state recovers; the proofs
  cover all values.
* `ResetSignals`: three terminations and three resets, so that a request can
  overlap the service of an earlier one and be followed by a clean one; the
  proofs cover all values.
* `EnvChannel`: `InitFrames = 1` keeps the loop of `reset`; three processes allow
  an orphan, its successor and a clean one; five actions; two crashes
  or hangs, at any point, so that a process can fail and its successor too; one
  environment, in sync mode (without it a process does not hang, and the rest is the
  same). A call only starts when the bounds leave room for all of it (`WithinBounds`),
  so no call is cut off by a bound.
* `Mtp`: messages of one, two and three packets, one ping, a window of two:
  every message meets a window with too little room and with none, and has numbers
  to put back. 32 numbers starting at 28 wrap around in the middle of the second
  or third message; a space of 32 is the smallest with half of it well above the
  numbers in use. The arithmetic is proved for every space, and the channel's
  safety for all messages, windows and first numbers.
* `Emerge`: two threads and five blocks: two that share a chunk, one of them saved
  earlier; a third in a chunk next to theirs, so that the two areas overlap; one
  beyond the mapgen limit; and one outside of the map. Two requests, one change of the
  map, one callback. That is enough for two requests for one block to be merged, for two
  blocks of a chunk at two threads, for two threads that generate into each other's
  border, for a request that finds its block just generated, and for a block to be
  changed, unloaded or deleted under a thread that has read or copied it. The safety
  properties are proved for all values.
* `EmergeEnds`: an unreadable block, a readable one of the same chunk and one of another
  chunk, and three requests: the unreadable block is in hand, or is met while its chunk is
  made, the emerge queue is full, and there are enough requests for the deadlock and
  for others around it. `EmergeDeadlock` needs one thread, two blocks and three requests.
* `BlockSend`: a near block and a far one, which may be air, and is not generated while
  it is far; a send queue and an emerge queue of one, so that the scan breaks off and goes
  on; one block in memory at the start; two changes or digs and one block forgotten,
  enough for a change to overtake an acknowledgement, a block or a refusal, for the two
  channels to race, and for a block to turn into air and back. `MaxRestarts` bounds the
  restarts of the scan that the player causes; without a bound a player who turns round
  and round would never be sent what is far away. The safety properties are proved for
  all values.

Deadlock is checked in `RewardSignal` and `ResetSignals`, where both threads
always have something to do. It is not checked in the others: the system may
stop there (the process is gone and nobody starts another; all messages are
delivered; the threads have ended; there is nothing left to send); what may not
stop is stated by `ServerNotStuck`, `ClientNotStuck`, `CallsReturn`,
`FifoFairSpec`, `ThreadsEnd`, `CallbacksRun` and `CatchesUp`.

### Fairness

Weak fairness per thread, on the steps the thread takes by itself: an operating
system runs a thread that can run. A wait on a semaphore, a `recv` and an
`accept` are enabled only when they can return, so fairness does not assume the
partner. The agent answers every observation (`CliStep`, `Exchange`), since
`recv` has no timeout and a training loop calls `step` again; a mod's globalstep
is called again and again. The main thread steps the client in every frame
unless a menu that pauses a single-player game is open, which takes a user at
the keyboard; that case is excluded. Starting, killing, crashing, quitting, hanging, and what mods
and agents call, are choices and have no fairness. A process gets to its next exchange
in `EnvChannel` only as long as its main loop goes round: `Hang` may end that
at any frame, and `CallsReturn` names it as an exception. `poll` in `server_listen` has
a timeout, so `ListenTimeout` is one of the steps by which a call goes on.

* `Mtp`: the two threads go on (`SendThread`, `CheckIncomingBuffers`). The network
  may lose any packet, but not every copy of one that is sent for ever: the
  oldest unacknowledged packet, which `runTimeouts` resends each time its timer
  has run out, is resent and not lost again and again (`ResendOldest`), and so
  arrives, and so does some acknowledgement of it (`ReceiveOldest`, `AckOldest`).
  These are strong, because the steps are enabled again and again only. That peers
  stay is not assumed: the link goes down when one does not, and then nothing is
  promised but order.
* `Emerge`: each thread goes on, and the server thread ends an enqueue it has
  begun, when the lock it waits for is free. Weak fairness is enough because the
  locks are free for good or taken by a deadlock: the requests and changes of the
  runs are finite.
* `BlockSend`: the server's loop and the client's go round (`ServerLoop`,
  `Client`); what has arrived is handled, though the loop leaves the phase that
  handles it again and again (`Handle`, strong: `ServerThread::run` receives in every
  round); the timers run out, the pause of two seconds (`PauseEnds`) and the limit on
  how long a scan may take (`RestartScan`); the emerge threads answer for each block
  asked for (`EmergeBlock`). `Handle` and `Client` contain the arrival of messages, which
  Mtp's delivery justifies while the link is up.

## Proofs

`StepSyncProofs` proves for all `MaxBoots`, `MaxCrashes` \in Nat the type
invariant, `TokensBalance`, `SkewBound`, `DebtBound` and
`OpenFailsOnlyOnFreshPort`. `SkewBound` is not inductive: a post shows in a
semaphore and not in the drift. The inductive invariant `IInv` therefore carries
`TokensBalance` (value = inherited + drift + post pending), from which the bound
follows because values are natural numbers; `DebtBound` needs it as well, when a
process ends and its values become its successor's inheritance
(`EndsKeepIInv`, with the arithmetic in `EndedTokens`). `Coupled` and
`NamesKept` tie the threads and the names.

`ResetSignalsProofs` proves the type invariant, `TerminationNotInvented`,
`TerminationNotLost` and `NoSpuriousReset` for all bounds. The argument counts:
`TermsBalance` says a termination sits in exactly one of report, buffer or flag
(the flag does not count between its test and its clearing), `ResetsBalance` the
same for soft resets, with `Due` for those on their way. The upper bounds in
`TypeOK` follow from the balances and are not inductive by themselves, hence
`TypeInv`.

`RewardSignalProofs` proves the type invariant, `OnceAtMostOnce` and
`OnceRestores` for any number of calls. The invariant follows one call that has not
raced through its life: its stores still pending, stored, reported with the
reset to come, reset; and says in each what the three globals and the copies
in `pyConnStep` hold of it.

`SeqNumProofs` relates each comparison of the code to the one distance between
two numbers, counted upwards around the space, for every even space: that is
where the wrap-around is dealt with, once.

`MtpProofs` proves all the safety properties of the channel and that it
implements `FifoChannel!Spec`, in three layers. `PutBackSucceeds`: the numbers a
message has taken are consecutive and end just before the next one (`got`
against `nextOut`), whatever happens to the list of sent packets in between.
`SpreadBound` and `BuffersOrdered`: the ages of the packets sent, queued and in
hand (`Aged`) fall from one list to the next and never exceed `SpreadLimit`; that
is below half of the space, so that `Insert` finds its place and forgets
nothing. `NothingForgotten` and the order: the `Ledger` accounts for every
packet that was ever given a number, the copies in the network as well. Its place
is the distance of its number from `FirstSeqnum` (`Off`). All known packets with
one number are the same packet, and they are in the order of their messages and
chunks (`KnownTo`); a chunk lies before `nextIn` exactly when it was handed out or
is in `splits` (`ReceivedUpTo`); every number from `nextIn` on, and every chunk not
yet received, is still with the sender or in the receiver's buffer (`Waiting`). The
number of messages numbered (`done`) and those waiting as commands (`PendingInv`)
make up the rest.

This last layer has a hypothesis, `HalfTurn`: all the numbers of the history take
less than half of the space (`f` are the partial sums of the messages' lengths).
It cannot be dropped: the network of the model keeps a packet for ever, and a
copy that turns up half a turn or more later may have a number the receiver expects again. The
code has no guard against that but time. About
histories longer than that these two theorems say nothing. `SpreadBound`,
`BuffersOrdered`, `PutBackSucceeds` and `TypeOK` hold without it.

`EmergeProofs` proves the safety properties for any threads, blocks, chunks and
requests. `OneGeneratorPerChunk` needs that a chunk in progress has exactly its
maker until a mod's error; `QueuesAgree` counts: a peer's count is the number of
its blocks, with the finite-set theorems for one added and one taken away.
`CallbackOnce` follows a request's callback through the queue, the thread that has
it in hand and the cancelled queue: it is in one of them at most, and in none once
it has run. `NoStaleBlock` needs no restriction on threads, areas or the server thread.
It is inductive only together with what a block in memory may yet come from: of a block
that has not raced, the database has the newest version if the block is not in memory,
or has not been modified since it was read (`BlockFresh`); and a thread's bytes and its
copy of an area have the newest version as long as they are used (`HandFresh`). Each
change that would break the second puts the block into `raced` in the same step.

`EnvChannelProofs` proves the type invariant, `NoStrayProcess`, `OneInFlight`,
`NeverBothWaiting` and `GymSpec` for any number of environments; the run has one. That `accept`
finds a descriptor is a pigeon-hole argument (`LowestFreeExists`): each descriptor
in use is another accepted connection, and the one being accepted has none yet. A
process is left behind only where an environment has neither a descriptor nor a
dead process and is not about to get one (`Channels`). The turns are `TrafficOf`,
what a process can be doing with a message under way, and `TalkOf`, Python's end of
it. They hold although a descriptor that was closed and kept may become another
environment's connection: one call at a time is under way, and a process that no
call is talking to waits with nothing under way, or is gone (`AtRest`), so
whichever environment talks to it next finds it its turn.

On top of this `GymContract` shows every step to be one of `GymEnv`, or none. A
message bears the number of the action it carries or answers; `Answers` says that
whatever is under way at the process of a call (`Carries`) bears the number sent
last (or 0, before the first action of a hard reset), that a process being reset
was not heard from before, and that afterwards it is the one that answered the
reset, unless it is gone with nothing left to read. Its hypothesis, that no
environment uses a descriptor that became another one's connection
(`OnlyOwnConnection`), fails in the code for two environments in one Python
process after a failed `receive`; `GymContractAlone` shows that one environment
needs no hypothesis. It is used where `accept` may hand out the number of a
descriptor that another environment still remembers, and to keep the process of
an idle environment quiet while another one's call goes on.

`BlockSendProofs` proves the type invariant, `SentIsHeld` and `SentIsCurrent`.
Neither is inductive. The invariant adds: a block the mesh threads use is held
(`UsedIsHeld`); an acknowledgement is in front of the notice of a later deletion
(`AckBeforeDelete`); a block on the wire is in the channel, held, or its deletion is
under way (`SendingArrives`); the last noted change of a block is its version (`EditsEndNow`);
the two channels agree on blocks that have not raced (`ChannelsAgree`); and a block
the server counts as sent or on the wire, with nothing else under way, has its newest
version arriving or there (`KnownIsArriving`). That digs and changes stay
within the bound (`ChangesCounted`) is needed for the types only.

The proofs rest on the named assumptions of the modules and on nothing else:
bounds are natural numbers; there is a thread; the sequence space is even; and
`MtpAssumption`, `EmergeAssumption` and `BlockSendAssumption`. Only model-checked
are: all liveness properties (the prover has no rule for fairness and ENABLED);
which includes the fairness of `FifoFairSpec`.

## Not modelled

* The contents of observations and actions, rendering, wrappers, the run
  directory: data that no property tells apart.
* The voxel vectors: the copy races with their replacement and may read freed
  storage. Undefined behaviour has no bounded set of outcomes, and no sentence
  promises anything of the copy.
* The multi-agent environment: as the code stands `MarlCraftiumEnv.reset` raises
  at its first `receive` (it unpacks nine of fourteen values), so no step of it
  can happen.
* Of the network layer: unreliable packets, the other channels of a peer (with which
  a channel shares the quota), the handshake that gives a peer its
  number and the half-open state, rates, round-trip times and the adaptation of
  the window; the commands `SEND_TO_ALL`, `CREATE_PEER` and `RESEND_ONE`. A
  DISCO's arrival is one with the receiver's time-out. The check that a repeated
  packet has the content of the first is left out: the sender never changes one.
* Of the emerge threads: what a map generator does with its copy, `on_generated`
  of the server's environment, and the event that is sent at the end of a round.
* Of the client interface: the connection states; several clients and the total
  limit over them; the lower limit while the player builds; the tests of
  sight and occlusion (all blocks are in sight, and
  `server_side_occlusion_culling` is off); the change of the distances by a player who
  moves (that the scan starts again is modelled); metadata; and
  the unloading of blocks by the server. A dig of a node that is air at the
  server already is left out, too: the client would have to show it as solid.
* Inventories, active blocks and objects, node timers, liquids: changed by the
  server thread only, one after the other.
* Map generation, databases, GUI, sound, rendering: no protocol, or input and
  output through libraries. `irr/` and `lib/` are vendored.
* Hosts where `sem_wait` is interrupted by a signal: `syncServerStep` exits the
  process then, which is a `Crash` of the model.

The share of the repository's lines that is mapped stays small for this reason:
of its 330 000 lines of code most are the renderer and its drivers, the
generators, the user interface and bundled libraries.

## What would come next

1. **ClientState**: the connection states of `RemoteClient` with the two hosts'
   packet handlers.
2. **InventoryMove**: `src/inventorymanager.cpp` over lists of stacks, with
   conservation of items as the invariant.
3. **Composition**: BlockSend over two instances of FifoChannel, and EnvChannel
   with ResetSignals for the step in which a termination is answered.

To repeat the checks: `tlc -config <run>.cfg <module>` for a run of the table
above (the configuration bears the run's name; `Mtp` and the three `Emerge` runs
have the modules `MCMtp` and `MCEmerge`, and
`EnvTimeout`, `RewardKept` and `StepSyncShutdown` the module they belong to),
`tlapm <module>Proofs.tla` for the proofs.
