------------------------------- MODULE BlockSend -------------------------------
(***************************************************************************)
(* How the server keeps a client's copy of the map current: RemoteClient    *)
(* (src/src/server/clientiface.cpp) with the server's steps that use it     *)
(* (server.cpp, serverpackethandler.cpp), and the client's handlers of what *)
(* it is sent.  Whole blocks are sent and acknowledged on one channel of    *)
(* the network layer, changes of single nodes and the player's digging on   *)
(* another.                                                                 *)
(*                                                                         *)
(* Block b is the one block at distance b around the player.  Of each block *)
(* one node is followed, whose value is the number of its last change.      *)
(***************************************************************************)
EXTENDS Integers, Sequences, SequencesExt, FiniteSets, FiniteSetsExt

CONSTANTS FarDistance,    \* full_d_max
          Increment,      \* max_d_increment_at_time
          OptDistance,    \* d_opt: from here on blocks of nothing but air are not sent
          GenDistance,    \* d_max_gen: as far as new blocks are generated
          MaxSends,       \* m_max_simul_sends
          MaxEmerging,    \* the limit of the emerge queue
          Emerged,        \* the blocks in the server's memory at the start
          NoBlock, Guess, \* no copy, and a change the client only predicts
          MaxChanges, MaxUnloads, MaxRestarts   \* bounds of the model

Blocks == 0 .. FarDistance
Far == OptDistance .. FarDistance

ASSUME BlockSendAssumption ==
  /\ {FarDistance, Increment, OptDistance, GenDistance} \subseteq Nat /\ Emerged \subseteq Blocks
  /\ {MaxSends, MaxEmerging} \subseteq Nat \ {0} /\ {MaxChanges, MaxUnloads, MaxRestarts} \subseteq Nat
  /\ NoBlock \notin Int /\ Guess \notin Int /\ NoBlock # Guess

VARIABLES
  version,    \* the server's blocks
  loaded, generated,  \* those in memory, and those of them that are complete
  air,        \* the far blocks of nothing but air
  emerging,   \* those asked of the emerge threads
  edits,      \* m_unsent_map_edit_queue
  phase,      \* where the server thread is in its loop
  sending, sent,      \* m_blocks_sending, m_blocks_sent
  nearest,    \* m_nearest_unsent_d
  paused,     \* m_nothing_to_send_pause_timer >= 0
  blockData, nodeChanges,   \* on the way to the client: BLOCKDATA; ADDNODE, REMOVENODE
  notices, digs,            \* to the server: GOTBLOCKS, DELETEDBLOCKS; INTERACT
  copy,       \* the client's blocks
  unacked,    \* acknowledgements that wait for the client's mesh threads
  raced,      \* blocks a different change of which was under way on both channels
  changes, unloads, restarts   \* how many there have been

wire == <<blockData, nodeChanges, notices, digs>>
remote == <<sending, sent, nearest, paused>>
client == <<copy, unacked>>
world == <<version, loaded, generated, air, emerging>>
bounds == <<changes, unloads, restarts>>
vars == <<world, edits, phase, remote, wire, client, raced, bounds>>

Init ==
  /\ version = [b \in Blocks |-> 0]
  /\ loaded = Emerged /\ generated = Emerged /\ air \in SUBSET Far
  /\ emerging = {} /\ edits = <<>> /\ phase = "receive"
  /\ sending = {} /\ sent = {} /\ nearest = 0 /\ paused = FALSE
  /\ blockData = <<>> /\ nodeChanges = <<>> /\ notices = <<>> /\ digs = <<>>
  /\ copy = [b \in Blocks |-> NoBlock] /\ unacked = [b \in Blocks |-> 0]
  /\ raced = {} /\ changes = 0 /\ unloads = 0 /\ restarts = 0

-----------------------------------------------------------------------------
(* RemoteClient.                                                            *)

\* SetBlockNotSent: a block of low priority waits for the next full scan.
SetBlockNotSent(b, low) ==
  LET known == b \in sending \cup sent
  IN  /\ sending' = sending \ {b} /\ sent' = sent \ {b}
      /\ nearest' = IF known /\ ~low THEN Min({nearest, b}) ELSE nearest
      /\ paused' = FALSE

ResendBlockIfOnWire(b) ==
  IF b \in sending THEN SetBlockNotSent(b, FALSE) ELSE UNCHANGED remote

\* Mutant: an acknowledged block stays in m_blocks_sending.
GotBlock_StaysOnWire(b) ==
  /\ sent' = IF b \in sending THEN sent \cup {b} ELSE sent
  /\ UNCHANGED <<sending, nearest, paused>>

\* GotBlock: only a block that is being sent (it may have been changed since).
GotBlock(b) ==
  /\ sending' = sending \ {b}
  /\ sent' = IF b \in sending THEN sent \cup {b} ELSE sent
  /\ UNCHANGED <<nearest, paused>>

\* Mutant: far blocks are left out whatever they consist of.
Skipped_AllFar(b) ==
  b \in loaded /\ ((b > GenDistance /\ b \notin generated) \/ b >= OptDistance)

\* What GetNextBlocks leaves out for now: an incomplete block too far away to be
\* generated, and a block of air that is not close, whether or not the client holds
\* it from a time when there was something in it.
Skipped(b) ==
  b \in loaded /\ ((b > GenDistance /\ b \notin generated) \/ b \in air)

\* The scan of GetNextBlocks: the distances it may look at; the blocks to send and
\* to ask for that it finds there; and the first at which it breaks off, the send
\* queue or the emerge queue being full.
Scanned == nearest .. Min({FarDistance, nearest + Increment})
Unsent == {b \in Scanned \ (sending \cup sent) : ~Skipped(b)}
SendQueueFull(d) ==
  Cardinality(sending) + Cardinality({b \in Unsent \cap generated : b < d}) >= MaxSends
EmergeQueueFull(d) ==
  /\ d \in Unsent \ generated
  /\ Cardinality(emerging \cup {b \in Unsent \ generated : b < d}) >= MaxEmerging
Breaks == {d \in Scanned : SendQueueFull(d) \/ EmergeQueueFull(d)}
End == Min(Breaks \cup {Min({FarDistance, nearest + Increment}) + 1})
Chosen == {b \in Unsent \cap generated : b < End}
Wanted == {b \in Unsent \ generated : b < End \/ (b = End /\ ~SendQueueFull(b))}

\* Where the next scan starts.
NextNearest ==
  IF Wanted # {} THEN Min(Wanted)
  ELSE IF End > FarDistance THEN 0
  ELSE IF Chosen # {} THEN Min(Chosen) ELSE End

-----------------------------------------------------------------------------
(* The server thread.                                                       *)

Stale(messages, b) == \E i \in DOMAIN messages :
  messages[i].pos = b /\ messages[i].ver # version[b]

\* SendBlocks, the first thing a step does: what was chosen is sent, the nearest
\* first.
SendBlocks ==
  /\ phase = "receive" /\ phase' = "step"
  /\ IF paused \/ Cardinality(sending) >= MaxSends
     THEN UNCHANGED <<remote, blockData, emerging, raced>>
     ELSE /\ sending' = sending \cup Chosen
          /\ \E order \in Bijection(1 .. Cardinality(Chosen), Chosen) :
               /\ \A i, j \in DOMAIN order : i < j => order[i] < order[j]
               /\ blockData' = blockData \o
                    [i \in DOMAIN order |-> [pos |-> order[i], ver |-> version[order[i]]]]
          /\ emerging' = emerging \cup {b \in Wanted : b < End}
          /\ nearest' = NextNearest
          /\ paused' = (Wanted = {} /\ End > FarDistance)
          /\ raced' = raced \cup {b \in Chosen : Stale(nodeChanges, b)}
          /\ UNCHANGED sent
  /\ UNCHANGED <<version, loaded, generated, air, edits, nodeChanges, notices, digs, client, bounds>>

\* Two seconds pass.
PauseEnds ==
  /\ paused /\ paused' = FALSE
  /\ UNCHANGED <<world, edits, phase, sending, sent, nearest, wire, client, raced, bounds>>

\* The scan starts at the player again: the player has moved or turned; or it is too
\* long since it got round, as when it comes back for ever to a block that is not
\* there.  Any earlier restart counts against the bound: who turns round and round is
\* never sent what is far away.
RestartScan ==
  /\ nearest # 0 /\ nearest' = 0
  /\ IF nearest > GenDistance /\ nearest \notin loaded THEN UNCHANGED restarts
     ELSE restarts < MaxRestarts /\ restarts' = restarts + 1
  /\ UNCHANGED <<world, edits, phase, sending, sent, paused, wire, client, raced, changes, unloads>>

\* The emerge threads load or generate a block, and its neighbours come into memory
\* as they are; or it is not there and too far away to be generated.
EmergeBlock(b) ==
  /\ b \in emerging /\ emerging' = emerging \ {b}
  /\ \/ /\ \E others \in SUBSET Blocks : loaded' = loaded \cup others \cup {b}
        /\ generated' = generated \cup {b}
        /\ air' \in {(air \cup {b}) \cap Far, air \ {b}}
     \/ /\ b > GenDistance /\ loaded' \in {loaded, loaded \cup {b}}
        /\ UNCHANGED <<generated, air>>
  /\ UNCHANGED <<version, edits, phase, remote, wire, client, raced, bounds>>

\* A change of the map, which onMapEditEvent notes: of the node that is followed (and
\* it may be the first or the last that is not air), or of the block at large ("low"
\* when only by blocks that became active).
Note(b, node, low) ==
  /\ b \in loaded
  /\ version' = [version EXCEPT ![b] = @ + 1] /\ air' \in {(air \cup {b}) \cap Far, air \ {b}}
  /\ edits' = Append(edits, [pos |-> b, node |-> node, low |-> low, ver |-> version[b] + 1])

EditMap ==
  /\ phase # "drain" /\ changes < MaxChanges
  /\ changes' = changes + 1
  /\ \E b \in Blocks : \/ Note(b, TRUE, FALSE)
                       \/ \E low \in BOOLEAN : Note(b, FALSE, low)
  /\ UNCHANGED <<loaded, generated, emerging, phase, remote, wire, client, raced, unloads, restarts>>

\* An event of the map edit queue.  sendNodeChangePkt sends the change itself if
\* the client has the block and the player is near; else the block is sent again.
SendEdit(edit) ==
  LET b == edit.pos
  IN  \/ /\ edit.node /\ b \in sent
         /\ nodeChanges' = Append(nodeChanges, [pos |-> b, ver |-> edit.ver])
         /\ raced' = IF \E i \in DOMAIN blockData :
                           blockData[i].pos = b /\ blockData[i].ver # edit.ver
                     THEN raced \cup {b} ELSE raced
         /\ UNCHANGED remote
      \/ SetBlockNotSent(b, edit.low) /\ UNCHANGED <<nodeChanges, raced>>

\* The end of a step: the queue is emptied while the environment is locked.
SendMapEdits ==
  /\ phase \in {"step", "drain"}
  /\ IF edits = <<>>
     THEN phase' = "receive" /\ UNCHANGED <<edits, remote, nodeChanges, raced>>
     ELSE phase' = "drain" /\ edits' = Tail(edits) /\ SendEdit(Head(edits))
  /\ UNCHANGED <<world, blockData, notices, digs, client, bounds>>

\* handleCommand_GotBlocks and handleCommand_DeletedBlocks.
HandleNotice ==
  /\ phase = "receive" /\ notices # <<>>
  /\ notices' = Tail(notices)
  /\ LET notice == Head(notices)
     IN  IF notice.deleted THEN SetBlockNotSent(notice.pos, FALSE) ELSE GotBlock(notice.pos)
  /\ UNCHANGED <<world, edits, phase, blockData, nodeChanges, digs, client, raced, bounds>>

\* Mutant: a refused dig does not send the block again.
HandleDig_KeepsBlock ==
  /\ phase = "receive" /\ digs # <<>>
  /\ digs' = Tail(digs)
  /\ LET b == Head(digs)
     IN  \/ Note(b, TRUE, FALSE) /\ ResendBlockIfOnWire(b)
         \/ UNCHANGED <<version, air, edits>> /\ ResendBlockIfOnWire(b)
  /\ UNCHANGED <<loaded, generated, emerging, phase, blockData, nodeChanges, notices, client, raced, bounds>>

\* handleCommand_Interact of a completed dig: air is left; or the node stays or turns
\* into another one, and the client's prediction has to be reverted.
HandleDig ==
  /\ phase = "receive" /\ digs # <<>>
  /\ digs' = Tail(digs)
  /\ LET b == Head(digs)
     IN  \/ Note(b, TRUE, FALSE) /\ (ResendBlockIfOnWire(b) \/ SetBlockNotSent(b, FALSE))
         \/ UNCHANGED <<version, air, edits>> /\ SetBlockNotSent(b, FALSE)
  /\ UNCHANGED <<loaded, generated, emerging, phase, blockData, nodeChanges, notices, client, raced, bounds>>

-----------------------------------------------------------------------------
(* The client.                                                              *)

\* handleCommand_BlockData.
ReceiveBlock ==
  /\ blockData # <<>>
  /\ blockData' = Tail(blockData)
  /\ LET message == Head(blockData)
     IN  /\ copy' = [copy EXCEPT ![message.pos] = message.ver]
         /\ unacked' = [unacked EXCEPT ![message.pos] = @ + 1]
  /\ UNCHANGED <<world, edits, phase, remote, nodeChanges, notices, digs, raced, bounds>>

\* handleCommand_AddNode and handleCommand_RemoveNode: no effect without the block.
ReceiveNode ==
  /\ nodeChanges # <<>>
  /\ nodeChanges' = Tail(nodeChanges)
  /\ LET message == Head(nodeChanges)
     IN  copy' = IF copy[message.pos] = NoBlock THEN copy
                 ELSE [copy EXCEPT ![message.pos] = message.ver]
  /\ UNCHANGED <<world, edits, phase, remote, blockData, notices, digs, unacked, raced, bounds>>

\* A new mesh is put in place, and the block acknowledged.
SendGotBlocks ==
  /\ \E b \in Blocks :
       /\ unacked[b] > 0
       /\ unacked' = [unacked EXCEPT ![b] = @ - 1]
       /\ notices' = Append(notices, [pos |-> b, deleted |-> FALSE])
  /\ UNCHANGED <<world, edits, phase, remote, blockData, nodeChanges, digs, copy, raced, bounds>>

\* Mutant: a block is dropped while the mesh threads use it.
DeleteBlock_NotLocked(b) ==
  /\ copy[b] # NoBlock /\ unloads < MaxUnloads
  /\ unloads' = unloads + 1
  /\ copy' = [copy EXCEPT ![b] = NoBlock]
  /\ notices' = Append(notices, [pos |-> b, deleted |-> TRUE])
  /\ UNCHANGED <<world, edits, phase, remote, blockData, nodeChanges, digs, unacked, raced, changes, restarts>>

\* The client forgets a block that has not been used for long.  A mesh update that
\* waits keeps a reference to its block.
DeleteBlock(b) ==
  /\ copy[b] # NoBlock /\ unacked[b] = 0 /\ unloads < MaxUnloads
  /\ unloads' = unloads + 1
  /\ copy' = [copy EXCEPT ![b] = NoBlock]
  /\ notices' = Append(notices, [pos |-> b, deleted |-> TRUE])
  /\ UNCHANGED <<world, edits, phase, remote, blockData, nodeChanges, digs, unacked, raced, changes, restarts>>

\* The player digs: the client does not wait for the server to agree.
PredictDig(b) ==
  /\ copy[b] # NoBlock /\ changes < MaxChanges
  /\ changes' = changes + 1
  /\ copy' = [copy EXCEPT ![b] = Guess]
  /\ digs' = Append(digs, b)
  /\ UNCHANGED <<world, edits, phase, remote, blockData, nodeChanges, notices, unacked, raced, unloads, restarts>>

-----------------------------------------------------------------------------
ServerLoop == SendBlocks \/ SendMapEdits
Handle == HandleNotice \/ HandleDig
Client == ReceiveBlock \/ ReceiveNode \/ SendGotBlocks

Next ==
  \/ ServerLoop \/ Handle \/ Client
  \/ PauseEnds \/ RestartScan \/ EditMap
  \/ \E b \in Blocks : EmergeBlock(b) \/ DeleteBlock(b) \/ PredictDig(b)

Spec == Init /\ [][Next]_vars

\* The server's loop goes round, and every round takes what has arrived; the
\* client's does too; the network delivers, the emerge threads work and the timers run.
FairSpec ==
  /\ Spec
  /\ WF_vars(ServerLoop) /\ SF_vars(Handle) /\ WF_vars(Client)
  /\ WF_vars(PauseEnds) /\ WF_vars(RestartScan)
  /\ \A b \in Blocks : WF_vars(EmergeBlock(b))

-----------------------------------------------------------------------------
(* Properties.                                                              *)

Versions == 0 .. MaxChanges
TypeOK ==
  /\ version \in [Blocks -> Versions] /\ loaded \subseteq Blocks /\ emerging \subseteq Blocks
  /\ generated \subseteq loaded /\ air \subseteq Far
  /\ edits \in Seq([pos : Blocks, node : BOOLEAN, low : BOOLEAN, ver : Versions])
  /\ phase \in {"receive", "step", "drain"}
  /\ sending \subseteq Blocks /\ sent \subseteq Blocks /\ sending \cap sent = {}
  /\ nearest \in Blocks /\ paused \in BOOLEAN
  /\ {blockData, nodeChanges} \subseteq Seq([pos : Blocks, ver : Versions])
  /\ notices \in Seq([pos : Blocks, deleted : BOOLEAN]) /\ digs \in Seq(Blocks)
  /\ copy \in [Blocks -> Versions \cup {NoBlock, Guess}] /\ unacked \in [Blocks -> Nat]
  /\ raced \subseteq Blocks

\* A block the server counts as sent, and will not send again, is held by the
\* client, or the client's word that it has dropped it is under way: however
\* acknowledgements, deletions and repeated sends of the block overlap.
SentIsHeld ==
  \A b \in sent : copy[b] = NoBlock =>
    \E i \in DOMAIN notices : notices[i] = [pos |-> b, deleted |-> TRUE]

\* ... and it is the newest one, once nothing that would change it is under way.
\* The only way to an old copy is a block and a change of its node overtaking one
\* another on their two channels.
UnderWay(b) ==
  \/ \E i \in DOMAIN edits : edits[i].pos = b
  \/ \E i \in DOMAIN digs : digs[i] = b
  \/ \E i \in DOMAIN blockData : blockData[i].pos = b
  \/ \E i \in DOMAIN nodeChanges : nodeChanges[i].pos = b
  \/ \E i \in DOMAIN notices : notices[i] = [pos |-> b, deleted |-> TRUE]
Current(b) == UnderWay(b) \/ copy[b] = version[b]
SentIsCurrent == \A b \in sent \ raced : Current(b)

\* The client ends up with the newest version of every block, whatever it has
\* predicted, dropped and acknowledged late.  The exceptions: the one just named; a
\* far block of air, of which the client may keep a copy from before it was air; and
\* a block too far away to be generated, or behind one that is not there at all,
\* for which the scan asks in vain for ever.
OutOfReach(b) ==
  \/ b > GenDistance /\ b \notin generated
  \/ \E missing \in Blocks \ loaded : GenDistance < missing /\ missing < b
CatchesUp ==
  <>[](\A b \in Blocks \ (raced \cup air) : copy[b] = version[b] \/ OutOfReach(b))

-----------------------------------------------------------------------------
\* What the tables of serveropcodes.cpp are built on ("packets that operate on
\* the same objects are *required* to be in the same channel") and what
\* clientiface.h says of m_blocks_sent ("These don't have to be sent again").
NeverSentAgain == \A b \in sent : Current(b)
=============================================================================
