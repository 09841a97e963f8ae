--------------------------------- MODULE Mtp ---------------------------------
(***************************************************************************)
(* One direction of one reliable channel of the network layer               *)
(* (src/src/network/mtp): the sending side's send thread and receive thread,*)
(* a network that loses, duplicates, delays and reorders packets, and the   *)
(* receiving side's receive thread.  Messages are split into chunks, chunks *)
(* get sequence numbers, a window limits how many are unacknowledged, timed *)
(* out packets are sent again, and the receiver puts them back in order.    *)
(*                                                                         *)
(* Message m consists of Chunks[m] packets; message 0 is a ping, a reliable *)
(* packet that is not handed out.  Bytes, times and rates are left out: a   *)
(* packet may time out at any moment, and so may the peer.                  *)
(***************************************************************************)
EXTENDS SeqNum, Sequences, SequencesExt, FiniteSets, FiniteSetsExt

CONSTANTS Chunks,       \* for each message, the number of its chunks
          FirstSeqnum,  \* SEQNUM_INITIAL
          Window,       \* the window size of the sending side
          MaxRequeued,  \* m_max_packets_requeued
          MaxPings,     \* a bound on the pings sent
          Lossy         \* what is lost was never in the network

Messages == 1 .. Len(Chunks)
MaxChunks == Max({Chunks[m] : m \in Messages})

\* The numbers in use stay within half of the sequence space.  The code only
\* checks that one message has fewer than MAX_RELIABLE_WINDOW_SIZE chunks.
ASSUME MtpAssumption ==
  /\ Chunks \in Seq(Nat \ {0}) /\ Chunks # <<>>
  /\ FirstSeqnum \in SeqNums /\ {Window, MaxRequeued, MaxPings} \subseteq Nat
  /\ Lossy \in BOOLEAN
  /\ Window + MaxRequeued + MaxChunks + MaxPings < MaxWindow

VARIABLES
  asked,      \* messages given to Connection::Send
  taken,      \* messages the send thread took off m_command_queue
  speer,      \* the sender's peer: "open", m_pending_disconnect, or deleted
  spc,        \* where the send thread is in its loop
  commands,   \* channel.queued_commands
  cmd, got,   \* the message being split (0: none) and its numbered packets
  queued,     \* channel.queued_reliables
  sent,       \* channel.outgoing_reliables_sent
  nextOut,    \* channel.next_outgoing_seqnum
  pings,      \* pings sent so far
  fatal,      \* FATAL_ERROR_IF has fired
  net, acks,  \* packets and acknowledgements in the network
  rpeer,      \* the receiver's peer: "open" or "gone"
  nextIn,     \* channel.next_incoming_seqnum
  inbuf,      \* channel.incoming_reliables
  splits,     \* channel.incoming_splits: chunks of incomplete messages
  drained,    \* ~packet_queued
  delivered   \* messages put on the event queue, in order

sender == <<speer, spc, commands, cmd, got, queued, sent, nextOut, pings, fatal>>
receiver == <<rpeer, nextIn, inbuf, splits, drained, delivered>>
user == <<asked, taken>>
vars == <<sender, receiver, user, net, acks>>

Packet == [seq : SeqNums, msg : Messages \cup {0}, chunk : Nat]
Numbers(packets) == {packets[i].seq : i \in DOMAIN packets}

Init ==
  /\ asked = 0 /\ taken = 0
  /\ speer = "open" /\ spc = "timeouts" /\ commands = <<>> /\ cmd = 0 /\ got = <<>>
  /\ queued = <<>> /\ sent = <<>> /\ nextOut = FirstSeqnum /\ pings = 0
  /\ fatal = FALSE /\ net = {} /\ acks = {}
  /\ rpeer = "open" /\ nextIn = FirstSeqnum /\ inbuf = <<>> /\ splits = {}
  /\ drained = TRUE /\ delivered = <<>>

-----------------------------------------------------------------------------
(* ReliablePacketBuffer.                                                    *)

\* insert: nothing happens outside of the window, at next_expected itself, and
\* for a number that is there already.
Insert(list, p, next_expected) ==
  LET after == {i \in DOMAIN list : ~StaysInFront(list[i].seq, p.seq, next_expected)}
      at == IF after = {} THEN Len(list) + 1 ELSE Min(after)
  IN  IF \/ ~seqnum_in_window(p.seq, next_expected, MaxWindow)
         \/ p.seq = next_expected
         \/ after # {} /\ list[at].seq = p.seq
      THEN list
      ELSE InsertAt(list, at, p)

\* popSeqnum.
Without(list, seqnum) ==
  LET found == {i \in DOMAIN list : list[i].seq = seqnum}
  IN  IF found = {} THEN list ELSE RemoveAt(list, Min(found))

-----------------------------------------------------------------------------
(* The network: what is sent stays there, to be received at any time, in any   *)
(* order, any number of times, or never.  That is loss enough for what may    *)
(* never happen; for what must happen eventually, what is lost has to be sent *)
(* again before it can be received.                                           *)

Transmit(packets) ==
  \E part \in IF Lossy THEN SUBSET packets ELSE {packets} : net' = net \cup part

-----------------------------------------------------------------------------
(* The sending side.                                                        *)

Send ==
  /\ asked < Len(Chunks)
  /\ asked' = asked + 1
  /\ UNCHANGED <<taken, sender, receiver, net, acks>>

\* Mutant: the window does not limit the numbers given out.
HaveSeqnum_Always == TRUE

\* Channel::getOutgoingSequenceNumber succeeds.
HaveSeqnum == sent # <<>> => WindowAllows(Head(sent).seq, nextOut, Window)

\* ConnectionSendThread::sendAsPacketReliable.
Sent(list, p, next) == Insert(list, p, SentBase(next))

\* The ping, given to rawSendAsPacket: sent at once when the window has room,
\* queued when it has none, forgotten when there is no number for it.
NewPing == [seq |-> nextOut, msg |-> 0, chunk |-> 1]

SendPing(resent) ==
  /\ pings < MaxPings
  /\ pings' = pings + 1
  /\ IF ~HaveSeqnum THEN Transmit(resent) /\ UNCHANGED <<queued, sent, nextOut>>
     ELSE /\ nextOut' = U16(nextOut + 1)
          /\ IF Len(sent) < Window
             THEN /\ sent' = Sent(sent, NewPing, nextOut')
                  /\ Transmit(resent \cup {NewPing})
                  /\ UNCHANGED queued
             ELSE /\ queued' = Append(queued, NewPing)
                  /\ Transmit(resent)
                  /\ UNCHANGED sent

\* runTimeouts, up to its call of RunCommandQueues: any of the packets that are
\* not acknowledged may have timed out.
RunTimeouts(resent) ==
  /\ spc = "timeouts"
  /\ spc' = "queues"
  /\ IF speer = "gone" THEN resent = {} /\ UNCHANGED <<net, queued, sent, nextOut, pings>>
     ELSE \/ SendPing(resent)
          \/ Transmit(resent) /\ UNCHANGED <<queued, sent, nextOut, pings>>
  /\ UNCHANGED <<speer, commands, cmd, got, fatal, receiver, user, acks>>

\* runTimeouts finds the peer timed out and deletes it.
PeerTimedOut ==
  /\ spc = "timeouts" /\ speer # "gone"
  /\ speer' = "gone" /\ spc' = "queues"
  /\ UNCHANGED <<commands, cmd, got, queued, sent, nextOut, pings, fatal,
                 receiver, user, net, acks>>

\* UDPPeer::RunCommandQueues; processReliableSendCommand drops the message when
\* a disconnect is pending.
RunCommandQueues ==
  /\ spc = "queues"
  /\ IF speer = "gone" \/ commands = <<>> \/ Len(queued) >= MaxRequeued
     THEN spc' = "commands" /\ UNCHANGED <<commands, cmd>>
     ELSE IF speer = "closing"
     THEN spc' = "commands" /\ commands' = Tail(commands) /\ UNCHANGED cmd
     ELSE spc' = "split" /\ cmd' = Head(commands) /\ UNCHANGED commands
  /\ UNCHANGED <<speer, got, queued, sent, nextOut, pings, fatal,
                 receiver, user, net, acks>>

\* A message leaves m_command_queue for UDPPeer::PutReliableSendCommand, which
\* drops it when a disconnect is pending; without a peer there is nothing to do.
TakeCommand ==
  /\ spc = "commands" /\ taken < asked
  /\ taken' = taken + 1
  /\ IF speer # "open" THEN UNCHANGED <<spc, commands, cmd>>
     ELSE IF commands = <<>> /\ Len(queued) + 1 < Window \div 2
     THEN spc' = "split" /\ cmd' = taken + 1 /\ UNCHANGED commands
     ELSE commands' = Append(commands, taken + 1) /\ UNCHANGED <<spc, cmd>>
  /\ UNCHANGED <<speer, got, queued, sent, nextOut, pings, fatal,
                 asked, receiver, net, acks>>

\* disconnect_peer: sendPackets deletes the peer.
DisconnectPeer ==
  /\ spc = "commands" /\ speer = "open"
  /\ speer' = "closing"
  /\ UNCHANGED <<spc, commands, cmd, got, queued, sent, nextOut, pings, fatal,
                 receiver, user, net, acks>>

NoMoreCommands ==
  /\ spc = "commands" /\ taken = asked
  /\ spc' = "send"
  /\ UNCHANGED <<speer, commands, cmd, got, queued, sent, nextOut, pings, fatal,
                 receiver, user, net, acks>>

\* Mutant: the next number does not wrap around.
TakeSeqnum_NoWrap ==
  /\ spc = "split" /\ Len(got) < Chunks[cmd] /\ HaveSeqnum
  /\ got' = Append(got, [seq |-> nextOut, msg |-> cmd, chunk |-> Len(got) + 1])
  /\ nextOut' = nextOut + 1
  /\ UNCHANGED <<speer, spc, commands, cmd, queued, sent, pings, fatal,
                 receiver, user, net, acks>>

\* processReliableSendCommand: one sequence number for the next chunk.  Acks may
\* arrive between two of them.
TakeSeqnum ==
  /\ spc = "split" /\ Len(got) < Chunks[cmd] /\ HaveSeqnum
  /\ got' = Append(got, [seq |-> nextOut, msg |-> cmd, chunk |-> Len(got) + 1])
  /\ nextOut' = U16(nextOut + 1)
  /\ UNCHANGED <<speer, spc, commands, cmd, queued, sent, pings, fatal,
                 receiver, user, net, acks>>

\* All chunks are numbered: they are queued, and the message leaves the queue of
\* commands if it was there.
QueuePackets ==
  /\ spc = "split" /\ Len(got) = Chunks[cmd]
  /\ queued' = queued \o got
  /\ commands' = IF commands = <<>> THEN <<>> ELSE Tail(commands)
  /\ spc' = "commands" /\ cmd' = 0 /\ got' = <<>>
  /\ UNCHANGED <<speer, sent, nextOut, pings, fatal, receiver, user, net, acks>>

\* Mutant: the numbers taken are not put back.
PutBack_KeepsNumbers ==
  /\ spc = "split" /\ Len(got) < Chunks[cmd] /\ ~HaveSeqnum
  /\ commands' = IF commands = <<>> THEN <<cmd>> ELSE commands
  /\ spc' = "commands" /\ cmd' = 0 /\ got' = <<>>
  /\ UNCHANGED <<speer, queued, sent, nextOut, pings, fatal, receiver, user, net, acks>>

\* There is no number for the next chunk: those taken are put back, the last one
\* first, and the message waits in the queue of commands.
PutBack ==
  /\ spc = "split" /\ Len(got) < Chunks[cmd] /\ ~HaveSeqnum
  /\ LET first == Head(got).seq
         before(k) == U16(first + k + 1)
     IN  IF got = <<>> THEN UNCHANGED <<nextOut, fatal>>
         ELSE IF \A k \in 0 .. Len(got) - 1 :
                   PutBackFits(first, k, IF k = Len(got) - 1 THEN nextOut ELSE before(k))
         THEN nextOut' = first /\ UNCHANGED fatal
         ELSE fatal' = TRUE /\ UNCHANGED nextOut
  /\ commands' = IF commands = <<>> THEN <<cmd>> ELSE commands
  /\ spc' = "commands" /\ cmd' = 0 /\ got' = <<>>
  /\ UNCHANGED <<speer, queued, sent, pings, receiver, user, net, acks>>

\* sendPackets, one packet at a time: acks may arrive between two of them.  The
\* quota lets at least one through, ...
SendPacket ==
  /\ spc \in {"send", "sending"} /\ speer # "gone"
  /\ queued # <<>> /\ Len(sent) < Window
  /\ spc' = "sending"
  /\ queued' = Tail(queued)
  /\ sent' = Sent(sent, Head(queued), nextOut)
  /\ Transmit({Head(queued)})
  /\ UNCHANGED <<speer, commands, cmd, got, nextOut, pings, fatal, receiver, user, acks>>

\* ... and ends the loop whenever it is used up.  Then a peer that is being
\* disconnected is deleted, unless there was no quota left for its last packets.
EndSending ==
  /\ \/ spc = "sending"
     \/ spc = "send" /\ (speer = "gone" \/ queued = <<>> \/ Len(sent) >= Window)
  /\ spc' = "timeouts"
  /\ speer' \in IF speer = "closing" THEN {"closing", "gone"} ELSE {speer}
  /\ UNCHANGED <<commands, cmd, got, queued, sent, nextOut, pings, fatal,
                 receiver, user, net, acks>>

\* handlePacketType_Control for an ACK, on the sender's receive thread.
HandleAck(seqnum) ==
  /\ sent' = IF speer = "gone" THEN sent ELSE Without(sent, seqnum)
  /\ UNCHANGED <<speer, spc, commands, cmd, got, queued, nextOut, pings, fatal,
                 receiver, user, net, acks>>

-----------------------------------------------------------------------------
(* The receiving side.                                                      *)

\* processPacket on the inside of a reliable packet: a ping is ignored, an
\* original is handed out, a split is kept until all its chunks are there.
Process(p) ==
  LET parts == {q \in splits \cup {p} : q.msg = p.msg}
  IN  IF p.msg = 0 THEN UNCHANGED <<splits, delivered>>
      ELSE IF Cardinality({q.chunk : q \in parts}) = Chunks[p.msg]
      THEN delivered' = Append(delivered, p.msg) /\ splits' = splits \ parts
      ELSE splits' = splits \cup {p} /\ UNCHANGED delivered

\* Mutant: an old packet is not acknowledged again.
Receive_OldNotAcked(p) ==
  /\ rpeer = "open" /\ drained
  /\ drained' = FALSE
  /\ LET accepted == seqnum_in_window(p.seq, nextIn, MaxWindow)
         future == ~accepted /\ seqnum_higher(p.seq, nextIn)
         old == ~accepted /\ ~future /\ seqnum_higher(nextIn, p.seq)
     IN /\ \E part \in IF Lossy THEN SUBSET {p.seq} ELSE {{p.seq}} :
          acks' = IF future \/ old THEN acks ELSE acks \cup part
        /\ IF future \/ old THEN UNCHANGED <<nextIn, inbuf, splits, delivered>>
           ELSE IF p.seq # nextIn
           THEN /\ inbuf' = Insert(inbuf, p, nextIn)
                /\ UNCHANGED <<nextIn, splits, delivered>>
           ELSE /\ inbuf' = IF inbuf # <<>> /\ Head(inbuf).seq = p.seq
                            THEN Tail(inbuf) ELSE inbuf
                /\ nextIn' = U16(nextIn + 1)
                /\ Process(p)
  /\ UNCHANGED <<rpeer, sender, user, net>>

\* handlePacketType_Reliable.
Receive(p) ==
  /\ rpeer = "open" /\ drained
  /\ drained' = FALSE
  /\ LET accepted == seqnum_in_window(p.seq, nextIn, MaxWindow)
         future == ~accepted /\ seqnum_higher(p.seq, nextIn)
         old == ~accepted /\ ~future /\ seqnum_higher(nextIn, p.seq)
     IN /\ \E part \in IF Lossy THEN SUBSET {p.seq} ELSE {{p.seq}} :
          acks' = IF future THEN acks ELSE acks \cup part
        /\ IF future \/ old THEN UNCHANGED <<nextIn, inbuf, splits, delivered>>
           ELSE IF p.seq # nextIn
           THEN /\ inbuf' = Insert(inbuf, p, nextIn)
                /\ UNCHANGED <<nextIn, splits, delivered>>
           ELSE /\ inbuf' = IF inbuf # <<>> /\ Head(inbuf).seq = p.seq
                            THEN Tail(inbuf) ELSE inbuf
                /\ nextIn' = U16(nextIn + 1)
                /\ Process(p)
  /\ UNCHANGED <<rpeer, sender, user, net>>

\* getFromBuffers, which receive calls until it finds nothing more.
CheckIncomingBuffers ==
  /\ rpeer = "open" /\ ~drained
  /\ IF inbuf # <<>> /\ Head(inbuf).seq = nextIn
     THEN /\ inbuf' = Tail(inbuf)
          /\ nextIn' = U16(nextIn + 1)
          /\ Process(Head(inbuf))
          /\ UNCHANGED drained
     ELSE drained' = TRUE /\ UNCHANGED <<inbuf, nextIn, splits, delivered>>
  /\ UNCHANGED <<rpeer, sender, user, net, acks>>

\* The receiver's peer times out, or the sender's DISCO arrives.  A DISCO may be
\* lost and a time-out comes at any time, so the two need not be told apart.
ReceiverDeletesPeer ==
  /\ rpeer = "open"
  /\ rpeer' = "gone"
  /\ UNCHANGED <<nextIn, inbuf, splits, drained, delivered, sender, user, net, acks>>

-----------------------------------------------------------------------------
SendThread ==
  \/ \E resent \in SUBSET ToSet(sent) : RunTimeouts(resent)
  \/ RunCommandQueues
  \/ TakeCommand
  \/ NoMoreCommands
  \/ TakeSeqnum
  \/ QueuePackets
  \/ PutBack
  \/ SendPacket
  \/ EndSending

Next ==
  \/ Send
  \/ SendThread
  \/ PeerTimedOut
  \/ DisconnectPeer
  \/ \E s \in acks : HandleAck(s)
  \/ \E p \in net : Receive(p)
  \/ CheckIncomingBuffers
  \/ ReceiverDeletesPeer

Spec == Init /\ [][Next]_vars

(* Fairness: both threads keep running, and of a packet that is sent again   *)
(* and again some copy arrives, as does some acknowledgement of it.  Only    *)
(* the oldest unacknowledged packet needs to be that lucky.                  *)
Oldest == Head(sent)
ResendOldest ==
  \E resent \in SUBSET ToSet(sent) :
    sent # <<>> /\ Oldest \in resent /\ RunTimeouts(resent) /\ Oldest \in net'
ReceiveOldest ==
  sent # <<>> /\ Oldest \in net /\ Receive(Oldest) /\ Oldest.seq \in acks'
AckOldest ==
  sent # <<>> /\ Oldest.seq \in acks /\ HandleAck(Oldest.seq)

FairSpec ==
  /\ Spec
  /\ WF_vars(SendThread) /\ WF_vars(CheckIncomingBuffers)
  /\ SF_vars(ResendOldest) /\ SF_vars(ReceiveOldest) /\ SF_vars(AckOldest)

-----------------------------------------------------------------------------
(* Properties.                                                              *)

TypeOK ==
  /\ asked \in 0 .. Len(Chunks) /\ taken \in 0 .. asked
  /\ speer \in {"open", "closing", "gone"} /\ rpeer \in {"open", "gone"}
  /\ spc \in {"timeouts", "queues", "commands", "split", "send", "sending"}
  /\ commands \in Seq(Messages) /\ cmd \in Messages \cup {0}
  /\ {got, queued, sent, inbuf} \subseteq Seq(Packet)
  /\ net \cup splits \subseteq Packet /\ acks \subseteq SeqNums
  /\ {nextOut, nextIn} \subseteq SeqNums /\ pings \in 0 .. MaxPings
  /\ {fatal, drained} \subseteq BOOLEAN /\ delivered \in Seq(Messages)

\* putBackSequenceNumber takes every number back: FATAL_ERROR_IF in
\* processReliableSendCommand does not fire, wrap-around or not, whatever
\* acknowledgements arrive while the message is being numbered.
PutBackSucceeds == ~fatal

\* A number between the next one the receiver expects and the next one the
\* sender gives out is waiting somewhere: in the receiver's buffer or in one of
\* the sender's queues.  So no packet is acknowledged before it is safe at the
\* receiver, and none is dropped by the sent buffer's window.
NothingForgotten ==
  speer # "gone" =>
    \A d \in 0 .. Distance(nextIn, nextOut) - 1 :
      U16(nextIn + d) \in Numbers(inbuf) \cup Numbers(sent) \cup Numbers(queued) \cup Numbers(got)

\* Both buffers are sorted by age across the wrap-around, so that the front is
\* the oldest: the window is computed from one, the delivery order from the other.
BuffersOrdered ==
  /\ \A i, j \in DOMAIN sent : i < j =>
       Distance(SentBase(nextOut), sent[i].seq) < Distance(SentBase(nextOut), sent[j].seq)
  /\ \A i, j \in DOMAIN inbuf : i < j =>
       Distance(nextIn, inbuf[i].seq) < Distance(nextIn, inbuf[j].seq)

\* How far apart the numbers in use at the sender can be.  The window alone does
\* not bound them: while nothing is outstanding a message gets all its numbers
\* whatever its length, on top of what is queued.  Across the wrap-around the
\* window itself admits one number more than elsewhere.
QueuedBefore == Max({MaxRequeued - 1, Window \div 2 - 2})  \* when a message is split
SpreadBound ==
  \A n \in Numbers(sent) \cup Numbers(queued) \cup Numbers(got) :
    Distance(n, nextOut) <= Max({Window + 2, QueuedBefore + MaxChunks + MaxPings})

\* The channel implements FifoChannel: messages are handed out in order, each
\* once, whatever the network does; and all of them while the link is up.
Fifo == INSTANCE FifoChannel WITH
  Count <- Len(Chunks),
  link <- IF speer = "open" /\ rpeer = "open" THEN "up" ELSE "down"
FifoFairSpec == Fifo!FairSpec
=============================================================================
