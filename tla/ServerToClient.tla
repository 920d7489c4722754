--------------------------- MODULE ServerToClient ---------------------------
(***************************************************************************)
(* The packets of one session on their way to its client, byte by byte:    *)
(* Session::Send, PostSend and HandleSend (Z1Server/Session.cpp), the TCP  *)
(* connection, NetworkClient::TryRecvPacketFromServer and ProcessRecvdData *)
(* (Z1/Network/NetworkClient.cpp), and the game that pops the messages.    *)
(*                                                                         *)
(* accepted and delivered are history; the rest is the program's state.    *)
(***************************************************************************)
EXTENDS PacketFramer, SequencesExt

CONSTANTS
  MaxQueuedSendPackets,  \* Session::MaxQueuedSendPackets, 64 in the code
  MaxIncomingMessages,   \* NetworkClient::MaxIncomingMessages, 64 in the code
  WireCapacity           \* bound of the model: bytes between the two sockets

CapacitiesAssumption ==
  /\ MaxQueuedSendPackets \in Nat \ {0} /\ MaxIncomingMessages \in Nat \ {0}
  /\ WireCapacity \in Nat \ {0}

VARIABLES
  sendQueue,    \* Session::_sendQueue
  sendOffset,   \* Session::_sendOffset
  view,         \* Session::_sendBufferView of the WSASend in progress, or NoView
  transferred,  \* bytes the WSASend in progress has sent, 0 until it completes
  sessionOpen,  \* the session's socket is open
  wire,         \* bytes sent and not received
  framer,       \* NetworkClient::_framer
  netPc,        \* where NetworkLoop is: "recv", "frame", or why it ended
  incoming,     \* NetworkClient::_recvMessageQueue
  accepted,     \* packets Send has queued
  delivered     \* packets the game has popped

sender   == <<sendQueue, sendOffset, view, transferred, sessionOpen>>
receiver == <<framer, netPc, incoming>>
history  == <<accepted, delivered>>
vars     == <<sender, wire, receiver, history>>

NoView == [packet |-> [id |-> 0, size |-> 0], from |-> 0, len |-> 0]

LoopEnds == {"refused", "invalid", "full", "lost"}

Init ==
  /\ sendQueue = <<>> /\ sendOffset = 0 /\ view = NoView /\ transferred = 0
  /\ sessionOpen = TRUE
  /\ wire = <<>>
  /\ framer = NewFramer /\ netPc = "recv" /\ incoming = <<>>
  /\ accepted = <<>> /\ delivered = <<>>

-----------------------------------------------------------------------------
(* The session.                                                            *)

\* Mistake: a packet that was sent in part is sent again from its start.
PostSendFromStart(queue, offset) ==
  \/ /\ sessionOpen /\ queue # <<>> /\ offset < Head(queue).size
     /\ view' = [packet |-> Head(queue), from |-> 0, len |-> Head(queue).size]
     /\ UNCHANGED sessionOpen
  \/ view' = NoView /\ sessionOpen' = FALSE

\* WSASend of what is left of the front of `queue', of which `offset' bytes
\* are sent; where it fails the caller closes the session.
PostSend(queue, offset) ==
  \/ /\ sessionOpen /\ queue # <<>> /\ offset < Head(queue).size
     /\ view' = [packet |-> Head(queue), from |-> offset,
                 len |-> Head(queue).size - offset]
     /\ UNCHANGED sessionOpen
  \/ view' = NoView /\ sessionOpen' = FALSE

SendRefused ==
  /\ sessionOpen /\ Len(sendQueue) = MaxQueuedSendPackets
  /\ sessionOpen' = FALSE
  /\ UNCHANGED <<sendQueue, sendOffset, view, transferred, wire, receiver, history>>

Send(p) ==
  /\ sessionOpen /\ Len(sendQueue) < MaxQueuedSendPackets
  /\ sendQueue' = Append(sendQueue, p)
  /\ IF view # NoView THEN UNCHANGED <<view, sessionOpen>>
                      ELSE PostSend(sendQueue', sendOffset)
  /\ accepted' = Append(accepted, p)
  /\ UNCHANGED <<sendOffset, transferred, wire, receiver, delivered>>

SentOffset(sent) == IF sent < Head(sendQueue).size THEN sent ELSE 0

HandleSend ==
  /\ transferred > 0
  /\ LET sent == sendOffset + transferred
     IN /\ sendQueue' = IF sent < Head(sendQueue).size THEN sendQueue ELSE Tail(sendQueue)
        /\ sendOffset' = SentOffset(sent)
  /\ IF sendQueue' = <<>> THEN view' = NoView /\ UNCHANGED sessionOpen
                          ELSE PostSend(sendQueue', sendOffset')
  /\ transferred' = 0
  /\ UNCHANGED <<wire, receiver, history>>

-----------------------------------------------------------------------------
(* TCP: any part of the posted bytes is sent, in order; a connection that  *)
(* is lost loses the bytes on their way.                                   *)

Transmit ==
  /\ sessionOpen /\ view # NoView /\ transferred = 0
  /\ \E n \in 1 .. view.len :
       /\ Len(wire) + n <= WireCapacity
       /\ wire' = wire \o SubSeq(Bytes(view.packet), view.from + 1, view.from + n)
       /\ transferred' = n
  /\ UNCHANGED <<sendQueue, sendOffset, view, sessionOpen, receiver, history>>

ConnectionLost ==
  /\ sessionOpen \/ wire # <<>>
  /\ sessionOpen' = FALSE /\ wire' = <<>>
  /\ UNCHANGED <<sendQueue, sendOffset, view, transferred, receiver, history>>

-----------------------------------------------------------------------------
(* The network thread of the client, and its game thread.                  *)

RecvChunk ==
  /\ netPc = "recv"
  /\ \E n \in 1 .. ChunkSize :
       /\ n <= Len(wire)
       /\ wire' = SubSeq(wire, n + 1, Len(wire))
       /\ framer' = AfterAppend(framer, SubSeq(wire, 1, n))
       /\ netPc' = IF AppendSucceeds(framer, SubSeq(wire, 1, n)) THEN "frame" ELSE "refused"
  /\ UNCHANGED <<sender, incoming, history>>

RecvEnd ==
  /\ netPc = "recv" /\ wire = <<>> /\ ~sessionOpen
  /\ netPc' = "lost"
  /\ UNCHANGED <<sender, wire, framer, incoming, history>>

PopNothing ==
  /\ netPc = "frame" /\ PopResult(framer) # "Ready"
  /\ netPc' = IF PopResult(framer) = "Invalid" THEN "invalid" ELSE "recv"
  /\ UNCHANGED <<sender, wire, framer, incoming, history>>

IncomingHasRoom == Len(incoming) < MaxIncomingMessages

\* A packet is popped; PushIncomingMessage fails on a full queue and ends the loop.
PopPacket ==
  /\ netPc = "frame" /\ PopResult(framer) = "Ready"
  /\ framer' = AfterPop(framer)
  /\ IF IncomingHasRoom
     THEN incoming' = Append(incoming, Popped(framer)) /\ UNCHANGED netPc
     ELSE netPc' = "full" /\ UNCHANGED incoming
  /\ UNCHANGED <<sender, wire, history>>

TryPopIncomingMessage ==
  /\ incoming # <<>>
  /\ incoming' = Tail(incoming)
  /\ delivered' = Append(delivered, Head(incoming))
  /\ UNCHANGED <<sender, wire, framer, netPc, accepted>>

-----------------------------------------------------------------------------
SendPacket ==
  /\ Len(accepted) < MaxPackets
  /\ \E size \in HeaderSize .. MaxPacketSize : Send([id |-> Len(accepted) + 1, size |-> size])

NetworkLoop == RecvChunk \/ RecvEnd \/ PopNothing \/ PopPacket

Next ==
  \/ SendPacket \/ SendRefused \/ HandleSend
  \/ Transmit \/ ConnectionLost
  \/ NetworkLoop \/ TryPopIncomingMessage

Spec == Init /\ [][Next]_vars
-----------------------------------------------------------------------------
(* Properties.                                                             *)

\* Every variable stays within its type and every queue within its limit.
TypeOK ==
  /\ sendQueue \in Seq(Packet) /\ Len(sendQueue) <= MaxQueuedSendPackets
  /\ sendOffset \in 0 .. MaxPacketSize
  /\ view = NoView \/ view \in [packet : Packet, from : 0 .. MaxPacketSize, len : 1 .. MaxPacketSize]
  /\ transferred \in 0 .. MaxPacketSize
  /\ sessionOpen \in BOOLEAN
  /\ wire \in Seq(Byte)
  /\ framer \in Framer /\ framer.readOffset <= Len(framer.buffer)
  /\ Len(framer.buffer) <= MaxBufferedRecvBytes
  /\ netPc \in {"recv", "frame"} \cup LoopEnds
  /\ incoming \in Seq(Packet) /\ Len(incoming) <= MaxIncomingMessages
  /\ accepted \in Seq(Packet) /\ delivered \in Seq(Packet)

\* Framing is transparent: however TCP cuts the stream and however the sends
\* are split, no chunk is refused for want of room in the buffer and no byte
\* is taken for the header of a packet that is not one.
FramingNeverFails == netPc \notin {"refused", "invalid"}

\* The memory that a WSASend in progress reads is the unsent rest of the front
\* packet of the queue, which is not popped before the send completes.
SendReadsTheFront ==
  view # NoView =>
    /\ sendQueue # <<>> /\ view.packet = Head(sendQueue)
    /\ view.from = sendOffset /\ view.from + view.len = view.packet.size
    /\ transferred <= view.len

\* Session::Send runs to its end on the IO thread, which also closes sessions.
Fifo == INSTANCE PacketFifo WITH open <- sessionOpen, begun <- FALSE

\* The connection implements the queue of packets it stands for.
ImplementsFifo == Fifo!Spec

-----------------------------------------------------------------------------
(* Fairness: the kernel sends while there is room, the IO thread handles   *)
(* the completions, the two threads of the client run.                     *)

FairSpec ==
  /\ Spec
  /\ WF_vars(Transmit) /\ WF_vars(HandleSend)
  /\ WF_vars(NetworkLoop)
  /\ WF_vars(TryPopIncomingMessage)

\* Every packet accepted for sending reaches the game, unless the connection
\* ends first.
AcceptedIsDelivered ==
  \A n \in 1 .. MaxPackets :
    Len(accepted) >= n ~> (Len(delivered) >= n \/ ~sessionOpen \/ netPc \in LoopEnds)
=============================================================================
