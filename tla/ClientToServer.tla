--------------------------- MODULE ClientToServer ---------------------------
(***************************************************************************)
(* The packets of one client on their way to its session, byte by byte:    *)
(* NetworkClient::QueueInput and SendPacketsToServer with the loop around  *)
(* them (Z1/Network/NetworkClient.cpp), the TCP connection, and            *)
(* Session::PostRecv, HandleRecv and TryPopRecvdPacket (Z1Server).         *)
(*                                                                         *)
(* accepted and delivered are history; the rest is the program's state.    *)
(***************************************************************************)
EXTENDS PacketFramer, SequencesExt

CONSTANTS
  MaxQueuedPackets,  \* NetworkClient::MaxQueuedPackets, 64 in the code
  WireCapacity       \* bound of the model: bytes between the two sockets

CapacitiesAssumption ==
  MaxQueuedPackets \in Nat \ {0} /\ WireCapacity \in Nat \ {0}

VARIABLES
  queueing,    \* the game thread found _connected set and has not queued yet
  sendQueue,   \* NetworkClient::_sendQueue, shared by the two threads
  pending,     \* NetworkClient::_pendingSendPackets
  sendOffset,  \* NetworkClient::_sendOffset
  netPc,       \* where NetworkLoop is: "swap", "select", "send", "closed" with
               \* _connected still set, or "ended"
  wire,        \* bytes sent and not received
  framer,      \* Session::_framer
  recvPc,      \* where the session is: "posted", "frame", "dispatch" or why it closed
  recvd,       \* Session::_recvdPackets
  accepted,    \* packets QueuePacket has queued
  delivered    \* packets handled by the server

sender   == <<queueing, sendQueue, pending, sendOffset, netPc>>
receiver == <<framer, recvPc, recvd>>
history  == <<accepted, delivered>>
vars     == <<sender, wire, receiver, history>>

Closings == {"refused", "invalid", "lost"}

Init ==
  /\ queueing = FALSE
  /\ sendQueue = <<>> /\ pending = <<>> /\ sendOffset = 0 /\ netPc = "swap"
  /\ wire = <<>>
  /\ framer = NewFramer /\ recvPc = "posted" /\ recvd = <<>>
  /\ accepted = <<>> /\ delivered = <<>>

-----------------------------------------------------------------------------
(* The game thread of the client reads _connected and builds the packet,   *)
(* then queues it under _sendMutex, whatever the network loop has done in  *)
(* between; the caller is told of a refusal.                               *)

IsConnected == netPc # "ended"

\* Mistake: QueueInput does not ask whether the client is connected.
QueueInputUnasked ==
  /\ ~queueing /\ Len(accepted) < MaxPackets
  /\ queueing' = TRUE
  /\ UNCHANGED <<sendQueue, pending, sendOffset, netPc, wire, receiver, history>>

QueueInput ==
  /\ ~queueing /\ Len(accepted) < MaxPackets
  /\ IsConnected
  /\ queueing' = TRUE
  /\ UNCHANGED <<sendQueue, pending, sendOffset, netPc, wire, receiver, history>>

SendQueueHasRoom == Len(sendQueue) < MaxQueuedPackets

QueuePacket(p) ==
  /\ queueing /\ queueing' = FALSE
  /\ IF SendQueueHasRoom
     THEN sendQueue' = Append(sendQueue, p) /\ accepted' = Append(accepted, p)
     ELSE UNCHANGED <<sendQueue, accepted>>
  /\ UNCHANGED <<pending, sendOffset, netPc, wire, receiver, delivered>>

-----------------------------------------------------------------------------
(* NetworkClient::NetworkLoop.                                             *)

PendingAfterSwap == pending \o sendQueue

SwapQueues ==
  /\ netPc = "swap"
  /\ pending' = PendingAfterSwap
  /\ sendQueue' = <<>>
  /\ netPc' = "select"
  /\ UNCHANGED <<queueing, sendOffset, wire, receiver, history>>

\* select: the socket can be written to, which is asked only with something to
\* send, or it timed out or had bytes to read.
Select ==
  /\ netPc = "select"
  /\ netPc' \in {"swap"} \cup (IF pending # <<>> THEN {"send"} ELSE {})
  /\ UNCHANGED <<queueing, sendQueue, pending, sendOffset, wire, receiver, history>>

SendsRest(n) == sendOffset + n = Head(pending).size

OffsetAfter(n) == IF SendsRest(n) THEN 0 ELSE sendOffset + n

\* One turn of the loop of SendPacketsToServer: the socket takes n bytes of the
\* front packet; the loop goes on when they were the last of it.
SendPart ==
  /\ netPc = "send" /\ pending # <<>>
  /\ \E n \in 1 .. Head(pending).size - sendOffset :
       /\ Len(wire) + n <= WireCapacity
       /\ wire' = wire \o SubSeq(Bytes(Head(pending)), sendOffset + 1, sendOffset + n)
       /\ sendOffset' = OffsetAfter(n)
       /\ IF SendsRest(n)
          THEN pending' = Tail(pending) /\ UNCHANGED netPc
          ELSE netPc' = "swap" /\ UNCHANGED pending
  /\ UNCHANGED <<queueing, sendQueue, receiver, history>>

\* WSAEWOULDBLOCK, or nothing left.
SendNothing ==
  /\ netPc = "send" /\ (pending = <<>> \/ Len(wire) = WireCapacity)
  /\ netPc' = "swap"
  /\ UNCHANGED <<queueing, sendQueue, pending, sendOffset, wire, receiver, history>>

-----------------------------------------------------------------------------
(* The connection, or its receiving half on the client, fails: NetworkLoop *)
(* closes the socket and then clears _connected.  A reset loses the bytes  *)
(* on their way.                                                           *)

SocketClosed == netPc \in {"closed", "ended"}

NetworkLoopEnds ==
  /\ ~SocketClosed /\ netPc' = "closed"
  /\ wire' \in {wire, <<>>}
  /\ UNCHANGED <<queueing, sendQueue, pending, sendOffset, receiver, history>>

ClearConnected ==
  /\ netPc = "closed" /\ netPc' = "ended"
  /\ UNCHANGED <<queueing, sendQueue, pending, sendOffset, wire, receiver, history>>

-----------------------------------------------------------------------------
(* The session, on the IO thread of the server.                            *)

HandleRecv ==
  /\ recvPc = "posted"
  /\ \E n \in 1 .. ChunkSize :
       /\ n <= Len(wire)
       /\ wire' = SubSeq(wire, n + 1, Len(wire))
       /\ framer' = AfterAppend(framer, SubSeq(wire, 1, n))
       /\ recvPc' = IF AppendSucceeds(framer, SubSeq(wire, 1, n)) THEN "frame" ELSE "refused"
  /\ UNCHANGED <<sender, recvd, history>>

\* The loop of HandleRecv, up to the packet that is incomplete or invalid.
PopPacket ==
  /\ recvPc = "frame" /\ PopResult(framer) = "Ready"
  /\ recvd' = Append(recvd, Popped(framer))
  /\ framer' = AfterPop(framer)
  /\ UNCHANGED <<sender, wire, recvPc, history>>

PopNothing ==
  /\ recvPc = "frame" /\ PopResult(framer) # "Ready"
  /\ recvPc' = IF PopResult(framer) = "Invalid" THEN "invalid" ELSE "dispatch"
  /\ UNCHANGED <<sender, wire, framer, recvd, history>>

\* TryPopRecvdPacket and HandleClientPacket.
HandlePacket ==
  /\ recvPc = "dispatch" /\ recvd # <<>>
  /\ recvd' = Tail(recvd)
  /\ delivered' = Append(delivered, Head(recvd))
  /\ UNCHANGED <<sender, wire, framer, recvPc, accepted>>

PostRecv ==
  /\ recvPc = "dispatch" /\ recvd = <<>>
  /\ recvPc' = "posted"
  /\ UNCHANGED <<sender, wire, framer, recvd, history>>

\* A completion of no bytes, or of a socket the client reset.
RecvEnd ==
  /\ recvPc = "posted" /\ wire = <<>> /\ SocketClosed
  /\ recvPc' = "lost"
  /\ UNCHANGED <<sender, wire, framer, recvd, history>>

-----------------------------------------------------------------------------
QueueNext ==
  \E size \in HeaderSize .. MaxPacketSize :
    QueuePacket([id |-> Len(accepted) + 1, size |-> size])

NetworkLoop == SwapQueues \/ Select \/ SendPart \/ SendNothing

IOLoop == HandleRecv \/ PopPacket \/ PopNothing \/ HandlePacket \/ PostRecv \/ RecvEnd

Next ==
  \/ QueueInput \/ QueueNext
  \/ NetworkLoop \/ NetworkLoopEnds \/ ClearConnected
  \/ IOLoop

Spec == Init /\ [][Next]_vars
-----------------------------------------------------------------------------
(* Properties.                                                             *)

\* Every variable stays within its type and the shared queue within its limit.
TypeOK ==
  /\ sendQueue \in Seq(Packet) /\ Len(sendQueue) <= MaxQueuedPackets
  /\ pending \in Seq(Packet) /\ sendOffset \in 0 .. MaxPacketSize
  /\ queueing \in BOOLEAN
  /\ netPc \in {"swap", "select", "send", "closed", "ended"}
  /\ wire \in Seq(Byte)
  /\ framer \in Framer /\ framer.readOffset <= Len(framer.buffer)
  /\ Len(framer.buffer) <= MaxBufferedRecvBytes
  /\ recvPc \in {"posted", "frame", "dispatch"} \cup Closings
  /\ recvd \in Seq(Packet) /\ accepted \in Seq(Packet) /\ delivered \in Seq(Packet)

\* The server closes no client over the way TCP cut its stream: no chunk is
\* refused, and no byte taken for a header that is not one.
FramingNeverFails == recvPc \notin {"refused", "invalid"}

Fifo == INSTANCE PacketFifo WITH open <- IsConnected, begun <- queueing

\* The connection implements the queue of packets it stands for.
ImplementsFifo == Fifo!Spec

-----------------------------------------------------------------------------
(* Fairness: both threads run, and a socket with room is reported writable *)
(* again and again.                                                        *)

FairSpec ==
  /\ Spec
  /\ WF_vars(NetworkLoop) /\ SF_vars(SendPart)
  /\ SF_vars(Select /\ netPc' = "send")
  /\ WF_vars(IOLoop)

\* Every packet the game queued is handled by the server, unless the network
\* loop closes the socket first.
AcceptedIsDelivered ==
  \A n \in 1 .. MaxPackets :
    Len(accepted) >= n ~> (Len(delivered) >= n \/ SocketClosed)
=============================================================================
