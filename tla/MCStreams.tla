----------------------------- MODULE MCStreams -----------------------------
(***************************************************************************)
(* The two directions of a connection for TLC.  Each is a byte stream of   *)
(* its own: a behaviour follows one of them, chosen at its beginning.      *)
(***************************************************************************)
EXTENDS PacketFramer

CONSTANTS
  MaxQueuedSendPackets, MaxIncomingMessages,   \* of ServerToClient
  MaxQueuedPackets,                            \* of ClientToServer
  WireCapacity

VARIABLES
  direction,
  \* to the client
  sendQueue, sendOffset, view, transferred, sessionOpen, wire, framer, netPc,
  incoming, accepted, delivered,
  \* to the server
  queueing, clientQueue, pending, clientOffset, clientPc, clientWire,
  sessionFramer, recvPc, recvd, queued, handled

Down == INSTANCE ServerToClient
Up   == INSTANCE ClientToServer WITH
          sendQueue <- clientQueue, sendOffset <- clientOffset, netPc <- clientPc,
          wire <- clientWire, framer <- sessionFramer, accepted <- queued,
          delivered <- handled

ASSUME Capacities == Down!CapacitiesAssumption /\ Up!CapacitiesAssumption

down == <<sendQueue, sendOffset, view, transferred, sessionOpen, wire, framer,
          netPc, incoming, accepted, delivered>>
up   == <<queueing, clientQueue, pending, clientOffset, clientPc,
          clientWire, sessionFramer, recvPc, recvd, queued, handled>>
vars == <<direction, down, up>>

Init == direction \in {"down", "up"} /\ Down!Init /\ Up!Init

ToClient(Action) == direction = "down" /\ Action /\ UNCHANGED <<direction, up>>
ToServer(Action) == direction = "up" /\ Action /\ UNCHANGED <<direction, down>>

Next == ToClient(Down!Next) \/ ToServer(Up!Next)

\* FairSpec of the direction that is followed.
Spec ==
  /\ Init /\ [][Next]_vars
  /\ WF_vars(ToClient(Down!Transmit))
  /\ WF_vars(ToClient(Down!HandleSend))
  /\ WF_vars(ToClient(Down!NetworkLoop))
  /\ WF_vars(ToClient(Down!TryPopIncomingMessage))
  /\ WF_vars(ToServer(Up!NetworkLoop))
  /\ SF_vars(ToServer(Up!SendPart))
  /\ SF_vars(ToServer(Up!Select /\ clientPc' = "send"))
  /\ WF_vars(ToServer(Up!IOLoop))

-----------------------------------------------------------------------------
(* The properties of both modules, stated there.                           *)

\* No chunk is refused and no byte taken for a header that is not one, the
\* memory a WSASend reads is the unsent rest of the front packet, and no queue
\* outgrows its limit.
FramesStayWhole ==
  /\ Down!TypeOK /\ Down!FramingNeverFails /\ Down!SendReadsTheFront
  /\ Up!TypeOK /\ Up!FramingNeverFails

\* Each direction implements the queue of packets it stands for.
ImplementsFifo == Down!ImplementsFifo /\ Up!ImplementsFifo

\* What was accepted is delivered, unless the connection ends first.
AcceptedIsDelivered == Down!AcceptedIsDelivered /\ Up!AcceptedIsDelivered
=============================================================================
