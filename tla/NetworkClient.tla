---------------------------- MODULE NetworkClient ----------------------------
(***************************************************************************)
(* The client's end of a connection across its whole life: NetworkClient   *)
(* (Z1/Network/NetworkClient.cpp) is one object that is started and        *)
(* stopped again and again, with a network thread for each connection.     *)
(* Bytes are not here (ClientToServer and ServerToClient have them): a     *)
(* packet goes whole or is cut.  What is received is tagged with the       *)
(* number of its connection, which the program does not know.              *)
(*                                                                         *)
(* The module holds the client's state, the operators its user calls on    *)
(* the game thread and the steps of the network thread; Z1Client composes  *)
(* it with the game.                                                       *)
(***************************************************************************)
EXTENDS Integers, Sequences

CONSTANTS
  MaxQueuedPackets,     \* NetworkClient::MaxQueuedPackets, 64 in the code
  MaxIncomingMessages,  \* NetworkClient::MaxIncomingMessages, 64 in the code
  MaxConnections,       \* bound of the model: connections made
  MaxMessages,          \* bound of the model: messages received on one of them
  MaxInputs,            \* bound of the model: inputs queued on one of them
  Directions,           \* MoveDirection
  None                  \* MoveDirection::None, where every player starts

ASSUME ClientAssumption ==
  /\ {MaxQueuedPackets, MaxIncomingMessages, MaxConnections, MaxMessages, MaxInputs} \subseteq Nat \ {0}
  /\ None \in Directions

VARIABLES
  conn,           \* how many connections there have been
  connected,      \* _connected
  stopRequested,  \* _stopRequested
  netPc,          \* _thread: "none" not joinable, "finished" returned but not joined,
                  \* "closing" out of the loop, else where NetworkLoop is
  sendQueue,      \* _sendQueue
  pending,        \* _pendingSendPackets
  sendOffset,     \* _sendOffset: 0, or the connection that took a part of the front packet
  framer,         \* _framer: 0, or the connection it holds a part of a packet of
  incoming,       \* _recvMessageQueue
  inputSequence,  \* _inputSequence
  received,       \* messages received on this connection (history, and the bound)
  died,           \* whether the player is dead in one of them (history): the dead stay dead
  sent            \* packets sent whole on this connection (history)

threadVars == <<connected, netPc>>
queueVars  == <<sendQueue, pending, sendOffset, framer, incoming, inputSequence>>
clientVars == <<conn, stopRequested, threadVars, queueVars, received, died, sent>>

Enter == [kind |-> "Enter"]
Inputs == [kind : {"Input"}, sequence : 1 .. MaxInputs, direction : Directions]

Message == [kind : {"Enter", "Snapshot", "CombatEvent", "EnemyPathDebug"},
            conn : 1 .. MaxConnections, dead : BOOLEAN]

Joinable == netPc # "none"

ClientInit ==
  /\ conn = 0 /\ connected = FALSE /\ stopRequested = FALSE /\ netPc = "none"
  /\ sendQueue = <<>> /\ pending = <<>> /\ sendOffset = 0 /\ framer = 0
  /\ incoming = <<>> /\ inputSequence = 1
  /\ received = 0 /\ died = FALSE /\ sent = <<>>

-----------------------------------------------------------------------------
(* Called on the game thread.                                              *)

\* Start reaches the end: C2S_Enter is queued, then the thread runs.
Start ==
  /\ conn' = conn + 1
  /\ sendQueue' = Append(sendQueue, Enter)
  /\ stopRequested' = FALSE /\ connected' = TRUE /\ netPc' = "swap"
  /\ received' = 0 /\ died' = FALSE /\ sent' = <<>>
  /\ UNCHANGED <<pending, sendOffset, framer, incoming, inputSequence>>

\* The first line of Stop; the caller then waits for the thread.
RequestStop ==
  /\ stopRequested' = TRUE
  /\ UNCHANGED <<conn, threadVars, queueVars, received, died, sent>>

\* Mistake: the packets that were not sent are not cleared.
ResetQueuesButSends ==
  /\ sendOffset' = 0 /\ incoming' = <<>> /\ framer' = 0 /\ inputSequence' = 1
  /\ UNCHANGED <<sendQueue, pending>>

\* Mistake: the framer keeps the part of a packet it has.
ResetQueuesButFramer ==
  /\ sendQueue' = <<>> /\ pending' = <<>> /\ sendOffset' = 0 /\ incoming' = <<>>
  /\ inputSequence' = 1 /\ UNCHANGED framer

ResetQueues ==
  /\ sendQueue' = <<>> /\ pending' = <<>> /\ sendOffset' = 0
  /\ incoming' = <<>> /\ framer' = 0 /\ inputSequence' = 1

\* Mistake: Stop returns early for a connection that is lost already.
JoinUnlessLost == netPc \in {"none", "finished"} /\ UNCHANGED clientVars

\* The rest of Stop, once the thread can be joined.
JoinAndReset ==
  /\ netPc \in {"none", "finished"}
  /\ netPc' = "none" /\ connected' = FALSE
  /\ ResetQueues
  /\ UNCHANGED <<conn, stopRequested, received, died, sent>>

\* QueuePacket succeeds; a refusal changes nothing.
SendQueueHasRoom == Len(sendQueue) < MaxQueuedPackets

\* The rest of QueueInput, once it has found the client connected.
QueueInput(direction) ==
  /\ sendQueue' = Append(sendQueue, [kind |-> "Input", sequence |-> inputSequence, direction |-> direction])
  /\ inputSequence' = inputSequence + 1
  /\ UNCHANGED <<conn, stopRequested, threadVars, pending, sendOffset, framer, incoming, received, died, sent>>

TryPopIncomingMessage ==
  /\ incoming' = Tail(incoming)
  /\ UNCHANGED <<conn, stopRequested, threadVars, sendQueue, pending, sendOffset, framer,
                 inputSequence, received, died, sent>>

-----------------------------------------------------------------------------
(* NetworkLoop.  A turn reads the stop flag and takes what was queued,     *)
(* then receives until there is nothing left, then sends.                  *)

LeavesLoop ==
  /\ netPc' = "closing"
  /\ UNCHANGED <<conn, stopRequested, connected, queueVars, received, died, sent>>

SwapQueues ==
  /\ netPc = "swap"
  /\ IF stopRequested
     THEN LeavesLoop
     ELSE /\ pending' = pending \o sendQueue /\ sendQueue' = <<>>
          /\ netPc' = "recv"
          /\ UNCHANGED <<conn, stopRequested, connected, sendOffset, framer, incoming,
                         inputSequence, received, died, sent>>

\* select fails, or it says readable and TryRecvPacketFromServer fails: the
\* server closed or reset the connection.
LosesConnection == netPc = "recv" /\ LeavesLoop

\* What the server may send next: S2C_Enter answers C2S_Enter, the rest follows it.
NextMessages ==
  IF received = 0 THEN [kind : {"Enter"}, conn : {conn}, dead : {FALSE}]
  ELSE [kind : {"CombatEvent", "EnemyPathDebug"}, conn : {conn}, dead : {FALSE}]
       \cup [kind : {"Snapshot"}, conn : {conn}, dead : {died, TRUE}]

\* Mistake: the limit is not checked.
IncomingHasRoomAlways == TRUE

IncomingHasRoom == Len(incoming) < MaxIncomingMessages

\* ProcessRecvdData and PushIncomingMessage; the framer has the rest of the packet.
ReceiveMessage ==
  /\ netPc = "recv" /\ received < MaxMessages /\ sent # <<>>
  /\ IF IncomingHasRoom
     THEN /\ \E m \in NextMessages : incoming' = Append(incoming, m) /\ died' = (died \/ m.dead)
          /\ received' = received + 1
          /\ framer' = 0
          /\ UNCHANGED <<conn, stopRequested, threadVars, sendQueue, pending, sendOffset,
                         inputSequence, sent>>
     ELSE LeavesLoop

\* The socket has no more for now: a part of a packet has come, or nothing.
ReceiveNoMore ==
  /\ netPc = "recv"
  /\ framer' \in {framer} \cup (IF sent # <<>> THEN {conn} ELSE {})
  /\ netPc' = IF pending = <<>> THEN "swap" ELSE "send"
  /\ UNCHANGED <<conn, stopRequested, connected, sendQueue, pending, sendOffset, incoming,
                 inputSequence, received, died, sent>>

SendPacket ==
  /\ netPc = "send" /\ pending # <<>>
  /\ sent' = Append(sent, Head(pending))
  /\ pending' = Tail(pending) /\ sendOffset' = 0
  /\ UNCHANGED <<conn, stopRequested, threadVars, sendQueue, framer, incoming, inputSequence, received, died>>

\* Nothing is left, the socket took a part of the front packet, or it takes
\* nothing, for which select times out as well.
SendNoMore ==
  /\ netPc = "send"
  /\ sendOffset' \in {sendOffset} \cup (IF pending # <<>> THEN {conn} ELSE {})
  /\ netPc' = "swap"
  /\ UNCHANGED <<conn, stopRequested, connected, sendQueue, pending, framer, incoming,
                 inputSequence, received, died, sent>>

SendFails == netPc = "send" /\ pending # <<>> /\ LeavesLoop

\* _connected = false is the last the thread does.
ThreadReturns ==
  /\ netPc = "closing"
  /\ netPc' = "finished" /\ connected' = FALSE
  /\ UNCHANGED <<conn, stopRequested, queueVars, received, died, sent>>

NetworkThread ==
  \/ SwapQueues \/ LosesConnection \/ ReceiveMessage \/ ReceiveNoMore
  \/ SendPacket \/ SendNoMore \/ SendFails \/ ThreadReturns

ClientTypeOK ==
  /\ conn \in 0 .. MaxConnections /\ connected \in BOOLEAN /\ stopRequested \in BOOLEAN
  /\ netPc \in {"none", "swap", "recv", "send", "closing", "finished"}
  /\ sendQueue \in Seq(Inputs \cup {Enter}) /\ Len(sendQueue) <= MaxQueuedPackets
  /\ pending \in Seq(Inputs \cup {Enter})
  /\ sendOffset \in 0 .. MaxConnections /\ framer \in 0 .. MaxConnections
  /\ incoming \in Seq(Message) /\ Len(incoming) <= MaxIncomingMessages
  /\ inputSequence \in 1 .. MaxInputs + 1
  /\ received \in 0 .. MaxMessages /\ died \in BOOLEAN /\ sent \in Seq(Inputs \cup {Enter})
=============================================================================
