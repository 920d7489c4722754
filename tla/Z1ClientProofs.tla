---------------------------- MODULE Z1ClientProofs ----------------------------
(***************************************************************************)
(* Proofs about Z1Client.tla, for every size of the queues, every timeout  *)
(* and any number of connections.                                          *)
(***************************************************************************)
EXTENDS Z1Client, SequenceTheorems, TLAPS

(* What the client is when it has no connection.                           *)
Offline ==
  /\ ~Joinable /\ ~connected /\ sendQueue = <<>> /\ pending = <<>> /\ incoming = <<>>
  /\ sendOffset = 0 /\ framer = 0 /\ inputSequence = 1
  /\ localPlayerId = 0 /\ latestSnapshot = <<>> /\ pendingEvents = <<>> /\ latestPaths = {}
  /\ myPlayer = NoPlayer

(* What it is when it has one, up or lost.                                 *)
Online == Joinable /\ conn # 0 /\ NothingOfAnOldConnection

Idle == Offline /\ titleState = "Menu" /\ level \in {"Title", "Local"}

Waiting == Online /\ titleState = "Connecting" /\ level = "Title" /\ myPlayer = NoPlayer

Playing == Online /\ titleState = "Menu" /\ level = "NetworkOverworld" /\ localPlayerId = conn

(* The inductive invariant: _connected says whether the thread runs, and   *)
(* each place of a frame goes with a level and a connection.               *)
IInv ==
  /\ TypeOK
  /\ connected <=> netPc \notin {"none", "finished"}
  /\ \/ gamePc = "tick" /\ Idle
     \/ gamePc = "menu" /\ Idle /\ level = "Title"
     \/ gamePc = "tick" /\ Waiting /\ localPlayerId = 0 /\ connectTimer < ConnectTimeout
     \/ gamePc \in {"pump", "check"} /\ Waiting /\ connectTimer < ConnectTimeout
     \/ gamePc \in {"stop", "join"} /\ Waiting
     \/ gamePc \in {"tick", "pump", "check", "level", "stop", "join"} /\ Playing
     \/ gamePc = "queue" /\ Playing /\ myPlayer # NoPlayer /\ inputSequence <= MaxInputs

-----------------------------------------------------------------------------
(* Sequences.                                                              *)

LEMMA EmptySequence ==
  ASSUME NEW S
  PROVE  <<>> \in Seq(S) /\ Len(<<>>) = 0
  OBVIOUS

LEMMA Limits ==
  /\ MaxQueuedPackets \in Nat /\ MaxQueuedPackets >= 1 /\ MaxIncomingMessages \in Nat
  /\ MaxIncomingMessages >= 1 /\ MaxInputs \in Nat /\ MaxInputs >= 1
  /\ MaxMessages \in Nat /\ MaxConnections \in Nat /\ MaxConnections >= 1
  BY ClientAssumption

LEMMA AppendFacts ==
  ASSUME NEW S, NEW s \in Seq(S), NEW e \in S
  PROVE  /\ Append(s, e) \in Seq(S) /\ Len(Append(s, e)) = Len(s) + 1
         /\ Append(s, e) # <<>>
         /\ Range(Append(s, e)) = Range(s) \cup {e}
  <1>1. Append(s, e) \in Seq(S) /\ Len(Append(s, e)) = Len(s) + 1
    OBVIOUS
  <1>4. Append(s, e) # <<>>
    <2>1. Len(s) \in Nat  OBVIOUS
    <2>2. Len(Append(s, e)) # 0  BY <1>1, <2>1
    <2>3. Len(<<>>) = 0  OBVIOUS
    <2>4. QED  BY <2>2, <2>3
  <1>2. DOMAIN Append(s, e) = DOMAIN s \cup {Len(s) + 1} /\ Len(s) + 1 \notin DOMAIN s
    OBVIOUS
  <1>3. /\ \A i \in DOMAIN s : Append(s, e)[i] = s[i]
        /\ Append(s, e)[Len(s) + 1] = e
    OBVIOUS
  <1>5. Range(Append(s, e)) = Range(s) \cup {e}
    <2>1. Range(Append(s, e)) \subseteq Range(s) \cup {e}
      BY <1>2, <1>3 DEF Range
    <2>2. e \in Range(Append(s, e))
      BY <1>2, <1>3 DEF Range
    <2>3. Range(s) \subseteq Range(Append(s, e))
      BY <1>2, <1>3 DEF Range
    <2>4. QED  BY <2>1, <2>2, <2>3
  <1>6. QED  BY <1>1, <1>4, <1>5

LEMMA TailFacts ==
  ASSUME NEW S, NEW s \in Seq(S), s # <<>>
  PROVE  /\ Head(s) \in S /\ Tail(s) \in Seq(S) /\ Len(Tail(s)) = Len(s) - 1
         /\ Head(s) \in Range(s) /\ Range(Tail(s)) \subseteq Range(s)
  BY DEF Range

LEMMA EmptyRange == Range(<<>>) = {}
  BY DEF Range

LEMMA UnitRange ==
  ASSUME NEW S, NEW e \in S
  PROVE  <<e>> \in Seq(S) /\ Len(<<e>>) = 1 /\ Range(<<e>>) = {e}
  BY DEF Range

-----------------------------------------------------------------------------
(* The game thread's steps.                                                *)

LEMMA SelectNothingKeeps ==
  ASSUME IInv, SelectNothing
  PROVE  IInv'
  BY ClientAssumption, TimeoutAssumption DEF SelectNothing,
     IInv, TypeOK, ClientTypeOK, Idle, Waiting, Playing, Offline, Online, NothingOfAnOldConnection,
     Joinable, NoPlayer, clientVars, threadVars, queueVars, gameData, titleVars

LEMMA SelectLocalplayKeeps ==
  ASSUME IInv, SelectLocalplay
  PROVE  IInv'
  BY ClientAssumption, TimeoutAssumption DEF SelectLocalplay,
     IInv, TypeOK, ClientTypeOK, Idle, Waiting, Playing, Offline, Online, NothingOfAnOldConnection,
     Joinable, NoPlayer, clientVars, threadVars, queueVars, gameData, titleVars, InMenu

LEMMA LeaveLocalplayKeeps ==
  ASSUME IInv, LeaveLocalplay
  PROVE  IInv'
  BY ClientAssumption, TimeoutAssumption DEF LeaveLocalplay,
     IInv, TypeOK, ClientTypeOK, Idle, Waiting, Playing, Offline, Online, NothingOfAnOldConnection,
     Joinable, NoPlayer, clientVars, threadVars, queueVars, gameData, titleVars

LEMMA SelectMultiplayFailsKeeps ==
  ASSUME IInv, SelectMultiplayFails
  PROVE  IInv'
  BY ClientAssumption, TimeoutAssumption DEF SelectMultiplayFails,
     IInv, TypeOK, ClientTypeOK, Idle, Waiting, Playing, Offline, Online, NothingOfAnOldConnection,
     Joinable, NoPlayer, clientVars, threadVars, queueVars, gameData, titleVars, InMenu

LEMMA SelectMultiplayKeeps ==
  ASSUME IInv, SelectMultiplay
  PROVE  IInv'
  <1>1. /\ Idle /\ level = "Title" /\ ~connected /\ netPc = "none"
        /\ TypeOK /\ conn < MaxConnections /\ Start /\ gamePc' = "tick"
    BY DEF SelectMultiplay, InMenu, IInv, Idle, Offline, Waiting, Playing, Joinable
  <1>2. sendQueue' \in Seq(Inputs \cup {Enter}) /\ Len(sendQueue') = 1
    <2>1. sendQueue' = Append(<<>>, Enter)
      BY <1>1 DEF Start, Idle, Offline
    <2>2. Enter \in Inputs \cup {Enter} /\ <<>> \in Seq(Inputs \cup {Enter})
      OBVIOUS
    <2>3. QED  BY <2>1, <2>2, AppendFacts
  <1>3. TypeOK'
    <2>1. ClientTypeOK'
      <3>1. UNCHANGED <<pending, sendOffset, framer, incoming, inputSequence>>
        BY <1>1 DEF Start
      <3>2. /\ conn' \in 0 .. MaxConnections /\ connected' \in BOOLEAN /\ stopRequested' \in BOOLEAN
            /\ netPc' = "swap" /\ received' \in 0 .. MaxMessages /\ died' \in BOOLEAN
        <4>1. conn \in 0 .. MaxConnections /\ conn' = conn + 1 /\ conn < MaxConnections
          BY <1>1 DEF Start, TypeOK, ClientTypeOK
        <4>2. conn' \in 0 .. MaxConnections /\ 0 \in 0 .. MaxMessages
          BY <4>1, Limits
        <4>3. QED
          BY <1>1, <4>2 DEF Start
      <3>3. sent' \in Seq(Inputs \cup {Enter})
        BY <1>1, EmptySequence DEF Start
      <3>4. QED
        BY <1>1, <1>2, <3>1, <3>2, <3>3, Limits DEF TypeOK, ClientTypeOK
    <2>2. QED
      BY <1>1, <2>1, TimeoutAssumption DEF SelectMultiplay, TypeOK, gameData
  <1>4. Online'
    BY <1>1, EmptyRange
       DEF SelectMultiplay, Start, Idle, Offline, Online, NothingOfAnOldConnection, Joinable,
           TypeOK, ClientTypeOK, gameData, NoPlayer
  <1>5. QED
    BY <1>1, <1>3, <1>4, TimeoutAssumption
       DEF SelectMultiplay, Start, IInv, Idle, Offline, Waiting, gameData, NoPlayer

LEMMA BeginPumpKeeps ==
  ASSUME IInv, BeginPump
  PROVE  IInv'
  BY ClientAssumption, TimeoutAssumption DEF BeginPump,
     IInv, TypeOK, ClientTypeOK, Idle, Waiting, Playing, Offline, Online, NothingOfAnOldConnection,
     Joinable, NoPlayer, clientVars, threadVars, queueVars, gameData, titleVars

LEMMA PumpMessageKeeps ==
  ASSUME IInv, PumpMessage
  PROVE  IInv'
  <1> DEFINE m == Head(incoming)
  <1>1. /\ TypeOK /\ Online /\ incoming # <<>> /\ gamePc = "pump" /\ gamePc' = "pump"
        /\ (Waiting /\ connectTimer < ConnectTimeout) \/ Playing
    BY DEF PumpMessage, IInv, Waiting, Playing
  <1>2. /\ m \in Message /\ incoming' \in Seq(Message) /\ Len(incoming') <= MaxIncomingMessages
        /\ Range(incoming') \subseteq Range(incoming) /\ m.conn = conn
    <2>1. incoming \in Seq(Message) /\ Len(incoming) <= MaxIncomingMessages /\ Len(incoming) \in Nat
      BY <1>1 DEF TypeOK, ClientTypeOK
    <2>2. /\ m \in Message /\ m \in Range(incoming) /\ Tail(incoming) \in Seq(Message)
          /\ Len(Tail(incoming)) = Len(incoming) - 1 /\ Range(Tail(incoming)) \subseteq Range(incoming)
      BY <1>1, <2>1, TailFacts
    <2>3. incoming' = Tail(incoming)
      BY DEF PumpMessage, TryPopIncomingMessage
    <2>4. m.conn = conn
      BY <1>1, <2>2 DEF Online, NothingOfAnOldConnection
    <2>5. QED  BY <2>1, <2>2, <2>3, <2>4, ClientAssumption
  <1>3. /\ localPlayerId' \in {localPlayerId, conn}
        /\ latestPaths' \subseteq latestPaths \cup {conn}
    BY <1>2 DEF PumpMessage
  <1>4. /\ latestSnapshot' \in Seq(Message) /\ Len(latestSnapshot') <= 1
        /\ Range(latestSnapshot') \subseteq Range(latestSnapshot) \cup {m}
    <2>1. <<m>> \in Seq(Message) /\ Len(<<m>>) = 1 /\ Range(<<m>>) = {m}
      BY <1>2, UnitRange
    <2>2. latestSnapshot' = <<m>> \/ latestSnapshot' = latestSnapshot
      BY DEF PumpMessage
    <2>3. latestSnapshot \in Seq(Message) /\ Len(latestSnapshot) <= 1
      BY <1>1 DEF TypeOK
    <2>4. CASE latestSnapshot' = <<m>>  BY <2>1, <2>4
    <2>5. CASE latestSnapshot' = latestSnapshot  BY <2>3, <2>5
    <2>6. QED  BY <2>2, <2>4, <2>5
  <1>5. /\ pendingEvents' \in Seq(Message)
        /\ Range(pendingEvents') \subseteq Range(pendingEvents) \cup {m}
    <2>1. pendingEvents \in Seq(Message)
      BY <1>1 DEF TypeOK
    <2>2. /\ Append(pendingEvents, m) \in Seq(Message)
          /\ Range(Append(pendingEvents, m)) = Range(pendingEvents) \cup {m}
      BY <1>2, <2>1, AppendFacts
    <2>3. pendingEvents' = Append(pendingEvents, m) \/ pendingEvents' = pendingEvents
      BY DEF PumpMessage
    <2>4. QED  BY <2>1, <2>2, <2>3
  <1> HIDE DEF m
  <1>6. TypeOK'
    <2>1. UNCHANGED <<conn, stopRequested, threadVars, sendQueue, pending, sendOffset, framer,
                      inputSequence, received, died, sent, level, titleVars, myPlayer>>
      BY DEF PumpMessage, TryPopIncomingMessage
    <2>2. ClientTypeOK'
      BY <1>1, <1>2, <2>1 DEF TypeOK, ClientTypeOK, threadVars
    <2>3. localPlayerId' \in 0 .. MaxConnections /\ latestPaths' \subseteq 1 .. MaxConnections
      BY <1>1, <1>3 DEF TypeOK, ClientTypeOK, Online
    <2>4. QED
      BY <1>1, <1>4, <1>5, <2>1, <2>2, <2>3 DEF TypeOK, titleVars
  <1>7. Online'
    BY <1>1, <1>2, <1>3, <1>4, <1>5
       DEF PumpMessage, TryPopIncomingMessage, Online, NothingOfAnOldConnection, Joinable, threadVars
  <1>8. QED
    BY <1>1, <1>3, <1>6, <1>7
       DEF PumpMessage, TryPopIncomingMessage, IInv, Waiting, Playing, titleVars, threadVars

LEMMA EndPumpKeeps ==
  ASSUME IInv, EndPump
  PROVE  IInv'
  BY ClientAssumption, TimeoutAssumption DEF EndPump,
     IInv, TypeOK, ClientTypeOK, Idle, Waiting, Playing, Offline, Online, NothingOfAnOldConnection,
     Joinable, NoPlayer, clientVars, threadVars, queueVars, gameData, titleVars

LEMMA EnterOverworldKeeps ==
  ASSUME IInv, EnterOverworld
  PROVE  IInv'
  BY ClientAssumption, TimeoutAssumption DEF EnterOverworld,
     IInv, TypeOK, ClientTypeOK, Idle, Waiting, Playing, Offline, Online, NothingOfAnOldConnection,
     Joinable, NoPlayer, clientVars, threadVars, queueVars, gameData, titleVars

LEMMA WaitForServerKeeps ==
  ASSUME IInv, WaitForServer
  PROVE  IInv'
  BY ClientAssumption, TimeoutAssumption DEF WaitForServer,
     IInv, TypeOK, ClientTypeOK, Idle, Waiting, Playing, Offline, Online, NothingOfAnOldConnection,
     Joinable, NoPlayer, clientVars, threadVars, queueVars, gameData, titleVars

LEMMA CheckConnectionKeeps ==
  ASSUME IInv, CheckConnection
  PROVE  IInv'
  BY ClientAssumption, TimeoutAssumption DEF CheckConnection,
     IInv, TypeOK, ClientTypeOK, Idle, Waiting, Playing, Offline, Online, NothingOfAnOldConnection,
     Joinable, NoPlayer, clientVars, threadVars, queueVars, gameData, titleVars

LEMMA TickSilentlyKeeps ==
  ASSUME IInv, TickSilently
  PROVE  IInv'
  <1>1. TypeOK /\ Playing /\ gamePc = "level" /\ UNCHANGED <<clientVars, level, titleVars>>
    BY DEF TickSilently, IInv
  <1>2. myPlayer' \in {myPlayer, [conn |-> conn, lastSent |-> None]}
    BY <1>1 DEF TickSilently, Playing
  <1>3. /\ pendingEvents' = <<>> /\ pendingEvents' \in Seq(Message) /\ Range(pendingEvents') = {}
        /\ gamePc' \in {"stop", "tick"}
    BY EmptyRange DEF TickSilently, AfterTick
  <1>4. TypeOK'
    <2>1. [conn |-> conn, lastSent |-> None] \in [conn : 0 .. MaxConnections, lastSent : Directions]
      BY <1>1, ClientAssumption DEF TypeOK, ClientTypeOK
    <2>2. myPlayer' \in [conn : 0 .. MaxConnections, lastSent : Directions]
      BY <1>1, <1>2, <2>1 DEF TypeOK
    <2>3. ClientTypeOK'
      BY <1>1 DEF TypeOK, ClientTypeOK, clientVars, threadVars, queueVars
    <2>4. QED
      BY <1>1, <1>3, <2>2, <2>3 DEF TickSilently, TypeOK, titleVars
  <1>5. myPlayer'.conn \in {0, conn}
    BY <1>1, <1>2 DEF Playing, Online, NothingOfAnOldConnection
  <1>6. Playing'
    BY <1>1, <1>3, <1>5
       DEF TickSilently, Playing, Online, NothingOfAnOldConnection, Joinable, clientVars, threadVars,
           queueVars, titleVars
  <1>7. QED
    BY <1>1, <1>3, <1>4, <1>6 DEF IInv, clientVars, threadVars

LEMMA StopKeeps ==
  ASSUME IInv, Stop
  PROVE  IInv'
  BY ClientAssumption, TimeoutAssumption DEF Stop,
     IInv, TypeOK, ClientTypeOK, Idle, Waiting, Playing, Offline, Online, NothingOfAnOldConnection,
     Joinable, NoPlayer, clientVars, threadVars, queueVars, gameData, titleVars, RequestStop

LEMMA StoppedKeeps ==
  ASSUME IInv, Stopped
  PROVE  IInv'
  <1>1. TypeOK /\ gamePc = "join" /\ netPc' = "none" /\ gamePc' \in {"menu", "tick"} /\ connected' = FALSE
    BY DEF Stopped, JoinAndReset, IInv
  <1>2. Idle' /\ level' = "Title"
    BY DEF Stopped, JoinAndReset, ResetQueues, ForgetConnection, Idle, Offline, Joinable
  <1>3. TypeOK'
    <2>1. <<>> \in Seq(Message) /\ <<>> \in Seq(Inputs \cup {Enter}) /\ Len(<<>>) = 0
      OBVIOUS
    <2>2. NoPlayer \in [conn : 0 .. MaxConnections, lastSent : Directions]
      BY ClientAssumption DEF NoPlayer
    <2>3. ClientTypeOK'
      <3>1. UNCHANGED <<conn, stopRequested, received, died, sent>>
        BY DEF Stopped, JoinAndReset
      <3>2. /\ sendQueue' = <<>> /\ pending' = <<>> /\ incoming' = <<>>
            /\ sendOffset' = 0 /\ framer' = 0 /\ inputSequence' = 1
        BY DEF Stopped, JoinAndReset, ResetQueues
      <3>3. /\ sendQueue' \in Seq(Inputs \cup {Enter}) /\ Len(sendQueue') <= MaxQueuedPackets
            /\ pending' \in Seq(Inputs \cup {Enter})
            /\ incoming' \in Seq(Message) /\ Len(incoming') <= MaxIncomingMessages
        BY <3>2, <2>1, Limits
      <3>4. sendOffset' \in 0 .. MaxConnections /\ framer' \in 0 .. MaxConnections /\ inputSequence' \in 1 .. MaxInputs + 1
        BY <3>2, Limits
      <3>5. QED
        BY <1>1, <3>1, <3>3, <3>4 DEF TypeOK, ClientTypeOK
    <2>4. latestSnapshot' = <<>> /\ pendingEvents' = <<>> /\ latestPaths' = {} /\ localPlayerId' = 0
      BY DEF Stopped, ForgetConnection
    <2>5. QED
      BY <1>1, <2>1, <2>2, <2>3, <2>4, ClientAssumption DEF Stopped, TypeOK
  <1>4. QED
    BY <1>1, <1>2, <1>3 DEF IInv

LEMMA BeginInputKeeps ==
  ASSUME IInv, BeginInput
  PROVE  IInv'
  BY ClientAssumption, TimeoutAssumption DEF BeginInput,
     IInv, TypeOK, ClientTypeOK, Idle, Waiting, Playing, Offline, Online, NothingOfAnOldConnection,
     Joinable, NoPlayer, clientVars, threadVars, queueVars, gameData, titleVars

LEMMA TickWithInputKeeps ==
  ASSUME IInv, NEW direction \in Directions, NEW attack \in BOOLEAN,
         TickWithInput(direction, attack)
  PROVE  IInv'
  <1>1. /\ TypeOK /\ Playing /\ myPlayer # NoPlayer /\ inputSequence <= MaxInputs
        /\ UNCHANGED <<level, titleVars>> /\ (connected <=> netPc \notin {"none", "finished"})
        /\ UNCHANGED <<localPlayerId, latestSnapshot, latestPaths>>
        /\ pendingEvents' = <<>> /\ gamePc' \in {"stop", "tick"}
    BY DEF TickWithInput, AfterTick, IInv
  <1>2. myPlayer' \in [conn : 0 .. MaxConnections, lastSent : Directions] /\ myPlayer'.conn = myPlayer.conn
    BY <1>1 DEF TickWithInput, LastSent, TypeOK
  <1>3. /\ UNCHANGED <<conn, stopRequested, threadVars, pending, sendOffset, framer, incoming, received, died, sent>>
        /\ sendQueue' \in Seq(Inputs \cup {Enter}) /\ Len(sendQueue') <= MaxQueuedPackets
        /\ inputSequence' \in 1 .. MaxInputs + 1
    <2>1. /\ sendQueue \in Seq(Inputs \cup {Enter}) /\ Len(sendQueue) \in Nat /\ Len(sendQueue) <= MaxQueuedPackets
          /\ inputSequence \in 1 .. MaxInputs + 1 /\ inputSequence <= MaxInputs
      BY <1>1 DEF TypeOK, ClientTypeOK
    <2>2. CASE ~SendQueueHasRoom
      BY <2>1, <2>2 DEF TickWithInput, clientVars, threadVars, queueVars
    <2>3. CASE SendQueueHasRoom
      <3> DEFINE input == [kind |-> "Input", sequence |-> inputSequence, direction |-> direction]
      <3>1. input \in Inputs \cup {Enter}
        BY <2>1, Limits DEF Inputs
      <3>2. /\ sendQueue' = Append(sendQueue, input) /\ inputSequence' = inputSequence + 1
            /\ UNCHANGED <<conn, stopRequested, threadVars, pending, sendOffset, framer, incoming, received, died, sent>>
        BY <2>3 DEF TickWithInput, QueueInput
      <3>3. Len(sendQueue) < MaxQueuedPackets
        BY <2>3 DEF SendQueueHasRoom
      <3> HIDE DEF input
      <3>4. /\ Append(sendQueue, input) \in Seq(Inputs \cup {Enter})
            /\ Len(Append(sendQueue, input)) = Len(sendQueue) + 1
        BY <2>1, <3>1, AppendFacts
      <3>5. /\ Len(sendQueue) + 1 <= MaxQueuedPackets /\ inputSequence + 1 \in 1 .. MaxInputs + 1
        BY <2>1, <3>3, Limits
      <3>6. QED
        BY <3>2, <3>4, <3>5
    <2>4. QED  BY <2>2, <2>3
  <1>4. TypeOK'
    <2>1. ClientTypeOK'
      BY <1>1, <1>3 DEF TypeOK, ClientTypeOK, threadVars
    <2>2. <<>> \in Seq(Message)
      BY EmptySequence
    <2>3. QED
      BY <1>1, <1>2, <2>1, <2>2, <1>3 DEF TypeOK, titleVars
  <1>5. Playing'
    BY <1>1, <1>2, <1>3, EmptyRange
       DEF Playing, Online, NothingOfAnOldConnection, Joinable, threadVars, titleVars
  <1>6. QED
    BY <1>1, <1>3, <1>4, <1>5 DEF IInv, threadVars

-----------------------------------------------------------------------------
(* The network thread's steps: what each does to the client's variables is *)
(* enough, as they leave the game's alone.                                 *)

gameVars == <<level, titleVars, gamePc, gameData, myPlayer>>

LEMMA ThreadKeeps ==
  ASSUME IInv, UNCHANGED <<gameVars, conn, inputSequence>>, Joinable, Joinable', ClientTypeOK',
         connected' <=> netPc' \notin {"none", "finished"},
         {sendOffset', framer'} \subseteq {sendOffset, framer, 0, conn},
         \A m \in Range(incoming') : m \in Range(incoming) \/ m.conn = conn
  PROVE  IInv'
  <1>1. TypeOK'
    BY DEF IInv, TypeOK, gameVars, gameData, titleVars
  <1>2. Waiting \/ Playing
    BY DEF IInv, Idle, Offline
  <1>3. Online'
    BY <1>2 DEF Waiting, Playing, Online, NothingOfAnOldConnection, gameVars, gameData
  <1>4. QED
    BY <1>1, <1>2, <1>3 DEF IInv, Waiting, Playing, Idle, Offline, gameVars, gameData, titleVars

LEMMA LeavesLoopKeeps ==
  ASSUME IInv, LeavesLoop, UNCHANGED gameVars, netPc \in {"swap", "recv", "send"}
  PROVE  IInv'
  <1>1. UNCHANGED conn /\ Joinable /\ Joinable' /\ UNCHANGED <<sendOffset, framer, incoming>>
    BY DEF LeavesLoop, Joinable, queueVars
  <1>2. ClientTypeOK'
    BY DEF LeavesLoop, queueVars, IInv, TypeOK, ClientTypeOK
  <1>3. connected' <=> netPc' \notin {"none", "finished"}
    BY DEF LeavesLoop, IInv
  <1>4. UNCHANGED inputSequence
    BY DEF LeavesLoop, queueVars
  <1>5. QED
    BY <1>1, <1>2, <1>3, <1>4, ThreadKeeps

LEMMA SwapQueuesKeeps ==
  ASSUME IInv, SwapQueues, UNCHANGED gameVars
  PROVE  IInv'
  <1>1. CASE stopRequested
    BY <1>1, LeavesLoopKeeps DEF SwapQueues
  <1>2. CASE ~stopRequested
    <2>1. /\ UNCHANGED <<conn, stopRequested, connected, sendOffset, framer, incoming,
                          inputSequence, received, died, sent>>
          /\ netPc = "swap" /\ netPc' = "recv"
          /\ pending' = pending \o sendQueue /\ sendQueue' = <<>>
      BY <1>2 DEF SwapQueues
    <2>2. pending \in Seq(Inputs \cup {Enter}) /\ sendQueue \in Seq(Inputs \cup {Enter})
      BY DEF IInv, TypeOK, ClientTypeOK
    <2>3. /\ pending \o sendQueue \in Seq(Inputs \cup {Enter})
          /\ <<>> \in Seq(Inputs \cup {Enter}) /\ Len(<<>>) <= MaxQueuedPackets
      BY <2>2, Limits
    <2>4. ClientTypeOK'
      BY <2>1, <2>3 DEF IInv, TypeOK, ClientTypeOK
    <2>5. QED
      BY <2>1, <2>4, ThreadKeeps DEF IInv, Joinable
  <1>3. QED  BY <1>1, <1>2

LEMMA ReceiveMessageKeeps ==
  ASSUME IInv, ReceiveMessage, UNCHANGED gameVars
  PROVE  IInv'
  <1>1. CASE ~IncomingHasRoom
    BY <1>1, LeavesLoopKeeps DEF ReceiveMessage
  <1>2. CASE IncomingHasRoom
    <2>1. PICK m \in NextMessages : incoming' = Append(incoming, m) /\ died' = (died \/ m.dead)
      BY <1>2 DEF ReceiveMessage
    <2>2. /\ UNCHANGED <<conn, stopRequested, threadVars, sendQueue, pending, sendOffset, inputSequence, sent>>
          /\ received' = received + 1 /\ framer' = 0 /\ netPc = "recv" /\ received < MaxMessages
          /\ Len(incoming) < MaxIncomingMessages
      BY <1>2 DEF ReceiveMessage, IncomingHasRoom
    <2>3. TypeOK /\ ClientTypeOK /\ conn # 0 /\ connected
      BY <2>2 DEF IInv, TypeOK, Idle, Offline, Waiting, Playing, Online, Joinable
    <2>4. m \in Message /\ m.conn = conn
      <3>1. conn \in 1 .. MaxConnections /\ died \in BOOLEAN
        BY <2>3, Limits DEF ClientTypeOK
      <3>2. m \in [kind : {"Enter", "Snapshot", "CombatEvent", "EnemyPathDebug"},
                   conn : {conn}, dead : BOOLEAN]
        BY <2>1, <3>1 DEF NextMessages
      <3>3. QED
        BY <3>1, <3>2 DEF Message
    <2>5. incoming \in Seq(Message) /\ Len(incoming) \in Nat /\ received \in 0 .. MaxMessages
      BY <2>3 DEF ClientTypeOK
    <2>6. /\ Append(incoming, m) \in Seq(Message) /\ Len(Append(incoming, m)) = Len(incoming) + 1
          /\ Range(Append(incoming, m)) = Range(incoming) \cup {m}
      BY <2>4, <2>5, AppendFacts
    <2>7. /\ incoming' \in Seq(Message) /\ Len(incoming') <= MaxIncomingMessages
          /\ received' \in 0 .. MaxMessages /\ framer' \in 0 .. MaxConnections
      BY <2>1, <2>2, <2>5, <2>6, Limits
    <2>8b. died' \in BOOLEAN
      BY <2>1
    <2>8. ClientTypeOK'
      BY <2>2, <2>3, <2>7, <2>8b DEF ClientTypeOK, threadVars
    <2>9. /\ sendOffset' = sendOffset /\ framer' = 0
          /\ \A n \in Range(incoming') : n \in Range(incoming) \/ n.conn = conn
      BY <2>1, <2>2, <2>4, <2>6
    <2>10. QED
      BY <2>2, <2>3, <2>8, <2>9, ThreadKeeps DEF IInv, Joinable, threadVars
  <1>3. QED  BY <1>1, <1>2

LEMMA ReceiveNoMoreKeeps ==
  ASSUME IInv, ReceiveNoMore, UNCHANGED gameVars
  PROVE  IInv'
  <1>1. /\ UNCHANGED <<conn, stopRequested, connected, sendQueue, pending, sendOffset, incoming,
                        inputSequence, received, died, sent>>
        /\ netPc = "recv" /\ netPc' \in {"swap", "send"} /\ framer' \in {framer, conn}
    BY DEF ReceiveNoMore
  <1>2. ClientTypeOK'
    BY <1>1 DEF IInv, TypeOK, ClientTypeOK
  <1>3. QED
    BY <1>1, <1>2, ThreadKeeps DEF IInv, Joinable

LEMMA SendPacketKeeps ==
  ASSUME IInv, SendPacket, UNCHANGED gameVars
  PROVE  IInv'
  <1>1. /\ UNCHANGED <<conn, stopRequested, threadVars, sendQueue, framer, incoming,
                        inputSequence, received, died>>
        /\ netPc = "send" /\ pending # <<>> /\ sendOffset' = 0
        /\ sent' = Append(sent, Head(pending)) /\ pending' = Tail(pending)
    BY DEF SendPacket
  <1>2. pending \in Seq(Inputs \cup {Enter}) /\ sent \in Seq(Inputs \cup {Enter})
    BY DEF IInv, TypeOK, ClientTypeOK
  <1>3. pending' \in Seq(Inputs \cup {Enter}) /\ sent' \in Seq(Inputs \cup {Enter})
    BY <1>1, <1>2, TailFacts, AppendFacts
  <1>4. sendOffset' \in 0 .. MaxConnections
    BY <1>1, Limits
  <1>5. ClientTypeOK'
    BY <1>1, <1>3, <1>4 DEF IInv, TypeOK, ClientTypeOK, threadVars
  <1>6. QED
    BY <1>1, <1>5, ThreadKeeps DEF IInv, Joinable, threadVars

LEMMA SendNoMoreKeeps ==
  ASSUME IInv, SendNoMore, UNCHANGED gameVars
  PROVE  IInv'
  <1>1. /\ UNCHANGED <<conn, stopRequested, connected, sendQueue, pending, framer, incoming,
                        inputSequence, received, died, sent>>
        /\ netPc = "send" /\ netPc' = "swap" /\ sendOffset' \in {sendOffset, conn}
    BY DEF SendNoMore
  <1>2. ClientTypeOK'
    BY <1>1 DEF IInv, TypeOK, ClientTypeOK
  <1>3. QED
    BY <1>1, <1>2, ThreadKeeps DEF IInv, Joinable

LEMMA ThreadReturnsKeeps ==
  ASSUME IInv, ThreadReturns, UNCHANGED gameVars
  PROVE  IInv'
  <1>1. /\ UNCHANGED <<conn, stopRequested, queueVars, received, died, sent>>
        /\ netPc = "closing" /\ netPc' = "finished" /\ connected' = FALSE
    BY DEF ThreadReturns
  <1>2. ClientTypeOK'
    BY <1>1 DEF IInv, TypeOK, ClientTypeOK, queueVars
  <1>3. QED
    BY <1>1, <1>2, ThreadKeeps DEF Joinable, queueVars

-----------------------------------------------------------------------------
(* The theorems.                                                           *)

LEMMA InitHolds ==
  ASSUME Init
  PROVE  IInv
  <1>1. <<>> \in Seq(Message) /\ <<>> \in Seq(Inputs \cup {Enter}) /\ Len(<<>>) = 0
    OBVIOUS
  <1>2. NoPlayer \in [conn : 0 .. MaxConnections, lastSent : Directions]
    BY ClientAssumption DEF NoPlayer
  <1>3. ClientTypeOK
    <2>1. 0 \in 0 .. MaxConnections /\ 0 \in 0 .. MaxMessages /\ 1 \in 1 .. MaxInputs + 1
          /\ 0 <= MaxQueuedPackets /\ 0 <= MaxIncomingMessages
      BY Limits
    <2>2. QED
      BY <1>1, <2>1 DEF Init, ClientInit, ClientTypeOK
  <1>4. TypeOK
    BY <1>1, <1>2, <1>3, Limits, TimeoutAssumption DEF Init, TypeOK
  <1>5. QED
    BY <1>4 DEF Init, ClientInit, IInv, Idle, Offline, Joinable

LEMMA NextKeeps ==
  ASSUME IInv, [Next]_vars
  PROVE  IInv'
  <1>1. CASE Title
    BY <1>1, SelectNothingKeeps, SelectLocalplayKeeps, LeaveLocalplayKeeps, SelectMultiplayFailsKeeps,
       SelectMultiplayKeeps, EnterOverworldKeeps, WaitForServerKeeps DEF Title
  <1>2. CASE TickOverworld
    BY <1>2, CheckConnectionKeeps, TickSilentlyKeeps, BeginInputKeeps, TickWithInputKeeps DEF TickOverworld
  <1>3. CASE Pump
    BY <1>3, BeginPumpKeeps, PumpMessageKeeps, EndPumpKeeps DEF Pump
  <1>4. CASE Stop \/ Stopped
    BY <1>4, StopKeeps, StoppedKeeps
  <1>5. CASE NetworkThread /\ UNCHANGED gameVars
    <2>1. CASE LosesConnection
      BY <1>5, <2>1, LeavesLoopKeeps DEF LosesConnection
    <2>2. CASE SendFails
      BY <1>5, <2>2, LeavesLoopKeeps DEF SendFails
    <2>3. QED
      BY <1>5, <2>1, <2>2, SwapQueuesKeeps, ReceiveMessageKeeps, ReceiveNoMoreKeeps, SendPacketKeeps,
         SendNoMoreKeeps, ThreadReturnsKeeps DEF NetworkThread
  <1>6. CASE UNCHANGED vars
    BY <1>6 DEF vars, clientVars, threadVars, queueVars, titleVars, gameData, IInv, TypeOK, ClientTypeOK,
                Idle, Waiting, Playing, Offline, Online, NothingOfAnOldConnection, Joinable
  <1>7. QED
    BY <1>1, <1>2, <1>3, <1>4, <1>5, <1>6 DEF Next, gameVars

\* The inductive invariant holds of every behaviour: each place of a frame of the
\* game thread goes with one level, one state of the title and a connection or none.
THEOREM InvariantHolds == Spec => []IInv
  <1>1. Init => IInv
    BY InitHolds
  <1>2. IInv /\ [Next]_vars => IInv'
    BY NextKeeps
  <1>3. QED
    BY <1>1, <1>2, PTL DEF Spec

\* The client's variables stay within their types and its queues within the
\* limits QueueInput and PushIncomingMessage check.
THEOREM TypeCorrect == Spec => []TypeOK
  <1>1. IInv => TypeOK
    BY DEF IInv
  <1>2. QED
    BY <1>1, InvariantHolds, PTL

\* Stop forgets all a connection brought before the next is made, in
\* NetworkClient::ResetQueues, Game::Disconnect and the level that is left.
THEOREM OldConnectionForgotten == Spec => []NothingOfAnOldConnection
  <1>1. IInv => NothingOfAnOldConnection
    BY DEF IInv, Idle, Offline, Waiting, Playing, Online, NothingOfAnOldConnection
  <1>2. QED
    BY <1>1, InvariantHolds, PTL

\* The menu and the local game run without a connection, the multiplayer level
\* with one, and Start never assigns to a thread that was not joined.
THEOREM ConnectionFollowsLevel == Spec => []LevelAgreesWithConnection
  <1>1. IInv => LevelAgreesWithConnection
    BY DEF IInv, Idle, Offline, Waiting, Playing, Online, LevelAgreesWithConnection
  <1>2. QED
    BY <1>1, InvariantHolds, PTL

-----------------------------------------------------------------------------
(* What is asked of the server.                                            *)

Packets == Inputs \cup {Enter}

Requests == sent \o pending \o sendQueue

(* The requests are C2S_Enter and the inputs, numbered without a gap.      *)
Numbered(requests, next) ==
  /\ Len(requests) = next /\ requests[1] = Enter
  /\ \A i \in 2 .. Len(requests) : requests[i].kind = "Input" /\ requests[i].sequence = i - 1

(* The second invariant, which holds with the first.  A player that is not *)
(* there has asked for nothing: the one that is spawned starts from None,  *)
(* as the server's does.                                                   *)
Agreement ==
  /\ Joinable => Numbered(Requests, inputSequence)
  /\ Joinable /\ myPlayer = NoPlayer => inputSequence = 1
  /\ myPlayer.conn = 0 => myPlayer = NoPlayer
  /\ DirectionAgrees

LEMMA RequestsAreTyped ==
  ASSUME IInv
  PROVE  /\ sent \in Seq(Packets) /\ pending \in Seq(Packets) /\ sendQueue \in Seq(Packets)
         /\ Requests \in Seq(Packets) /\ inputSequence \in Nat /\ inputSequence >= 1
         /\ MaxInputs \in Nat /\ inputSequence <= MaxInputs + 1
  <1>1. /\ sent \in Seq(Packets) /\ pending \in Seq(Packets) /\ sendQueue \in Seq(Packets)
        /\ inputSequence \in 1 .. MaxInputs + 1
    BY DEF IInv, TypeOK, ClientTypeOK, Packets
  <1>2. sent \o pending \in Seq(Packets)
    BY <1>1
  <1>3. Requests \in Seq(Packets)
    BY <1>1, <1>2 DEF Requests
  <1>4. QED
    BY <1>1, <1>3, Limits

\* A packet that moves from the queue to those about to be sent, or from these to
\* those sent, keeps its place.
LEMMA MovingOn ==
  ASSUME NEW S, NEW s \in Seq(S), NEW t \in Seq(S), NEW u \in Seq(S)
  PROVE  /\ s \o (t \o u) \o <<>> = s \o t \o u
         /\ t # <<>> => Append(s, Head(t)) \o Tail(t) = s \o t
  <1>1. s \o (t \o u) \o <<>> = s \o t \o u
    <2>1. t \o u \in Seq(S) /\ s \o (t \o u) \in Seq(S)
      BY ConcatProperties
    <2>2. s \o (t \o u) \o <<>> = s \o (t \o u)
      BY <2>1, ConcatEmptySeq
    <2>3. QED
      BY <2>2, ConcatAssociative
  <1>2. ASSUME t # <<>>  PROVE Append(s, Head(t)) \o Tail(t) = s \o t
    <2>1. Head(t) \in S /\ Tail(t) \in Seq(S) /\ <<Head(t)>> \in Seq(S)
      BY <1>2
    <2>2. Append(s, Head(t)) = s \o <<Head(t)>>
      BY <2>1, AppendIsConcat
    <2>3. <<Head(t)>> \o Tail(t) = t
      BY <1>2, <2>1
    <2> DEFINE h == <<Head(t)>>
    <2>4. (s \o h) \o Tail(t) = s \o (h \o Tail(t))
      <3>1. h \in Seq(S) /\ Tail(t) \in Seq(S)
        BY <2>1
      <3> HIDE DEF h
      <3>2. QED
        BY <3>1, ConcatAssociative
    <2>5. QED
      BY <2>2, <2>3, <2>4
  <1>3. QED
    BY <1>1, <1>2

\* A step that leaves the requests, the player and the connection alone.
LEMMA SameRequests ==
  ASSUME Agreement, Requests' = Requests, UNCHANGED <<inputSequence, myPlayer>>,
         Joinable' <=> Joinable
  PROVE  Agreement'
  <1>1. Numbered(Requests, inputSequence)' <=> Numbered(Requests, inputSequence)
    BY DEF Numbered
  <1>2. DirectionAgrees'
    BY DEF Agreement, DirectionAgrees, Requests
  <1>3. QED
    BY <1>1, <1>2 DEF Agreement

LEMMA StartAgrees ==
  ASSUME IInv, SelectMultiplay
  PROVE  Agreement'
  <1>1. Idle /\ ~connected /\ netPc = "none" /\ Start /\ UNCHANGED myPlayer
    BY DEF SelectMultiplay, InMenu, IInv, Idle, Offline, Waiting, Playing, Joinable
  <1>2. /\ sent' = <<>> /\ pending' = <<>> /\ sendQueue' = Append(<<>>, Enter)
        /\ inputSequence' = 1 /\ myPlayer' = NoPlayer
    BY <1>1 DEF Start, Idle, Offline
  <1>3. Requests' = <<Enter>>
    BY <1>2 DEF Requests
  <1>4. Numbered(Requests, inputSequence)'
    BY <1>2, <1>3 DEF Numbered
  <1>5. QED
    BY <1>2, <1>4 DEF Agreement, DirectionAgrees

LEMMA TickSilentlyAgrees ==
  ASSUME IInv, Agreement, TickSilently
  PROVE  Agreement'
  <1>1. UNCHANGED <<sent, pending, sendQueue, inputSequence, netPc>> /\ Joinable
    BY DEF TickSilently, clientVars, threadVars, queueVars, IInv, Waiting, Playing, Online, Idle
  <1>2. Requests' = Requests
    BY <1>1 DEF Requests
  <1>3. CASE myPlayer' = myPlayer
    BY <1>1, <1>2, <1>3, SameRequests DEF Joinable
  <1>4. CASE myPlayer' # myPlayer
    <2>1. /\ myPlayer = NoPlayer /\ myPlayer' = [conn |-> localPlayerId, lastSent |-> None]
          /\ Playing
      BY <1>4 DEF TickSilently, IInv
    <2>2. myPlayer'.lastSent = None /\ myPlayer'.conn # 0 /\ inputSequence = 1
      BY <1>1, <2>1 DEF Agreement, Playing, Online
    <2>3. myPlayer' # NoPlayer
      BY <2>2 DEF NoPlayer
    <2>4. Numbered(Requests, inputSequence)'
      BY <1>1, <1>2 DEF Agreement, Numbered
    <2>5. QED
      BY <1>1, <2>2, <2>3, <2>4 DEF Agreement, DirectionAgrees
  <1>5. QED
    BY <1>3, <1>4

LEMMA TickWithInputAgrees ==
  ASSUME IInv, Agreement, NEW direction \in Directions, NEW attack \in BOOLEAN,
         TickWithInput(direction, attack)
  PROVE  Agreement'
  <1>1. /\ Joinable /\ myPlayer # NoPlayer /\ inputSequence <= MaxInputs
        /\ myPlayer \in [conn : 0 .. MaxConnections, lastSent : Directions]
        /\ myPlayer.conn # 0
    BY DEF TickWithInput, IInv, Waiting, Playing, Online, Idle, TypeOK, Agreement
  <1>2. myPlayer' = [myPlayer EXCEPT !.lastSent = LastSent(direction)] /\ UNCHANGED netPc
    BY DEF TickWithInput, QueueInput, clientVars, threadVars
  <1>3. CASE ~SendQueueHasRoom
    <2>1. UNCHANGED <<sent, pending, sendQueue, inputSequence>> /\ myPlayer' = myPlayer
      BY <1>1, <1>2, <1>3 DEF TickWithInput, clientVars, queueVars, LastSent
    <2>2. QED
      BY <1>2, <2>1, SameRequests DEF Requests, Joinable
  <1>4. CASE SendQueueHasRoom
    <2> DEFINE input == [kind |-> "Input", sequence |-> inputSequence, direction |-> direction]
    <2>1. /\ sendQueue' = Append(sendQueue, input) /\ inputSequence' = inputSequence + 1
          /\ UNCHANGED <<sent, pending>>
      BY <1>4 DEF TickWithInput, QueueInput
    <2>2. /\ input \in Packets /\ input.kind = "Input" /\ input.sequence = inputSequence
          /\ input.direction = direction
      BY <1>1, RequestsAreTyped DEF Packets, Inputs
    <2> HIDE DEF input
    <2>3. Requests' = Append(Requests, input)
      <3>1. /\ sent \o pending \in Seq(Packets) /\ sendQueue \in Seq(Packets)
            /\ <<input>> \in Seq(Packets)
        BY <2>2, RequestsAreTyped
      <3>2. Append(sendQueue, input) = sendQueue \o <<input>>
        BY <2>2, <3>1, AppendIsConcat
      <3>3. (sent \o pending) \o (sendQueue \o <<input>>) = Requests \o <<input>>
        BY <3>1, ConcatAssociative DEF Requests
      <3>4. Append(Requests, input) = Requests \o <<input>>
        BY <2>2, RequestsAreTyped, AppendIsConcat
      <3>5. QED
        BY <2>1, <3>2, <3>3, <3>4 DEF Requests
    <2>4. /\ Len(Requests') = inputSequence + 1
          /\ \A i \in 1 .. inputSequence : Requests'[i] = Requests[i]
          /\ Requests'[inputSequence + 1] = input
      <3>1. Requests \in Seq(Packets) /\ Len(Requests) = inputSequence
        BY <1>1, RequestsAreTyped DEF Agreement, Numbered
      <3>2. QED
        BY <2>2, <2>3, <3>1, AppendProperties
    <2>5. Numbered(Requests, inputSequence)'
      <3>1. Numbered(Requests, inputSequence) /\ inputSequence \in Nat /\ inputSequence >= 1
        BY <1>1, RequestsAreTyped DEF Agreement
      <3>2. \A i \in 2 .. inputSequence + 1 :
              Requests'[i].kind = "Input" /\ Requests'[i].sequence = i - 1
        BY <2>2, <2>4, <3>1 DEF Numbered
      <3>3. QED
        BY <2>1, <2>4, <3>1, <3>2 DEF Numbered
    <2>6. myPlayer'.lastSent = direction /\ myPlayer' # NoPlayer
      <3>1. myPlayer'.lastSent = direction /\ myPlayer'.conn = myPlayer.conn
        BY <1>1, <1>2, <1>4 DEF LastSent
      <3>2. QED
        BY <1>1, <3>1 DEF NoPlayer
    <2>7. DirectionAgrees'
      <3>1. Last(Requests').direction = direction /\ inputSequence' # 1
        BY <2>1, <2>2, <2>4, RequestsAreTyped DEF Last
      <3>2. QED
        BY <1>1, <1>2, <2>6, <3>1 DEF DirectionAgrees, Requests, Joinable
    <2>8. myPlayer'.conn # 0
      BY <1>1, <1>2
    <2>9. QED
      BY <2>5, <2>6, <2>7, <2>8 DEF Agreement
  <1>5. QED
    BY <1>3, <1>4

LEMMA StoppedAgrees ==
  ASSUME Stopped
  PROVE  Agreement'
  BY DEF Stopped, JoinAndReset, Agreement, DirectionAgrees, Joinable, NoPlayer

LEMMA ThreadAgrees ==
  ASSUME IInv, Agreement, NetworkThread, UNCHANGED gameVars
  PROVE  Agreement'
  <1>1. UNCHANGED <<inputSequence, myPlayer>> /\ (Joinable' <=> Joinable)
    BY DEF NetworkThread, SwapQueues, LosesConnection, ReceiveMessage, ReceiveNoMore, SendPacket,
           SendNoMore, SendFails, ThreadReturns, LeavesLoop, queueVars, threadVars, gameVars, Joinable
  <1>2. CASE SwapQueues /\ ~stopRequested
    <2>1. pending' = pending \o sendQueue /\ sendQueue' = <<>> /\ UNCHANGED sent
      BY <1>2 DEF SwapQueues
    <2>2. Requests' = Requests
      BY <2>1, RequestsAreTyped, MovingOn DEF Requests
    <2>3. QED
      BY <1>1, <2>2, SameRequests
  <1>3. CASE SendPacket
    <2>1. pending # <<>> /\ sent' = Append(sent, Head(pending)) /\ pending' = Tail(pending)
          /\ UNCHANGED sendQueue
      BY <1>3 DEF SendPacket
    <2>2. sent \in Seq(Packets) /\ pending \in Seq(Packets)
      BY RequestsAreTyped
    <2>3. Append(sent, Head(pending)) \o Tail(pending) = sent \o pending
      BY <2>1, <2>2, MovingOn
    <2>4. Requests' = Requests
      BY <2>1, <2>3 DEF Requests
    <2>5. QED
      BY <1>1, <2>4, SameRequests
  <1>4. CASE ~SendPacket /\ ~(SwapQueues /\ ~stopRequested)
    <2>1. UNCHANGED <<sent, pending, sendQueue>>
      BY <1>4 DEF NetworkThread, SwapQueues, LosesConnection, ReceiveMessage, ReceiveNoMore,
                  SendNoMore, SendFails, ThreadReturns, LeavesLoop, queueVars
    <2>2. QED
      BY <1>1, <2>1, SameRequests DEF Requests
  <1>5. QED
    BY <1>2, <1>3, <1>4

LEMMA NextAgrees ==
  ASSUME IInv, Agreement, [Next]_vars
  PROVE  Agreement'
  <1>1. CASE \/ SelectNothing \/ SelectLocalplay \/ LeaveLocalplay \/ SelectMultiplayFails
             \/ EnterOverworld \/ WaitForServer \/ CheckConnection \/ BeginInput \/ Pump \/ Stop
             \/ UNCHANGED vars
    <2>1. UNCHANGED <<sent, pending, sendQueue, inputSequence, netPc, myPlayer>>
      BY <1>1 DEF SelectNothing, SelectLocalplay, LeaveLocalplay, SelectMultiplayFails, EnterOverworld,
                  WaitForServer, CheckConnection, BeginInput, Pump, BeginPump, PumpMessage, EndPump, Stop,
                  TryPopIncomingMessage, RequestStop, vars, clientVars, threadVars, queueVars
    <2>2. QED
      BY <2>1, SameRequests DEF Requests, Joinable
  <1>2. CASE NetworkThread /\ UNCHANGED gameVars
    BY <1>2, ThreadAgrees
  <1>3. QED
    BY <1>1, <1>2, StartAgrees, TickSilentlyAgrees, TickWithInputAgrees, StoppedAgrees
       DEF Next, Title, TickOverworld, gameVars

\* The server is asked for C2S_Enter and then for every input in its order, none
\* lost or numbered twice on its way through _sendQueue and _pendingSendPackets;
\* and what MyPlayer holds for the direction it sent last is the last it queued.
THEOREM ServerIsAskedInOrder == Spec => []RequestsAgree
  <1>1. Init => Agreement
    BY DEF Init, ClientInit, Agreement, DirectionAgrees, Joinable
  <1>2. IInv /\ Agreement /\ [Next]_vars => Agreement'
    BY NextAgrees
  <1>3. Agreement => RequestsAgree
    BY DEF Agreement, Numbered, Requests, RequestsAgree, RequestsInOrder
  <1>4. QED
    BY <1>1, <1>2, <1>3, InvariantHolds, PTL DEF Spec
=============================================================================
