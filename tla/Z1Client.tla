------------------------------- MODULE Z1Client -------------------------------
(***************************************************************************)
(* The client program: the frames of the game thread (Game, TitleLevel and *)
(* NetworkOverworldLevel, Z1/Game, Z1/Level, Z1/Network), interleaved with *)
(* the network thread of NetworkClient and with what the server and TCP do.*)
(*                                                                         *)
(* The game thread takes a step for each message it pops and for each part *)
(* of Stop, as the network thread may run in between.  What the model      *)
(* keeps of a message is the connection it came on and, of a snapshot,     *)
(* whether the player is dead in it.                                       *)
(***************************************************************************)
EXTENDS NetworkClient, SequencesExt

CONSTANT ConnectTimeout  \* 3 s, counted in frames

ASSUME TimeoutAssumption == ConnectTimeout \in Nat \ {0}

VARIABLES
  level,           \* Game::_state: "Title", "Local" (the levels of a local game) or "NetworkOverworld"
  titleState,      \* TitleLevel::_state
  connectTimer,    \* TitleLevel::_connectTimer, in frames
  gamePc,          \* where the frame is; "tick" between two frames
  localPlayerId,   \* Game::_localPlayerId: 0, or the connection it came on
  latestSnapshot,  \* Game::_latestSnapshot: <<>>, or the one there is
  pendingEvents,   \* Game::_pendingCombatEvents
  latestPaths,     \* Game::_latestEnemyPaths: the connections its entries came on
  myPlayer         \* NetworkOverworldLevel::_myPlayer

gameData  == <<localPlayerId, latestSnapshot, pendingEvents, latestPaths>>
titleVars == <<titleState, connectTimer>>
vars      == <<clientVars, level, titleVars, gamePc, gameData, myPlayer>>

\* nullptr; a MyPlayer sends input from the frame after the one that spawns it.
NoPlayer == [conn |-> 0, lastSent |-> None]

Init ==
  /\ ClientInit
  /\ level = "Title" /\ titleState = "Menu" /\ connectTimer = 0 /\ gamePc = "tick"
  /\ localPlayerId = 0 /\ latestSnapshot = <<>> /\ pendingEvents = <<>> /\ latestPaths = {}
  /\ myPlayer = NoPlayer

-----------------------------------------------------------------------------
(* TitleLevel::Tick with the menu shown.                                   *)

InMenu ==
  \/ gamePc = "tick" /\ level = "Title" /\ titleState = "Menu"
  \/ gamePc = "menu"

SelectNothing ==
  /\ gamePc = "menu" /\ gamePc' = "tick"
  /\ UNCHANGED <<clientVars, level, titleVars, gameData, myPlayer>>

\* OnSelectLocalplayMode, and the change of level at the end of the frame.
SelectLocalplay ==
  /\ InMenu
  /\ level' = "Local" /\ titleState' = "Menu" /\ gamePc' = "tick"
  /\ UNCHANGED <<clientVars, connectTimer, gameData, myPlayer>>

\* A local game ends in GameOver or Clear, and these in Title.
LeaveLocalplay ==
  /\ gamePc = "tick" /\ level = "Local"
  /\ level' = "Title"
  /\ UNCHANGED <<clientVars, titleVars, gamePc, gameData, myPlayer>>

\* ConnectToServer fails, in CreateTcp, Connect or the socket's options.
SelectMultiplayFails ==
  /\ InMenu /\ ~connected
  /\ titleState' = "Menu" /\ gamePc' = "tick"
  /\ UNCHANGED <<clientVars, level, connectTimer, gameData, myPlayer>>

\* ConnectToServer takes a connection that is up for its own.  Assigning to
\* _thread while it is joinable ends the program.
SelectMultiplay ==
  /\ InMenu
  /\ IF connected THEN UNCHANGED clientVars ELSE conn < MaxConnections /\ Start
  /\ titleState' = "Connecting" /\ connectTimer' = 0
  /\ gamePc' = IF ~connected /\ Joinable THEN "terminated" ELSE "tick"
  /\ UNCHANGED <<level, gameData, myPlayer>>

-----------------------------------------------------------------------------
(* PumpNetwork, called by both levels.                                     *)

BeginPump ==
  /\ gamePc = "tick"
  /\ level = "NetworkOverworld" \/ (level = "Title" /\ titleState = "Connecting")
  /\ gamePc' = "pump"
  /\ UNCHANGED <<clientVars, level, titleVars, gameData, myPlayer>>

PumpMessage ==
  /\ gamePc = "pump" /\ incoming # <<>>
  /\ TryPopIncomingMessage
  /\ LET m == Head(incoming)
     IN /\ localPlayerId' = IF m.kind = "Enter" THEN m.conn ELSE localPlayerId
        /\ latestSnapshot' = IF m.kind = "Snapshot" THEN <<m>> ELSE latestSnapshot
        /\ pendingEvents' = IF m.kind = "CombatEvent" THEN Append(pendingEvents, m) ELSE pendingEvents
        /\ latestPaths' = IF m.kind = "EnemyPathDebug" THEN latestPaths \cup {m.conn} ELSE latestPaths
  /\ UNCHANGED <<level, titleVars, gamePc, myPlayer>>

EndPump ==
  /\ gamePc = "pump" /\ incoming = <<>>
  /\ gamePc' = "check"
  /\ UNCHANGED <<clientVars, level, titleVars, gameData, myPlayer>>

-----------------------------------------------------------------------------
(* The rest of OnConnectingServer.                                         *)

\* The player has been given its id: StartNewGame(Multiplay).
EnterOverworld ==
  /\ gamePc = "check" /\ level = "Title" /\ localPlayerId # 0
  /\ level' = "NetworkOverworld" /\ titleState' = "Menu" /\ connectTimer' = 0
  /\ gamePc' = "tick"
  /\ UNCHANGED <<clientVars, gameData, myPlayer>>

\* Mistake: the timer is set and not ticked.
WaitForServerForever ==
  /\ gamePc = "check" /\ level = "Title" /\ localPlayerId = 0
  /\ gamePc' = IF ~connected THEN "stop" ELSE "tick"
  /\ UNCHANGED <<clientVars, level, titleVars, gameData, myPlayer>>

WaitForServer ==
  /\ gamePc = "check" /\ level = "Title" /\ localPlayerId = 0
  /\ connectTimer' = connectTimer + 1
  /\ gamePc' = IF ~connected \/ connectTimer' = ConnectTimeout THEN "stop" ELSE "tick"
  /\ UNCHANGED <<clientVars, level, titleState, gameData, myPlayer>>

-----------------------------------------------------------------------------
(* The rest of NetworkOverworldLevel::Tick.                                *)

CheckConnection ==
  /\ gamePc = "check" /\ level = "NetworkOverworld"
  /\ gamePc' = IF connected THEN "level" ELSE "stop"
  /\ UNCHANGED <<clientVars, level, titleVars, gameData, myPlayer>>

\* UpdateSnapshot, as far as it concerns the player of this client.
HasPlayer == myPlayer # NoPlayer \/ (localPlayerId # 0 /\ latestSnapshot # <<>>)

IsDead == latestSnapshot # <<>> /\ latestSnapshot[1].dead

AfterTick == IF HasPlayer /\ IsDead THEN "stop" ELSE "tick"

\* UpdateSnapshot, ConsumeCombatEvents and a MyPlayer::Tick that sends nothing.
TickSilently ==
  /\ gamePc = "level"
  /\ myPlayer' = IF HasPlayer /\ myPlayer = NoPlayer
                 THEN [conn |-> localPlayerId, lastSent |-> None] ELSE myPlayer
  /\ pendingEvents' = <<>>
  /\ gamePc' = AfterTick
  /\ UNCHANGED <<clientVars, level, titleVars, localPlayerId, latestSnapshot, latestPaths>>

LastSent(direction) == IF SendQueueHasRoom THEN direction ELSE myPlayer.lastSent

\* The same with an input to send: QueueInput finds the client connected.
BeginInput ==
  /\ gamePc = "level" /\ myPlayer # NoPlayer /\ ~IsDead
  /\ inputSequence <= MaxInputs
  /\ connected
  /\ gamePc' = "queue"
  /\ UNCHANGED <<clientVars, level, titleVars, gameData, myPlayer>>

\* It queues the packet, another direction or an attack, whether the connection
\* is still up or not.
TickWithInput(direction, attack) ==
  /\ gamePc = "queue"
  /\ direction # myPlayer.lastSent \/ attack
  /\ IF SendQueueHasRoom THEN QueueInput(direction) ELSE UNCHANGED clientVars
  /\ myPlayer' = [myPlayer EXCEPT !.lastSent = LastSent(direction)]
  /\ pendingEvents' = <<>>
  /\ gamePc' = AfterTick
  /\ UNCHANGED <<level, titleVars, localPlayerId, latestSnapshot, latestPaths>>

-----------------------------------------------------------------------------
(* Disconnect, from a title that waits no longer, or within OnDisconnect.  *)

Stop ==
  /\ gamePc = "stop" /\ RequestStop
  /\ gamePc' = "join"
  /\ UNCHANGED <<level, titleVars, gameData, myPlayer>>

ForgetConnection ==
  /\ localPlayerId' = 0 /\ latestSnapshot' = <<>>
  /\ pendingEvents' = <<>> /\ latestPaths' = {}

\* The title's menu is handled in the same frame after a failed attempt; the
\* overworld's frame is over with Clear, and SetNoticeMessage resets the title.
Stopped ==
  /\ gamePc = "join" /\ JoinAndReset
  /\ ForgetConnection
  /\ gamePc' = IF level = "Title" THEN "menu" ELSE "tick"
  /\ level' = "Title" /\ titleState' = "Menu"
  /\ myPlayer' = NoPlayer
  /\ UNCHANGED connectTimer

-----------------------------------------------------------------------------
Title ==
  \/ SelectNothing \/ SelectLocalplay \/ LeaveLocalplay
  \/ SelectMultiplayFails \/ SelectMultiplay
  \/ EnterOverworld \/ WaitForServer

TickOverworld ==
  \/ CheckConnection \/ TickSilently \/ BeginInput
  \/ \E direction \in Directions, attack \in BOOLEAN : TickWithInput(direction, attack)

Pump == BeginPump \/ PumpMessage \/ EndPump

Next ==
  \/ Title \/ TickOverworld \/ Pump \/ Stop \/ Stopped
  \/ NetworkThread /\ UNCHANGED <<level, titleVars, gamePc, gameData, myPlayer>>

Spec == Init /\ [][Next]_vars
-----------------------------------------------------------------------------
(* Properties.                                                             *)

\* Every variable stays within its type and the queues within their limits.
TypeOK ==
  /\ ClientTypeOK
  /\ level \in {"Title", "Local", "NetworkOverworld"} /\ titleState \in {"Menu", "Connecting"}
  /\ connectTimer \in 0 .. ConnectTimeout
  /\ gamePc \in {"tick", "menu", "pump", "check", "level", "queue", "stop", "join",
               "terminated"}
  /\ localPlayerId \in 0 .. MaxConnections
  /\ latestSnapshot \in Seq(Message) /\ Len(latestSnapshot) <= 1
  /\ pendingEvents \in Seq(Message) /\ latestPaths \subseteq 1 .. MaxConnections
  /\ myPlayer \in [conn : 0 .. MaxConnections, lastSent : Directions]

\* Nothing a connection brought is left when the next one runs: no message, id,
\* snapshot, event, path or player, and neither half of a packet that was cut,
\* which would garble the first one of the next stream.
NothingOfAnOldConnection ==
  Joinable =>
    /\ {sendOffset, framer, localPlayerId, myPlayer.conn} \subseteq {0, conn}
    /\ \A m \in Range(incoming) \cup Range(latestSnapshot) \cup Range(pendingEvents) : m.conn = conn
    /\ latestPaths \subseteq {conn}

\* What is asked of the server on a connection is C2S_Enter and then the inputs,
\* numbered from one without a gap: sent, about to be sent and queued together.
RequestsInOrder ==
  Joinable =>
    LET requests == sent \o pending \o sendQueue
    IN /\ Len(requests) = inputSequence /\ requests[1] = Enter
       /\ \A i \in 2 .. Len(requests) : requests[i].kind = "Input" /\ requests[i].sequence = i - 1

\* What MyPlayer believes the server was told last is what was queued last on
\* this connection; a new player and the server both start from None.
DirectionAgrees ==
  myPlayer # NoPlayer =>
    LET requests == sent \o pending \o sendQueue
    IN myPlayer.lastSent = IF inputSequence = 1 \/ ~Joinable THEN None ELSE Last(requests).direction

\* The server is asked in order, and for what the player believes.
RequestsAgree == RequestsInOrder /\ DirectionAgrees

\* With the menu on show, or in a local game, there is no connection: no thread,
\* no packets and nothing learnt from a server.  In the multiplayer level there
\* is, or there was one until a moment ago, and the player's id is known.  So the
\* program is not ended by a thread started while the one before it was not joined.
LevelAgreesWithConnection ==
  /\ gamePc # "terminated"
  /\ gamePc = "tick" =>
       IF level = "Local" \/ (level = "Title" /\ titleState = "Menu")
       THEN /\ ~Joinable /\ ~connected /\ sendQueue = <<>> /\ pending = <<>> /\ incoming = <<>>
            /\ localPlayerId = 0 /\ latestSnapshot = <<>> /\ myPlayer = NoPlayer
       ELSE Joinable /\ (level = "NetworkOverworld" <=> localPlayerId = conn)

-----------------------------------------------------------------------------
(* Fairness: both threads run; the player need not do anything.            *)

Frames == TickOverworld \/ Pump \/ Stop \/ Stopped \/ EnterOverworld \/ WaitForServer \/ SelectNothing

FairSpec ==
  /\ Spec
  /\ WF_vars(Frames)
  /\ WF_vars(NetworkThread /\ UNCHANGED <<level, titleVars, gamePc, gameData, myPlayer>>)

\* The title waits for a bounded time, whatever the server does.
ConnectingEnds == titleState = "Connecting" ~> titleState = "Menu"

\* Stop returns, wherever the thread was when it was asked to end.
StopReturns == gamePc = "join" ~> gamePc # "join"

\* A connection that is lost in the game brings the title back.
LossIsNoticed ==
  level = "NetworkOverworld" /\ netPc = "finished" ~> level = "Title"

\* Nothing the player waits for, at the title or in the game, is waited for ever.
EveryWaitEnds == ConnectingEnds /\ StopReturns /\ LossIsNoticed
=============================================================================
