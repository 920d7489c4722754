------------------------ MODULE NetworkOverworldLevel ------------------------
(***************************************************************************)
(* What a client shows of the server's world: Server::Tick sends the       *)
(* combat events of a tick and then its snapshot, and the frames of the    *)
(* multiplayer level (Z1/Network/NetworkOverworldLevel.cpp) apply whatever *)
(* has arrived by then: the latest snapshot, and after it every event.     *)
(*                                                                         *)
(* The connection is the queue of messages ServerToClient shows it to be.  *)
(* Of the world the model keeps who is in the player's room; the level's   *)
(* maps of players, enemies and projectiles are treated alike and are one  *)
(* set here.  attacks, passed, shown and worldAt are history.              *)
(***************************************************************************)
EXTENDS Picks, SequencesExt

CONSTANTS
  Me,         \* the id of this client's player
  Others,     \* the ids of other actors
  MaxTick,    \* bound of the model: ticks of the server
  MaxBacklog  \* bound of the model: messages on their way when a tick begins

LevelAssumption ==
  /\ Me \notin Others /\ IsFiniteSet(Others)
  /\ MaxTick \in Nat \ {0} /\ MaxBacklog \in Nat \ {0}

VARIABLES
  serverTick,           \* OverworldSimulation::_tick
  requested,            \* whether an attack of this player is on its way to the server
  stream,               \* messages sent to this client and not popped yet
  level,                \* "Title", waiting for S2C_Enter, or "NetworkOverworld"
  latestSnapshot,       \* Game::_latestSnapshot
  pendingCombatEvents,  \* Game::_pendingCombatEvents
  lastAppliedTick,      \* _lastAppliedServerTick, 0 for none
  myPlayer,             \* whether there is a _myPlayer
  remote,               \* keys of _networkPlayers, _networkEnemies, _networkProjectiles
  worldAt,              \* the other actors in each tick's snapshot
  attacks,              \* the events sent to this client
  passed,               \* the events the level has taken
  shown                 \* which of them, by place, it has shown an effect for

server  == <<serverTick, worldAt, attacks>>
game    == <<latestSnapshot, pendingCombatEvents>>
view    == <<lastAppliedTick, myPlayer, remote, passed, shown>>
vars    == <<server, requested, stream, level, game, view>>

EnterMessage == [kind |-> "Enter"]
Snapshots    == [kind : {"Snapshot"}, tick : 1 .. MaxTick, actors : SUBSET (Others \cup {Me})]
CombatEvents == [kind : {"CombatEvent"}, tick : 1 .. MaxTick, actor : Others \cup {Me}]
NoSnapshot   == [kind |-> "none", tick |-> 0, actors |-> {}]

Init ==
  /\ serverTick = 0 /\ requested = FALSE /\ stream = <<EnterMessage>>
  /\ level = "Title" /\ latestSnapshot = NoSnapshot /\ pendingCombatEvents = <<>>
  /\ lastAppliedTick = 0 /\ myPlayer = FALSE /\ remote = {}
  /\ worldAt = <<>> /\ attacks = <<>> /\ passed = <<>> /\ shown = {}

-----------------------------------------------------------------------------
(* The server, as one of its clients sees it.                              *)

Broadcast(snapshot, events) == Append(events, snapshot)

\* A player attacks in a tick in which it does not move, so that its room's
\* snapshot of that tick has it.
Tick ==
  /\ serverTick < MaxTick /\ Len(stream) <= MaxBacklog
  /\ serverTick' = serverTick + 1
  /\ \E here \in SUBSET Others : \E attackers \in SUBSET here :
       LET striking == attackers \cup IF requested THEN {Me} ELSE {}
           events == SetToSeq({[kind |-> "CombatEvent", tick |-> serverTick', actor |-> a] :
                                 a \in striking})
           snapshot == [kind |-> "Snapshot", tick |-> serverTick', actors |-> here \cup {Me}]
       IN /\ stream' = stream \o Broadcast(snapshot, events)
          /\ attacks' = attacks \o events
          /\ worldAt' = Append(worldAt, here)
  /\ requested' = FALSE
  /\ UNCHANGED <<level, game, view>>

-----------------------------------------------------------------------------
(* The client.  A frame pops the messages that have arrived, n of those on *)
(* their way.                                                              *)

OfKind(kind, messages) ==
  Picked(messages, {i \in DOMAIN messages : messages[i].kind = kind})

LatestOf(popped) ==
  LET snapshots == OfKind("Snapshot", popped)
  IN IF snapshots = <<>> THEN latestSnapshot ELSE Last(snapshots)

PendingAfter(popped) == pendingCombatEvents \o OfKind("CombatEvent", popped)

\* OnConnectingServer: once it has been given its id the level is entered.
TitleFrame(n) ==
  LET popped == SubSeq(stream, 1, n)
  IN /\ level = "Title"
     /\ stream' = SubSeq(stream, n + 1, Len(stream))
     /\ latestSnapshot' = LatestOf(popped) /\ pendingCombatEvents' = PendingAfter(popped)
     /\ level' = IF OfKind("Enter", popped) = <<>> THEN level ELSE "NetworkOverworld"
     /\ UNCHANGED <<server, requested, view>>

\* Mistake: an actor that is not in the snapshot is not removed.
RemoteAfterKept(snapshot) ==
  IF snapshot.tick = lastAppliedTick THEN remote ELSE remote \cup (snapshot.actors \ {Me})

\* UpdateSnapshot: spawn or update those in the snapshot, destroy the rest.
RemoteAfter(snapshot) ==
  IF snapshot.tick = lastAppliedTick THEN remote ELSE snapshot.actors \ {Me}

\* Mistake: the source is looked for before the snapshot is applied.
HasSourceBefore(event, snapshot) ==
  IF event.actor = Me THEN myPlayer ELSE event.actor \in remote

\* ApplyCombatEvent: without an actor to attach the effect to there is none.
HasSource(event, snapshot) ==
  IF event.actor = Me THEN myPlayer \/ snapshot # NoSnapshot
  ELSE event.actor \in RemoteAfter(snapshot)

\* ConsumeCombatEvents.
LeftOver(events) == <<>>

LevelFrame(n) ==
  LET popped == SubSeq(stream, 1, n)
      snapshot == LatestOf(popped)
      events == PendingAfter(popped)
  IN /\ level = "NetworkOverworld"
     /\ stream' = SubSeq(stream, n + 1, Len(stream))
     /\ latestSnapshot' = snapshot
     /\ remote' = RemoteAfter(snapshot)
     /\ myPlayer' = (myPlayer \/ snapshot # NoSnapshot)
     /\ lastAppliedTick' = snapshot.tick
     /\ pendingCombatEvents' = LeftOver(events)
     /\ passed' = passed \o events
     /\ shown' = shown \cup {Len(passed) + i :
                                i \in {j \in DOMAIN events : HasSource(events[j], snapshot)}}
     /\ \E attack \in {FALSE} \cup {myPlayer} : requested' = (requested \/ attack)
     /\ UNCHANGED <<server, level>>

Next ==
  \/ Tick
  \/ \E n \in 0 .. Len(stream) : TitleFrame(n)
  \/ \E n \in 0 .. Len(stream) : LevelFrame(n)

Spec == Init /\ [][Next]_vars
-----------------------------------------------------------------------------
(* Properties.                                                             *)

\* Every variable stays within its type.
TypeOK ==
  /\ serverTick \in 0 .. MaxTick /\ requested \in BOOLEAN
  /\ stream \in Seq({EnterMessage} \cup Snapshots \cup CombatEvents)
  /\ level \in {"Title", "NetworkOverworld"}
  /\ latestSnapshot \in {NoSnapshot} \cup Snapshots
  /\ pendingCombatEvents \in Seq(CombatEvents)
  /\ lastAppliedTick \in 0 .. MaxTick /\ myPlayer \in BOOLEAN /\ remote \subseteq Others
  /\ worldAt \in Seq(SUBSET Others) /\ Len(worldAt) = serverTick
  /\ {attacks, passed} \subseteq Seq(CombatEvents) /\ shown \subseteq DOMAIN passed

\* What is shown was so at the server: exactly the actors of one of its ticks,
\* however many snapshots were skipped between two that were applied.
ViewIsOneTick == remote = IF lastAppliedTick = 0 THEN {} ELSE worldAt[lastAppliedTick]

\* The player sees each of its own attacks: it cannot ask for one before it is
\* in a snapshot, and it is in every snapshot from then on.
OwnAttacksAreShown ==
  \A i \in DOMAIN passed : passed[i].actor = Me => i \in shown

\* An attack of the tick that is on show is shown too when the two are applied
\* in one frame: events are looked at in the light of the snapshot that follows
\* them in the stream.
AttacksOfTheViewAreShown ==
  [][\A i \in Len(passed) + 1 .. Len(passed') :
       passed'[i].tick = lastAppliedTick' /\ lastAppliedTick' # lastAppliedTick =>
         i \in shown']_vars
=============================================================================
