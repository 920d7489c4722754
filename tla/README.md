# Z1: TLA+ models and proofs

The repository is a Windows console game project in C++: an engine (`CraftEngine`), a sound and a socket
library, three small games, and **Z1**, a remake of an overworld adventure with a multiplayer mode: an
authoritative server (`Z1Server`), a client (`Z1`) and the wire protocol both share (`Z1Shared`).  Z1's
multiplayer is where threads, asynchronous I/O and ordering meet, and the models start there; the single-player
game, the engine it runs on, the sound library and the two smaller games follow.

Conventions.  A module is named after what it models; names of operators, variables and actions are the
source's where TLA+ allows.  An operator whose comment starts with `Mistake:` is the definition after it as a
likely slip would have it: nothing uses it, `PROJECT.json` ("mutants") names the property it would break.
`PROJECT.json` also maps every definition to the lines it translates.

## 1. Inventory

| Component | State | Operations | Interacts with | Hard behaviour | What makes it correct |
|---|---|---|---|---|---|
| `Z1Server/Server`, `Session`, `CompletionPort` | accepted sockets, sessions (flags, send queue, player id), packets at the port, stop flag | accept, register, tick and broadcast, dequeue, dispatch, close, remove, stop | clients over TCP, simulation by calls | three threads; overlapped I/O that outlives the call that started it; sessions closed while operations are in flight; partial sends; a slow reader | no completion outlives its session; the world holds the players of the live sessions; closed sessions are reclaimed; `Stop` returns |
| `Z1Shared/PacketFramer`, `PacketCodec`, `Serialization` | receive buffer and read offset | append, pop | both ends of each connection | TCP cuts the stream anywhere; bounded buffer | framing never fails on a well-formed stream; packets arrive in order, once; what is built is understood as it was meant |
| `Z1Server/OverworldSimulation`, `Actor/*` | players, enemies, projectiles, combat events, path debug data, tick | spawn, despawn, set input, tick, take events, snapshot | server's IO thread only | order of an unordered map; stale inputs; death, respawn, cooldowns; activity per room | see `OverworldSimulation.tla` below |
| `Z1Server/RoomPathfinder` | none (pure) | `FindPath` | simulation | A* with a tie-breaking priority queue | returns a shortest walkable path or none |
| `Z1/Network/NetworkClient` | socket, queues, stop flag, sequence number | start, stop, queue input, network loop, pop message | game thread, server | two threads; restart after a lost connection; bounded queues | no stale message, id or sequence number after a reconnect |
| `Z1/Game`, `Z1/Level/TitleLevel` | mode, local player id, notice, connecting timer | connect, pump, disconnect, change level | engine loop, client | an answer that comes after the timeout; disconnect in any level | the level shown agrees with the connection |
| `Z1/Network/NetworkOverworldLevel`, `MyPlayer`, `Network*` | remote actors by id, current room, last server tick, combat event queue | apply snapshot, apply event, change room, read input | engine loop, client | events and snapshots in one stream but applied on different rules | remote actors are those of the last snapshot |
| `Z1` single player (`Game`, `OverworldLevel`, `DungeonLevel`, `CaveLevel`, `Actor/*`, `Combat/*`, `World/*`) | player, sword, enemies and projectiles of the room shown, boss and rewards, pending endings, the player's state carried between levels | tick, move, attack, think, knock back, collide, change room, change level, die, win | engine's frame and collision pass, `Game` | three levels with a player each; deferred creation and destruction of actors; a room or level left in the middle of a frame; kills noted a frame later than they happen | one player in three levels; nobody in a wall or put on the player; a room's actors end with the visit; rewards and endings are earned and arrive |
| `CraftEngine` | levels, actors, requested actors, input state, screen buffer | run loop, begin, tick, collide, add, destroy, set level | every game | actors created and destroyed while the list is walked; a level change asked for in the middle of a frame | every actor begins once, the parts go with the whole, a level that is asked for runs from the next frame on |
| `Sockets` | socket handle | connect, send, recv, select, close | client, server | non-blocking results | no handle used after close |
| `SoundSystem` | COM, engine, mastering voice, cached files, effects' voices, background voice | initialize, play, play and stop background, clean up, destroy | games, XAudio2 threads | voices end on another thread; any XAudio2 call may fail half way | every voice has one owner and its file's data; nothing is heard cut short; all is given back |
| `SokobanGame` | map, player, boxes, targets, menu | move, push, clear test, toggle menu | engine | a push is resolved over the list of actors; two keys at once make a diagonal step | boxes and player stay on the floor, no two in one place; cleared means covered |
| `ShootingGame` | player and its parts, enemies, bullets, score, spawner, game over timer | begin, tick, collide, spawn, destroy | engine | several overlaps found before the first is handled; parts outliving their ship | a point is one enemy and one bullet; the ship is built once and lost whole; a death ends the program |
| `Content`, `Config`, `tools`, `docs` | data, scripts | - | - | - | not program logic |

How Z1's multiplayer parts meet.  A client's game thread queues packets; its network thread sends them.  The
server's IO thread is woken by the completion port, frames what was received, dispatches each packet and
calls the simulation (`SetInput`, `SpawnPlayer`, `DespawnPlayer`).  Between two completions it runs the ticks
that are due: each tick steps the simulation, then broadcasts its combat events, one snapshot per session
and, for debugging, the paths of the chasing enemies.  On the client the network thread parses packets into
messages; the game pops them once per frame.

How a single-player game's parts meet.  `Game` owns a level per place and a `PlayerState`; each level has a player
of its own, made when the level first begins.  A level ticks its actors, then itself (input, moves, enemies, contact),
then the engine hands out the frame's collisions.  A level that is left asks `Game` to save its player and to run
another level, which the engine does at the frame's end; the level entered loads the state.

## 2. Plan

Most important behaviour first; each module is written so that it can be proved about (constants with named
assumptions, one action per operation, no `RECURSIVE`).

| # | Modules | Composes | Abstract specification | Theorems | State |
|---|---|---|---|---|---|
| A | `Session`, `Server` | `Server` extends `Session` | `WorldMembership` | type correctness, no completion outlives its session, world matches sessions, sessions are served, the refinement | modelled, checked, proved but for liveness |
| B | `PacketFramer`, `ServerToClient`, `ClientToServer`, `PacketCodec` | both streams extend `PacketFramer` | `PacketFifo` | framing never fails, for every packet size and chunking; each direction is a FIFO; peers agree on what a packet says | modelled, checked, proved but for liveness |
| C | `OverworldMap`, `OverworldSimulation` | the simulation extends the map | - | nobody is ever in a wall, enemies stay in their room, one projectile each, events reach their attacker, the dead do nothing, one blow is one hit | modelled, checked, proved but for liveness |
| D | `NetworkClient`, `Z1Client` | `Z1Client` extends `NetworkClient` with `Game`, `TitleLevel` and the level's frames | - | type correctness, nothing of an old connection, level agrees with connection, requests agree | modelled, checked, proved but for liveness |
| E | `NetworkOverworldLevel` | the stream of B, the ticks of A | the history of the server's ticks | the view is one tick, its attacks are shown | modelled, checked, proved |
| F | `RoomPathfinder` (A*) | - | shortest paths by breadth | the path is a shortest one, or there is none | modelled, checked, proved |
| G | `SokobanStage`, `Sokoban` | the game extends its stage | - | boxes apart, cleared means covered | modelled, checked, proved |
| H | `Sound` | XAudio2 and COM as environment | - | every voice has one owner, none is cut short | modelled, checked, proved |
| I | `EngineActors`, `ShootingGame` | the game extends the engine's actors | - | the ship is one, a point is one hit | modelled, checked, proved but for liveness |
| J | `RoomGeometry`, `Pawn`, `LocalCombat`, `LocalOverworld`, `LocalDungeon`, `LocalGame` | both levels extend `LocalCombat`, which extends `Pawn` and `RoomGeometry`; `LocalGame` is played with two `LevelVisit`s | `LevelVisit` | dungeon: nobody on the player, rooms hold their own, rewards are earned; overworld: nobody misplaced, shots belong to the room; both: the refinement; game: one player | modelled, checked, proved but for liveness |

The order was that of the table.  What no theorem states is liveness (section 5).

## 3. The models and the code

### A. The server (`Session.tla`, `Server.tla`, `WorldMembership.tla`)

One action per stretch of code that no other thread can get into: the accept thread (`CheckStopRequested`, then
`accept`, which returns a client, `AcceptClient`, or fails, `AcceptFails`), the IO thread as the loop it is
(`RemoveClosedSessions`, `ProcessAcceptedSockets`, `StartTick` and the broadcasts of a tick, `Dequeue`, `Dispatch`),
the thread in `Stop` (`CloseListener`, `JoinAcceptThread`, `JoinIoThread`) and Winsock (`CompleteOperation`). 
`Session.tla` has a session's fields and, as operators, what `Send`, `PostRecv`, `HandleSend`, `HandleEnter` and
`CloseSession` make of them; `Server.tla` says when they run. An operation in progress is in `outstanding`, a
completion that nobody dequeued is in `port`.  A session's address may be used again as soon as it is destroyed: a
completion that outlived its session would be taken for one of its successor.  Packets are reduced to the length of
the send queue and the world to its players' ids. `WorldMembership` is what the clients are promised;
`ImplementsMembership` maps the server to it.

### B. The streams (`PacketFramer.tla`, `ServerToClient.tla`, `ClientToServer.tla`, `PacketFifo.tla`, `PacketCodec.tla`)

Byte by byte.  A byte says which packet it is from and its place there, so the framer reads a size from the bytes
of a header and the model notices when it reads one from bytes that are none.  `ServerToClient` has `Session::Send`,
the overlapped send with its view of the front packet, partial completions, the client's receive loop, framer and
incoming queue; `ClientToServer` has both queues of `NetworkClient`, the swap between them, partial and refused
sends, and the session's receive chain.  Either end may fail at any step.  Both implement `PacketFifo`.
`NetworkClient::QueueInput` is two steps, as in the code: it reads `_connected` (`QueueInput`), and pushes under
`_sendMutex` later (`QueuePacket`).  The end of the network loop is two as well: the socket is closed
(`NetworkLoopEnds`), then `_connected` is cleared (`ClearConnected`).  So a packet may be accepted after the end;
`PacketFifo` says how many: its `begun` is an acceptance under way, none begins after the close, and at most the one
that had begun is still made.  It asks nothing of its delivery: `AcceptedIsDelivered` promises that only while the
socket is open.
In the streams a payload is opaque.

`PacketCodec` is what a payload says: the fields of every message with their widths, order and byte order, counts and
their items, signed numbers through unsigned bits, and what is asked of a message where it is built and where it is
parsed.  A behaviour is the way of one message.  `S2C_Disconnect` is declared and never sent.

### C. The simulation (`OverworldMap.tla`, `OverworldSimulation.tla`)

`OverworldMap` has the geometry: cells, tiles, rooms, what a box overlaps and where it may be placed, and shortest
paths inside a room.  `OverworldSimulation` has the three loops of `Tick`, each over an unordered map: a step of the
model handles one element that is not handled yet, any of them, so every order is explored.  Inputs, spawns and
despawns come between ticks, as the IO thread makes them.  Reductions, each noted in the module: the tick counter is
kept modulo `MoveInterval`, an enemy's death tick as the ticks since; an input older than the last is a stuttering
step; a path is reduced to its first tile, which may be that of any shortest path; `RoomPathfinder` failing between
two walkable tiles has no action of its own, and the deadlock check would report the state in which it is needed.
`dbgPaths`, what is sent of the enemies' paths, is reduced to whether there is one.

### D. The client (`NetworkClient.tla`, `Z1Client.tla`)

`NetworkClient` is one object that is started and stopped again and again.  `netPc` is where its thread is; the
operators `Start`, `RequestStop`, `JoinAndReset`, `QueueInput`, `TryPopIncomingMessage` are what the game thread calls
and the actions `SwapQueues` to `ThreadReturns` what the thread does.  `Z1Client` adds the frames of the game thread:
`gamePc` is where a frame is, and the network thread may run between any two messages popped, between `PumpNetwork`
and the check of the connection, between `QueueInput`'s look at `_connected` and its push (`BeginInput`, the place
"queue" of a frame, then `TickWithInput`), and between `Stop`'s request and its join.  A message carries the number of its
connection, which the program does not know: that is how a leftover shows.  What a broken connection leaves behind,
half a packet in the framer and half of one sent, is kept in the same way.  The server answers `C2S_Enter` before
anything else, numbers are not sent twice, and a player that is dead stays dead: that is what A and C do.

### E. The view (`NetworkOverworldLevel.tla`)

The server's ticks append the tick's combat events and its snapshot to the stream, a frame pops any number of
messages, keeps the last snapshot and all events, applies the snapshot and then every event.  The level's maps of
players, enemies and projectiles are treated alike and are one set.  Positions, health, sounds and effects are left
out.  The stream is the FIFO that B establishes.

### F. The path finder (`RoomPathfinder.tla`)

`FindPath` with one turn of its loop per step: the queue with its order and tie-breaks, stale entries, the costs and
parents, and the path read back.  It is what C's "first tile of a shortest path" rests on.

### G. Sokoban (`SokobanStage.tla`, `Sokoban.tla`)

The stage is constants: walls, ground, targets, boxes, with the one thing that the stages' files guarantee and the code
needs, that the floor is closed, corners included: where nothing at all lies behind a box, `CanMoveTo` ends without an
answer and the player walks onto the box (`WalkOntoBox`).  A step is a frame: two keys make a diagonal step.

### H. Sound (`Sound.tla`)

One `Sound` object from its first use to its destruction.  A call that XAudio2 or COM may refuse has an alternative in
which it does; a voice's queue runs empty on XAudio2's own thread between any two calls.  `ParseWavChunk` reads a file
given by its chunks' names and sizes, with padding, and refuses one that is cut short.

### I. The engine's actors and the shooting game (`EngineActors.tla`, `ShootingGame.tla`)

`EngineActors` is `Level` and `CollisionSystem`: actors begin, tick in the list's order, the overlapping pairs are
collected, then handled in any order of theirs; what handlers ask for waits for the frame's end.  `ShootingGame` gives
its actors' handlers.  Positions are left open: any actor may leave the screen, any two may overlap in a frame, so what
is shown does not rest on where things are.

### J. The single-player game

`RoomGeometry` has boxes, tiles, rooms; `Pawn` health, invulnerability and knockback; `LocalCombat` a frame of a level,
in the phases its comment lists: the actors' ticks, the player's input, walk and sword, every enemy's `Think`, move and
shots, contact and collisions.  `LocalOverworld` adds the path of rooms, entrances and the snap into a room;
`LocalDungeon` the boss, its rewards and the way back in.  An ending that is due cuts the level's `Tick` short, and a
room change or exit leaves the rest of the frame running, as in the code.  Cells are walked one by one, so that a room
is changed in the middle of a move.  How many cells a frame moves something, when an invulnerability ends, and what an
enemy throws and when are any of what the code can choose; of a frame's collisions those of the player come first, as
it is the first in the level's list, and the others in any order, each as long as it still counts when its turn comes.

Both implement `LevelVisit`, which is what the rest of the game sees of a level: health only falls, but for the heart;
a sword, a boss, a heart, a triforce; and a request for the next level, by those it is for.  `LocalGame` plays a game
from title to ending with a `LevelVisit` for each of the two levels and the sword cave in full, and `Game`'s
saving and loading of the player's state: what it shows holds of the levels as they are because they implement the
visit.

### Putting parts together for TLC

`MCStreams` follows one of the two directions of B, chosen at the beginning of a behaviour; `Parts`, whose instance for
TLC is `MCParts`, one of seven parts that share nothing (E, F, G, H, `ShootingGame`, `LocalGame`, `PacketCodec`): it
extends `Sokoban`, the others are instances.  The properties there are conjunctions of those in the modules, each of
which speaks of its own part's variables, and the theorems about them are proved there.

`Picks` has what several of them do to a sequence, keep the elements at some of its places in their order: the actors
that have not expired, the messages of a kind, the voices still playing.  It counts places where `SelectSeq` would
recur, so that it can be reasoned about.

## 4. The runs

| Run | States | What it asks |
|---|---|---|
| `server_safety` | 1.5 million (symmetric) | does a session outlive its operations, does the world hold the players of the live sessions (`WorldMatchesSessions`), is a live session always received from and a closing one left alone (`SessionsAreServed`), does the server implement `WorldMembership`, with two connections and every failure |
| `server_liveness` | 34 000 | are closed sessions reclaimed, a client that stops reading closed, both threads joined by `Stop` |
| `streams` | 184 000 | does a framer ever fail, does a send read only the front packet while it is there (`FramesStayWhole`), is each direction a FIFO, does what was accepted arrive |
| `overworld_safety` | 1.3 million | is anybody ever in a wall, do enemies stay on tiles of their room (`EverybodyIsPlaced`), does one projectile fly per enemy, does an event still concern its attacker when it is sent |
| `overworld_players` | 243 000 | does one blow or spear hit once, do the dead do nothing, nor leave a path behind (`DeadDoNothing`), does a dead enemy return |
| `overworld_dead_stay_dead` | violation | dead enemies return although a test says they do not (finding 1) |
| `overworld_late_attack` | violation | a request pressed while moving strikes later (finding 2) |
| `client` | 41 000 | is anything of one connection left in the next, are requests in order and does `MyPlayer` know what the server was told (`RequestsAgree`), do level and connection agree, do connecting and `Stop` end and is a loss noticed (`EveryWaitEnds`) |
| `local_dungeon` | 244 000 | does anybody ever stand on the player, are a room's enemies and shots its own, are the rewards the boss's, do both endings arrive, is the dungeon a `LevelVisit` |
| `local_overworld` | 1.1 million | is the player always wholly in an accessible room and nobody in a wall, do shots belong to the room shown, is the overworld a `LevelVisit` |
| `local_dungeon_boss` | violation | the boss, killed, is back (finding 3) |
| `parts` | 277 000 | E: is the view that of one tick, are its attacks shown; `LocalGame`: are three levels' players one, endings earned, a death followed by the end; `ShootingGame`: is the ship one, a point one hit, does a death end the program; G: are boxes apart, does cleared mean covered; H: has every voice one owner, is every sound heard out; F: is the path a shortest one; `PacketCodec`: is what is built understood as it was meant |

Bounds, and why they are enough.

- Server: two connections over two addresses, so that an address is used again while the other session lives; a send
  queue of two, the smallest that holds a packet in progress and one behind it; one tick to catch up (two in the
  liveness run, so that the cap of the inner loop is reached and not reached).  The safety run uses the symmetry of
  the connections; its properties are invariants and steps, for which that is sound.  The liveness run uses none.
- Streams: packets of two to four bytes with a two-byte header, chunks of four, six bytes on the wire: a header can be
  cut in two, a chunk can hold two packets and a half, the buffer of `2 * MaxPacketSize` can be filled, and both queues
  of two overflow with three packets.
- Simulation: two rooms of three by two tiles, boxes as wide as a tile so that they straddle two of them and the
  border of the rooms; a wall in each room that the path has to go round; timers of two to four ticks, which keep the
  order of the code's (a projectile is gone before the next is shot).  The run of two players has one room and the
  inputs `None` and `Right`, enough to walk into an enemy and to share its cell.
- Client: two connections, which is what it takes to find something of the first in the second; three messages to
  a queue of two and two inputs to a queue of one, so that both overflow; a timeout of two frames.  The bound on the
  messages of a connection also stands for a fact: the game pops a message faster than the server, which sends some
  per tick, can send the next, so `PumpNetwork`'s loop ends.
- View: three ticks and two other actors: a tick can be skipped between two that are applied, and an actor can come,
  go and come back.
- Dungeon: a row of three rooms of three one-cell tiles: Octoroks, the boss and the triforce.  Everything is one cell, a
  knockback and a frame's move too; two hits kill, so that an invulnerability is seen.  `MaxShots` bounds what flies at
  once: nothing is thrown beyond it.  An ending's timer is one frame, enough for the frames in which it is due and not
  over.
- Overworld: two rows of two rooms of two tiles by one, the start room, one with enemies, one below it with the
  dungeon's entrance, and one that is not accessible but open, so that only the path keeps the player out of it.  A tile
  is two cells by three and a pawn two by two, which makes boxes straddle tiles and rooms in both directions, and fit
  in two ways one above the other.
- Local game: a cave of three tiles by three and two points of health; a visit may do anything `LevelVisit` allows
  between any two frames.
- Shooting: two enemies, two bullets, one enemy bullet: a bullet over two enemies and an enemy under two bullets.  No
  enemy is shot once `MaxScore` is reached.
- Sokoban: four tiles by three, three boxes, two targets: rows of boxes, pushes into walls, boxes to spare.
- Sound: three voices, two whole files and one cut short; a voice can be refused while others play.
- Codec: bytes of sixteen values, which keeps numbers within TLC's and every width as it is; values from both edges of
  their fields; rooms of fifteen tiles, so that a path fills its count's byte; packets that fit two actors and not three.
- Path finder: every grid of five by three tiles with at most three walls, from a corner to every tile: detours, stale
  queue entries, unreachable goals.

`CHECK_DEADLOCK FALSE` is said where the system stops: for the streams, where the last packet is delivered and nothing
is left to do, for a level of the single-player game that an ending has left for good, and for the parts, whose searches
return, programs quit and sounds are destroyed.

Fairness. Every thread of the program that can run eventually runs: the IO thread, the accept thread and the thread in
`Stop` (`Server`), except that the accept thread is not fair while it is blocked in `accept` on an open listener:
nothing but a client, or `Stop` closing the listener, brings it back, so `StopReturns` rests on `Stop` closing it
before it joins; the client's game and network threads, the ticks of the simulation (`OverworldSimulation`, driven
by the IO loop), the engine's frame in every local level and in `ShootingGame`, whose `Run` never waits for anything.
In `LocalGame` the timer of an ending that is due runs out if its level is given frames again and again, which is
strong fairness of `Ending`, and is what `EndingsArrive` shows of the dungeon. Windows completes what was posted on a
socket that was closed, and a socket with room is reported writable again and again, which needs strong fairness as
the loop asks at one of its steps only; so does `StartTick`, whose tick is due again and again as time passes. Of
clients, players and the network nothing is assumed: a peer may stop reading, a player may do nothing.

## 5. What is proved

TLAPS checks these for every value of the constants that satisfies the named assumptions.

| Module | Theorem | Statement |
|---|---|---|
| `ServerProofs` | `InvariantHolds` | `Spec => []IInv` |
| | `TypeCorrect` | `Spec => []TypeOK` |
| | `NoCompletionOutlivesItsSession` | `Spec => []CompletionsBelongToSessions` |
| | `WorldHoldsLivePlayers` | `Spec => []WorldMatchesSessions` |
| | `OperationsAreNotLost` | `Spec => [](IInv /\ ServedInv)` |
| | `EverySessionIsServed` | `Spec => SessionsAreServed` |
| | `ServerImplementsMembership` | `Spec => ImplementsMembership` |
| `StreamProofs` | `Invariance` | `Spec => []IInv` |
| | `FramesStayWholeAlways` | `Spec => []FramesStayWhole` |
| | `StreamsAreFifo` | `Spec => ImplementsFifo` |
| `OverworldProofs` | `PlacementIsInvariant` | `Spec => []Placement` |
| | `EverybodyIsAlwaysPlaced` | `Spec => []EverybodyIsPlaced` |
| | `FlightIsInvariant` | `Spec => []Flight` |
| | `OneProjectileEachAlways` | `Spec => []OneProjectileEach` |
| | `EventsAlwaysReachTheAttacker` | `Spec => []EventsReachTheAttacker` |
| | `TheDeadDoNothing` | `Spec => DeadDoNothing` |
| | `OneBlowOneHit` | `Spec => OneHitEach` |
| `Z1ClientProofs` | `InvariantHolds` | `Spec => []IInv` |
| | `TypeCorrect` | `Spec => []TypeOK` |
| | `OldConnectionForgotten` | `Spec => []NothingOfAnOldConnection` |
| | `ConnectionFollowsLevel` | `Spec => []LevelAgreesWithConnection` |
| | `ServerIsAskedInOrder` | `Spec => []RequestsAgree` |
| `LocalDungeonProofs` (on the lemmas of `LocalCombatProofs`) | `DungeonInvariant` | `Spec => []IInv` |
| | `NobodyEverStandsOnThePlayer` | `Spec => []NobodyStandsOnThePlayer` |
| | `EveryRoomHoldsItsOwn` | `Spec => []RoomHoldsItsOwn` |
| | `RewardsAreAlwaysEarned` | `Spec => []RewardsAreEarned` |
| | `DungeonImplementsVisit` | `Spec => ImplementsVisit` |
| `LocalOverworldProofs` (on the same lemmas) | `OverworldInvariant` | `Spec => []IInv` |
| | `NobodyIsEverMisplaced` | `Spec => []NobodyIsMisplaced` |
| | `ShotsAlwaysBelong` | `Spec => []ShotsBelongToTheRoom` |
| | `OverworldImplementsVisit` | `Spec => ImplementsVisit` |
| `PartsProofs` | `BoxesStayApart` | `PartsSpec => []BoxesApart` |
| | `ThePlayerIsOne` | `PartsSpec => []OnePlayer` |
| | `TheViewIsOneTick` | `PartsSpec => []ViewIsOneTick` |
| | `EachAttackOfTheViewIsShown` | `PartsSpec => AttacksOfTheViewAreShown` |
| | `EachVoiceIsOwned` | `PartsSpec => VoicesAreOwned` |
| | `TheShipIsOne` | `PartsSpec => []ShipIsOne` |
| | `PointsAreEarned` | `PartsSpec => EachPointIsOneHit` |
| | `ThePathIsShortest` | `PartsSpec => []PathIsShortest` |
| | `ThePeersAgree` | `PartsSpec => []PeersAgree` |

Server. `CompletionsBelongToSessions` alone is not inductive: that an operation belongs to a registered session whose
pending flag is set survives only if the flag is cleared by the one completion that stands for the operation. `IInv`
therefore adds that no two outstanding operations and queued completions stand for the same direction of a session
(`CompletionsAreDistinct`), what the IO loop is in the middle of (`DispatchInv`), what the handlers rely on of one
session's flags (`SessionInv`), and that an accepted socket is not registered yet. The proof has a lemma per thread;
broadcasts and dispatches, which close sessions on the way, are the long ones.

`SessionsAreServed` is the converse: every pending flag has its operation.  It is inductive as `PendingIsWatched`
(an operation in progress or queued; that it is one only follows from `CompletionsAreDistinct`) together with
`LiveSessionIsServed`.  Every handler does the same to the sessions, whichever it is: it closes some, posts operations
of sessions that live on, and clears the flag of the operation that is done.  `HandlerStep` says this once; a lemma per
handler shows that it is one, and three lemmas draw from it what is claimed of a live session, of a closing one and of
`WorldMembership`, whose step is that of the one session whose phase or player the handler changes.

Streams.  A byte knows its packet and its place there, so that the invariant of a direction is about one sequence: the
framer's unread bytes followed by the wire's.  It goes on without a gap, byte after byte and packet after packet
(`Continues`), from the packet after the last one popped, and reaches to where the sender is with the front of its
queue (`ReachesTo`); accepted packets are numbered, the sender's queue is the last of them (`LastOf`), the receiver's
comes right after the delivered ones (`After`).  The step at which the network loop clears `_connected` is the close
of `PacketFifo`, whose `begun` is `queueing`, so that a push after it is the one acceptance that was under way. 
`DownRoom` and `UpRoom` bound what the framer holds by what was left over and a chunk: that is why `Append` is never
refused.  `FramesStayWhole` and the steps of `PacketFifo` follow.

Simulation.  `Placement` says of an enemy that it is on a free tile or between two, both free, neighbours and in its
room, facing the one it has as its waypoint, and of a player that it stands where `CanPlacePlayer` lets it.  With it,
a step towards the next tile's corner stays on the line, which is what the unchecked step of `FollowWaypoint` needs;
that function's branch for a way that is not straight, and a first step out of place, are shown to be unreachable.
The proof's first part is about one axis of the grid, in plain integers.  `Flight` says that the cooldown outlasts the
flight, counting which of the two has been stepped in this tick, that projectiles' owners differ, and that one that
was moved belongs to a living enemy of its room; so a second spear has no first one left.
Events, the dead and blows need less: the events of this tick are those of players handled in it, a path is shown of an
active enemy, projectiles are finitely many.

Client.  `NothingOfAnOldConnection` holds because `Stop` always comes between two connections, and that is a fact
about where the game's frame is, the level, the title and the thread together.  `IInv` lists the six combinations
there are: idle, the menu after a failed attempt, waiting for the server (between frames, in the pump, and stopping),
and playing.  The step lemmas show that each action leads from one of them to another; the network thread's steps
share one lemma, `ThreadKeeps`, since they touch nothing of the game.  `RequestsAgree` is about what was sent, what is
pending and what is queued as one sequence, over which `SwapQueues` and `Send` only move the borders; `Agreement` adds
that a connection without a player of its own has asked for nothing but `C2S_Enter`.

Dungeon.  That nobody stands on the player (`Apart`) needs everybody inside the room shown (`Placed`): a room is
spawned around where the player is put, and only a step inside the room is checked against the others.  A refusal of
`TryChangeRoom` for a room off the map is shown unreachable (`RoomsOnTheMap`): a box that fits the map has its leading
edge in a room.  The rewards need the boss to be alone in its room (`RoomsOwn`), so that it cannot be both dead and the
player be hurt by another.  `clearPending` makes a `Tick` of the level skip everything, but not the rest of the frame
in which the triforce was taken: `Calm` says that in that frame the player is in the last room, or has just left it by
its border, and so meets nobody, gets no blow and does not reach the exit (`HoldersStay`).  `Ordered` and `Turns` are
what the phases of a frame say.  For `LevelVisit` there is a lemma per kind of step (`HurtShown`, `BossShown`,
`CollectionShown`, `RequestShown`, `LeaveShown`, `ReturnShown`), and every action is one of them or changes nothing
that is shown.

Overworld.  `NobodyIsMisplaced` rests on `Walkable`: the player and every enemy but a Tektite stand where the map lets
them, and the player's room is an accessible one.  The leading edge decides the next room, and the snap that follows is
not checked against the map again: that it is still on it, off its walls and wholly inside the new room is arithmetic
on one axis (`EntersForwards`, `EntersBackwards`), which `StepsOntoTheMap` puts together for the four directions and
for a knockback.  It is where a pawn no larger than a tile is needed.  `Flying` says of a projectile moved in this
frame that it is in the room; what was just thrown may still reach out of it.  The rest, `Placed`, `Ordered` and
`Turns`, is shared with the dungeon, as are the lemmas about a frame's turns.

Parts.  `EachPartSteps` says that a step of `Parts` is a step of the part that runs and a stutter of each other, so
that each part's invariant is proved from its own actions.

Local game.  The level that runs and the one asked for agree with the game's state and with the request of the visit
(`LevelsAgree`).  The player the run has had so far (`hero`, a history) is with the level that runs once that has loaded
it, and with the game before and between levels (`HeroIsKept`): only the level that runs can have loaded anything,
since entering a level takes its loading back.  `AskedForIsEarned` carries what an ending rests on from the visit to the
frame in which the ending runs, past the old levels' visits that are still lying about.

View.  Whatever is on its way to the client was so at the server (`Told`): a snapshot lists the actors of its tick, an
event has a source that was there in its tick, and only an own player that has appeared strikes.  A frame takes the
last snapshot and the events of several ticks; the actors shown are those of the one applied, and an event of the
client's own player needs no other actor.

Sound.  `Voiced` states ownership over the list, the music and the living voices at once; each function is shown to
keep it for every call that fails.  COM is held exactly if this object initialised it.  What is cached is a whole
file: the walk over the chunks that finds the data chunk has been inside the file up to its end (`ParsedIsWhole`).

Shooting game.  `ShipOf` is about the actors in the list and those asked for as one sequence: one player at most; its
parts, and nobody else, are attached to it; there are three once it has begun; they are active with it.  Within a frame
actors are only added at the end or expire, and `Destroy` expires the player's parts with it.  At the frame's end
both lists are picked from; `BothPicked` gives the places left and the places before one to one, so that
counting parts survives it.  That nothing of the ship is asked for again needs the frame to be over before the game
over clock runs out (`clock`), after which the level returns from `Tick` early.

Path finder.  `Explored` says that every tile reached either waits in the queue at its cost or has been expanded, so
that no tile around it costs more than a step more, and that a parent is beside its tile and nearer to the start.  With
it a walk that were shorter than the goal's cost would have, at any time, a tile in the queue whose estimate is below
the goal's (`NearIsCheap`, which needs of Manhattan distance that a step changes it by one at most), and `TopIsLeast`
says that the goal is not taken before it; it holds for stale entries and tiles reached anew too.  `PathLeads` follows
the parents back.  Where the queue runs empty, everything within reach has been reached: `ReachEnds` says that a search
by breadth is over in fewer steps than there are tiles.

Codec.  A number is read as it was written, up to what its field holds (`WrittenIsRead`, from `TwoDigits`, which is the
division by a base and by its square).  Fields and items are pieces put one behind the other: `PiecesAreFound` says that
each is found again between the ends of its neighbours, from which what a reader takes at its offset is what the writer
put there, whatever comes before or after (`FieldsAreRead`, `ItemsAreRead`).  What fits is then read as it was meant,
signs included (`WhatFitsIsRead`); a count fits its field because the message fits a packet or its tiles a room
(`CountIsRead`); and what is asked of a message may be asked of the unsigned numbers that were read (`ValidAsRead`).
The invariant is that the packet under way is that of the message.

Sokoban.  The three parts of `BoxesApart` are inductive together only: a push keeps boxes and player apart because
they are on a closed floor, where `WalkOntoBox` cannot happen, and its count of boxes on targets is a test of covering
because boxes are apart: as many boxes as targets, no two in one place, leave no target out (`CountingIsCovering`, an
injection between finite sets of the same size).

Assumptions, each named where its constants are declared: a stage of Sokoban is closed; connections are distinct from
the shutdown packet's key; limits are positive and a buffer holds a chunk and a packet; `None` is a direction; a timeout
is at least a frame; enemies are no wider than a tile and start on a free tile of the map, players where they fit; an
enemy's cooldown is longer than a projectile's life.  Of the local levels `CombatAssumption` says that boxes have a
size, a pawn is no larger than a tile and an enemy is spawned at least a tile from the player, and
`LocalDungeon`'s `LayoutAssumption` what `DungeonMap.h`, `Level1.txt` and the constants of `DungeonLevel` say of the dungeon: one row of
rooms, the exit in the first, then the Octoroks', the boss's and the triforce's, the boss's tile off the edges the
player enters by, and no room so narrow that a frame's move crosses it.  `LocalOverworld`'s says that a new game starts on a walkable tile
of the map, in the first room of the path (`BlockingMap.txt`), which is an accessible one (`OverworldAssumption`).
`PartsAssumption` gathers those of the parts: health and tiles have a size and the cave's exit is below its first row
(`LocalGameAssumption`), other actors are finitely many and not the client's own (`LevelAssumption`), the game over wait
is not nothing (`ShootingAssumption`), a grid has a width and a height (`SearchAssumption`), nothing is neither a voice
nor a path, and a file has a size and a list of chunks with theirs (`SoundAssumption`); a byte has an even number of
values, the size of a packet fits two bytes and the tiles of a room one, and what is to be said are values of their
fields' types that are valid where the sender checks them (`CodecAssumption`): the sender's checks never fail in this
program, and that only a packet's size stops a message says so.  The histories and bounds of the models are variables
and constants like the others and restrict nothing in the proofs beyond what the actions say.

Model-checked only: liveness (the prover has no fairness and no `ENABLED`), that is the properties of
`server_liveness`, `AcceptedIsDelivered`, `DeadEnemiesReturn`, `EveryWaitEnds`, `EndingsArrive` and
`DeathEndsTheGame`.  A theorem about numbers that needs induction is proved from the least element of a set
(`LeastElement` in `LocalCombatProofs` and `PartsProofs`), as the library's induction theorems take an operator as a
parameter, which no installed prover can be given; recursion is written as recursive functions, which exist and are
what they should be by the same lemma (`OffsetsExist`, `FlatExists`, `ReachesExists`).

## 6. What the models found

1. Dead enemies return (`src/Z1Server/OverworldSimulation.cpp:436` against `docs/z1/TESTING.md:108` and
   `docs/z1/NETWORK_ARCHITECTURE.md:146`).
2. A request to attack, pressed while moving, strikes once the direction is released
   (`src/Z1Server/OverworldSimulation.cpp:381` against `docs/z1/TESTING.md:105`).
3. A killed boss may come back without its rewards (`src/Z1/Level/DungeonLevel.cpp:918` against
   `docs/z1/TESTING.md:34`): the kill, in the collisions that end a frame, is noted in the next frame only after the
   player has moved; a player who leaves the room in that move finds a new Aquamentus on coming back.

## 7. What is not modelled

- `Sockets`' thin wrappers, rendering, input, math, notices, cursors and
  minimap: no state that a property above depends on.
- Reading maps, stages and settings: what a file holds is constants with named assumptions
  (`BlockedTilesAssumption`, `SpawnAssumption`, `GeometryAssumption`, `StageAssumption`), and a seeded choice of spawn
  tiles is any choice.
- Movement below a cell and clocks: how far a frame moves something and when a timer ends is left open; the endings'
  timers count frames.
- Destructors at the end of a program, but for `Sound`'s.
- `Content`, `Config` and `tools`: data and scripts.
