------------------------- MODULE OverworldSimulation -------------------------
(***************************************************************************)
(* The simulated world of Z1Server (Z1Server/OverworldSimulation.cpp and   *)
(* Actor/): players, enemies and projectiles, stepped by Tick and changed  *)
(* between ticks by SpawnPlayer, DespawnPlayer and SetInput, all on the IO *)
(* thread.                                                                 *)
(*                                                                         *)
(* Tick walks three unordered maps; a step of the model handles one of     *)
(* their elements, in any order.  The tick counter is reduced to its value *)
(* modulo MoveInterval and the death tick of an enemy to the ticks since.  *)
(* An input older than the last one is ignored and is a stuttering step,   *)
(* so inputs carry no sequence number.                                     *)
(***************************************************************************)
EXTENDS OverworldMap

CONSTANTS
  Players,               \* ids a player may be given
  Enemies,               \* ids of the enemies, smaller ones spawned earlier
  Moblins,               \* the enemies that chase and shoot
  SpawnPosition,         \* where each enemy was spawned
  StartPosition,         \* where players are spawned, (1190, 395) in the code
  MaxHp,                 \* 20 in the code
  HorizontalSword,       \* [w, h] of a blow to the left or right, 10 by 3
  VerticalSword,         \* [w, h] of a blow up or down, 6 by 5
  SwordInset,            \* 1 in the code
  MoveInterval,          \* a Moblin moves every 4th tick
  AttackCooldownTicks,   \* 44 in the code
  ProjectileTicks,       \* 40 in the code
  RespawnCooldownTicks,  \* 140 in the code
  InputDirections        \* bound of the model: what players press

ASSUME EnemiesAssumption == Enemies \subseteq Nat /\ Moblins \subseteq Enemies

ASSUME InputsAssumption == InputDirections \subseteq MoveDirections

ASSUME TicksAssumption ==
  /\ \A n \in {MaxHp, MoveInterval, AttackCooldownTicks, ProjectileTicks,
               RespawnCooldownTicks} : n \in Nat \ {0}
  /\ ProjectileTicks < AttackCooldownTicks

\* SpawnEnemies puts an enemy at the corner of a tile where it fits.
ASSUME SpawnAssumption ==
  /\ StartPosition \in Position /\ CanPlacePlayer(StartPosition)
  /\ \A e \in Enemies : \E room \in RoomCoordinate :
       \E t \in Walkable(room) : SpawnPosition[e] = ToWorldCellPosition(room, t)

VARIABLES
  players,      \* keys of _players
  player,       \* the player of each id
  enemy,        \* _enemies
  projectiles,  \* _projectiles
  events,       \* _pendingCombatEvents
  dbgPaths,     \* _dbgPaths: whether an enemy's entry exists and has tiles
  clock,        \* _tick % MoveInterval
  phase,        \* which loop of Tick runs
  todo,         \* what the loop has not reached yet
  activeRooms   \* Tick's activeRooms

world == <<players, player, enemy, projectiles, events, dbgPaths>>
tick  == <<clock, phase, todo, activeRooms>>
vars  == <<world, tick>>

NoWaypoint == [x |-> -1, y |-> -1]  \* std::nullopt

PlayerState ==
  [ pos : Position, direction : Facings,
    input : MoveDirections,       \* _latestInput.moveDirection
    attackRequested : BOOLEAN,
    hp : 0 .. MaxHp ]

EnemyState ==
  [ pos : Position, direction : Facings, hp : 0 .. 1,
    deadFor : 0 .. RespawnCooldownTicks,
    attackCooldown : 0 .. AttackCooldownTicks,
    waypoint : Position \cup {NoWaypoint} ]

Projectile ==
  [ owner : Enemies, pos : Position, direction : Facings,
    remain : 1 .. ProjectileTicks ]

Event == [player : Players, direction : Facings, room : RoomCoordinate]

NewPlayer ==
  [ pos |-> StartPosition, direction |-> "Up", input |-> "None",
    attackRequested |-> FALSE, hp |-> MaxHp ]

NewEnemy(e) ==
  [ pos |-> SpawnPosition[e], direction |-> "Up", hp |-> 1, deadFor |-> 0,
    attackCooldown |-> 0, waypoint |-> NoWaypoint ]

Init ==
  /\ players = {} /\ player = [p \in Players |-> NewPlayer]
  /\ enemy = [e \in Enemies |-> NewEnemy(e)]
  /\ projectiles = {} /\ events = {}
  /\ dbgPaths = [e \in Enemies |-> "none"]
  /\ clock = 0 /\ phase = "idle" /\ todo = {} /\ activeRooms = {}

Alive(p) == p \in players /\ player[p].hp > 0

HomeRoom(e) == GetRoomAt(SpawnPosition[e])

-----------------------------------------------------------------------------
(* Between ticks.                                                          *)

SpawnPlayer(p) ==
  /\ phase = "idle" /\ p \notin players
  /\ players' = players \cup {p}
  /\ player' = [player EXCEPT ![p] = NewPlayer]
  /\ UNCHANGED <<enemy, projectiles, events, dbgPaths, tick>>

DespawnPlayer(p) ==
  /\ phase = "idle" /\ p \in players
  /\ players' = players \ {p}
  /\ player' = [player EXCEPT ![p] = NewPlayer]
  /\ UNCHANGED <<enemy, projectiles, events, dbgPaths, tick>>

\* Player::UpdateInput.
SetInput(p, direction, attack) ==
  /\ phase = "idle" /\ p \in players
  /\ player' = [player EXCEPT ![p].input = direction,
                              ![p].attackRequested = @ \/ attack]
  /\ UNCHANGED <<players, enemy, projectiles, events, dbgPaths, tick>>

\* Mistake: a dead enemy does not age.
BeginTickWithoutAge ==
  /\ phase = "idle"
  /\ phase' = "players" /\ todo' = players
  /\ clock' = (clock + 1) % MoveInterval
  /\ UNCHANGED <<players, player, enemy, projectiles, events, dbgPaths, activeRooms>>

BeginTick ==
  /\ phase = "idle"
  /\ phase' = "players" /\ todo' = players
  /\ clock' = (clock + 1) % MoveInterval
  /\ enemy' = [e \in Enemies |->
       IF enemy[e].hp = 0 /\ enemy[e].deadFor < RespawnCooldownTicks
       THEN [enemy[e] EXCEPT !.deadFor = @ + 1] ELSE enemy[e]]
  /\ UNCHANGED <<players, player, projectiles, events, dbgPaths, activeRooms>>

-----------------------------------------------------------------------------
(* The loop over the players.                                              *)

NextPlayer(p) ==
  /\ phase = "players" /\ p \in todo /\ todo' = todo \ {p}
  /\ UNCHANGED <<players, projectiles, dbgPaths, clock, phase, activeRooms>>

SkipPlayer(p) ==
  /\ NextPlayer(p)
  /\ \/ ~Alive(p)
     \/ player[p].input = "None" /\ ~player[p].attackRequested
  /\ UNCHANGED <<player, enemy, events>>

\* The request for an attack is consumed and ignored.
MovePlayer(p) ==
  /\ NextPlayer(p)
  /\ Alive(p) /\ player[p].input # "None"
  /\ LET candidate == Step(player[p].pos, player[p].input)
     IN player' = [player EXCEPT
          ![p].direction = player[p].input,
          ![p].pos = IF CanPlacePlayer(candidate) THEN candidate ELSE @,
          ![p].attackRequested = FALSE]
  /\ UNCHANGED <<enemy, events>>

SwordBox(p) ==
  LET pos == player[p].pos
  IN CASE player[p].direction = "Right" ->
            [x |-> pos.x + PlayerBoxWidth, y |-> pos.y + SwordInset,
             w |-> HorizontalSword.w, h |-> HorizontalSword.h]
       [] player[p].direction = "Left" ->
            [x |-> pos.x - HorizontalSword.w, y |-> pos.y + SwordInset,
             w |-> HorizontalSword.w, h |-> HorizontalSword.h]
       [] player[p].direction = "Up" ->
            [x |-> pos.x + SwordInset, y |-> pos.y - VerticalSword.h,
             w |-> VerticalSword.w, h |-> VerticalSword.h]
       [] player[p].direction = "Down" ->
            [x |-> pos.x + SwordInset, y |-> pos.y + PlayerBoxHeight,
             w |-> VerticalSword.w, h |-> VerticalSword.h]

EnemiesHit(p) ==
  {e \in Enemies : /\ enemy[e].hp > 0 /\ HomeRoom(e) = GetRoomAt(player[p].pos)
                   /\ Overlap(SwordBox(p), EnemyBox(enemy[e].pos))}

\* TryHitEnemy: of the enemies hit the one of the lowest id takes the damage.
Target(p) == {e \in EnemiesHit(p) : \A f \in EnemiesHit(p) : e <= f}

AttackEnemy(p) ==
  /\ NextPlayer(p)
  /\ Alive(p) /\ player[p].input = "None" /\ player[p].attackRequested
  /\ player' = [player EXCEPT ![p].attackRequested = FALSE]
  /\ events' = events \cup {[player |-> p, direction |-> player[p].direction,
                             room |-> GetRoomAt(player[p].pos)]}
  /\ enemy' = [e \in Enemies |->
       IF e \in Target(p) THEN [enemy[e] EXCEPT !.hp = 0, !.deadFor = 0] ELSE enemy[e]]

EndPlayers ==
  /\ phase = "players" /\ todo = {}
  /\ activeRooms' = {GetRoomAt(player[p].pos) : p \in {q \in players : Alive(q)}}
  /\ phase' = "enemies" /\ todo' = Enemies
  /\ UNCHANGED <<world, clock>>

-----------------------------------------------------------------------------
(* The loop over the enemies.                                              *)

NextEnemy(e) ==
  /\ phase = "enemies" /\ e \in todo /\ todo' = todo \ {e}
  /\ UNCHANGED <<players, player, events, clock, phase, activeRooms>>

SpawnIsFree(e) ==
  \A p \in players : Alive(p) => ~Overlap(EnemyBox(SpawnPosition[e]), PlayerBox(player[p].pos))

CanRespawn(e) ==
  enemy[e].hp = 0 /\ enemy[e].deadFor = RespawnCooldownTicks /\ SpawnIsFree(e)

\* The enemy after TryRespawnEnemy.
Respawned(e) ==
  IF CanRespawn(e)
  THEN [NewEnemy(e) EXCEPT !.attackCooldown = AttackCooldownTicks]
  ELSE enemy[e]

Acts(e) == Respawned(e).hp > 0 /\ HomeRoom(e) \in activeRooms

PathOfSkipped(e) == IF dbgPaths[e] = "none" THEN "none" ELSE "empty"

\* Dead, or nobody alive in its room: the path shown for it is cleared.
SkipEnemy(e) ==
  /\ NextEnemy(e) /\ ~Acts(e)
  /\ enemy' = [enemy EXCEPT ![e] = Respawned(e)]
  /\ dbgPaths' = [dbgPaths EXCEPT ![e] = PathOfSkipped(e)]
  /\ UNCHANGED projectiles

\* TickAttackCooldown.
CooledDown(s) == [s EXCEPT !.attackCooldown = IF @ > 0 THEN @ - 1 ELSE @]

Attackable(e) == e \in Moblins /\ CooledDown(Respawned(e)).attackCooldown = 0

Movable(e) == e \in Moblins /\ (clock + e) % MoveInterval = 0

\* The enemy after the attack of TickEnemy, whether or not it could shoot.
AfterAttack(e) ==
  IF Attackable(e)
  THEN [CooledDown(Respawned(e)) EXCEPT !.attackCooldown = AttackCooldownTicks]
  ELSE CooledDown(Respawned(e))

\* FindClosestPlayer: ties are broken by the order of the map.
ClosestPlayers(e) ==
  LET there == {p \in players : Alive(p) /\ GetRoomAt(player[p].pos) = HomeRoom(e)}
      far(p) == LengthSquared(Respawned(e).pos, player[p].pos)
  IN {p \in there : \A q \in there : far(p) <= far(q)}

\* SpawnProjectile.
Shot(e, target) ==
  LET s == Respawned(e)
      from == [x |-> s.pos.x + (EnemyBoxWidth - 1) \div 2,
               y |-> s.pos.y + (EnemyBoxHeight - 1) \div 2]
      toward == GetDirectionToward(s.pos, player[target].pos)
  IN IF /\ Attackable(e) /\ toward # "None"
        /\ GetRoomAt(from) = HomeRoom(e) /\ CanPlaceProjectile(from)
     THEN {[owner |-> e, pos |-> from, direction |-> toward, remain |-> ProjectileTicks]}
     ELSE {}

\* Enemy::SetPosition.
MovedTo(s, p) ==
  [s EXCEPT !.pos = p, !.waypoint = IF @ = p THEN NoWaypoint ELSE @]

HoldEnemy(e) ==
  /\ NextEnemy(e) /\ Acts(e) /\ ~Movable(e)
  /\ \E target \in ClosestPlayers(e) : projectiles' = projectiles \cup Shot(e, target)
  /\ enemy' = [enemy EXCEPT ![e] = AfterAttack(e)]
  /\ UNCHANGED dbgPaths

FollowWaypoint(e) ==
  /\ NextEnemy(e) /\ Acts(e) /\ Movable(e)
  /\ AfterAttack(e).waypoint # NoWaypoint
  /\ \E target \in ClosestPlayers(e) : projectiles' = projectiles \cup Shot(e, target)
  /\ LET s == AfterAttack(e)
         candidate == Step(s.pos, s.direction)
     IN enemy' = [enemy EXCEPT ![e] =
          IF GetRoomAt(candidate) = HomeRoom(e) /\ CanPlaceEnemy(candidate)
          THEN MovedTo(s, candidate)
          ELSE [s EXCEPT !.waypoint = NoWaypoint]]
  /\ UNCHANGED dbgPaths

\* Along x when both coordinates differ.
DirectionTo(from, to) ==
  IF from.x < to.x THEN "Right" ELSE IF from.x > to.x THEN "Left"
  ELSE IF from.y > to.y THEN "Up" ELSE IF from.y < to.y THEN "Down" ELSE "None"

\* The first step is taken without asking whether the enemy fits there.
HeadFor(e, tile) ==
  LET s == AfterAttack(e)
      next == ToWorldCellPosition(HomeRoom(e), tile)
      direction == DirectionTo(s.pos, next)
      ahead == [s EXCEPT !.waypoint = next, !.direction = direction]
  IN IF GetRoomAt(next) = HomeRoom(e) /\ CanPlaceEnemy(next)
     THEN MovedTo(ahead, Step(s.pos, direction))
     ELSE s

ChaseTiles(e, target) ==
  FirstTiles(HomeRoom(e), ToLocalTile(HomeRoom(e), Respawned(e).pos),
                          ToLocalTile(HomeRoom(e), player[target].pos))

FindPath(e) ==
  /\ NextEnemy(e) /\ Acts(e) /\ Movable(e)
  /\ AfterAttack(e).waypoint = NoWaypoint
  /\ \E target \in ClosestPlayers(e) :
       /\ projectiles' = projectiles \cup Shot(e, target)
       /\ \/ /\ ChaseTiles(e, target) = {}
             /\ enemy' = [enemy EXCEPT ![e] = AfterAttack(e)]
             /\ dbgPaths' = [dbgPaths EXCEPT ![e] = "empty"]
          \/ \E tile \in ChaseTiles(e, target) :
             /\ enemy' = [enemy EXCEPT ![e] = HeadFor(e, tile)]
             /\ dbgPaths' = [dbgPaths EXCEPT ![e] = "path"]

EndEnemies ==
  /\ phase = "enemies" /\ todo = {}
  /\ phase' = "projectiles" /\ todo' = projectiles
  /\ UNCHANGED <<world, clock, activeRooms>>

-----------------------------------------------------------------------------
(* The loop over the projectiles.                                          *)

NextProjectile(q) ==
  /\ phase = "projectiles" /\ q \in todo /\ todo' = todo \ {q}
  /\ UNCHANGED <<players, enemy, events, dbgPaths, clock, phase, activeRooms>>

\* Mistake: the owner is not looked at.
VanishesOnItsOwn(q) ==
  LET candidate == Step(q.pos, q.direction)
  IN \/ HomeRoom(q.owner) \notin activeRooms
     \/ GetRoomAt(candidate) # HomeRoom(q.owner)
     \/ ~CanPlaceProjectile(candidate)

Vanishes(q) ==
  LET candidate == Step(q.pos, q.direction)
  IN \/ HomeRoom(q.owner) \notin activeRooms
     \/ enemy[q.owner].hp = 0
     \/ GetRoomAt(candidate) # HomeRoom(q.owner)
     \/ ~CanPlaceProjectile(candidate)

\* Mistake: the dead are hit again.
PlayersHitDeadOrAlive(q) ==
  {p \in players :
     /\ GetRoomAt(player[p].pos) = HomeRoom(q.owner)
     /\ Overlap(ProjectileBox(Step(q.pos, q.direction)), PlayerBox(player[p].pos))}

\* TryHitPlayer asks this of the players in the order of the map.
PlayersHit(q) ==
  {p \in players :
     /\ Alive(p) /\ GetRoomAt(player[p].pos) = HomeRoom(q.owner)
     /\ Overlap(ProjectileBox(Step(q.pos, q.direction)), PlayerBox(player[p].pos))}

\* Player::TakeDamage of 1.
Hurt(s) == [s EXCEPT !.hp = @ - 1, !.input = IF s.hp = 1 THEN "None" ELSE @]

RemoveProjectile(q) ==
  /\ NextProjectile(q) /\ Vanishes(q)
  /\ projectiles' = projectiles \ {q}
  /\ UNCHANGED player

\* Mistake: the loop does not return at the first player hit.
HitEveryPlayer(q) ==
  /\ NextProjectile(q) /\ ~Vanishes(q) /\ PlayersHit(q) # {}
  /\ player' = [p \in Players |-> IF p \in PlayersHit(q) THEN Hurt(player[p]) ELSE player[p]]
  /\ projectiles' = projectiles \ {q}

HitPlayer(q) ==
  /\ NextProjectile(q) /\ ~Vanishes(q)
  /\ \E p \in PlayersHit(q) : player' = [player EXCEPT ![p] = Hurt(@)]
  /\ projectiles' = projectiles \ {q}

MoveProjectile(q) ==
  /\ NextProjectile(q) /\ ~Vanishes(q) /\ PlayersHit(q) = {}
  /\ projectiles' = (projectiles \ {q}) \cup
       (IF q.remain = 1 THEN {}
        ELSE {[q EXCEPT !.pos = Step(@, q.direction), !.remain = @ - 1]})
  /\ UNCHANGED player

EndTick ==
  /\ phase = "projectiles" /\ todo = {}
  /\ phase' = "taken"
  /\ UNCHANGED <<world, clock, todo, activeRooms>>

\* Mistake: the events are copied and not exchanged for an empty vector.
CopyCombatEvents ==
  /\ phase = "taken"
  /\ phase' = "idle" /\ activeRooms' = {}
  /\ UNCHANGED <<players, player, enemy, projectiles, events, dbgPaths, clock, todo>>

\* The server takes the events right after the tick.
TakeCombatEvents ==
  /\ phase = "taken"
  /\ events' = {} /\ phase' = "idle" /\ activeRooms' = {}
  /\ UNCHANGED <<players, player, enemy, projectiles, dbgPaths, clock, todo>>
-----------------------------------------------------------------------------
Commands ==
  \E p \in Players :
    \/ SpawnPlayer(p) \/ DespawnPlayer(p)
    \/ \E direction \in InputDirections, attack \in BOOLEAN : SetInput(p, direction, attack)

TickPlayers ==
  \/ \E p \in Players : SkipPlayer(p) \/ MovePlayer(p) \/ AttackEnemy(p)
  \/ EndPlayers

TickEnemies ==
  \/ \E e \in Enemies : SkipEnemy(e) \/ HoldEnemy(e) \/ FollowWaypoint(e) \/ FindPath(e)
  \/ EndEnemies

TickProjectiles ==
  \/ \E q \in projectiles : RemoveProjectile(q) \/ HitPlayer(q) \/ MoveProjectile(q)
  \/ EndTick

Tick == BeginTick \/ TickPlayers \/ TickEnemies \/ TickProjectiles \/ TakeCombatEvents

Next == Commands \/ Tick

Spec == Init /\ [][Next]_vars
-----------------------------------------------------------------------------
(* Properties.                                                             *)

\* Every variable stays within its type.
TypeOK ==
  /\ players \subseteq Players /\ player \in [Players -> PlayerState]
  /\ enemy \in [Enemies -> EnemyState]
  /\ projectiles \subseteq Projectile /\ events \subseteq Event
  /\ dbgPaths \in [Enemies -> {"none", "empty", "path"}]
  /\ clock \in 0 .. MoveInterval - 1
  /\ phase \in {"idle", "players", "enemies", "projectiles", "taken"}
  /\ todo \subseteq CASE phase = "players" -> Players [] phase = "enemies" -> Enemies
                       [] phase = "projectiles" -> projectiles [] OTHER -> {}
  /\ activeRooms \subseteq RoomCoordinate

\* The tiles a box touches.
TilesUnder(b) ==
  {t \in [x : 0 .. MapWidth - 1, y : 0 .. MapHeight - 1] : Overlap(b, TileBox(t))}

\* Nobody stands in a wall or across the border of the map, and no enemy has
\* any part of its box outside its room, although its first step towards a tile
\* is not checked and the border is checked for its corner only (the TODO at
\* OverworldSimulation.cpp:604).
NobodyInWalls ==
  /\ \A p \in players :
       LET b == PlayerBox(player[p].pos)
       IN /\ TilesUnder(b) \cap BlockedTiles = {}
          /\ b.x + b.w <= MapCellWidth /\ b.y + b.h <= MapCellHeight
  /\ \A e \in Enemies :
       /\ TilesUnder(EnemyBox(enemy[e].pos)) \cap BlockedTiles = {}
       /\ \A t \in TilesUnder(EnemyBox(enemy[e].pos)) :
            [x |-> t.x \div RoomWidth, y |-> t.y \div RoomHeight] = HomeRoom(e)

\* An enemy without a waypoint stands on a tile, from which a path can be found;
\* one with a waypoint walks straight towards it, so that it arrives exactly
\* there and never passes it by.
WalksBetweenTiles ==
  \A e \in Enemies :
    LET s == enemy[e]
        on(p) == ToWorldCellPosition(HomeRoom(e), ToLocalTile(HomeRoom(e), p)) = p
    IN IF s.waypoint = NoWaypoint THEN on(s.pos)
       ELSE /\ on(s.waypoint) /\ CanPlaceEnemy(s.waypoint)
            /\ s.waypoint # s.pos
            /\ s.direction = DirectionTo(s.pos, s.waypoint)
            /\ s.pos.x = s.waypoint.x \/ s.pos.y = s.waypoint.y

\* Nobody is in a wall, and the enemies keep to the grid on which they search.
EverybodyIsPlaced == TypeOK /\ NobodyInWalls /\ WalksBetweenTiles

\* Once a tick is over an enemy has at most one projectile in flight, and its
\* owner is alive: a dead enemy's spear does not outlive it.
OneProjectileEach ==
  phase = "taken" =>
    /\ \A q, r \in projectiles : q.owner = r.owner => q = r
    /\ \A q \in projectiles :
         /\ enemy[q.owner].hp > 0 /\ HomeRoom(q.owner) \in activeRooms
         /\ GetRoomAt(q.pos) = HomeRoom(q.owner)

\* A combat event still concerns its attacker when it is sent: the attacker is
\* in the room whose clients receive it, so that its own client shows the blow.
EventsReachTheAttacker ==
  \A v \in events :
    v.player \in players /\ GetRoomAt(player[v.player].pos) = v.room
    /\ player[v.player].direction = v.direction

\* The dead do nothing: they do not move, turn, strike or shoot; and when the
\* enemies have had their turn, no path is shown for one who is dead or whose
\* room nobody alive is in.
DeadDoNothing ==
  [][/\ \A p \in players \cap players' : player[p].hp = 0 =>
          /\ player'[p].pos = player[p].pos /\ player'[p].direction = player[p].direction
          /\ player'[p].hp = 0
          /\ \A v \in events' \ events : v.player # p
     /\ \A e \in Enemies : enemy[e].hp = 0 /\ enemy'[e].hp = 0 =>
          /\ enemy'[e].pos = enemy[e].pos
          /\ \A q \in projectiles' \ projectiles : q.owner = e => q.remain < ProjectileTicks
     /\ phase = "enemies" /\ phase' # "enemies" =>
          \A e \in Enemies : dbgPaths[e] = "path" =>
            enemy[e].hp > 0 /\ HomeRoom(e) \in activeRooms]_vars

\* One blow strikes at most one enemy and one spear at most one player, for one
\* point: whoever loses life, one request or one projectile is used up for it.
OneHitEach ==
  [][LET hurt == {p \in players \cap players' : player'[p].hp < player[p].hp}
         struck == {e \in Enemies : enemy'[e].hp < enemy[e].hp}
     IN /\ hurt # {} => /\ Cardinality(hurt) = 1
                        /\ \A p \in hurt : player'[p].hp = player[p].hp - 1
                        /\ Cardinality(projectiles') = Cardinality(projectiles) - 1
        /\ struck # {} => /\ Cardinality(struck) = 1
                          /\ \E p \in players : /\ player[p].attackRequested
                                               /\ ~player'[p].attackRequested]_vars

-----------------------------------------------------------------------------
(* Fairness: the ticks go on.  Nothing is assumed of the players.          *)

FairSpec == Spec /\ WF_vars(Tick)

\* A dead enemy comes back, unless somebody stands on its spawn position.
DeadEnemiesReturn ==
  \A e \in Enemies : enemy[e].hp = 0 ~> (enemy[e].hp > 0 \/ ~SpawnIsFree(e))

\* docs/z1/TESTING.md:108: a dead enemy does not come back.
DeadEnemiesStayDead ==
  [][\A e \in Enemies : enemy[e].hp = 0 => enemy'[e].hp = 0]_vars
=============================================================================
