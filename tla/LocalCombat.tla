---------------------------- MODULE LocalCombat ----------------------------
(***************************************************************************)
(* What a room-based level of the single-player game runs in every frame,  *)
(* whichever level it is: the player's input and sword, the enemies that   *)
(* think and move, the projectiles, contact damage and collisions.         *)
(* LocalOverworld and LocalDungeon extend it with what is theirs.          *)
(*                                                                         *)
(* A frame of the engine's loop runs through the phases                    *)
(*   "tick"     every actor's Tick                                         *)
(*   "player"   the level's Tick: an ending, or the player                 *)
(*   "walk", "pushed"   the cells of its move, or knockback, in turn       *)
(*   "enemies"  UpdateEnemyMovement, one enemy after the other             *)
(*   "contact"  TakeContactDamageToPlayer                                  *)
(*   "collide", "strike"  CollisionSystem::ProcessCollision, pair after    *)
(*              pair: those of the player, the first in the list, come first *)
(*   "finish"   the level change and the queue of spawned actors           *)
(* and the phase is "away" while the engine runs another level.            *)
(***************************************************************************)
EXTENDS Pawn, FiniteSets

CONSTANTS
    MaxHp,
    PawnSize, BossSize, SwordSize, RockSize,    \* boxes, <<width, height>>
    EnemyIds,            \* the enemies a room may hold
    SpawnMargin,         \* tiles along a room's walls where none spawns
    SpawnDistance,       \* tiles around the player where none spawns
    GameOverFrames,      \* length of the game over timer
    MaxShots             \* bound: nothing is fired with so many in flight

ASSUME CombatAssumption ==
    /\ MaxHp \in Nat \ {0} /\ GameOverFrames \in Nat \ {0}
    /\ IsFiniteSet(EnemyIds) /\ MaxShots \in Nat \ {0}
    /\ {PawnSize, BossSize, SwordSize, RockSize} \subseteq (Nat \ {0}) \X (Nat \ {0})
    /\ PawnSize[1] <= TileWidth /\ PawnSize[2] <= TileHeight
    /\ SpawnMargin \in Nat /\ SpawnDistance \in Nat \ {0}

VARIABLES
    phase,
    room,           \* _currentRoom
    player,         \* a pawn
    hasSword,
    input,          \* the direction key held, until the level has read it
    stride,         \* the player's move under way: its direction, cells left
    sword,          \* the swing under way (_activeAttack)
    enemies,        \* _roomEnemies: the enemies spawned in this room
    waiting,        \* enemies UpdateEnemyMovement has yet to move
    shots,          \* _roomProjectiles that are still active
    gameOverPending,
    clock,          \* frames the pending ending has lasted
    request         \* the level ChangeLevel asked for

combatVars == <<phase, room, player, hasSword, input, stride, sword, enemies,
                waiting, shots, gameOverPending, clock, request>>

-----------------------------------------------------------------------------
(* Boxes.                                                                  *)

NoRequest == "none"
NoSword   == [dir |-> NoDirection, fresh |-> FALSE, placed |-> FALSE]
NoStride  == [dir |-> NoDirection, left |-> 0]

TileCell(tile) == <<tile[1] * TileWidth, tile[2] * TileHeight>>
TileSize       == <<TileWidth, TileHeight>>

SizeOf(pawn) == IF pawn.kind = "Aquamentus" THEN BossSize ELSE PawnSize
PawnBox(pawn) == Box(pawn.at, SizeOf(pawn))
Living == {e \in DOMAIN enemies : ~IsDead(enemies[e])}

\* CanMoveTo for the player: walkable, and on no living enemy, unless it is
\* pushed and already stands under that one.
PlayerCanMoveTo(to, escaping) ==
    LET box == Box(to, PawnSize)
    IN /\ CanPlaceBox(box)
       /\ \A e \in Living : Overlaps(box, PawnBox(enemies[e])) =>
                escaping /\ Overlaps(PawnBox(player), PawnBox(enemies[e]))

\* CanMoveTo for an enemy: inside the room; no wall and no player stops a
\* Tektite.  Enemies walk through each other.
EnemyCanMoveTo(enemy, to) ==
    LET box == Box(to, SizeOf(enemy))
    IN /\ IsInsideRoom(box, room)
       /\ \/ enemy.kind = "Tektite"
          \/ CanPlaceBox(box) /\ ~Overlaps(box, PawnBox(player))

\* CanProjectileOccupy
CanProjectileOccupy(box) == IsInsideRoom(box, room) /\ CanPlaceBox(box)

\* The steps of n in a direction that an enemy takes before one it cannot make.
StepsTaken(enemy, dir, n) ==
    CHOOSE k \in 0 .. n :
        /\ \A i \in 1 .. k : EnemyCanMoveTo(enemy, Plus(enemy.at, Times(i, dir)))
        /\ k < n => ~EnemyCanMoveTo(enemy, Plus(enemy.at, Times(k + 1, dir)))

\* Mistake: nobody asks where the player stands.
SpawnPositionsAnywhere(r, playerAt) ==
    {at \in {Plus(GetRoomCellOrigin(r), TileCell(<<x, y>>)) :
                x \in SpawnMargin .. (RoomTileWidth - 1 - SpawnMargin),
                y \in SpawnMargin .. (RoomTileHeight - 1 - SpawnMargin)} :
        CanPlaceBox(Box(at, TileSize))}

\* The places a room's enemies may be spawned at: walkable tiles off the
\* walls, away from the player.
SpawnPositions(r, playerAt) ==
    {at \in {Plus(GetRoomCellOrigin(r), TileCell(<<x, y>>)) :
                x \in SpawnMargin .. (RoomTileWidth - 1 - SpawnMargin),
                y \in SpawnMargin .. (RoomTileHeight - 1 - SpawnMargin)} :
        /\ CanPlaceBox(Box(at, TileSize))
        /\ \/ Magnitude(at[1] - playerAt[1]) >= SpawnDistance * TileWidth
           \/ Magnitude(at[2] - playerAt[2]) >= SpawnDistance * TileHeight}

\* Enemies of some kinds at different places; the seeded generator's choice
\* of them is left open.
SpawnPlans(kinds, places) ==
    UNION {{[e \in group |-> NewPawn(kind[e], at[e], 1, NoDirection)] :
                kind \in [group -> kinds],
                at \in {f \in [group -> places] :
                            \A d, e \in group : f[d] = f[e] => d = e}} :
           group \in SUBSET EnemyIds}

-----------------------------------------------------------------------------
(* The actors' Tick.                                                       *)

ShotSize(s) == IF s.by = "player" THEN SwordSize ELSE RockSize

Flown(s, n) == [s EXCEPT !.at = Plus(@, Times(n, s.dir))]

\* A projectile is gone when its time is up, when it stands in something
\* solid, and when it runs into something solid.
CanFly(s, n) ==
    \A i \in 0 .. n : CanProjectileOccupy(Box(Flown(s, i).at, ShotSize(s)))

MayRecover(pawn) == ~IsDead(pawn) /\ pawn.hurt /\ ~IsKnockback(pawn)

ActorsTick ==
    /\ phase = "tick"
    /\ \E key \in Directions \cup {NoDirection},
          recovers \in {FALSE, MayRecover(player)} :
          /\ input' = key
          /\ player' = [player EXCEPT
                           !.dir = IF key = NoDirection THEN @ ELSE key,
                           !.hurt = @ /\ ~recovers]
    /\ \E recovered \in SUBSET {e \in DOMAIN enemies : MayRecover(enemies[e])} :
          enemies' = [e \in DOMAIN enemies |->
                        [enemies[e] EXCEPT !.hurt = @ /\ e \notin recovered]]
    /\ \E flying \in SUBSET {s \in shots : ~s.fresh} :
          \E n \in [flying -> FrameSteps] :
             shots' = {s \in shots : s.fresh}
                      \cup {Flown(s, n[s]) : s \in {t \in flying :
                                                        CanFly(t, n[t])}}
    /\ sword' \in {sword, NoSword}
    /\ phase' = "player"
    /\ UNCHANGED <<room, hasSword, stride, waiting, gameOverPending, clock,
                   request>>

-----------------------------------------------------------------------------
(* The level's Tick, up to the player's move.                              *)

\* Mistake: every frame of a dead player starts the timer.
GameOverClockSetAnew == 0

GameOverClock ==
    IF gameOverPending THEN Smaller(clock + 1, GameOverFrames) ELSE 0

\* A dead player's first frame starts the timer; when it is over the game
\* over screen is asked for.
AwaitGameOver ==
    /\ phase = "player" /\ IsDead(player)
    /\ gameOverPending' = TRUE
    /\ clock' = GameOverClock
    /\ request' = IF gameOverPending /\ clock' = GameOverFrames
                  THEN "GameOver" ELSE request
    /\ phase' = "collide" /\ input' = NoDirection
    /\ UNCHANGED <<room, player, hasSword, stride, sword, enemies, waiting,
                   shots>>

PlayerActs == phase = "player" /\ ~IsDead(player)

\* A knockback comes before any input: its cells of this frame.
StartKnockback ==
    /\ PlayerActs /\ IsKnockback(player)
    /\ \E n \in KnockbackSteps(player) :
          /\ stride' = [dir |-> player.push, left |-> n]
          /\ player' = ConsumeKnockbackSteps(player, n)
    /\ phase' = "pushed" /\ input' = NoDirection
    /\ UNCHANGED <<room, hasSword, sword, enemies, waiting, shots,
                   gameOverPending, clock, request>>

\* A direction key: the swing is dropped, the frame's cells are walked.
StartWalk ==
    /\ PlayerActs /\ ~IsKnockback(player) /\ input # NoDirection
    /\ \E n \in FrameSteps : stride' = [dir |-> input, left |-> n]
    /\ sword' = NoSword
    /\ phase' = "walk" /\ input' = NoDirection
    /\ UNCHANGED <<room, player, hasSword, enemies, waiting, shots,
                   gameOverPending, clock, request>>

StandStill ==
    /\ PlayerActs /\ ~IsKnockback(player) /\ input = NoDirection
    /\ phase' = "enemies" /\ waiting' = DOMAIN enemies
    /\ UNCHANGED <<room, player, hasSword, input, stride, sword, enemies,
                   shots, gameOverPending, clock, request>>

NewShot(at, dir, by) ==
    [at |-> at, prev |-> at, dir |-> dir, by |-> by, fresh |-> TRUE]

\* 'A': at full health the sword flies, otherwise it is swung.
Attack ==
    /\ PlayerActs /\ ~IsKnockback(player) /\ input = NoDirection
    /\ hasSword /\ sword = NoSword
    /\ IF player.hp = MaxHp
       THEN /\ Cardinality(shots) < MaxShots
            /\ shots' = shots \cup
                  {NewShot(GetProjectileSpawnPosition(player.at, PawnSize,
                               SwordSize, player.dir), player.dir, "player")}
            /\ UNCHANGED sword
       ELSE /\ sword' = [dir |-> player.dir, fresh |-> TRUE,
                          placed |-> FALSE]
            /\ UNCHANGED shots
    /\ phase' = "enemies" /\ waiting' = DOMAIN enemies
    /\ UNCHANGED <<room, player, hasSword, input, stride, enemies,
                   gameOverPending, clock, request>>

\* One cell of the move: where it leads, and which room its front edge is in.
StepIn(phases) == phase \in phases /\ stride.left > 0
Destination == Plus(player.at, stride.dir)
NextRoom == GetRoomCoordinateAtLeadingEdge(Destination, PawnSize, stride.dir)

\* Mistake: the player is left where its step across the edge has put it.
StepEndUnsnapped == Destination

\* A player that enters another room is put wholly inside it.
StepEnd ==
    IF NextRoom = room
    THEN Destination
    ELSE SnapIntoRoom(Destination, PawnSize, NextRoom, stride.dir)

\* A step that cannot be made ends the move, and a knockback for good.
Blocked ==
    /\ stride' = [stride EXCEPT !.left = 0]
    /\ player' = IF phase = "pushed" THEN StopKnockback(player) ELSE player
    /\ UNCHANGED <<phase, room, hasSword, input, sword, enemies, waiting,
                   shots, gameOverPending, clock, request>>

EndStride ==
    /\ phase \in {"walk", "pushed"} /\ stride.left = 0
    /\ phase' = "enemies" /\ waiting' = DOMAIN enemies /\ stride' = NoStride
    /\ UNCHANGED <<room, player, hasSword, input, sword, enemies, shots,
                   gameOverPending, clock, request>>

-----------------------------------------------------------------------------
(* The enemies.                                                            *)

\* GetChaseDelta: one step towards a target, along the longer way.
ChaseDirection(from, target) ==
    IF from = target THEN Right ELSE KnockbackDirection(target, from, from)

\* GetHopDirection: towards the player along the longer way, either way
\* across it.
HopDirections(from, target) ==
    LET d == Minus(target, from)
        towards(n) == IF n >= 0 THEN 1 ELSE -1
    IN IF Magnitude(d[1]) >= Magnitude(d[2])
       THEN {towards(d[1])} \X {-1, 1}
       ELSE {-1, 1} \X {towards(d[2])}

Thought(dir, move, hopping, throws) ==
    [dir |-> dir, move |-> move, hopping |-> hopping, throws |-> throws]

\* What Think may make of an enemy: the way it then faces, the step it wants
\* to take, whether it is in the air, the ways it throws something.  Its
\* timers may run out in any frame.  An Octorok turns at will and throws
\* ahead; what it faced before never matters.
Octorok(enemy) ==
    UNION {{Thought(NoDirection, d, FALSE, throws) : throws \in {{}, {d}}} :
           d \in Directions}

\* A Moblin that throws turns to the player, but this frame's step is the old.
Moblin(enemy) ==
    LET chase == ChaseDirection(enemy.at, player.at)
    IN {Thought(d, d, FALSE, {}) : d \in {enemy.dir, chase}}
       \cup {Thought(chase, d, FALSE, {chase}) : d \in {enemy.dir, chase}}

\* A Tektite hops for a while and rests for a while.
Tektite(enemy) ==
    {Thought(NoDirection, NoDirection, FALSE, {})} \cup
    {Thought(d, d, TRUE, {}) :
        d \in IF enemy.hopping THEN {enemy.dir}
                               ELSE HopDirections(enemy.at, player.at)}

\* Aquamentus walks to and fro and spits a fan of three at the player.
Fan(d) == IF d[1] # 0 THEN {<<d[1], -1>>, <<d[1], 0>>, <<d[1], 1>>}
                      ELSE {<<-1, d[2]>>, <<0, d[2]>>, <<1, d[2]>>}

Aquamentus(enemy) ==
    {Thought(enemy.dir, enemy.dir, FALSE, throws) :
        throws \in {{}, Fan(ChaseDirection(enemy.at, player.at))}}

Think(enemy) == CASE enemy.kind = "Octorok"    -> Octorok(enemy)
                  [] enemy.kind = "Moblin"     -> Moblin(enemy)
                  [] enemy.kind = "Tektite"    -> Tektite(enemy)
                  [] enemy.kind = "Aquamentus" -> Aquamentus(enemy)

ShotsOf(e, ways) ==
    LET enemy == enemies[e]
    IN {NewShot(GetProjectileSpawnPosition(enemy.at, SizeOf(enemy), RockSize,
                                           d), d, e) : d \in ways}

\* OnMoveBlocked: Moblins and Aquamentus turn round, a Tektite lands.
OnMoveBlocked(enemy) ==
    CASE enemy.kind \in {"Moblin", "Aquamentus"} ->
            [enemy EXCEPT !.dir = Opposite(@)]
      [] enemy.kind = "Tektite" ->
            [enemy EXCEPT !.hopping = FALSE, !.dir = NoDirection]
      [] OTHER -> enemy

EnemyMoves(e) ==
    /\ phase = "enemies" /\ e \in waiting
    /\ waiting' = waiting \ {e}
    /\ IF IsDead(enemies[e])
       THEN UNCHANGED <<enemies, shots>>
       ELSE \E thought \in Think(enemies[e]) :
          /\ thought.throws # {} => Cardinality(shots) < MaxShots
          /\ shots' = shots \cup ShotsOf(e, thought.throws)
          /\ LET enemy == [enemies[e] EXCEPT !.dir = thought.dir,
                                             !.hopping = thought.hopping]
             IN IF IsKnockback(enemy)
                THEN \E n \in KnockbackSteps(enemy) :
                       LET k == StepsTaken(enemy, enemy.push, n)
                           pushed == MoveBy(ConsumeKnockbackSteps(enemy, n),
                                            Times(k, enemy.push))
                       IN enemies' = [enemies EXCEPT ![e] =
                              IF k < n THEN StopKnockback(pushed) ELSE pushed]
                ELSE \E n \in FrameSteps :
                       LET k == StepsTaken(enemy, thought.move, n)
                           moved == MoveBy(enemy, Times(k, thought.move))
                       IN enemies' = [enemies EXCEPT ![e] =
                              IF k < n THEN OnMoveBlocked(moved) ELSE moved]
    /\ UNCHANGED <<phase, room, player, hasSword, input, stride, sword,
                   gameOverPending, clock, request>>

EnemiesMoved ==
    /\ phase = "enemies" /\ waiting = {}
    /\ phase' = "contact"
    /\ UNCHANGED <<room, player, hasSword, input, stride, sword, enemies,
                   waiting, shots, gameOverPending, clock, request>>

-----------------------------------------------------------------------------
(* TakeContactDamageToPlayer.                                              *)

ContactDamage(enemy) == IF enemy.kind = "Aquamentus" THEN 2 ELSE 1

\* A player that dies drops the sword (OnDeath).
PlayerHit(amount, instigatorAt, causerAt) ==
    /\ player' = TakeDamage(player, amount, instigatorAt, causerAt)
    /\ sword' = IF ~IsDead(player) /\ IsDead(player') THEN NoSword ELSE sword

\* The enemies in contact strike in turn, but the first hit that counts
\* leaves the player invulnerable or dead.
Contact ==
    /\ phase = "contact"
    /\ LET touching == {e \in Living : IsSideContact(PawnBox(player),
                                                     PawnBox(enemies[e]))}
       IN IF IsDead(player) \/ touching = {}
          THEN UNCHANGED <<player, sword>>
          ELSE \E e \in touching : PlayerHit(ContactDamage(enemies[e]),
                                             enemies[e].at, enemies[e].at)
    /\ phase' = "collide"
    /\ UNCHANGED <<room, hasSword, input, stride, enemies, waiting, shots,
                   gameOverPending, clock, request>>

-----------------------------------------------------------------------------
(* ProcessCollision: pairs whose sweeps overlap, one after the other.      *)

Sweep(pawn) == SweptBox(pawn.prev, pawn.at, SizeOf(pawn))

SwordAt(at) == GetProjectileSpawnPosition(at, PawnSize, SwordSize, sword.dir)

\* Where the swing ended the last frame: it joined the level one cell from the
\* player's corner, and BeginPlay moves it to the player's side.
SwordPrevious ==
    IF sword.placed THEN SwordAt(player.prev) ELSE Plus(player.prev, sword.dir)

\* The shield, which a swing lowers, covers the side the player faces.
Shieldable(s) ==
    /\ sword = NoSword
    /\ player.dir = KnockbackDirection(Opposite(s.dir), NoDirection,
                                       NoDirection)

ShotReaches(s, pawn) ==
    /\ ~s.fresh /\ ~pawn.fresh
    /\ Overlaps(SweptBox(s.prev, s.at, ShotSize(s)), Sweep(pawn))

\* A projectile meets the player: shielded or hurting, it is spent; an
\* invulnerable player lets it pass.
ShotMeetsPlayer(s) ==
    /\ s.by # "player" /\ ~IsDead(player)
    /\ ShotReaches(s, player)
    /\ Shieldable(s) \/ CanBeHurt(player)

BeamMeetsEnemy(s, e) ==
    /\ s.by = "player" /\ CanBeHurt(enemies[e])
    /\ ShotReaches(s, enemies[e])

\* A swing meets an enemy, even one it cannot hurt, and is spent on it.
SwordMeetsEnemy(e) ==
    /\ sword # NoSword /\ ~sword.fresh /\ ~enemies[e].fresh
    /\ Overlaps(SweptBox(SwordPrevious, SwordAt(player.at), SwordSize),
                Sweep(enemies[e]))

ShotHitsPlayer(s) ==
    /\ phase = "collide" /\ ShotMeetsPlayer(s)
    /\ shots' = shots \ {s}
    /\ IF Shieldable(s) THEN UNCHANGED <<player, sword>>
                        ELSE PlayerHit(1, enemies[s.by].at, s.at)
    /\ UNCHANGED <<phase, room, hasSword, input, stride, enemies, waiting,
                   gameOverPending, clock, request>>

EnemyHit(e, causerAt) ==
    enemies' = [enemies EXCEPT ![e] = TakeDamage(@, 1, player.at, causerAt)]

BeamHitsEnemy(s, e) ==
    /\ phase = "strike" /\ BeamMeetsEnemy(s, e)
    /\ shots' = shots \ {s}
    /\ EnemyHit(e, s.at)
    /\ UNCHANGED <<phase, room, player, hasSword, input, stride, sword,
                   waiting, gameOverPending, clock, request>>

SwordHitsEnemy(e) ==
    /\ phase = "strike" /\ SwordMeetsEnemy(e)
    /\ sword' = NoSword
    /\ EnemyHit(e, SwordAt(player.at))
    /\ UNCHANGED <<phase, room, player, hasSword, input, stride, shots,
                   waiting, gameOverPending, clock, request>>

Collisions ==
    \/ \E s \in shots : ShotHitsPlayer(s)
    \/ \E s \in shots, e \in Living : BeamHitsEnemy(s, e)
    \/ \E e \in Living : SwordHitsEnemy(e)

\* Every pair is handled once: what has passed the player is not asked again
\* when the swing is spent and the shield is up.
Collided ==
    /\ \/ /\ phase = "collide" /\ phase' = "strike"
          /\ \A s \in shots : ~ShotMeetsPlayer(s)
       \/ /\ phase = "strike" /\ phase' = "finish"
          /\ \A s \in shots, e \in Living : ~BeamMeetsEnemy(s, e)
          /\ \A e \in Living : ~SwordMeetsEnemy(e)
    /\ UNCHANGED <<room, player, hasSword, input, stride, sword, enemies,
                   waiting, shots, gameOverPending, clock, request>>

-----------------------------------------------------------------------------
(* The end of the frame.                                                   *)

\* What was spawned joins the level and every actor's place is remembered.
ActorsJoin ==
    /\ sword' = [sword EXCEPT !.fresh = FALSE,
                              !.placed = sword # NoSword /\ ~sword.fresh]
    /\ enemies' = [e \in DOMAIN enemies |-> EndFrame(enemies[e])]
    /\ shots' = {[s EXCEPT !.fresh = FALSE, !.prev = s.at] : s \in shots}

FinishFrame ==
    /\ phase = "finish" /\ request = NoRequest
    /\ phase' = "tick"
    /\ player' = EndFrame(player)
    /\ ActorsJoin
    /\ UNCHANGED <<room, hasSword, input, stride, waiting, gameOverPending,
                   clock, request>>

\* The level asked for takes over; what waits to join this one goes on
\* waiting.
LeaveLevel ==
    /\ phase = "finish" /\ request # NoRequest
    /\ phase' = "away"
    /\ UNCHANGED <<room, player, hasSword, input, stride, sword, enemies,
                   waiting, shots, gameOverPending, clock, request>>

\* It runs again, with the health and the sword the game has saved.
ReturnWith(hp, equipped) ==
    /\ phase = "away"
    /\ phase' = "tick" /\ request' = NoRequest
    /\ player' = [EndFrame(player) EXCEPT !.hp = hp]
    /\ hasSword' = (hasSword \/ equipped)
    /\ ActorsJoin
    /\ UNCHANGED <<room, input, stride, waiting, gameOverPending, clock>>

CombatTypeOK(kinds, maxEnemyHp) ==
    /\ phase \in {"tick", "player", "walk", "pushed", "enemies", "contact",
                  "collide", "strike", "finish", "away"}
    /\ room \in Int \X Int
    /\ player \in PawnRecord({"Player"}, MaxHp)
    /\ hasSword \in BOOLEAN
    /\ input \in Directions \cup {NoDirection}
    /\ stride \in [dir : Directions \cup {NoDirection}, left : FrameSteps]
    /\ sword \in [dir : Directions \cup {NoDirection}, fresh : BOOLEAN,
                    placed : BOOLEAN]
    /\ \A e \in DOMAIN enemies : enemies[e] \in PawnRecord(kinds, maxEnemyHp)
    /\ waiting \subseteq DOMAIN enemies
    /\ \A s \in shots : /\ s.at \in Int \X Int /\ s.prev \in Int \X Int
                        /\ s.fresh \in BOOLEAN
    /\ gameOverPending \in BOOLEAN /\ clock \in Nat
=============================================================================
