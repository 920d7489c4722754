---------------------------- MODULE LocalDungeon ----------------------------
(***************************************************************************)
(* Dungeon 1 of the single-player game (Level/DungeonLevel.cpp): a row of  *)
(* rooms with Octoroks, Aquamentus in the boss room, the heart and the     *)
(* triforce it guards.  The player leaves it for the overworld, the game   *)
(* over screen or the ending, and may come back from the overworld.        *)
(***************************************************************************)
EXTENDS LocalCombat

CONSTANTS
    Boss,                \* Aquamentus
    BossHp,
    BossRoom, LastRoom, RandomEnemyRoomLast,    \* columns of the row of rooms
    EntranceTile, BossTile, HeartTile, TriforceTile,
    ExitTileX, ExitTileWidth,
    ClearFrames          \* length of the ending's timer

ASSUME DungeonAssumption ==
    /\ Boss \notin EnemyIds /\ BossHp \in Nat \ {0}
    /\ {BossRoom, LastRoom, RandomEnemyRoomLast} \subseteq Nat
    /\ ClearFrames \in Nat \ {0}

\* The rooms fill the map (DungeonMap::Width, Height); Octoroks, Aquamentus and
\* the triforce have rooms of their own, in this order (Level1.txt).  The exit
\* is in the first room, where the player starts; the boss starts off the edges
\* its room is entered by; and nobody crosses a room in a frame.
ASSUME LayoutAssumption ==
    /\ MapTileWidth = (LastRoom + 1) * RoomTileWidth
    /\ MapTileHeight = RoomTileHeight
    /\ RandomEnemyRoomLast < BossRoom /\ BossRoom < LastRoom
    /\ {EntranceTile, BossTile, HeartTile, TriforceTile} \subseteq Nat \X Nat
    /\ EntranceTile[1] < RoomTileWidth /\ EntranceTile[2] < RoomTileHeight
    /\ ExitTileX \in Nat /\ ExitTileWidth \in Nat
    /\ ExitTileX + ExitTileWidth <= RoomTileWidth
    /\ BossTile[1] * TileWidth >= BossRoom * RoomWidth + PawnSize[1]
    /\ BossTile[1] * TileWidth + BossSize[1] + PawnSize[1] <= (BossRoom + 1) * RoomWidth
    /\ BossTile[2] * TileHeight + BossSize[2] <= RoomHeight
    /\ TriforceTile[1] >= LastRoom * RoomTileWidth
    /\ PawnSize[1] + StepsPerFrame <= RoomWidth

VARIABLES
    bossDefeated, heartCollected, triforceCollected, clearPending,
    bossKilled      \* history: Aquamentus has been killed in this game

dungeonVars == <<bossDefeated, heartCollected, triforceCollected, clearPending,
                 bossKilled>>
vars == <<combatVars, dungeonVars>>

-----------------------------------------------------------------------------
(* Rooms.                                                                  *)

SpawnRoomEnemies(r, playerAt) ==
    SpawnPlans({"Octorok"}, SpawnPositions(r, playerAt))

SpawnBoss ==
    [e \in {Boss} |-> NewPawn("Aquamentus", TileCell(BossTile), BossHp, Left)]

\* What a room that is entered may hold.
RoomEnemies(r, playerAt) ==
    CASE r[1] <= RandomEnemyRoomLast -> SpawnRoomEnemies(r, playerAt)
      [] r[1] = BossRoom /\ ~bossDefeated -> {SpawnBoss}
      [] OTHER -> {<<>>}

\* Mistake: what flies in the old room flies on in the new one.
TryChangeRoomKeepingShots(r, playerAt) ==
    IF r = room \/ r[1] \notin 0 .. LastRoom \/ r[2] # 0
    THEN UNCHANGED <<room, enemies, shots>>
    ELSE /\ room' = r
         /\ enemies' \in RoomEnemies(r, playerAt)
         /\ UNCHANGED shots

\* The old room's enemies and projectiles are destroyed, the new room's
\* spawned around the player where it now stands.
TryChangeRoom(r, playerAt) ==
    IF r = room \/ r[1] \notin 0 .. LastRoom \/ r[2] # 0
    THEN UNCHANGED <<room, enemies, shots>>
    ELSE /\ room' = r
         /\ shots' = {}
         /\ enemies' \in RoomEnemies(r, playerAt)

-----------------------------------------------------------------------------
(* Entering.                                                               *)

\* The first visit: BeginPlay spawns the player with what the game has saved
\* of it, and the enemies of the first room.  Nobody gets here unarmed.
Init ==
    LET at == TileCell(EntranceTile)
    IN /\ phase = "tick" /\ room = <<0, 0>> /\ hasSword = TRUE
       /\ \E hp \in 0 .. MaxHp :
             player = EndFrame(NewPawn("Player", at, hp, Up))
       /\ bossDefeated = FALSE /\ heartCollected = FALSE
       /\ triforceCollected = FALSE /\ clearPending = FALSE
       /\ \E plan \in RoomEnemies(<<0, 0>>, at) :
             enemies = [e \in DOMAIN plan |-> EndFrame(plan[e])]
       /\ input = NoDirection /\ stride = NoStride /\ sword = NoSword
       /\ waiting = {} /\ shots = {}
       /\ gameOverPending = FALSE /\ clock = 0 /\ request = NoRequest
       /\ bossKilled = FALSE

\* Coming back from the overworld: the level is as it was left, the health is
\* what is left of what was saved.
Return ==
    /\ request = "Overworld" /\ ~IsDead(player)
    /\ \E hp \in 0 .. player.hp : ReturnWith(hp, TRUE)
    /\ UNCHANGED dungeonVars

-----------------------------------------------------------------------------
(* The level's Tick.                                                       *)

\* The triforce is taken: nothing but the fanfare's timer runs.
AwaitClear ==
    /\ phase = "player" /\ clearPending
    /\ clock' = Smaller(clock + 1, ClearFrames)
    /\ request' = IF clock' = ClearFrames THEN "Clear" ELSE request
    /\ phase' = "collide" /\ input' = NoDirection
    /\ UNCHANGED <<room, player, hasSword, stride, sword, enemies, waiting,
                   shots, gameOverPending>>
    /\ UNCHANGED dungeonVars

\* Mistake: the holder of the triforce goes on playing.
TickAfterTheTriforce ==
    \/ AwaitClear
    \/ /\ AwaitGameOver \/ StartKnockback \/ StartWalk \/ StandStill \/ Attack
       /\ UNCHANGED dungeonVars

Tick ==
    \/ AwaitClear
    \/ /\ ~clearPending
       /\ AwaitGameOver \/ StartKnockback \/ StartWalk \/ StandStill \/ Attack
       /\ UNCHANGED dungeonVars

\* Walking down out of the entrance leaves the dungeon.
LeavesDungeon ==
    /\ stride.dir = Down
    /\ LET box == Box(Destination, PawnSize)
       IN /\ box.left < (ExitTileX + ExitTileWidth) * TileWidth
          /\ box.right >= ExitTileX * TileWidth
          /\ box.bottom >= MapTileHeight * TileHeight

TryExitDungeon ==
    /\ StepIn({"walk"}) /\ LeavesDungeon
    /\ request' = "Overworld"
    /\ stride' = [stride EXCEPT !.left = 0]
    /\ UNCHANGED <<phase, room, player, hasSword, input, sword, enemies,
                   waiting, shots, gameOverPending, clock>>
    /\ UNCHANGED dungeonVars

CanStep == PlayerCanMoveTo(Destination, FALSE)

Stopped ==
    /\ \/ StepIn({"walk"}) /\ ~LeavesDungeon
       \/ StepIn({"pushed"})
    /\ ~CanStep
    /\ Blocked
    /\ UNCHANGED dungeonVars

IsPlayerOverlappingTile(at, tile) ==
    Overlaps(Box(at, PawnSize), Box(TileCell(tile), TileSize))

TryCollectItems(at) ==
    LET heart == /\ bossDefeated /\ ~heartCollected
                 /\ IsPlayerOverlappingTile(at, HeartTile)
        triforce == /\ bossDefeated /\ ~triforceCollected
                    /\ IsPlayerOverlappingTile(at, TriforceTile)
    IN /\ heartCollected' = (heartCollected \/ heart)
       /\ triforceCollected' = (triforceCollected \/ triforce)
       /\ clearPending' = (clearPending \/ triforce)
       /\ clock' = IF triforce THEN 0 ELSE clock
       /\ player' = [player EXCEPT !.at = at,
                                   !.hp = IF heart THEN MaxHp ELSE @]

\* A cell walked: the player moves, perhaps into another room, and takes what
\* lies there.
UpdatePlayerMovement ==
    /\ StepIn({"walk"}) /\ ~LeavesDungeon /\ CanStep
    /\ TryChangeRoom(NextRoom, StepEnd)
    /\ TryCollectItems(StepEnd)
    /\ stride' = [stride EXCEPT !.left = @ - 1]
    /\ UNCHANGED <<phase, hasSword, input, sword, waiting, gameOverPending,
                   request, bossDefeated, bossKilled>>

\* A cell pushed: the same, but nothing is taken.
UpdatePawnKnockback ==
    /\ StepIn({"pushed"}) /\ CanStep
    /\ TryChangeRoom(NextRoom, StepEnd)
    /\ player' = [player EXCEPT !.at = StepEnd]
    /\ stride' = [stride EXCEPT !.left = @ - 1]
    /\ UNCHANGED <<phase, hasSword, input, sword, waiting, gameOverPending,
                   clock, request>>
    /\ UNCHANGED dungeonVars

UpdateEnemyMovement ==
    /\ \/ EndStride
       \/ \E e \in waiting : EnemyMoves(e)
       \/ EnemiesMoved
    /\ UNCHANGED dungeonVars

\* Mistake: a boss that no hit can hurt just now is taken for a dead one.
BossFoundInvulnerable == Boss \in DOMAIN enemies /\ ~CanBeHurt(enemies[Boss])

BossFoundDead == Boss \in DOMAIN enemies /\ IsDead(enemies[Boss])

\* A boss found dead is noted, then the player is struck by what it touches.
UpdateBossState ==
    /\ Contact
    /\ bossDefeated' = (bossDefeated \/ BossFoundDead)
    /\ UNCHANGED <<heartCollected, triforceCollected, clearPending, bossKilled>>

-----------------------------------------------------------------------------
(* The rest of the frame.                                                  *)

ProcessCollision ==
    /\ \/ Collisions
       \/ Collided
    /\ bossKilled' = (bossKilled \/ (/\ Boss \in DOMAIN enemies'
                                     /\ IsDead(enemies'[Boss])))
    /\ UNCHANGED <<bossDefeated, heartCollected, triforceCollected,
                   clearPending>>

EngineStep ==
    /\ ActorsTick \/ FinishFrame \/ LeaveLevel
    /\ UNCHANGED dungeonVars

Frame ==
    \/ EngineStep
    \/ Tick
    \/ TryExitDungeon \/ Stopped \/ UpdatePlayerMovement \/ UpdatePawnKnockback
    \/ UpdateEnemyMovement
    \/ UpdateBossState
    \/ ProcessCollision

Next == Frame \/ Return

\* The engine's loop never stops; what the user does is not scheduled.
Spec == Init /\ [][Next]_vars /\ WF_vars(Frame)
-----------------------------------------------------------------------------
(* Properties.                                                             *)

\* Every variable stays within its type.
TypeOK ==
    /\ CombatTypeOK({"Octorok", "Aquamentus"}, BossHp)
    /\ room \in (0 .. LastRoom) \X {0}
    /\ DOMAIN enemies \subseteq EnemyIds \cup {Boss}
    /\ bossDefeated \in BOOLEAN /\ heartCollected \in BOOLEAN
    /\ triforceCollected \in BOOLEAN /\ clearPending \in BOOLEAN
    /\ request \in {NoRequest, "Overworld", "GameOver", "Clear"}
    /\ bossKilled \in BOOLEAN

\* However the player, who walks and is pushed from room to room, and the
\* enemies, who are spawned around it and move after it, take their turns, no
\* living enemy ever stands on the player: both would then be stuck, as
\* CanMoveTo refuses every step of either.
NobodyStandsOnThePlayer ==
    \A e \in Living : ~Overlaps(PawnBox(enemies[e]), PawnBox(player))

\* A room's actors end with the player's visit: every living enemy is inside
\* the room shown, and whatever still flies was thrown there.
RoomHoldsItsOwn ==
    /\ TypeOK
    /\ \A e \in Living : IsInsideRoom(PawnBox(enemies[e]), room)
    /\ \A s \in shots : s.by # "player" => s.by \in DOMAIN enemies

\* The rewards are the boss's: neither the heart nor the triforce is had
\* before Aquamentus was killed, and who has the triforce is alive when the
\* ending comes, though nobody looks at its health any more.
RewardsAreEarned ==
    /\ bossDefeated \/ heartCollected \/ triforceCollected => bossKilled
    /\ clearPending => triforceCollected /\ ~IsDead(player)

\* To the rest of the game the dungeon, with all its rooms and frames, is a
\* visit: hits take health and only the heart restores it, once; the triforce
\* is the boss's, and its holder comes to no more harm; each ending is asked
\* for by the one it is for.
Visit == INSTANCE LevelVisit WITH
    Exits <- {"Overworld"},
    visit <- [hp |-> player.hp, hasSword |-> hasSword, boss |-> bossDefeated,
              heart |-> heartCollected, triforce |-> triforceCollected,
              request |-> request, away |-> phase = "away"]
ImplementsVisit == Visit!Spec

\* Both endings arrive: a death in the dungeon is followed by the game over
\* screen (or by the overworld, left for in the same frame), the triforce by
\* the ending.
EndingsArrive ==
    /\ IsDead(player) ~> (phase = "away")
    /\ clearPending ~> (phase = "away" /\ request = "Clear")

\* Once Aquamentus has been killed it stays dead (docs/z1/TESTING.md: after it
\* is killed the heart and the triforce follow).  The code notes the kill only
\* in a later frame's UpdateBossState, after the player has moved: a player
\* who leaves the room in between finds a new boss.
KilledBossStaysDead ==
    bossKilled /\ Boss \in DOMAIN enemies => IsDead(enemies[Boss])
=============================================================================
