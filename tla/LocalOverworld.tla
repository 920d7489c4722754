--------------------------- MODULE LocalOverworld ---------------------------
(***************************************************************************)
(* The overworld of the single-player game (Level/OverworldLevel.cpp): a   *)
(* path of rooms that may be entered among others that may not, Octoroks,  *)
(* Moblins and Tektites in all but the first, and two entrances, the sword *)
(* cave and the dungeon, which is closed to the unarmed.                   *)
(***************************************************************************)
EXTENDS LocalCombat

CONSTANTS
    AccessibleRooms, StartRoom,
    StartTile,                       \* where a new game's player stands
    EnemyKinds,
    SwordCaveTile, Dungeon1Tile      \* blocked tiles that are entrances

ASSUME OverworldAssumption ==
    /\ StartRoom \in AccessibleRooms
    /\ EnemyKinds \subseteq {"Octorok", "Moblin", "Tektite"}
    /\ {SwordCaveTile, Dungeon1Tile} \subseteq BlockedTiles

\* A new game starts on a walkable tile of the map, in the first room
\* (BlockingMap.txt).
ASSUME LayoutAssumption ==
    /\ AccessibleRooms \subseteq Int \X Int
    /\ StartTile \in (0 .. MapTileWidth - 1) \X (0 .. MapTileHeight - 1)
    /\ StartTile \notin BlockedTiles
    /\ StartRoom = <<StartTile[1] \div RoomTileWidth, StartTile[2] \div RoomTileHeight>>

vars == combatVars

-----------------------------------------------------------------------------
(* Rooms.                                                                  *)

\* The way an enemy first looks: an Octorok that has just been made will turn
\* anywhere, a Moblin looks right, a Tektite rests.
FirstLook(kind) == IF kind = "Moblin" THEN Right ELSE NoDirection

\* SpawnRoomEnemies: what a room that is entered may hold.
SpawnRoomEnemies(r, playerAt) ==
    IF r = StartRoom THEN {<<>>}
    ELSE {[e \in DOMAIN plan |-> [plan[e] EXCEPT
                                     !.dir = FirstLook(plan[e].kind)]] :
              plan \in SpawnPlans(EnemyKinds, SpawnPositions(r, playerAt))}

\* Mistake: what flies in the old room flies on in the new one.
TryChangeRoomKeepingShots(r, playerAt) ==
    IF r = room
    THEN UNCHANGED <<room, enemies, shots>>
    ELSE /\ room' = r
         /\ enemies' \in SpawnRoomEnemies(r, playerAt)
         /\ UNCHANGED shots

TryChangeRoom(r, playerAt) ==
    IF r = room
    THEN UNCHANGED <<room, enemies, shots>>
    ELSE /\ room' = r
         /\ shots' = {}
         /\ enemies' \in SpawnRoomEnemies(r, playerAt)

-----------------------------------------------------------------------------
(* Entering.                                                               *)

\* BeginPlay of a new game.
Init ==
    /\ phase = "tick" /\ room = StartRoom
    /\ player = EndFrame(NewPawn("Player", TileCell(StartTile), MaxHp, Up))
    /\ hasSword = FALSE
    /\ input = NoDirection /\ stride = NoStride /\ sword = NoSword
    /\ enemies = <<>> /\ waiting = {} /\ shots = {}
    /\ gameOverPending = FALSE /\ clock = 0 /\ request = NoRequest

\* Coming back: the cave may have given the sword and leaves the health alone,
\* the dungeon may have taken some or restored it all.
Return ==
    \/ /\ request = "SwordCave" /\ ~IsDead(player)
       /\ \E found \in BOOLEAN : ReturnWith(player.hp, found)
    \/ /\ request = "Dungeon1" /\ ~IsDead(player)
       /\ \E hp \in 0 .. MaxHp : ReturnWith(hp, TRUE)

-----------------------------------------------------------------------------
(* The level's Tick.                                                       *)

Tick == AwaitGameOver \/ StartKnockback \/ StartWalk \/ StandStill \/ Attack

\* ResolveEntrance: the entrance a step runs into.
RunsInto(tile) ==
    LET box == Box(Destination, PawnSize)
    IN /\ box.left >= 0 /\ box.right < MapTileWidth * TileWidth
       /\ box.top >= 0 /\ box.bottom < MapTileHeight * TileHeight
       /\ Overlaps(box, Box(TileCell(tile), TileSize))

\* Mistake: the dungeon is open to the unarmed.
EntrancesToAll == {e \in {"SwordCave", "Dungeon1"} :
                      \/ e = "SwordCave" /\ RunsInto(SwordCaveTile)
                      \/ e = "Dungeon1" /\ RunsInto(Dungeon1Tile)}

Entrances == {e \in {"SwordCave", "Dungeon1"} :
                 \/ e = "SwordCave" /\ RunsInto(SwordCaveTile)
                 \/ e = "Dungeon1" /\ RunsInto(Dungeon1Tile) /\ hasSword}

TryEnterEntrance ==
    /\ StepIn({"walk"})
    /\ request' \in Entrances
    /\ stride' = [stride EXCEPT !.left = 0]
    /\ UNCHANGED <<phase, room, player, hasSword, input, sword, enemies,
                   waiting, shots, gameOverPending, clock>>

IsAccessibleRoom == NextRoom \in AccessibleRooms

CanStep == /\ PlayerCanMoveTo(Destination, phase = "pushed")
           /\ IsAccessibleRoom

Stopped ==
    /\ \/ StepIn({"walk"}) /\ Entrances = {}
       \/ StepIn({"pushed"})
    /\ ~CanStep
    /\ Blocked

Moves ==
    /\ CanStep
    /\ TryChangeRoom(NextRoom, StepEnd)
    /\ player' = [player EXCEPT !.at = StepEnd]
    /\ stride' = [stride EXCEPT !.left = @ - 1]
    /\ UNCHANGED <<phase, hasSword, input, sword, waiting, gameOverPending,
                   clock, request>>

\* A cell walked: an entrance is looked for first, as its tile is blocked.
UpdatePlayerMovement == StepIn({"walk"}) /\ Entrances = {} /\ Moves

\* A cell pushed.
UpdatePawnKnockback == StepIn({"pushed"}) /\ Moves

UpdateEnemyMovement ==
    \/ EndStride
    \/ \E e \in waiting : EnemyMoves(e)
    \/ EnemiesMoved

TakeContactDamageToPlayer == Contact

Frame ==
    \/ ActorsTick
    \/ Tick
    \/ TryEnterEntrance \/ Stopped \/ UpdatePlayerMovement
    \/ UpdatePawnKnockback
    \/ UpdateEnemyMovement
    \/ TakeContactDamageToPlayer
    \/ Collisions \/ Collided
    \/ FinishFrame \/ LeaveLevel

Next == Frame \/ Return

\* The engine's loop never stops; what the user does is not scheduled.
Spec == Init /\ [][Next]_vars /\ WF_vars(Frame)
-----------------------------------------------------------------------------
(* Properties.                                                             *)

\* Every variable stays within its type.
TypeOK ==
    /\ CombatTypeOK(EnemyKinds, 1)
    /\ room \in AccessibleRooms
    /\ DOMAIN enemies \subseteq EnemyIds
    /\ request \in {NoRequest, "SwordCave", "Dungeon1", "GameOver"}

\* Walking, pushed, snapped or back from elsewhere, the player's box is wholly
\* inside the room that is shown, and that room is on the path
\* (docs/z1/TESTING.md: the player's box is inside the new room after a change
\* of rooms and after a knockback).  Nobody stands in a wall, where the room's
\* edge puts the player included; only Tektites may, and they stay in the room.
NobodyIsMisplaced ==
    /\ IsInsideRoom(PawnBox(player), room) /\ room \in AccessibleRooms
    /\ CanPlaceBox(PawnBox(player))
    /\ \A e \in Living : /\ IsInsideRoom(PawnBox(enemies[e]), room)
                         /\ enemies[e].kind # "Tektite" =>
                                CanPlaceBox(PawnBox(enemies[e]))

\* What flies belongs to the room shown, whichever way the player came in and
\* however the frame was cut short: it is inside that room, and was thrown by
\* the player or by one of that room's enemies.
ShotsBelongToTheRoom ==
    /\ TypeOK
    /\ \A s \in shots :
        /\ s.by # "player" => s.by \in DOMAIN enemies
        /\ phase = "player" /\ ~s.fresh => IsInsideRoom(Box(s.at, ShotSize(s)), room)

\* To the rest of the game the overworld is a visit: nothing heals in it, the
\* living leave it by an entrance, the dead for the game over screen.
Visit == INSTANCE LevelVisit WITH
    Exits <- {"SwordCave", "Dungeon1"},
    visit <- [hp |-> player.hp, hasSword |-> hasSword, boss |-> FALSE,
              heart |-> FALSE, triforce |-> FALSE, request |-> request,
              away |-> phase = "away"]
ImplementsVisit == Visit!Spec
=============================================================================
