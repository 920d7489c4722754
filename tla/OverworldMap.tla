---------------------------- MODULE OverworldMap ----------------------------
(***************************************************************************)
(* The geometry of the overworld as Z1Server sees it                       *)
(* (Z1Server/OverworldSimulation.cpp, Types.h): cells, tiles and rooms, the *)
(* blocked tiles, and what fits where.  Nothing here changes: the map is   *)
(* read before the first tick.                                             *)
(*                                                                         *)
(* A position is [x, y] in cells, a tile or a room [x, y] in tiles or      *)
(* rooms; a box is [x, y, w, h] in cells.                                  *)
(***************************************************************************)
EXTENDS Integers, FiniteSets

CONSTANTS
  TileCellWidth, TileCellHeight,          \* 10 and 5 in the code
  RoomWidth, RoomHeight,                  \* tiles of a room, 16 and 11
  OverworldRoomColumns, OverworldRoomRows,  \* rooms of the map, 16 and 8
  PlayerBoxWidth, PlayerBoxHeight,        \* 8 and 5
  EnemyBoxWidth, EnemyBoxHeight,          \* Enemy::BoxWidth and BoxHeight, 8 and 5
  BlockedTiles                            \* the tiles marked X in the blocking map

ASSUME SizesAssumption ==
  /\ \A n \in {TileCellWidth, TileCellHeight, RoomWidth, RoomHeight,
               OverworldRoomColumns, OverworldRoomRows, PlayerBoxWidth,
               PlayerBoxHeight, EnemyBoxWidth, EnemyBoxHeight} : n \in Nat \ {0}
  /\ EnemyBoxWidth <= TileCellWidth /\ EnemyBoxHeight <= TileCellHeight

MapWidth == OverworldRoomColumns * RoomWidth
MapHeight == OverworldRoomRows * RoomHeight

RoomCellWidth == RoomWidth * TileCellWidth
RoomCellHeight == RoomHeight * TileCellHeight

MapCellWidth == MapWidth * TileCellWidth
MapCellHeight == MapHeight * TileCellHeight

ASSUME BlockedTilesAssumption ==
  BlockedTiles \subseteq [x : 0 .. MapWidth - 1, y : 0 .. MapHeight - 1]

Position == [x : 0 .. MapCellWidth - 1, y : 0 .. MapCellHeight - 1]

RoomCoordinate == [x : 0 .. OverworldRoomColumns - 1, y : 0 .. OverworldRoomRows - 1]

NoRoom == [x |-> -1, y |-> -1]  \* std::nullopt

\* The tiles of one room, relative to it.
LocalTile == [x : 0 .. RoomWidth - 1, y : 0 .. RoomHeight - 1]

Box(p, w, h) == [x |-> p.x, y |-> p.y, w |-> w, h |-> h]

Overlap(a, b) ==
  /\ a.x < b.x + b.w /\ b.x < a.x + a.w
  /\ a.y < b.y + b.h /\ b.y < a.y + a.h

TileBox(t) == [x |-> t.x * TileCellWidth, y |-> t.y * TileCellHeight,
               w |-> TileCellWidth, h |-> TileCellHeight]

\* Mistake: the corner is checked for the box.
CanPlaceCorner(b) ==
  /\ b.x >= 0 /\ b.y >= 0
  /\ b.x + b.w <= MapCellWidth /\ b.y + b.h <= MapCellHeight
  /\ \A t \in BlockedTiles : ~Overlap([b EXCEPT !.w = 1, !.h = 1], TileBox(t))

\* The tiles from x / TileCellWidth to (x + width - 1) / TileCellWidth are
\* those the box overlaps.
CanPlaceBox(b) ==
  /\ b.x >= 0 /\ b.y >= 0
  /\ b.x + b.w <= MapCellWidth /\ b.y + b.h <= MapCellHeight
  /\ \A t \in BlockedTiles : ~Overlap(b, TileBox(t))

PlayerBox(p) == Box(p, PlayerBoxWidth, PlayerBoxHeight)
EnemyBox(p)  == Box(p, EnemyBoxWidth, EnemyBoxHeight)
ProjectileBox(p) == Box(p, 1, 1)

CanPlacePlayer(p) == CanPlaceBox(PlayerBox(p))
CanPlaceEnemy(p) == CanPlaceBox(EnemyBox(p))
CanPlaceProjectile(p) == CanPlaceBox(ProjectileBox(p))

GetRoomAt(p) ==
  IF p \in Position
  THEN [x |-> p.x \div RoomCellWidth, y |-> p.y \div RoomCellHeight]
  ELSE NoRoom

ToLocalTile(room, p) ==
  [x |-> p.x \div TileCellWidth - room.x * RoomWidth,
   y |-> p.y \div TileCellHeight - room.y * RoomHeight]

ToWorldCellPosition(room, t) ==
  [x |-> (room.x * RoomWidth + t.x) * TileCellWidth,
   y |-> (room.y * RoomHeight + t.y) * TileCellHeight]

-----------------------------------------------------------------------------
(* Directions.                                                             *)

MoveDirections == {"None", "Up", "Down", "Left", "Right"}

Facings == MoveDirections \ {"None"}

GetMoveDelta(d) ==
  [x |-> CASE d = "Left" -> -1 [] d = "Right" -> 1 [] OTHER -> 0,
   y |-> CASE d = "Up" -> -1 [] d = "Down" -> 1 [] OTHER -> 0]

Step(p, d) == [x |-> p.x + GetMoveDelta(d).x, y |-> p.y + GetMoveDelta(d).y]

Distance(m, n) == IF m < n THEN n - m ELSE m - n

\* Along the longer of the two distances, along x when they are equal.
GetDirectionToward(from, to) ==
  IF Distance(from.x, to.x) >= Distance(from.y, to.y) /\ from.x # to.x
  THEN IF from.x < to.x THEN "Right" ELSE "Left"
  ELSE IF from.y < to.y THEN "Down" ELSE IF from.y > to.y THEN "Up" ELSE "None"

LengthSquared(from, to) ==
  (to.x - from.x) * (to.x - from.x) + (to.y - from.y) * (to.y - from.y)

-----------------------------------------------------------------------------
(* BuildNavigationGrid, and what RoomPathfinder::FindPath returns on it: a *)
(* shortest path over walkable tiles, of which the simulation follows the  *)
(* first tile.  Several may be the first tile of a shortest path; which of *)
(* them the search finds is left open.                                     *)

Walkable(room) == {t \in LocalTile : CanPlaceEnemy(ToWorldCellPosition(room, t))}

Adjacent(s, t) == Distance(s.x, t.x) + Distance(s.y, t.y) = 1

\* The walkable tiles at most n steps away from goal.
Within(room, goal) ==
  LET tiles[n \in Nat] ==
        IF n = 0 THEN {goal} \cap Walkable(room)
        ELSE tiles[n - 1] \cup
             {t \in Walkable(room) : \E s \in tiles[n - 1] : Adjacent(s, t)}
  IN [n \in 0 .. RoomWidth * RoomHeight |-> tiles[n]]

\* Empty when start or goal is not walkable, when there is no path, and when
\* start is the goal.
FirstTiles(room, start, goal) ==
  LET near == Within(room, goal)
  IN {t \in Walkable(room) :
        /\ Adjacent(start, t)
        /\ \E n \in 1 .. RoomWidth * RoomHeight :
             t \in near[n - 1] /\ start \in near[n] \ near[n - 1]}
=============================================================================
