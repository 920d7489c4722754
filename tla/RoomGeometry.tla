---------------------------- MODULE RoomGeometry ----------------------------
(***************************************************************************)
(* The geometry the local levels are played on: boxes of console cells     *)
(* (Craft::Box2D), the tile map that says where a box may stand            *)
(* (Craft::Tilemap) and the rooms a map is cut into.                       *)
(*                                                                         *)
(* A position is <<x, y>>, the cell of a box's upper left corner; y grows  *)
(* downwards.  A direction is <<dx, dy>>.                                  *)
(***************************************************************************)
EXTENDS Integers

CONSTANTS
    TileWidth, TileHeight,          \* cells of a tile (TileCellSize)
    RoomTileWidth, RoomTileHeight,  \* tiles of a room
    MapTileWidth, MapTileHeight,    \* tiles of the map
    BlockedTiles                    \* tiles <<x, y>> that nobody walks on

ASSUME GeometryAssumption ==
    /\ TileWidth \in Nat \ {0} /\ TileHeight \in Nat \ {0}
    /\ RoomTileWidth \in Nat \ {0} /\ RoomTileHeight \in Nat \ {0}
    /\ MapTileWidth \in Nat \ {0} /\ MapTileHeight \in Nat \ {0}
    /\ BlockedTiles \subseteq (Int \X Int)

Up    == <<0, -1>>
Right == <<1, 0>>
Down  == <<0, 1>>
Left  == <<-1, 0>>
Directions == {Up, Right, Down, Left}
NoDirection == <<0, 0>>

Plus(p, q)    == <<p[1] + q[1], p[2] + q[2]>>
Minus(p, q)   == <<p[1] - q[1], p[2] - q[2]>>
Times(k, d)   == <<k * d[1], k * d[2]>>
Opposite(d)   == <<-d[1], -d[2]>>
Magnitude(n)  == IF n < 0 THEN -n ELSE n
Smaller(m, n) == IF m < n THEN m ELSE n
Larger(m, n)  == IF m < n THEN n ELSE m

-----------------------------------------------------------------------------
(* Boxes: corner at, size <<width, height>>, edges included.               *)

Box(at, size) == [left   |-> at[1], top    |-> at[2],
                  right  |-> at[1] + size[1] - 1,
                  bottom |-> at[2] + size[2] - 1]

ShareColumns(a, b) == a.left <= b.right /\ b.left <= a.right
ShareRows(a, b)    == a.top <= b.bottom /\ b.top <= a.bottom

Overlaps(a, b) == ShareColumns(a, b) /\ ShareRows(a, b)

\* Two boxes touch: they overlap, or lie edge to edge.  Corners do not count.
IsSideContact(a, b) ==
    \/ /\ a.right + 1 >= b.left /\ b.right + 1 >= a.left
       /\ ShareRows(a, b)
    \/ /\ a.bottom + 1 >= b.top /\ b.bottom + 1 >= a.top
       /\ ShareColumns(a, b)

IsInside(a, outer) ==
    /\ a.left >= outer.left /\ a.right <= outer.right
    /\ a.top >= outer.top /\ a.bottom <= outer.bottom

\* What a box sweeps over in a frame that takes it from one place to another.
SweptBox(from, to, size) ==
    [left   |-> Smaller(from[1], to[1]), top |-> Smaller(from[2], to[2]),
     right  |-> Larger(from[1], to[1]) + size[1] - 1,
     bottom |-> Larger(from[2], to[2]) + size[2] - 1]

\* A box may stand on the map: inside it, and on no blocked tile.
CanPlaceBox(box) ==
    /\ box.left >= 0 /\ box.right < MapTileWidth * TileWidth
    /\ box.top >= 0 /\ box.bottom < MapTileHeight * TileHeight
    /\ \A x \in (box.left \div TileWidth) .. (box.right \div TileWidth),
          y \in (box.top \div TileHeight) .. (box.bottom \div TileHeight) :
          <<x, y>> \notin BlockedTiles

-----------------------------------------------------------------------------
(* Rooms.                                                                  *)

RoomWidth  == RoomTileWidth * TileWidth
RoomHeight == RoomTileHeight * TileHeight

GetRoomCoordinate(cell) == <<cell[1] \div RoomWidth, cell[2] \div RoomHeight>>

GetRoomCellOrigin(room) == <<room[1] * RoomWidth, room[2] * RoomHeight>>

IsInsideRoom(box, room) ==
    IsInside(box, Box(GetRoomCellOrigin(room), <<RoomWidth, RoomHeight>>))

\* The room the front edge of a box moving in a direction lies in.
GetRoomCoordinateAtLeadingEdge(at, size, direction) ==
    GetRoomCoordinate(
        CASE direction[1] > 0 -> Plus(at, <<size[1] - 1, 0>>)
          [] direction[1] <= 0 /\ direction[2] > 0 ->
                Plus(at, <<0, size[2] - 1>>)
          [] OTHER -> at)

\* Where a box that enters a room in a direction is put: just inside it.
SnapIntoRoom(at, size, room, direction) ==
    LET origin == GetRoomCellOrigin(room)
    IN CASE direction[1] > 0 -> <<origin[1], at[2]>>
         [] direction[1] < 0 -> <<origin[1] + RoomWidth - size[1], at[2]>>
         [] direction[1] = 0 /\ direction[2] > 0 -> <<at[1], origin[2]>>
         [] direction[1] = 0 /\ direction[2] < 0 ->
                <<at[1], origin[2] + RoomHeight - size[2]>>
         [] OTHER -> at

\* Where something of a size leaves a box in a direction: edge to edge with
\* it, centred on the side it leaves by.
GetProjectileSpawnPosition(at, size, shotSize, direction) ==
    LET place(i) ==
            CASE direction[i] > 0 -> at[i] + size[i]
              [] direction[i] < 0 -> at[i] - shotSize[i]
              [] OTHER -> at[i] + (size[i] - shotSize[i]) \div 2
    IN <<place(1), place(2)>>
=============================================================================
