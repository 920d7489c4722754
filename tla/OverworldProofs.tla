-------------------------- MODULE OverworldProofs --------------------------
(***************************************************************************)
(* Proofs about OverworldSimulation.tla, for every map, every set of       *)
(* players and enemies and every value of the tick counts: everybody stays *)
(* where they may stand and enemies keep to the grid of tiles, an enemy    *)
(* has one projectile at most, combat events reach their attacker, the     *)
(* dead do nothing and a blow or a spear hits one target.                  *)
(***************************************************************************)
EXTENDS OverworldSimulation, FiniteSetTheorems, TLAPS

-----------------------------------------------------------------------------
(* The grid.  World positions are products of sizes: the first lemmas are  *)
(* about one axis, with plain integers for its sizes.                      *)

LEMMA Sizes ==
  /\ TileCellWidth \in Nat \ {0} /\ TileCellHeight \in Nat \ {0}
  /\ RoomWidth \in Nat \ {0} /\ RoomHeight \in Nat \ {0}
  /\ OverworldRoomColumns \in Nat \ {0} /\ OverworldRoomRows \in Nat \ {0}
  /\ PlayerBoxWidth \in Nat \ {0} /\ PlayerBoxHeight \in Nat \ {0}
  /\ EnemyBoxWidth \in 1 .. TileCellWidth /\ EnemyBoxHeight \in 1 .. TileCellHeight
  BY SizesAssumption

LEMMA Products ==
  /\ RoomCellWidth \in Nat \ {0} /\ RoomCellHeight \in Nat \ {0}
  /\ MapCellWidth \in Nat \ {0} /\ MapCellHeight \in Nat \ {0}
  /\ MapCellWidth = OverworldRoomColumns * RoomCellWidth
  /\ MapCellHeight = OverworldRoomRows * RoomCellHeight
  <1>1. \A m, n \in Nat \ {0} : m * n \in Nat \ {0}
    OBVIOUS
  <1>2. \A l, m, n \in Nat : (l * m) * n = l * (m * n)
    OBVIOUS
  <1>3. MapWidth \in Nat \ {0} /\ MapHeight \in Nat \ {0}
    BY <1>1, Sizes DEF MapWidth, MapHeight
  <1>4. /\ RoomCellWidth \in Nat \ {0} /\ RoomCellHeight \in Nat \ {0}
        /\ MapCellWidth \in Nat \ {0} /\ MapCellHeight \in Nat \ {0}
    BY <1>1, <1>3, Sizes DEF RoomCellWidth, RoomCellHeight, MapCellWidth, MapCellHeight
  <1>5. MapCellWidth = OverworldRoomColumns * RoomCellWidth
    BY <1>2, Sizes DEF MapCellWidth, MapWidth, RoomCellWidth
  <1>6. MapCellHeight = OverworldRoomRows * RoomCellHeight
    BY <1>2, Sizes DEF MapCellHeight, MapHeight, RoomCellHeight
  <1>7. QED  BY <1>4, <1>5, <1>6

LEMMA DivUnique ==
  ASSUME NEW a \in Int, NEW n \in Nat \ {0}, NEW r \in 0 .. n - 1
  PROVE  (a * n + r) \div n = a
  OBVIOUS

LEMMA DivBounds ==
  ASSUME NEW a \in Int, NEW n \in Nat \ {0}
  PROVE  a \div n \in Int /\ (a \div n) * n <= a /\ a < (a \div n) * n + n
  OBVIOUS

LEMMA ProductsKeepOrder ==
  ASSUME NEW a \in Int, NEW b \in Int, NEW n \in Nat, a <= b
  PROVE  a * n <= b * n
  OBVIOUS

LEMMA ProductsReflectOrder ==
  ASSUME NEW a \in Int, NEW b \in Int, NEW n \in Nat \ {0}, a * n < b * n
  PROVE  a < b
  <1>1. CASE b <= a
    BY <1>1, ProductsKeepOrder
  <1>2. QED  BY <1>1

LEMMA ProductOfNext ==
  ASSUME NEW a \in Int, NEW n \in Int
  PROVE  /\ a * n \in Int
         /\ (a + 1) * n = a * n + n /\ (a - 1) * n = a * n - n
  OBVIOUS

\* The cell i of tile t of room R, on an axis of C rooms of N tiles of W cells.
LEMMA CellOnAxis ==
  ASSUME NEW C \in Nat \ {0}, NEW N \in Nat \ {0}, NEW W \in Nat \ {0},
         NEW R \in 0 .. C - 1, NEW t \in 0 .. N - 1, NEW i \in 0 .. W - 1,
         NEW p, p = (R * N + t) * W + i
  PROVE  /\ p \in 0 .. C * (N * W) - 1
         /\ p \div (N * W) = R
         /\ p \div W - R * N = t
  <1>1. R * N + t \in Int /\ R * N \in Int /\ N * W \in Nat \ {0}
    OBVIOUS
  <1>2. p \div W = R * N + t
    BY <1>1, DivUnique
  <1>3. p = R * (N * W) + (t * W + i)
    OBVIOUS
  <1>4. t * W + i \in 0 .. N * W - 1
    <2>1. t * W \in Nat /\ (t + 1) * W = t * W + W /\ (t + 1) * W <= N * W
      BY ProductsKeepOrder
    <2>2. QED  BY <1>1, <2>1
  <1>5. p \div (N * W) = R
    BY <1>1, <1>3, <1>4, DivUnique
  <1>6. p \in 0 .. C * (N * W) - 1
    <2>1. R * (N * W) \in Nat /\ (R + 1) * (N * W) = R * (N * W) + N * W
      BY <1>1, ProductOfNext
    <2>2. (R + 1) * (N * W) <= C * (N * W)
      BY <1>1, ProductsKeepOrder
    <2>3. C * (N * W) \in Nat
      BY <1>1
    <2> DEFINE D == N * W
    <2> HIDE DEF D
    <2>4. QED  BY <1>1, <1>3, <1>4, <2>1, <2>2, <2>3 DEF D
  <1>7. QED  BY <1>1, <1>2, <1>5, <1>6

\* A stretch of B <= W cells that starts i cells into tile A touches A, and the
\* next tile if i > 0, and no other.
LEMMA TouchedOnAxis ==
  ASSUME NEW A \in Int, NEW T \in Int, NEW W \in Nat \ {0}, NEW B \in 1 .. W,
         NEW i \in 0 .. W - 1,
         A * W + i < T * W + W, T * W < A * W + i + B
  PROVE  T = A \/ (T = A + 1 /\ i > 0)
  <1>1. /\ A * W \in Int /\ T * W \in Int
        /\ (T + 1) * W = T * W + W /\ (A + 1) * W = A * W + W
        /\ ((A + 1) + 1) * W = (A + 1) * W + W
    BY ProductOfNext
  <1>2. A * W < (T + 1) * W
    BY <1>1
  <1>3. A < T + 1
    BY <1>2, ProductsReflectOrder
  <1>4. T * W < ((A + 1) + 1) * W
    BY <1>1
  <1>5. T < (A + 1) + 1
    BY <1>4, ProductsReflectOrder
  <1>6. i = 0 => T * W < (A + 1) * W
    BY <1>1
  <1>7. i = 0 => T < A + 1
    BY <1>6, ProductsReflectOrder
  <1>8. QED  BY <1>3, <1>5, <1>7

-----------------------------------------------------------------------------
(* Positions, rooms and tiles.                                             *)

LEMMA WorldCell ==
  ASSUME NEW room \in RoomCoordinate, NEW t \in LocalTile,
         NEW i \in 0 .. TileCellWidth - 1, NEW j \in 0 .. TileCellHeight - 1, NEW p,
         p = [x |-> ToWorldCellPosition(room, t).x + i, y |-> ToWorldCellPosition(room, t).y + j]
  PROVE  /\ p \in Position /\ GetRoomAt(p) = room
         /\ ToLocalTile(room, p) = t
  <1>1. /\ room.x \in 0 .. OverworldRoomColumns - 1 /\ room.y \in 0 .. OverworldRoomRows - 1
        /\ room = [x |-> room.x, y |-> room.y]
        /\ t.x \in 0 .. RoomWidth - 1 /\ t.y \in 0 .. RoomHeight - 1
        /\ t = [x |-> t.x, y |-> t.y]
    BY DEF RoomCoordinate, LocalTile
  <1>2. /\ p.x = (room.x * RoomWidth + t.x) * TileCellWidth + i
        /\ p.y = (room.y * RoomHeight + t.y) * TileCellHeight + j
        /\ p = [x |-> p.x, y |-> p.y]
    BY DEF ToWorldCellPosition
  <1>3. /\ p.x \in 0 .. MapCellWidth - 1
        /\ p.x \div RoomCellWidth = room.x
        /\ p.x \div TileCellWidth - room.x * RoomWidth = t.x
    <2>1. RoomCellWidth = RoomWidth * TileCellWidth
          /\ MapCellWidth = OverworldRoomColumns * (RoomWidth * TileCellWidth)
      BY Products DEF RoomCellWidth
    <2>2. PICK R \in 0 .. OverworldRoomColumns - 1, k \in 0 .. RoomWidth - 1 :
            R = room.x /\ k = t.x
      BY <1>1
    <2>3. PICK q : q = p.x /\ q = (R * RoomWidth + k) * TileCellWidth + i
      BY <1>2, <2>2
    <2>4. /\ q \in 0 .. OverworldRoomColumns * (RoomWidth * TileCellWidth) - 1
          /\ q \div (RoomWidth * TileCellWidth) = R
          /\ q \div TileCellWidth - R * RoomWidth = k
      <3>1. q = (R * RoomWidth + k) * TileCellWidth + i
        BY <2>3
      <3>2. /\ OverworldRoomColumns \in Nat \ {0} /\ RoomWidth \in Nat \ {0}
            /\ TileCellWidth \in Nat \ {0}
        BY Sizes
      <3>3. QED  BY <3>1, <3>2, CellOnAxis
    <2>5. QED  BY <2>1, <2>2, <2>3, <2>4
  <1>4. /\ p.y \in 0 .. MapCellHeight - 1
        /\ p.y \div RoomCellHeight = room.y
        /\ p.y \div TileCellHeight - room.y * RoomHeight = t.y
    <2>1. RoomCellHeight = RoomHeight * TileCellHeight
          /\ MapCellHeight = OverworldRoomRows * (RoomHeight * TileCellHeight)
      BY Products DEF RoomCellHeight
    <2>2. PICK R \in 0 .. OverworldRoomRows - 1, k \in 0 .. RoomHeight - 1 :
            R = room.y /\ k = t.y
      BY <1>1
    <2>3. PICK q : q = p.y /\ q = (R * RoomHeight + k) * TileCellHeight + j
      BY <1>2, <2>2
    <2>4. /\ q \in 0 .. OverworldRoomRows * (RoomHeight * TileCellHeight) - 1
          /\ q \div (RoomHeight * TileCellHeight) = R
          /\ q \div TileCellHeight - R * RoomHeight = k
      <3>1. q = (R * RoomHeight + k) * TileCellHeight + j
        BY <2>3
      <3>2. /\ OverworldRoomRows \in Nat \ {0} /\ RoomHeight \in Nat \ {0}
            /\ TileCellHeight \in Nat \ {0}
        BY Sizes
      <3>3. QED  BY <3>1, <3>2, CellOnAxis
    <2>5. QED  BY <2>1, <2>2, <2>3, <2>4
  <1>5. p \in Position
    BY <1>2, <1>3, <1>4 DEF Position
  <1>6. QED  BY <1>1, <1>3, <1>4, <1>5 DEF GetRoomAt, ToLocalTile

LEMMA WorldPosition ==
  ASSUME NEW room \in RoomCoordinate, NEW t \in LocalTile
  PROVE  /\ ToWorldCellPosition(room, t) \in Position
         /\ GetRoomAt(ToWorldCellPosition(room, t)) = room
         /\ ToLocalTile(room, ToWorldCellPosition(room, t)) = t
         /\ ToWorldCellPosition(room, t) # NoWaypoint
  <1> DEFINE w == ToWorldCellPosition(room, t)
  <1>1. w.x \in Int /\ w.y \in Int /\ w = [x |-> w.x + 0, y |-> w.y + 0]
    BY Sizes DEF ToWorldCellPosition, RoomCoordinate, LocalTile
  <1>2. 0 \in 0 .. TileCellWidth - 1 /\ 0 \in 0 .. TileCellHeight - 1
    BY Sizes
  <1>3. w \in Position /\ GetRoomAt(w) = room /\ ToLocalTile(room, w) = t
    BY <1>1, <1>2, WorldCell
  <1>4. w # NoWaypoint
    BY <1>3, Products DEF Position, NoWaypoint
  <1>5. QED  BY <1>3, <1>4

LEMMA RoomOfPosition ==
  ASSUME NEW p \in Position
  PROVE  GetRoomAt(p) \in RoomCoordinate
  <1>1. p.x \in 0 .. MapCellWidth - 1 /\ p.y \in 0 .. MapCellHeight - 1
    BY DEF Position
  <1>2. ASSUME NEW n \in Nat \ {0}, NEW C \in Nat \ {0}, NEW x \in 0 .. C * n - 1
        PROVE  x \div n \in 0 .. C - 1
    <2>1. x \in Int /\ C * n \in Int /\ x < C * n /\ x >= 0
      OBVIOUS
    <2>2. x \div n \in Int /\ (x \div n) * n <= x /\ x < (x \div n) * n + n
      BY <2>1, DivBounds
    <2> DEFINE d == x \div n
    <2> HIDE DEF d
    <2>3. d * n < C * n /\ d \in Int
      BY <2>1, <2>2 DEF d
    <2>4. d < C
      BY <2>3, ProductsReflectOrder
    <2>5. 0 * n < (d + 1) * n
      BY <2>1, <2>2 DEF d
    <2>6. 0 < d + 1
      BY <2>3, <2>5, ProductsReflectOrder
    <2>7. QED  BY <2>3, <2>4, <2>6 DEF d
  <1>3. p.x \div RoomCellWidth \in 0 .. OverworldRoomColumns - 1
    BY <1>1, <1>2, Products, Sizes
  <1>4. p.y \div RoomCellHeight \in 0 .. OverworldRoomRows - 1
    BY <1>1, <1>2, Products, Sizes
  <1>5. QED  BY <1>3, <1>4 DEF GetRoomAt, RoomCoordinate

LEMMA OnlyPositionsHaveRooms ==
  ASSUME NEW p, GetRoomAt(p) \in RoomCoordinate
  PROVE  p \in Position
  BY DEF GetRoomAt, NoRoom, RoomCoordinate

LEMMA PlacedPlayer ==
  ASSUME NEW x \in Int, NEW y \in Int, CanPlacePlayer([x |-> x, y |-> y])
  PROVE  [x |-> x, y |-> y] \in Position
  BY Sizes, Products DEF CanPlacePlayer, CanPlaceBox, PlayerBox, Box, Position

-----------------------------------------------------------------------------
(* An enemy on its way from a free tile to the next.                       *)

\* The tiles an enemy touches, i cells to the right of tile a or j cells below
\* it, are a and the tile to the right or below: it fits, and is in the room.
LEMMA FitsBetweenTiles ==
  ASSUME NEW room \in RoomCoordinate, NEW a \in Walkable(room),
         NEW i \in 0 .. TileCellWidth - 1, NEW j \in 0 .. TileCellHeight - 1,
         i = 0 \/ j = 0,
         i > 0 => [x |-> a.x + 1, y |-> a.y] \in Walkable(room),
         j > 0 => [x |-> a.x, y |-> a.y + 1] \in Walkable(room),
         NEW p,
         p = [x |-> ToWorldCellPosition(room, a).x + i, y |-> ToWorldCellPosition(room, a).y + j]
  PROVE  /\ p \in Position /\ GetRoomAt(p) = room /\ CanPlaceEnemy(p)
         /\ \A t \in TilesUnder(EnemyBox(p)) :
              [x |-> t.x \div RoomWidth, y |-> t.y \div RoomHeight] = room
  <1> DEFINE W == TileCellWidth
             H == TileCellHeight
             A == room.x * RoomWidth + a.x
             B == room.y * RoomHeight + a.y
             Fits(t) == CanPlaceEnemy(ToWorldCellPosition(room, t))
  <1>1. /\ a \in LocalTile /\ Fits(a)
        /\ a.x \in 0 .. RoomWidth - 1 /\ a.y \in 0 .. RoomHeight - 1
        /\ room.x \in Nat /\ room.y \in Nat /\ room = [x |-> room.x, y |-> room.y]
        /\ A \in Nat /\ B \in Nat /\ A * W \in Nat /\ B * H \in Nat
        /\ W \in Nat \ {0} /\ H \in Nat \ {0}
        /\ EnemyBoxWidth \in 1 .. W /\ EnemyBoxHeight \in 1 .. H
    BY Sizes DEF Walkable, LocalTile, RoomCoordinate
  <1>2. p \in Position /\ GetRoomAt(p) = room
    BY <1>1, WorldCell
  <1>3. p = [x |-> A * W + i, y |-> B * H + j]
    BY DEF ToWorldCellPosition
  <1>4. /\ i > 0 => /\ a.x + 1 \in 0 .. RoomWidth - 1
                    /\ Fits([x |-> a.x + 1, y |-> a.y])
        /\ j > 0 => /\ a.y + 1 \in 0 .. RoomHeight - 1
                    /\ Fits([x |-> a.x, y |-> a.y + 1])
    BY <1>1 DEF Walkable, LocalTile
  <1>5. /\ ToWorldCellPosition(room, a) = [x |-> A * W, y |-> B * H]
        /\ ToWorldCellPosition(room, [x |-> a.x + 1, y |-> a.y]) = [x |-> (A + 1) * W, y |-> B * H]
        /\ ToWorldCellPosition(room, [x |-> a.x, y |-> a.y + 1]) = [x |-> A * W, y |-> (B + 1) * H]
    BY <1>1, Sizes DEF ToWorldCellPosition
  <1>6. (A + 1) * W = A * W + W /\ (B + 1) * H = B * H + H
    BY <1>1, ProductOfNext
  <1>7. \A x, y \in Int :
          CanPlaceEnemy([x |-> x, y |-> y]) <=>
            /\ x >= 0 /\ y >= 0
            /\ x + EnemyBoxWidth <= MapCellWidth /\ y + EnemyBoxHeight <= MapCellHeight
            /\ \A t \in BlockedTiles :
                 ~(/\ x < t.x * W + W /\ t.x * W < x + EnemyBoxWidth
                   /\ y < t.y * H + H /\ t.y * H < y + EnemyBoxHeight)
    BY DEF CanPlaceEnemy, CanPlaceBox, EnemyBox, Box, Overlap, TileBox
  <1>8. \A t : Overlap(EnemyBox(p), TileBox(t)) <=>
          /\ A * W + i < t.x * W + W /\ t.x * W < A * W + i + EnemyBoxWidth
          /\ B * H + j < t.y * H + H /\ t.y * H < B * H + j + EnemyBoxHeight
    BY <1>3 DEF EnemyBox, Box, Overlap, TileBox
  <1>9. ASSUME NEW x \in Int, NEW y \in Int,
               A * W + i < x * W + W, x * W < A * W + i + EnemyBoxWidth,
               B * H + j < y * H + H, y * H < B * H + j + EnemyBoxHeight
        PROVE  /\ x = A \/ (x = A + 1 /\ i > 0)
               /\ y = B \/ (y = B + 1 /\ j > 0)
    <2>1. A \in Int /\ B \in Int
      BY <1>1
    <2> HIDE DEF A, B, W, H
    <2>2. i \in 0 .. W - 1 /\ j \in 0 .. H - 1
      BY DEF W, H
    <2>3. x = A \/ (x = A + 1 /\ i > 0)
      BY <1>1, <1>9, <2>1, <2>2, TouchedOnAxis
    <2>4. y = B \/ (y = B + 1 /\ j > 0)
      BY <1>1, <1>9, <2>1, <2>2, TouchedOnAxis
    <2>5. QED  BY <2>3, <2>4
  <1>10. /\ CanPlaceEnemy([x |-> A * W, y |-> B * H])
         /\ i > 0 => CanPlaceEnemy([x |-> (A + 1) * W, y |-> B * H])
         /\ j > 0 => CanPlaceEnemy([x |-> A * W, y |-> (B + 1) * H])
    BY <1>1, <1>4, <1>5
  <1>11. CanPlaceEnemy(p)
    <2>1. ASSUME NEW t \in BlockedTiles,
                 A * W + i < t.x * W + W, t.x * W < A * W + i + EnemyBoxWidth,
                 B * H + j < t.y * H + H, t.y * H < B * H + j + EnemyBoxHeight
          PROVE  FALSE
      <3>1. t.x \in Int /\ t.y \in Int
        BY BlockedTilesAssumption
      <3>2. /\ t.x = A \/ (t.x = A + 1 /\ i > 0)
            /\ t.y = B \/ (t.y = B + 1 /\ j > 0)
        BY <1>9, <2>1, <3>1
      <3> HIDE DEF A, B, W, H, Fits
      <3>3. CASE t.x = A /\ t.y = B
        BY <1>1, <1>7, <1>10, <3>3
      <3>4. CASE t.x = A + 1 /\ i > 0 /\ t.y = B
        <4>1. (A + 1) * W \in Int /\ B * H \in Int
          BY <1>1, <1>6
        <4>2. ~(/\ (A + 1) * W < t.x * W + W /\ t.x * W < (A + 1) * W + EnemyBoxWidth
                /\ B * H < t.y * H + H /\ t.y * H < B * H + EnemyBoxHeight)
          BY <1>7, <1>10, <3>4, <4>1
        <4>3. QED  BY <1>1, <3>4, <4>1, <4>2
      <3>5. CASE t.x = A /\ t.y = B + 1 /\ j > 0
        <4>1. A * W \in Int /\ (B + 1) * H \in Int
          BY <1>1, <1>6
        <4>2. ~(/\ A * W < t.x * W + W /\ t.x * W < A * W + EnemyBoxWidth
                /\ (B + 1) * H < t.y * H + H /\ t.y * H < (B + 1) * H + EnemyBoxHeight)
          BY <1>7, <1>10, <3>5, <4>1
        <4>3. QED  BY <1>1, <3>5, <4>1, <4>2
      <3>6. QED  BY <3>2, <3>3, <3>4, <3>5
    <2>2. /\ A * W + i + EnemyBoxWidth <= MapCellWidth
          /\ B * H + j + EnemyBoxHeight <= MapCellHeight
      <3> HIDE DEF A, B, W, H, Fits
      <3>1. /\ A * W + EnemyBoxWidth <= MapCellWidth /\ B * H + EnemyBoxHeight <= MapCellHeight
            /\ i > 0 => A * W + W + EnemyBoxWidth <= MapCellWidth
            /\ j > 0 => B * H + H + EnemyBoxHeight <= MapCellHeight
        BY <1>1, <1>6, <1>7, <1>10
      <3>2. i \in 0 .. W - 1 /\ j \in 0 .. H - 1
        BY DEF W, H
      <3>3. QED  BY <1>1, <3>1, <3>2, Products
    <2>3. A * W + i \in Nat /\ B * H + j \in Nat
      <3> HIDE DEF A, B, W, H, Fits
      <3>1. QED  BY <1>1
    <2> HIDE DEF A, B, W, H, Fits
    <2>4. QED  BY <1>3, <1>7, <2>1, <2>2, <2>3
  <1>12. ASSUME NEW t \in TilesUnder(EnemyBox(p))
         PROVE  [x |-> t.x \div RoomWidth, y |-> t.y \div RoomHeight] = room
    <2>1. t.x \in Int /\ t.y \in Int /\ Overlap(EnemyBox(p), TileBox(t))
      BY DEF TilesUnder
    <2>2. /\ t.x = A \/ (t.x = A + 1 /\ i > 0)
          /\ t.y = B \/ (t.y = B + 1 /\ j > 0)
      BY <1>8, <1>9, <2>1
    <2>3. PICK k \in 0 .. RoomWidth - 1 : t.x = room.x * RoomWidth + k
      <3>1. CASE t.x = A
        BY <1>1, <3>1
      <3>2. CASE t.x = A + 1 /\ i > 0
        <4>1. a.x + 1 \in 0 .. RoomWidth - 1 /\ t.x = room.x * RoomWidth + (a.x + 1)
          BY <1>1, <1>4, <3>2, Sizes
        <4>2. QED  BY <4>1
      <3>3. QED  BY <2>2, <3>1, <3>2
    <2>4. PICK l \in 0 .. RoomHeight - 1 : t.y = room.y * RoomHeight + l
      <3>1. CASE t.y = B
        BY <1>1, <3>1
      <3>2. CASE t.y = B + 1 /\ j > 0
        <4>1. a.y + 1 \in 0 .. RoomHeight - 1 /\ t.y = room.y * RoomHeight + (a.y + 1)
          BY <1>1, <1>4, <3>2, Sizes
        <4>2. QED  BY <4>1
      <3>3. QED  BY <2>2, <3>1, <3>2
    <2>5. t.x \div RoomWidth = room.x
      BY <1>1, <2>3, DivUnique, Sizes
    <2>6. t.y \div RoomHeight = room.y
      BY <1>1, <2>4, DivUnique, Sizes
    <2>7. QED  BY <1>1, <2>5, <2>6
  <1>13. QED  BY <1>2, <1>11, <1>12

-----------------------------------------------------------------------------
(* The inductive invariants.                                               *)

Size(d) == IF d \in {"Left", "Right"} THEN TileCellWidth ELSE TileCellHeight

\* n cells from p in direction d.
Along(p, d, n) == [x |-> p.x + n * GetMoveDelta(d).x, y |-> p.y + n * GetMoveDelta(d).y]

\* An enemy without a waypoint is on a free tile.
OnTile(e, s) ==
  /\ s.waypoint = NoWaypoint
  /\ \E t \in Walkable(HomeRoom(e)) : s.pos = ToWorldCellPosition(HomeRoom(e), t)

\* One with a waypoint is between two neighbouring free tiles, on the way it faces.
OnLane(e, s) ==
  \E t \in Walkable(HomeRoom(e)) : \E n \in 1 .. Size(s.direction) - 1 :
    /\ Step(t, s.direction) \in Walkable(HomeRoom(e))
    /\ s.waypoint = ToWorldCellPosition(HomeRoom(e), Step(t, s.direction))
    /\ s.pos = Along(ToWorldCellPosition(HomeRoom(e), t), s.direction, n)

EnemiesAreOnTheirWay == \A e \in Enemies : OnTile(e, enemy[e]) \/ OnLane(e, enemy[e])

PlayersArePlaced == \A p \in Players : CanPlacePlayer(player[p].pos)

Placement == TypeOK /\ PlayersArePlaced /\ EnemiesAreOnTheirWay

\* Between the turn of a projectile and that of its owner the owner's cooldown
\* is one tick longer: the cooldown is the first to be counted down.
CooldownIsAhead(q) ==
  \/ phase \in {"idle", "players", "taken"}
  \/ phase = "enemies" /\ q.owner \in todo
  \/ phase = "projectiles" /\ q \notin todo

\* The cooldown outlasts the flight.
CooldownCoversFlight ==
  \A q \in projectiles :
    enemy[q.owner].attackCooldown >=
      q.remain + (AttackCooldownTicks - ProjectileTicks)
               + (IF CooldownIsAhead(q) THEN 1 ELSE 0)

OwnersDiffer == \A q, r \in projectiles : q.owner = r.owner => q = r

\* A projectile that had its turn in this tick has an owner who is alive and watched.
MovedProjectilesAreOwned ==
  \A q \in projectiles :
    phase = "taken" \/ (phase = "projectiles" /\ q \notin todo) =>
      /\ enemy[q.owner].hp > 0 /\ HomeRoom(q.owner) \in activeRooms
      /\ GetRoomAt(q.pos) = HomeRoom(q.owner)

Flight == TypeOK /\ CooldownCoversFlight /\ OwnersDiffer /\ MovedProjectilesAreOwned

\* Whoever caused an event has had its turn.
EventsAreOfThisTick ==
  /\ phase = "idle" => events = {}
  /\ phase = "players" => \A v \in events : v.player \notin todo

PathsAreOfTheActive ==
  phase = "enemies" =>
    \A e \in Enemies \ todo :
      dbgPaths[e] = "path" => enemy[e].hp > 0 /\ HomeRoom(e) \in activeRooms

-----------------------------------------------------------------------------
(* The enemies' way.                                                       *)

LEMMA HomeOfEnemy ==
  ASSUME NEW e \in Enemies
  PROVE  /\ HomeRoom(e) \in RoomCoordinate
         /\ \E t \in Walkable(HomeRoom(e)) :
              SpawnPosition[e] = ToWorldCellPosition(HomeRoom(e), t)
  <1>1. PICK room \in RoomCoordinate :
          \E t \in Walkable(room) : SpawnPosition[e] = ToWorldCellPosition(room, t)
    BY SpawnAssumption
  <1>2. GetRoomAt(SpawnPosition[e]) = room
    BY <1>1, WorldPosition DEF Walkable
  <1>3. QED  BY <1>1, <1>2 DEF HomeRoom

LEMMA WorldOfStep ==
  ASSUME NEW room \in RoomCoordinate, NEW t \in LocalTile, NEW d \in Facings
  PROVE  /\ ToWorldCellPosition(room, t).x \in Int /\ ToWorldCellPosition(room, t).y \in Int
         /\ ToWorldCellPosition(room, t) =
              [x |-> ToWorldCellPosition(room, t).x, y |-> ToWorldCellPosition(room, t).y]
         /\ Size(d) \in Nat \ {0}
         /\ ToWorldCellPosition(room, Step(t, d)) =
              Along(ToWorldCellPosition(room, t), d, Size(d))
  <1> DEFINE A == room.x * RoomWidth + t.x
             B == room.y * RoomHeight + t.y
  <1>1. A \in Int /\ B \in Int /\ t.x \in Int /\ t.y \in Int
        /\ room.x * RoomWidth \in Int /\ room.y * RoomHeight \in Int
    BY Sizes DEF LocalTile, RoomCoordinate
  <1>2. /\ A * TileCellWidth \in Int /\ B * TileCellHeight \in Int
        /\ (A + 1) * TileCellWidth = A * TileCellWidth + TileCellWidth
        /\ (A - 1) * TileCellWidth = A * TileCellWidth - TileCellWidth
        /\ (B + 1) * TileCellHeight = B * TileCellHeight + TileCellHeight
        /\ (B - 1) * TileCellHeight = B * TileCellHeight - TileCellHeight
    <2> HIDE DEF A, B
    <2>1. QED  BY <1>1, ProductOfNext, Sizes
  <1>3. ToWorldCellPosition(room, t) = [x |-> A * TileCellWidth, y |-> B * TileCellHeight]
    BY DEF ToWorldCellPosition
  <1>4. Size(d) \in Nat \ {0}
    BY Sizes DEF Size
  <1>5. ToWorldCellPosition(room, Step(t, d)) =
          Along(ToWorldCellPosition(room, t), d, Size(d))
    <2>1. \A u : ToWorldCellPosition(room, u) =
            [x |-> (room.x * RoomWidth + u.x) * TileCellWidth,
             y |-> (room.y * RoomHeight + u.y) * TileCellHeight]
      BY DEF ToWorldCellPosition
    <2>2. CASE d = "Left"
      <3>1. Step(t, d) = [x |-> t.x - 1, y |-> t.y]
        BY <1>1, <2>2 DEF Step, GetMoveDelta
      <3>2. ToWorldCellPosition(room, Step(t, d)) = [x |-> (A - 1) * TileCellWidth, y |-> B * TileCellHeight]
        BY <1>1, <2>1, <3>1
      <3> HIDE DEF A, B
      <3>3. QED  BY <1>2, <1>3, <2>2, <3>2, Sizes DEF Along, Size, GetMoveDelta
    <2>3. CASE d = "Right"
      <3>1. Step(t, d) = [x |-> t.x + 1, y |-> t.y]
        BY <1>1, <2>3 DEF Step, GetMoveDelta
      <3>2. ToWorldCellPosition(room, Step(t, d)) = [x |-> (A + 1) * TileCellWidth, y |-> B * TileCellHeight]
        BY <1>1, <2>1, <3>1
      <3> HIDE DEF A, B
      <3>3. QED  BY <1>2, <1>3, <2>3, <3>2, Sizes DEF Along, Size, GetMoveDelta
    <2>4. CASE d = "Up"
      <3>1. Step(t, d) = [x |-> t.x, y |-> t.y - 1]
        BY <1>1, <2>4 DEF Step, GetMoveDelta
      <3>2. ToWorldCellPosition(room, Step(t, d)) = [x |-> A * TileCellWidth, y |-> (B - 1) * TileCellHeight]
        BY <1>1, <2>1, <3>1
      <3> HIDE DEF A, B
      <3>3. QED  BY <1>2, <1>3, <2>4, <3>2, Sizes DEF Along, Size, GetMoveDelta
    <2>5. CASE d = "Down"
      <3>1. Step(t, d) = [x |-> t.x, y |-> t.y + 1]
        BY <1>1, <2>5 DEF Step, GetMoveDelta
      <3>2. ToWorldCellPosition(room, Step(t, d)) = [x |-> A * TileCellWidth, y |-> (B + 1) * TileCellHeight]
        BY <1>1, <2>1, <3>1
      <3> HIDE DEF A, B
      <3>3. QED  BY <1>2, <1>3, <2>5, <3>2, Sizes DEF Along, Size, GetMoveDelta
    <2>6. QED  BY <2>2, <2>3, <2>4, <2>5 DEF Facings, MoveDirections
  <1>6. QED  BY <1>2, <1>3, <1>4, <1>5

LEMMA FitsToTheRight ==
  ASSUME NEW room \in RoomCoordinate, NEW a \in Walkable(room),
         NEW i \in 0 .. TileCellWidth - 1,
         i > 0 => [x |-> a.x + 1, y |-> a.y] \in Walkable(room),
         NEW p, p = [x |-> ToWorldCellPosition(room, a).x + i, y |-> ToWorldCellPosition(room, a).y]
  PROVE  /\ p \in Position /\ GetRoomAt(p) = room /\ CanPlaceEnemy(p)
         /\ \A t \in TilesUnder(EnemyBox(p)) :
              [x |-> t.x \div RoomWidth, y |-> t.y \div RoomHeight] = room
  <1> DEFINE j == 0
  <1>1. j \in 0 .. TileCellHeight - 1 /\ ~(j > 0) /\ (i = 0 \/ j = 0)
    BY Sizes
  <1>2. p = [x |-> ToWorldCellPosition(room, a).x + i, y |-> ToWorldCellPosition(room, a).y + j]
    <2>1. ToWorldCellPosition(room, a).y \in Int
      BY WorldOfStep DEF Walkable, Facings, MoveDirections
    <2>2. QED  BY <2>1
  <1> HIDE DEF j
  <1>3. j > 0 => [x |-> a.x, y |-> a.y + 1] \in Walkable(room)
    BY <1>1
  <1>4. QED  BY <1>1, <1>2, <1>3, FitsBetweenTiles

LEMMA FitsBelow ==
  ASSUME NEW room \in RoomCoordinate, NEW a \in Walkable(room),
         NEW j \in 0 .. TileCellHeight - 1,
         j > 0 => [x |-> a.x, y |-> a.y + 1] \in Walkable(room),
         NEW p, p = [x |-> ToWorldCellPosition(room, a).x, y |-> ToWorldCellPosition(room, a).y + j]
  PROVE  /\ p \in Position /\ GetRoomAt(p) = room /\ CanPlaceEnemy(p)
         /\ \A t \in TilesUnder(EnemyBox(p)) :
              [x |-> t.x \div RoomWidth, y |-> t.y \div RoomHeight] = room
  <1> DEFINE i == 0
  <1>1. i \in 0 .. TileCellWidth - 1 /\ ~(i > 0) /\ (i = 0 \/ j = 0)
    BY Sizes
  <1>2. p = [x |-> ToWorldCellPosition(room, a).x + i, y |-> ToWorldCellPosition(room, a).y + j]
    <2>1. ToWorldCellPosition(room, a).x \in Int
      BY WorldOfStep DEF Walkable, Facings, MoveDirections
    <2>2. QED  BY <2>1
  <1> HIDE DEF i
  <1>3. i > 0 => [x |-> a.x + 1, y |-> a.y] \in Walkable(room)
    BY <1>1
  <1>4. QED  BY <1>1, <1>2, <1>3, FitsBetweenTiles

\* On a free tile an enemy is in its room and fits.
LEMMA FitsOnTile ==
  ASSUME NEW room \in RoomCoordinate, NEW a \in Walkable(room)
  PROVE  LET p == ToWorldCellPosition(room, a)
         IN  /\ p \in Position /\ GetRoomAt(p) = room /\ CanPlaceEnemy(p)
             /\ \A t \in TilesUnder(EnemyBox(p)) :
                  [x |-> t.x \div RoomWidth, y |-> t.y \div RoomHeight] = room
  <1> DEFINE i == 0
             p == ToWorldCellPosition(room, a)
  <1>1. i \in 0 .. TileCellWidth - 1 /\ ~(i > 0)
    BY Sizes
  <1>2. p = [x |-> p.x + i, y |-> p.y]
    <2>1. p.x \in Int /\ p = [x |-> p.x, y |-> p.y]
      BY WorldOfStep DEF Walkable, Facings, MoveDirections
    <2>2. QED  BY <2>1
  <1> HIDE DEF i
  <1>3. i > 0 => [x |-> a.x + 1, y |-> a.y] \in Walkable(room)
    BY <1>1
  <1>4. QED  BY <1>1, <1>2, <1>3, FitsToTheRight

\* On the way from a free tile to the next an enemy is in its room and fits.
LEMMA LaneIsFree ==
  ASSUME NEW room \in RoomCoordinate, NEW d \in Facings,
         NEW t \in Walkable(room), Step(t, d) \in Walkable(room),
         NEW n \in 0 .. Size(d), NEW p, p = Along(ToWorldCellPosition(room, t), d, n)
  PROVE  /\ p \in Position /\ GetRoomAt(p) = room /\ CanPlaceEnemy(p)
         /\ \A u \in TilesUnder(EnemyBox(p)) :
              [x |-> u.x \div RoomWidth, y |-> u.y \div RoomHeight] = room
  <1> DEFINE w == ToWorldCellPosition(room, t)
             z == ToWorldCellPosition(room, Step(t, d))
             Free(q) == /\ q \in Position /\ GetRoomAt(q) = room /\ CanPlaceEnemy(q)
                        /\ \A u \in TilesUnder(EnemyBox(q)) :
                             [x |-> u.x \div RoomWidth, y |-> u.y \div RoomHeight] = room
  <1>1. /\ t \in LocalTile /\ w.x \in Int /\ w.y \in Int
        /\ Size(d) \in Nat \ {0} /\ z = Along(w, d, Size(d))
        /\ t.x \in Int /\ t.y \in Int /\ t = [x |-> t.x, y |-> t.y]
    BY WorldOfStep DEF Walkable, LocalTile
  <1>2. CASE n = 0
    <2>1. p = w
      BY <1>1, <1>2, WorldOfStep DEF Along, GetMoveDelta
    <2>2. QED  BY <2>1, FitsOnTile
  <1>3. CASE n = Size(d)
    BY <1>1, <1>3, FitsOnTile
  <1>4. CASE n \in 1 .. Size(d) - 1
    <2>1. CASE d = "Right"
      <3>1. n \in 0 .. TileCellWidth - 1 /\ n > 0
        BY <1>4, <2>1, Sizes DEF Size
      <3>2. p = [x |-> w.x + n, y |-> w.y]
        BY <1>1, <2>1, <3>1 DEF Along, GetMoveDelta
      <3>3. Step(t, d) = [x |-> t.x + 1, y |-> t.y]
        BY <1>1, <2>1 DEF Step, GetMoveDelta
      <3>4. QED  BY <3>1, <3>2, <3>3, FitsToTheRight
    <2>2. CASE d = "Down"
      <3>1. n \in 0 .. TileCellHeight - 1 /\ n > 0
        BY <1>4, <2>2, Sizes DEF Size
      <3>2. p = [x |-> w.x, y |-> w.y + n]
        BY <1>1, <2>2, <3>1 DEF Along, GetMoveDelta
      <3>3. Step(t, d) = [x |-> t.x, y |-> t.y + 1]
        BY <1>1, <2>2 DEF Step, GetMoveDelta
      <3>4. QED  BY <3>1, <3>2, <3>3, FitsBelow
    <2>3. CASE d = "Left"
      <3>1. TileCellWidth - n \in 0 .. TileCellWidth - 1 /\ TileCellWidth - n > 0 /\ n \in Int
        BY <1>4, <2>3, Sizes DEF Size
      <3>2. z.x = w.x - TileCellWidth /\ z.y = w.y
        BY <1>1, <2>3, Sizes DEF Along, GetMoveDelta, Size
      <3>3. p = [x |-> z.x + (TileCellWidth - n), y |-> z.y]
        BY <1>1, <2>3, <3>1, <3>2, Sizes DEF Along, GetMoveDelta
      <3>4. Step(t, d).x = t.x - 1 /\ Step(t, d).y = t.y
        BY <1>1, <2>3 DEF Step, GetMoveDelta
      <3>5. [x |-> Step(t, d).x + 1, y |-> Step(t, d).y] = t
        BY <1>1, <3>4
      <3>6. QED  BY <3>1, <3>3, <3>5, FitsToTheRight
    <2>4. CASE d = "Up"
      <3>1. TileCellHeight - n \in 0 .. TileCellHeight - 1 /\ TileCellHeight - n > 0 /\ n \in Int
        BY <1>4, <2>4, Sizes DEF Size
      <3>2. z.x = w.x /\ z.y = w.y - TileCellHeight
        BY <1>1, <2>4, Sizes DEF Along, GetMoveDelta, Size
      <3>3. p = [x |-> z.x, y |-> z.y + (TileCellHeight - n)]
        BY <1>1, <2>4, <3>1, <3>2, Sizes DEF Along, GetMoveDelta
      <3>4. Step(t, d).x = t.x /\ Step(t, d).y = t.y - 1
        BY <1>1, <2>4 DEF Step, GetMoveDelta
      <3>5. [x |-> Step(t, d).x, y |-> Step(t, d).y + 1] = t
        BY <1>1, <3>4
      <3>6. QED  BY <3>1, <3>3, <3>5, FitsBelow
    <2>5. QED  BY <2>1, <2>2, <2>3, <2>4 DEF Facings, MoveDirections
  <1>5. n = 0 \/ n = Size(d) \/ n \in 1 .. Size(d) - 1
    BY <1>1
  <1>6. QED  BY <1>2, <1>3, <1>4, <1>5

LEMMA NeighbourIsAStep ==
  ASSUME NEW t \in LocalTile, NEW u \in LocalTile, Adjacent(t, u)
  PROVE  \E d \in Facings : u = Step(t, d)
  <1>1. /\ t.x \in Int /\ t.y \in Int /\ u.x \in Int /\ u.y \in Int
        /\ u = [x |-> u.x, y |-> u.y]
    BY DEF LocalTile
  <1>2. \/ u.x = t.x + 1 /\ u.y = t.y
        \/ u.x = t.x - 1 /\ u.y = t.y
        \/ u.x = t.x /\ u.y = t.y + 1
        \/ u.x = t.x /\ u.y = t.y - 1
    BY <1>1 DEF Adjacent, Distance
  <1>3. "Right" \in Facings /\ "Left" \in Facings /\ "Down" \in Facings /\ "Up" \in Facings
    BY DEF Facings, MoveDirections
  <1>4. /\ Step(t, "Right") = [x |-> t.x + 1, y |-> t.y]
        /\ Step(t, "Left") = [x |-> t.x - 1, y |-> t.y]
        /\ Step(t, "Down") = [x |-> t.x, y |-> t.y + 1]
        /\ Step(t, "Up") = [x |-> t.x, y |-> t.y - 1]
    BY <1>1 DEF Step, GetMoveDelta
  <1>5. QED  BY <1>1, <1>2, <1>3, <1>4

\* The direction from a place on a lane to the end of the lane is the lane's.
LEMMA DirectionOfLane ==
  ASSUME NEW p, p.x \in Int, p.y \in Int, NEW d \in Facings,
         NEW m \in Nat, NEW n \in Nat, m < n
  PROVE  /\ DirectionTo(Along(p, d, m), Along(p, d, n)) = d
         /\ Along(p, d, m) # Along(p, d, n)
         /\ Along(p, d, m).x = Along(p, d, n).x \/ Along(p, d, m).y = Along(p, d, n).y
         /\ Step(Along(p, d, m), d) = Along(p, d, m + 1)
         /\ Along(p, d, 0) = [x |-> p.x, y |-> p.y]
  <1>1. CASE d = "Left"
    BY <1>1 DEF Along, GetMoveDelta, DirectionTo, Step
  <1>2. CASE d = "Right"
    BY <1>2 DEF Along, GetMoveDelta, DirectionTo, Step
  <1>3. CASE d = "Up"
    BY <1>3 DEF Along, GetMoveDelta, DirectionTo, Step
  <1>4. CASE d = "Down"
    BY <1>4 DEF Along, GetMoveDelta, DirectionTo, Step
  <1>5. QED  BY <1>1, <1>2, <1>3, <1>4 DEF Facings, MoveDirections

\* An enemy on its way is in its room, fits and knows where it goes.
LEMMA OnTheWayIsPlaced ==
  ASSUME NEW e \in Enemies, NEW s, s.direction \in Facings, OnTile(e, s) \/ OnLane(e, s)
  PROVE  /\ s.pos \in Position /\ GetRoomAt(s.pos) = HomeRoom(e) /\ CanPlaceEnemy(s.pos)
         /\ \A u \in TilesUnder(EnemyBox(s.pos)) :
              [x |-> u.x \div RoomWidth, y |-> u.y \div RoomHeight] = HomeRoom(e)
         /\ s.waypoint \in Position \cup {NoWaypoint}
         /\ OnLane(e, s) => s.waypoint # NoWaypoint
         /\ OnTile(e, s) => s.waypoint = NoWaypoint
  <1>1. HomeRoom(e) \in RoomCoordinate
    BY HomeOfEnemy
  <1>2. CASE OnTile(e, s)
    <2>1. PICK t \in Walkable(HomeRoom(e)) : s.pos = ToWorldCellPosition(HomeRoom(e), t)
      BY <1>2 DEF OnTile
    <2>2. s.waypoint = NoWaypoint
      BY <1>2 DEF OnTile
    <2>3. ~OnLane(e, s)
      <3>1. SUFFICES ASSUME NEW a \in Walkable(HomeRoom(e)),
                            Step(a, s.direction) \in Walkable(HomeRoom(e)),
                            s.waypoint = ToWorldCellPosition(HomeRoom(e), Step(a, s.direction))
                     PROVE  FALSE
        BY DEF OnLane
      <3>2. Step(a, s.direction) \in LocalTile
        BY <3>1 DEF Walkable
      <3>3. QED  BY <1>1, <2>2, <3>1, <3>2, WorldPosition
    <2>4. QED  BY <1>1, <2>1, <2>2, <2>3, FitsOnTile
  <1>3. CASE OnLane(e, s)
    <2>1. PICK t \in Walkable(HomeRoom(e)) : \E n \in 1 .. Size(s.direction) - 1 :
             /\ Step(t, s.direction) \in Walkable(HomeRoom(e))
             /\ s.waypoint = ToWorldCellPosition(HomeRoom(e), Step(t, s.direction))
             /\ s.pos = Along(ToWorldCellPosition(HomeRoom(e), t), s.direction, n)
      BY <1>3 DEF OnLane
    <2>2. PICK n \in 1 .. Size(s.direction) - 1 :
             /\ Step(t, s.direction) \in Walkable(HomeRoom(e))
             /\ s.waypoint = ToWorldCellPosition(HomeRoom(e), Step(t, s.direction))
             /\ s.pos = Along(ToWorldCellPosition(HomeRoom(e), t), s.direction, n)
      BY <2>1
    <2>3. n \in 0 .. Size(s.direction)
      BY Sizes DEF Size
    <2>4. /\ s.pos \in Position /\ GetRoomAt(s.pos) = HomeRoom(e) /\ CanPlaceEnemy(s.pos)
          /\ \A u \in TilesUnder(EnemyBox(s.pos)) :
               [x |-> u.x \div RoomWidth, y |-> u.y \div RoomHeight] = HomeRoom(e)
      BY <1>1, <2>2, <2>3, LaneIsFree
    <2>5. s.waypoint \in Position /\ s.waypoint # NoWaypoint
      BY <1>1, <2>2, WorldPosition DEF Walkable
    <2>6. QED  BY <2>4, <2>5 DEF OnTile
  <1>4. QED  BY <1>2, <1>3

\* It keeps to its way as long as it does not move or turn.
LEMMA StaysOnTheWay ==
  ASSUME NEW e, NEW r, NEW s, r.pos = s.pos, r.waypoint = s.waypoint,
         r.direction = s.direction, OnTile(e, s) \/ OnLane(e, s)
  PROVE  OnTile(e, r) \/ OnLane(e, r)
  <1>1. CASE OnTile(e, s)
    BY <1>1 DEF OnTile
  <1>2. CASE OnLane(e, s)
    <2>1. OnLane(e, r)
      BY <1>2 DEF OnLane
    <2>2. QED  BY <2>1
  <1>3. QED  BY <1>1, <1>2

\* The next cell towards the waypoint is free, and on the way.
LEMMA WaypointIsReached ==
  ASSUME NEW e \in Enemies, NEW s \in EnemyState, OnLane(e, s),
         NEW c, c = Step(s.pos, s.direction)
  PROVE  /\ c \in Position /\ GetRoomAt(c) = HomeRoom(e) /\ CanPlaceEnemy(c)
         /\ OnTile(e, MovedTo(s, c)) \/ OnLane(e, MovedTo(s, c))
  <1> DEFINE d == s.direction
             R == HomeRoom(e)
  <1>1. R \in RoomCoordinate /\ d \in Facings
    BY HomeOfEnemy DEF EnemyState
  <1>2. PICK t \in Walkable(R) : \E n \in 1 .. Size(d) - 1 :
           /\ Step(t, d) \in Walkable(R)
           /\ s.waypoint = ToWorldCellPosition(R, Step(t, d))
           /\ s.pos = Along(ToWorldCellPosition(R, t), d, n)
    BY DEF OnLane
  <1>3. PICK n \in 1 .. Size(d) - 1 :
           /\ Step(t, d) \in Walkable(R)
           /\ s.waypoint = ToWorldCellPosition(R, Step(t, d))
           /\ s.pos = Along(ToWorldCellPosition(R, t), d, n)
    BY <1>2
  <1> DEFINE w == ToWorldCellPosition(R, t)
  <1>4. t \in LocalTile
    BY DEF Walkable
  <1>5. w.x \in Int /\ w.y \in Int /\ Size(d) \in Nat \ {0} /\ s.waypoint = Along(w, d, Size(d))
    BY <1>1, <1>3, <1>4, WorldOfStep
  <1>6. n \in Nat /\ n + 1 \in 0 .. Size(d) /\ n < n + 1 /\ n + 1 \in Nat
    BY <1>5
  <1>7. c = Along(w, d, n + 1)
    BY <1>1, <1>3, <1>5, <1>6, DirectionOfLane
  <1>8. c \in Position /\ GetRoomAt(c) = R /\ CanPlaceEnemy(c)
    BY <1>1, <1>3, <1>6, <1>7, LaneIsFree
  <1>9. /\ MovedTo(s, c).pos = c /\ MovedTo(s, c).direction = d
        /\ MovedTo(s, c).waypoint = IF s.waypoint = c THEN NoWaypoint ELSE s.waypoint
    BY DEF MovedTo, EnemyState
  <1>10. CASE s.waypoint = c
    <2>1. OnTile(e, MovedTo(s, c))
      BY <1>3, <1>9, <1>10 DEF OnTile
    <2>2. QED  BY <1>8, <2>1
  <1>11. CASE s.waypoint # c
    <2>1. n + 1 \in 1 .. Size(d) - 1
      BY <1>5, <1>6, <1>7, <1>11
    <2>2. OnLane(e, MovedTo(s, c))
      <3> HIDE DEF w, d
      <3>1. QED  BY <1>3, <1>7, <1>9, <1>11, <2>1 DEF OnLane, w
    <2>3. QED  BY <1>8, <2>2
  <1>12. QED  BY <1>10, <1>11

\* From a tile the first step towards a neighbouring free tile is on the way to it.
LEMMA TurnsOntoALane ==
  ASSUME NEW e \in Enemies, NEW s \in EnemyState, OnTile(e, s),
         NEW tile \in Walkable(HomeRoom(e)), Adjacent(ToLocalTile(HomeRoom(e), s.pos), tile),
         NEW next, next = ToWorldCellPosition(HomeRoom(e), tile),
         NEW d, d = DirectionTo(s.pos, next),
         NEW r, r = MovedTo([s EXCEPT !.waypoint = next, !.direction = d], Step(s.pos, d))
  PROVE  d \in Facings /\ (OnTile(e, r) \/ OnLane(e, r))
  <1> DEFINE R == HomeRoom(e)
  <1>1. R \in RoomCoordinate
    BY HomeOfEnemy
  <1>2. PICK t \in Walkable(R) : s.pos = ToWorldCellPosition(R, t)
    BY DEF OnTile
  <1>3. t \in LocalTile /\ tile \in LocalTile
    BY DEF Walkable
  <1>4. ToLocalTile(R, s.pos) = t
    BY <1>1, <1>2, <1>3, WorldPosition
  <1>5. PICK f \in Facings : tile = Step(t, f)
    BY <1>3, <1>4, NeighbourIsAStep
  <1> DEFINE w == ToWorldCellPosition(R, t)
  <1>6. /\ w.x \in Int /\ w.y \in Int /\ Size(f) \in Nat \ {0} /\ next = Along(w, f, Size(f))
        /\ w = [x |-> w.x, y |-> w.y]
    BY <1>1, <1>3, <1>5, WorldOfStep
  <1>7. 0 \in Nat /\ Size(f) \in Nat /\ 0 < Size(f)
    BY <1>6
  <1>8. d = f /\ w = Along(w, f, 0) /\ Step(w, f) = Along(w, f, 1)
    BY <1>2, <1>6, <1>7, DirectionOfLane
  <1>9. r = MovedTo([s EXCEPT !.waypoint = next, !.direction = f], Along(w, f, 1))
    BY <1>2, <1>8
  <1>10. /\ r.pos = Along(w, f, 1) /\ r.direction = f
         /\ r.waypoint = IF next = Along(w, f, 1) THEN NoWaypoint ELSE next
    BY <1>9 DEF MovedTo, EnemyState
  <1>11. CASE next = Along(w, f, 1)
    <2>1. OnTile(e, r)
      BY <1>10, <1>11 DEF OnTile
    <2>2. QED  BY <1>8, <2>1
  <1>12. CASE next # Along(w, f, 1)
    <2>1. 1 \in 1 .. Size(f) - 1
      BY <1>6, <1>12
    <2>2. OnLane(e, r)
      <3> HIDE DEF w
      <3>1. QED  BY <1>5, <1>10, <1>12, <2>1 DEF OnLane, w
    <2>3. QED  BY <1>8, <2>2
  <1>13. QED  BY <1>11, <1>12

-----------------------------------------------------------------------------
(* Placement is inductive.                                                 *)

LEMMA Ticks ==
  /\ MaxHp \in Nat \ {0} /\ MoveInterval \in Nat \ {0}
  /\ AttackCooldownTicks \in Nat \ {0} /\ ProjectileTicks \in Nat \ {0}
  /\ RespawnCooldownTicks \in Nat \ {0} /\ ProjectileTicks < AttackCooldownTicks
  BY TicksAssumption

LEMMA NewEnemyIsPlaced ==
  ASSUME NEW e \in Enemies
  PROVE  NewEnemy(e) \in EnemyState /\ OnTile(e, NewEnemy(e))
  <1>1. OnTile(e, NewEnemy(e))
    BY HomeOfEnemy DEF OnTile, NewEnemy
  <1>2. "Up" \in Facings
    BY DEF Facings, MoveDirections
  <1>3. SpawnPosition[e] \in Position
    BY <1>1, <1>2, OnTheWayIsPlaced DEF NewEnemy
  <1>4. QED  BY <1>1, <1>2, <1>3, Ticks DEF NewEnemy, EnemyState

LEMMA NewPlayerIsPlaced ==
  NewPlayer \in PlayerState /\ CanPlacePlayer(NewPlayer.pos)
  BY SpawnAssumption, Ticks DEF NewPlayer, PlayerState, Facings, MoveDirections

\* What becomes of an enemy before it moves.
LEMMA RespawnedIsPlaced ==
  ASSUME TypeOK, EnemiesAreOnTheirWay, NEW e \in Enemies
  PROVE  /\ Respawned(e) \in EnemyState /\ AfterAttack(e) \in EnemyState
         /\ OnTile(e, Respawned(e)) \/ OnLane(e, Respawned(e))
         /\ OnTile(e, AfterAttack(e)) \/ OnLane(e, AfterAttack(e))
         /\ AfterAttack(e).pos = Respawned(e).pos
         /\ AfterAttack(e).hp = Respawned(e).hp
  <1>1. enemy[e] \in EnemyState /\ (OnTile(e, enemy[e]) \/ OnLane(e, enemy[e]))
    BY DEF TypeOK, EnemiesAreOnTheirWay
  <1> DEFINE s == Respawned(e)
  <1>2. s \in EnemyState /\ (OnTile(e, s) \/ OnLane(e, s))
    <2>1. CASE CanRespawn(e)
      <3>1. s = [NewEnemy(e) EXCEPT !.attackCooldown = AttackCooldownTicks]
        BY <2>1 DEF Respawned
      <3>2. /\ s \in EnemyState /\ s.pos = NewEnemy(e).pos
            /\ s.waypoint = NewEnemy(e).waypoint /\ s.direction = NewEnemy(e).direction
        BY <3>1, NewEnemyIsPlaced, Ticks DEF EnemyState
      <3> HIDE DEF s
      <3>3. QED  BY <3>2, NewEnemyIsPlaced, StaysOnTheWay
    <2>2. CASE ~CanRespawn(e)
      BY <1>1, <2>2 DEF Respawned
    <2>3. QED  BY <2>1, <2>2
  <1>3. /\ AfterAttack(e) \in EnemyState /\ AfterAttack(e).pos = s.pos
        /\ AfterAttack(e).waypoint = s.waypoint /\ AfterAttack(e).direction = s.direction
        /\ AfterAttack(e).hp = s.hp
    <2> HIDE DEF s
    <2>1. s \in EnemyState
      BY <1>2
    <2>2. /\ CooledDown(s) \in EnemyState /\ CooledDown(s).pos = s.pos
          /\ CooledDown(s).waypoint = s.waypoint /\ CooledDown(s).direction = s.direction
          /\ CooledDown(s).hp = s.hp
      BY <2>1, Ticks DEF CooledDown, EnemyState
    <2>3. AfterAttack(e) \in {CooledDown(s), [CooledDown(s) EXCEPT !.attackCooldown = AttackCooldownTicks]}
      BY DEF AfterAttack, s
    <2>4. QED  BY <2>2, <2>3, Ticks DEF EnemyState
  <1>4. OnTile(e, AfterAttack(e)) \/ OnLane(e, AfterAttack(e))
    BY <1>2, <1>3, StaysOnTheWay
  <1>5. QED  BY <1>2, <1>3, <1>4

LEMMA ShotIsTyped ==
  ASSUME TypeOK, NEW e \in Enemies, NEW target
  PROVE  /\ Shot(e, target) \subseteq Projectile
         /\ \A q \in Shot(e, target) : q.owner = e /\ q.remain = ProjectileTicks
         /\ Shot(e, target) # {} => Attackable(e)
  <1>1. SUFFICES ASSUME NEW q \in Shot(e, target)
                 PROVE  /\ q \in Projectile /\ q.owner = e /\ q.remain = ProjectileTicks
                        /\ Attackable(e)
    OBVIOUS
  <1> DEFINE from == [x |-> Respawned(e).pos.x + (EnemyBoxWidth - 1) \div 2,
                      y |-> Respawned(e).pos.y + (EnemyBoxHeight - 1) \div 2]
             toward == GetDirectionToward(Respawned(e).pos, player[target].pos)
  <1>2. /\ Attackable(e) /\ toward # "None" /\ GetRoomAt(from) = HomeRoom(e)
        /\ q = [owner |-> e, pos |-> from, direction |-> toward, remain |-> ProjectileTicks]
    BY DEF Shot
  <1>3. from \in Position
    BY <1>2, HomeOfEnemy, OnlyPositionsHaveRooms
  <1>4. toward \in MoveDirections
    BY DEF GetDirectionToward, MoveDirections
  <1>5. toward \in Facings
    BY <1>2, <1>4 DEF Facings
  <1> HIDE DEF from, toward
  <1>6. QED  BY <1>2, <1>3, <1>5, Ticks DEF Projectile

LEMMA HeadForIsPlaced ==
  ASSUME TypeOK, EnemiesAreOnTheirWay, NEW e \in Enemies, NEW target,
         AfterAttack(e).waypoint = NoWaypoint, NEW tile \in ChaseTiles(e, target)
  PROVE  /\ HeadFor(e, tile) \in EnemyState /\ HeadFor(e, tile).hp = AfterAttack(e).hp
         /\ HeadFor(e, tile).attackCooldown = AfterAttack(e).attackCooldown
         /\ OnTile(e, HeadFor(e, tile)) \/ OnLane(e, HeadFor(e, tile))
  <1> DEFINE s == AfterAttack(e)
             next == ToWorldCellPosition(HomeRoom(e), tile)
             d == DirectionTo(s.pos, next)
             r == MovedTo([s EXCEPT !.waypoint = next, !.direction = d], Step(s.pos, d))
  <1>1. s \in EnemyState /\ OnTile(e, s) /\ s.pos = Respawned(e).pos
    <2>1. s \in EnemyState /\ s.direction \in Facings /\ (OnTile(e, s) \/ OnLane(e, s))
      BY RespawnedIsPlaced DEF EnemyState
    <2>2. QED  BY <2>1, RespawnedIsPlaced, OnTheWayIsPlaced
  <1>2. tile \in Walkable(HomeRoom(e)) /\ Adjacent(ToLocalTile(HomeRoom(e), s.pos), tile)
    BY <1>1 DEF ChaseTiles, FirstTiles
  <1>3. HeadFor(e, tile) \in {s, r}
    BY DEF HeadFor
  <1>4. d \in Facings /\ (OnTile(e, r) \/ OnLane(e, r))
    <2> HIDE DEF s
    <2>1. QED  BY <1>1, <1>2, TurnsOntoALane
  <1>5. r \in EnemyState /\ r.hp = s.hp /\ r.attackCooldown = s.attackCooldown
    <2>1. next \in Position
      BY <1>2, HomeOfEnemy, FitsOnTile
    <2> HIDE DEF s, next, d
    <2>2. [s EXCEPT !.waypoint = next, !.direction = d] \in EnemyState
      BY <1>1, <1>4, <2>1 DEF EnemyState
    <2>3. r.direction \in Facings
      BY <1>1, <1>4 DEF MovedTo, EnemyState
    <2>4. r.pos = Step(s.pos, d)
      BY <1>1 DEF MovedTo, EnemyState
    <2>5. r.pos \in Position
      <3> HIDE DEF r
      <3>1. QED  BY <1>4, <2>3, OnTheWayIsPlaced
    <2>6. QED  BY <1>1, <1>4, <2>2, <2>4, <2>5 DEF MovedTo, EnemyState
  <1>6. QED  BY <1>1, <1>3, <1>4, <1>5

\* The cooldown is counted down by one, or starts again when it has run out.
LEMMA CooldownOfATurn ==
  ASSUME TypeOK, NEW e \in Enemies
  PROVE  /\ Respawned(e).hp >= enemy[e].hp
         /\ Respawned(e).hp = 0 => Respawned(e) = enemy[e]
         /\ Respawned(e).attackCooldown >= enemy[e].attackCooldown
         /\ AfterAttack(e).attackCooldown >= enemy[e].attackCooldown - 1
         /\ Attackable(e) => /\ enemy[e].attackCooldown <= 1
                             /\ AfterAttack(e).attackCooldown = AttackCooldownTicks
  <1> DEFINE s == Respawned(e)
             c == enemy[e].attackCooldown
  <1>1. c \in 0 .. AttackCooldownTicks /\ enemy[e].hp \in 0 .. 1 /\ AttackCooldownTicks > 1
    BY Ticks DEF TypeOK, EnemyState
  <1>2. /\ s \in EnemyState /\ s.hp >= enemy[e].hp
        /\ s.hp = 0 => s = enemy[e]
        /\ s.attackCooldown \in {c, AttackCooldownTicks} /\ s.attackCooldown >= c
    <2>1. CASE CanRespawn(e)
      <3>1. s = [NewEnemy(e) EXCEPT !.attackCooldown = AttackCooldownTicks]
        BY <2>1 DEF Respawned
      <3>2. s \in EnemyState /\ s.hp = 1 /\ s.attackCooldown = AttackCooldownTicks
        <4>1. NewEnemy(e) \in EnemyState /\ NewEnemy(e).hp = 1
          BY NewEnemyIsPlaced DEF NewEnemy
        <4>2. QED  BY <3>1, <4>1, Ticks DEF EnemyState
      <3> HIDE DEF s
      <3>3. QED  BY <1>1, <3>2
    <2>2. CASE ~CanRespawn(e)
      <3>1. s = enemy[e] /\ enemy[e] \in EnemyState
        BY <2>2 DEF Respawned, TypeOK
      <3> HIDE DEF s
      <3>2. QED  BY <1>1, <3>1
    <2>3. QED  BY <2>1, <2>2
  <1>3. CooledDown(s).attackCooldown =
          IF s.attackCooldown > 0 THEN s.attackCooldown - 1 ELSE s.attackCooldown
    <2> HIDE DEF s
    <2>1. QED  BY <1>2 DEF CooledDown, EnemyState
  <1>4. AfterAttack(e).attackCooldown =
          IF Attackable(e) THEN AttackCooldownTicks ELSE CooledDown(s).attackCooldown
    <2>1. CooledDown(s) \in [pos : Position, direction : Facings, hp : 0 .. 1,
                             deadFor : 0 .. RespawnCooldownTicks, attackCooldown : Int,
                             waypoint : Position \cup {NoWaypoint}]
      <3> HIDE DEF s
      <3>1. QED  BY <1>1, <1>2 DEF CooledDown, EnemyState
    <2> DEFINE u == CooledDown(s)
    <2>2. AfterAttack(e) = IF Attackable(e) THEN [u EXCEPT !.attackCooldown = AttackCooldownTicks] ELSE u
      BY DEF AfterAttack
    <2> HIDE DEF u
    <2>3. AfterAttack(e).attackCooldown =
            IF Attackable(e) THEN AttackCooldownTicks ELSE u.attackCooldown
      BY <2>1, <2>2 DEF u
    <2>4. QED  BY <2>3 DEF u
  <1>5. Attackable(e) => CooledDown(s).attackCooldown = 0
    BY DEF Attackable
  <1>6. /\ CooledDown(s).attackCooldown >= c - 1
        /\ CooledDown(s).attackCooldown = 0 => c <= 1
    <2> HIDE DEF s, c
    <2>1. QED  BY <1>1, <1>2, <1>3, Ticks
  <1>7. AfterAttack(e).attackCooldown >= c - 1
    <2> HIDE DEF s, c
    <2>1. QED  BY <1>1, <1>4, <1>6, Ticks
  <1>8. QED  BY <1>2, <1>4, <1>5, <1>6, <1>7

\* What a turn of enemy e makes of it, of the projectiles and of its path.
EnemyTurn(e, s, new, path) ==
  /\ phase = "enemies" /\ e \in todo /\ todo' = todo \ {e}
  /\ UNCHANGED <<players, player, events, clock, phase, activeRooms>>
  /\ s \in EnemyState /\ (OnTile(e, s) \/ OnLane(e, s))
  /\ enemy' = [enemy EXCEPT ![e] = s]
  /\ s.hp >= enemy[e].hp /\ (s.hp = 0 => s = enemy[e])
  /\ s.attackCooldown >= enemy[e].attackCooldown - 1
  /\ new \subseteq Projectile /\ projectiles' = projectiles \cup new
  /\ \A q \in new : /\ q.owner = e /\ q.remain = ProjectileTicks /\ s.hp > 0
                    /\ enemy[e].attackCooldown <= 1
                    /\ s.attackCooldown = AttackCooldownTicks
  /\ \A q, r \in new : q = r
  /\ path \in {"none", "empty", "path"} /\ dbgPaths' = [dbgPaths EXCEPT ![e] = path]
  /\ path = "path" => s.hp > 0 /\ HomeRoom(e) \in activeRooms

LEMMA EveryEnemyHasATurn ==
  ASSUME TypeOK, EnemiesAreOnTheirWay, NEW e \in Enemies,
         SkipEnemy(e) \/ HoldEnemy(e) \/ FollowWaypoint(e) \/ FindPath(e)
  PROVE  \E s, new, path : EnemyTurn(e, s, new, path)
  <1> DEFINE a == AfterAttack(e)
             r == Respawned(e)
  <1>1. /\ r \in EnemyState /\ a \in EnemyState
        /\ OnTile(e, r) \/ OnLane(e, r)
        /\ OnTile(e, a) \/ OnLane(e, a)
        /\ a.hp = r.hp
    BY RespawnedIsPlaced
  <1>2. /\ r.hp >= enemy[e].hp /\ (r.hp = 0 => r = enemy[e])
        /\ r.attackCooldown >= enemy[e].attackCooldown - 1
        /\ a.attackCooldown >= enemy[e].attackCooldown - 1
        /\ Attackable(e) => /\ enemy[e].attackCooldown <= 1
                            /\ a.attackCooldown = AttackCooldownTicks
    <2>1. r.attackCooldown \in Int /\ enemy[e].attackCooldown \in Int
      BY <1>1, Ticks DEF EnemyState, TypeOK
    <2> HIDE DEF r, a
    <2>2. QED  BY <2>1, CooldownOfATurn DEF r, a
  <1>3. dbgPaths[e] \in {"none", "empty", "path"} /\ dbgPaths \in [Enemies -> {"none", "empty", "path"}]
    BY DEF TypeOK
  <1>4. NextEnemy(e) => /\ phase = "enemies" /\ e \in todo /\ todo' = todo \ {e}
                        /\ UNCHANGED <<players, player, events, clock, phase, activeRooms>>
    BY DEF NextEnemy
  <1>5. ASSUME NEW target
        PROVE  /\ Shot(e, target) \subseteq Projectile
               /\ \A q \in Shot(e, target) :
                    q.owner = e /\ q.remain = ProjectileTicks /\ Attackable(e)
               /\ \A q, p \in Shot(e, target) : q = p
    <2>1. \A q, p \in Shot(e, target) : q = p
      BY DEF Shot
    <2>2. QED  BY <2>1, ShotIsTyped
  <1>6. CASE SkipEnemy(e)
    <2>1. /\ NextEnemy(e) /\ enemy' = [enemy EXCEPT ![e] = r]
          /\ dbgPaths' = [dbgPaths EXCEPT ![e] = PathOfSkipped(e)] /\ projectiles' = projectiles
      BY <1>6 DEF SkipEnemy
    <2>2. PathOfSkipped(e) \in {"none", "empty", "path"} /\ PathOfSkipped(e) # "path"
      BY DEF PathOfSkipped
    <2> HIDE DEF r, a
    <2>3. EnemyTurn(e, r, {}, PathOfSkipped(e))
      BY <1>1, <1>2, <1>4, <2>1, <2>2 DEF EnemyTurn
    <2>4. QED  BY <2>3
  <1>7. CASE HoldEnemy(e)
    <2>1. /\ NextEnemy(e) /\ enemy' = [enemy EXCEPT ![e] = a] /\ dbgPaths' = dbgPaths
          /\ r.hp > 0 /\ HomeRoom(e) \in activeRooms
      BY <1>7 DEF HoldEnemy, Acts
    <2>2. PICK target : projectiles' = projectiles \cup Shot(e, target)
      BY <1>7 DEF HoldEnemy
    <2>3. dbgPaths' = [dbgPaths EXCEPT ![e] = dbgPaths[e]]
      BY <1>3, <2>1
    <2>4. a.hp > 0 /\ a.hp >= enemy[e].hp /\ a.hp # 0
      BY <1>1, <1>2, <2>1 DEF EnemyState
    <2> HIDE DEF r, a
    <2>5. EnemyTurn(e, a, Shot(e, target), dbgPaths[e])
      BY <1>1, <1>2, <1>3, <1>4, <1>5, <2>1, <2>2, <2>3, <2>4 DEF EnemyTurn
    <2>6. QED  BY <2>5
  <1>8. CASE FollowWaypoint(e)
    <2> DEFINE c == Step(a.pos, a.direction)
               m == MovedTo(a, c)
    <2>1. /\ NextEnemy(e) /\ dbgPaths' = dbgPaths /\ a.waypoint # NoWaypoint
          /\ r.hp > 0 /\ HomeRoom(e) \in activeRooms
      BY <1>8 DEF FollowWaypoint, Acts
    <2>2. PICK target : projectiles' = projectiles \cup Shot(e, target)
      BY <1>8 DEF FollowWaypoint
    <2>3. OnLane(e, a)
      BY <1>1, <2>1 DEF OnTile
    <2>4. /\ c \in Position /\ GetRoomAt(c) = HomeRoom(e) /\ CanPlaceEnemy(c)
          /\ OnTile(e, m) \/ OnLane(e, m)
      <3> HIDE DEF a
      <3>1. QED  BY <1>1, <2>3, WaypointIsReached
    <2>5. enemy' = [enemy EXCEPT ![e] = m]
      BY <1>8, <2>4 DEF FollowWaypoint
    <2>6. /\ m \in EnemyState /\ m.hp = a.hp /\ m.attackCooldown = a.attackCooldown
      <3> HIDE DEF a, c
      <3>1. QED  BY <1>1, <2>4 DEF MovedTo, EnemyState
    <2>7. dbgPaths' = [dbgPaths EXCEPT ![e] = dbgPaths[e]]
      BY <1>3, <2>1
    <2>8. m.hp > 0 /\ m.hp >= enemy[e].hp /\ m.hp # 0
      <3> HIDE DEF m, a, r
      <3>1. QED  BY <1>1, <1>2, <2>1, <2>6 DEF EnemyState
    <2> HIDE DEF r, a, m
    <2>9. EnemyTurn(e, m, Shot(e, target), dbgPaths[e])
      BY <1>2, <1>3, <1>4, <1>5, <2>1, <2>2, <2>4, <2>5, <2>6, <2>7, <2>8 DEF EnemyTurn
    <2>10. QED  BY <2>9
  <1>9. CASE FindPath(e)
    <2>1. /\ NextEnemy(e) /\ a.waypoint = NoWaypoint
          /\ r.hp > 0 /\ HomeRoom(e) \in activeRooms
      BY <1>9 DEF FindPath, Acts
    <2>2. PICK target :
            /\ projectiles' = projectiles \cup Shot(e, target)
            /\ \/ /\ enemy' = [enemy EXCEPT ![e] = a]
                  /\ dbgPaths' = [dbgPaths EXCEPT ![e] = "empty"]
               \/ \E tile \in ChaseTiles(e, target) :
                    /\ enemy' = [enemy EXCEPT ![e] = HeadFor(e, tile)]
                    /\ dbgPaths' = [dbgPaths EXCEPT ![e] = "path"]
      BY <1>9 DEF FindPath
    <2>3. a.hp > 0 /\ a.hp >= enemy[e].hp /\ a.hp # 0
      BY <1>1, <1>2, <2>1 DEF EnemyState
    <2>4. CASE /\ enemy' = [enemy EXCEPT ![e] = a]
               /\ dbgPaths' = [dbgPaths EXCEPT ![e] = "empty"]
      <3> HIDE DEF r, a
      <3>1. EnemyTurn(e, a, Shot(e, target), "empty")
        BY <1>1, <1>2, <1>4, <1>5, <2>1, <2>2, <2>3, <2>4 DEF EnemyTurn
      <3>2. QED  BY <3>1
    <2>5. ASSUME NEW tile \in ChaseTiles(e, target),
                 enemy' = [enemy EXCEPT ![e] = HeadFor(e, tile)],
                 dbgPaths' = [dbgPaths EXCEPT ![e] = "path"]
          PROVE  \E s, new, path : EnemyTurn(e, s, new, path)
      <3> DEFINE h == HeadFor(e, tile)
      <3>1. /\ h \in EnemyState /\ h.hp = a.hp /\ h.attackCooldown = a.attackCooldown
            /\ OnTile(e, h) \/ OnLane(e, h)
        BY <2>1, HeadForIsPlaced
      <3> HIDE DEF r, a, h
      <3>2. enemy' = [enemy EXCEPT ![e] = h]
        BY <2>5 DEF h
      <3>3. EnemyTurn(e, h, Shot(e, target), "path")
        BY <1>2, <1>4, <1>5, <2>1, <2>2, <2>3, <2>5, <3>1, <3>2 DEF EnemyTurn
      <3>4. QED  BY <3>3
    <2>6. QED  BY <2>2, <2>4, <2>5
  <1>10. QED  BY <1>6, <1>7, <1>8, <1>9

\* Only a turn moves an enemy: the tick and a blow leave it where it is.
LEMMA EnemiesStay ==
  ASSUME TypeOK,
         BeginTick \/ (\E p \in Players : AttackEnemy(p)) \/ UNCHANGED enemy
  PROVE  /\ enemy' \in [Enemies -> EnemyState]
         /\ \A e \in Enemies :
              /\ enemy'[e].pos = enemy[e].pos /\ enemy'[e].waypoint = enemy[e].waypoint
              /\ enemy'[e].direction = enemy[e].direction
              /\ enemy'[e].attackCooldown = enemy[e].attackCooldown
              /\ enemy'[e].hp <= enemy[e].hp
  <1> DEFINE Same(s, u) == /\ s \in EnemyState /\ s.pos = u.pos /\ s.waypoint = u.waypoint
                           /\ s.direction = u.direction
                           /\ s.attackCooldown = u.attackCooldown /\ s.hp <= u.hp
  <1>1. SUFFICES /\ DOMAIN enemy' = Enemies /\ enemy' = [e \in Enemies |-> enemy'[e]]
                 /\ \A e \in Enemies : Same(enemy'[e], enemy[e])
    OBVIOUS
  <1>2. enemy = [e \in Enemies |-> enemy[e]] /\ \A e \in Enemies : enemy[e] \in EnemyState
    BY DEF TypeOK
  <1>3. CASE BeginTick
    <2>1. enemy' = [e \in Enemies |->
            IF enemy[e].hp = 0 /\ enemy[e].deadFor < RespawnCooldownTicks
            THEN [enemy[e] EXCEPT !.deadFor = @ + 1] ELSE enemy[e]]
      BY <1>3 DEF BeginTick
    <2>2. ASSUME NEW e \in Enemies
          PROVE  Same(enemy'[e], enemy[e])
      <3>1. enemy[e] \in EnemyState
        BY <1>2
      <3>2. enemy'[e] = enemy[e] \/ (/\ enemy[e].deadFor < RespawnCooldownTicks
                                     /\ enemy'[e] = [enemy[e] EXCEPT !.deadFor = @ + 1])
        BY <2>1
      <3>3. QED  BY <3>1, <3>2, Ticks DEF EnemyState
    <2> HIDE DEF Same
    <2>3. QED  BY <2>1, <2>2
  <1>4. ASSUME NEW p \in Players, AttackEnemy(p)
        PROVE  /\ DOMAIN enemy' = Enemies /\ enemy' = [e \in Enemies |-> enemy'[e]]
               /\ \A e \in Enemies : Same(enemy'[e], enemy[e])
    <2>1. enemy' = [e \in Enemies |->
            IF e \in Target(p) THEN [enemy[e] EXCEPT !.hp = 0, !.deadFor = 0] ELSE enemy[e]]
      BY <1>4 DEF AttackEnemy
    <2>2. ASSUME NEW e \in Enemies
          PROVE  Same(enemy'[e], enemy[e])
      <3>1. enemy[e] \in EnemyState
        BY <1>2
      <3>2. \/ enemy'[e] = enemy[e]
            \/ enemy'[e] = [enemy[e] EXCEPT !.hp = 0, !.deadFor = 0]
        BY <2>1
      <3>3. ASSUME enemy'[e] = [enemy[e] EXCEPT !.hp = 0, !.deadFor = 0]
            PROVE  Same(enemy'[e], enemy[e])
        <4>1. enemy'[e] = [pos |-> enemy[e].pos, direction |-> enemy[e].direction, hp |-> 0,
                           deadFor |-> 0, attackCooldown |-> enemy[e].attackCooldown,
                           waypoint |-> enemy[e].waypoint]
          BY <3>1, <3>3 DEF EnemyState
        <4>2. QED  BY <3>1, <4>1, Ticks DEF EnemyState
      <3>4. Same(enemy[e], enemy[e])
        BY <3>1 DEF EnemyState
      <3> HIDE DEF Same
      <3>5. QED  BY <3>2, <3>3, <3>4
    <2> HIDE DEF Same
    <2>3. QED  BY <2>1, <2>2
  <1>5. CASE enemy' = enemy
    <2>1. \A e \in Enemies : Same(enemy'[e], enemy[e])
      BY <1>2, <1>5 DEF EnemyState
    <2> HIDE DEF Same
    <2>2. QED  BY <1>2, <1>5, <2>1
  <1>6. QED  BY <1>3, <1>4, <1>5

\* What a turn of projectile q leaves of it.
Flown(q) == [q EXCEPT !.pos = Step(@, q.direction), !.remain = @ - 1]

ProjectileTurn(q, left) ==
  /\ NextProjectile(q)
  /\ left \subseteq {Flown(q)} /\ left \subseteq Projectile
  /\ projectiles' = (projectiles \ {q}) \cup left
  /\ left # {} => /\ q.remain > 1 /\ ~Vanishes(q)
                  /\ GetRoomAt(Flown(q).pos) = HomeRoom(q.owner)
                  /\ player' = player

LEMMA ProjectileHasATurn ==
  ASSUME TypeOK, NEW q \in projectiles,
         RemoveProjectile(q) \/ HitPlayer(q) \/ MoveProjectile(q)
  PROVE  \E left : ProjectileTurn(q, left)
  <1>1. q \in Projectile
    BY DEF TypeOK
  <1>2. CASE RemoveProjectile(q)
    <2>1. ProjectileTurn(q, {})
      BY <1>2 DEF RemoveProjectile, ProjectileTurn
    <2>2. QED  BY <2>1
  <1>3. CASE HitPlayer(q)
    <2>1. ProjectileTurn(q, {})
      BY <1>3 DEF HitPlayer, ProjectileTurn
    <2>2. QED  BY <2>1
  <1>4. CASE MoveProjectile(q)
    <2>1. NextProjectile(q) /\ ~Vanishes(q) /\ player' = player
      BY <1>4 DEF MoveProjectile
    <2>2. GetRoomAt(Step(q.pos, q.direction)) = HomeRoom(q.owner)
      BY <2>1 DEF Vanishes
    <2>3. Step(q.pos, q.direction) \in Position
      BY <1>1, <2>2, HomeOfEnemy, OnlyPositionsHaveRooms DEF Projectile
    <2>4. CASE q.remain = 1
      <3>1. ProjectileTurn(q, {})
        BY <1>4, <2>1, <2>4 DEF MoveProjectile, ProjectileTurn
      <3>2. QED  BY <3>1
    <2>5. CASE q.remain # 1
      <3>1. projectiles' = (projectiles \ {q}) \cup {Flown(q)}
        BY <1>4, <2>5 DEF MoveProjectile, Flown
      <3>2. q.remain > 1
        BY <1>1, <2>5, Ticks DEF Projectile
      <3>3. Flown(q) \in Projectile /\ Flown(q).pos = Step(q.pos, q.direction)
        <4> DEFINE c == Step(q.pos, q.direction)
        <4> HIDE DEF c
        <4>1. Flown(q) = [q EXCEPT !.pos = c, !.remain = @ - 1]
          BY <1>1 DEF Flown, c, Projectile
        <4>2. c \in Position
          BY <2>3 DEF c
        <4>3. /\ q.owner \in Enemies /\ q.direction \in Facings
              /\ q.remain - 1 \in 1 .. ProjectileTicks
          BY <1>1, <3>2, Ticks DEF Projectile
        <4>4. Flown(q) = [owner |-> q.owner, pos |-> c, direction |-> q.direction,
                          remain |-> q.remain - 1]
          BY <1>1, <4>1, Ticks DEF Projectile
        <4>5. Flown(q) \in Projectile /\ Flown(q).pos = c
          BY <4>2, <4>3, <4>4 DEF Projectile
        <4>6. QED  BY <4>5 DEF c
      <3>4. ProjectileTurn(q, {Flown(q)})
        BY <2>1, <2>2, <3>1, <3>2, <3>3 DEF ProjectileTurn
      <3>5. QED  BY <3>4
    <2>6. QED  BY <2>4, <2>5
  <1>5. QED  BY <1>2, <1>3, <1>4

-----------------------------------------------------------------------------
(* Everybody is placed.                                                    *)

LEMMA PlacementInit == Init => Placement
  <1> SUFFICES ASSUME Init PROVE Placement
    OBVIOUS
  <1>1. \A e \in Enemies : NewEnemy(e) \in EnemyState /\ OnTile(e, NewEnemy(e))
    BY NewEnemyIsPlaced
  <1>2. enemy \in [Enemies -> EnemyState] /\ EnemiesAreOnTheirWay
    BY <1>1 DEF Init, EnemiesAreOnTheirWay
  <1>3. player \in [Players -> PlayerState] /\ PlayersArePlaced
    BY NewPlayerIsPlaced DEF Init, PlayersArePlaced
  <1>4. TypeOK
    BY <1>2, <1>3, Ticks DEF Init, TypeOK
  <1>5. QED  BY <1>2, <1>3, <1>4 DEF Placement

\* The parts of Placement that are about the players, and about the enemies.
LEMMA PlacementOfPlayers ==
  ASSUME Placement, player' \in [Players -> PlayerState],
         \A p \in Players : CanPlacePlayer(player'[p].pos)
  PROVE  PlayersArePlaced'
  BY DEF PlayersArePlaced

LEMMA PlacementOfEnemies ==
  ASSUME Placement, BeginTick \/ (\E p \in Players : AttackEnemy(p)) \/ UNCHANGED enemy
  PROVE  enemy' \in [Enemies -> EnemyState] /\ EnemiesAreOnTheirWay'
  <1>1. /\ enemy' \in [Enemies -> EnemyState]
        /\ \A e \in Enemies :
             /\ enemy'[e].pos = enemy[e].pos /\ enemy'[e].waypoint = enemy[e].waypoint
             /\ enemy'[e].direction = enemy[e].direction
    BY EnemiesStay DEF Placement
  <1>2. \A e \in Enemies : OnTile(e, enemy[e]) \/ OnLane(e, enemy[e])
    BY DEF Placement, EnemiesAreOnTheirWay
  <1>3. \A e \in Enemies : OnTile(e, enemy'[e]) \/ OnLane(e, enemy'[e])
    BY <1>1, <1>2, StaysOnTheWay
  <1>4. QED  BY <1>1, <1>3 DEF EnemiesAreOnTheirWay

\* The player of an action, changed where the action changes it.
LEMMA OnePlayerChanges ==
  ASSUME Placement, NEW p \in Players, NEW s \in PlayerState, CanPlacePlayer(s.pos),
         player' = [player EXCEPT ![p] = s]
  PROVE  player' \in [Players -> PlayerState] /\ PlayersArePlaced'
  <1>1. player \in [Players -> PlayerState] /\ PlayersArePlaced
    BY DEF Placement, TypeOK
  <1>2. QED  BY <1>1 DEF PlayersArePlaced

LEMMA PlacementCommands ==
  ASSUME Placement, Commands
  PROVE  Placement'
  <1>1. PICK p \in Players :
          \/ SpawnPlayer(p) \/ DespawnPlayer(p)
          \/ \E direction \in InputDirections, attack \in BOOLEAN : SetInput(p, direction, attack)
    BY DEF Commands
  <1>2. /\ TypeOK /\ player \in [Players -> PlayerState] /\ player[p] \in PlayerState
        /\ CanPlacePlayer(player[p].pos)
    BY DEF Placement, TypeOK, PlayersArePlaced
  <1>3. CASE SpawnPlayer(p) \/ DespawnPlayer(p)
    <2>1. player' \in [Players -> PlayerState] /\ PlayersArePlaced'
      BY <1>3, NewPlayerIsPlaced, OnePlayerChanges DEF SpawnPlayer, DespawnPlayer
    <2>2. enemy' \in [Enemies -> EnemyState] /\ EnemiesAreOnTheirWay'
      BY <1>3, PlacementOfEnemies DEF SpawnPlayer, DespawnPlayer
    <2>3. TypeOK'
      BY <1>2, <1>3, <2>1, <2>2 DEF SpawnPlayer, DespawnPlayer, TypeOK, tick
    <2>4. QED  BY <2>1, <2>2, <2>3 DEF Placement
  <1>4. ASSUME NEW direction \in InputDirections, NEW attack \in BOOLEAN,
               SetInput(p, direction, attack)
        PROVE  Placement'
    <2> DEFINE s == [player[p] EXCEPT !.input = direction, !.attackRequested = @ \/ attack]
    <2>1. s \in PlayerState /\ s.pos = player[p].pos
      <3>1. /\ direction \in MoveDirections
            /\ (player[p].attackRequested \/ attack) \in BOOLEAN
        BY <1>2, InputsAssumption DEF PlayerState
      <3>2. QED  BY <1>2, <3>1 DEF PlayerState
    <2>2. player' = [player EXCEPT ![p] = s]
      BY <1>2, <1>4 DEF SetInput, PlayerState
    <2> HIDE DEF s
    <2>3. player' \in [Players -> PlayerState] /\ PlayersArePlaced'
      BY <1>2, <2>1, <2>2, OnePlayerChanges
    <2>4. enemy' \in [Enemies -> EnemyState] /\ EnemiesAreOnTheirWay'
      BY <1>4, PlacementOfEnemies DEF SetInput
    <2>5. TypeOK'
      BY <1>2, <1>4, <2>3, <2>4 DEF SetInput, TypeOK, tick
    <2>6. QED  BY <2>3, <2>4, <2>5 DEF Placement
  <1>5. QED  BY <1>1, <1>3, <1>4

LEMMA PlacementPlayers ==
  ASSUME Placement, BeginTick \/ TickPlayers
  PROVE  Placement'
  <1>1. TypeOK /\ PlayersArePlaced /\ player \in [Players -> PlayerState] /\ EnemiesAreOnTheirWay
    BY DEF Placement, TypeOK
  <1>2. CASE BeginTick
    <2>1. enemy' \in [Enemies -> EnemyState] /\ EnemiesAreOnTheirWay'
      BY <1>2, PlacementOfEnemies
    <2>2. clock' \in 0 .. MoveInterval - 1
      BY <1>1, <1>2, Ticks DEF BeginTick, TypeOK
    <2>3. TypeOK'
      BY <1>1, <1>2, <2>1, <2>2 DEF BeginTick, TypeOK
    <2>4. PlayersArePlaced'
      BY <1>1, <1>2 DEF BeginTick, PlayersArePlaced
    <2>5. QED  BY <2>1, <2>3, <2>4 DEF Placement
  <1>3. ASSUME NEW p \in Players, SkipPlayer(p)
        PROVE  Placement'
    <2>1. enemy' \in [Enemies -> EnemyState] /\ EnemiesAreOnTheirWay'
      BY <1>3, PlacementOfEnemies DEF SkipPlayer
    <2>2. TypeOK'
      BY <1>1, <1>3, <2>1 DEF SkipPlayer, NextPlayer, TypeOK
    <2>3. PlayersArePlaced'
      BY <1>1, <1>3 DEF SkipPlayer, PlayersArePlaced
    <2>4. QED  BY <2>1, <2>2, <2>3 DEF Placement
  <1>4. ASSUME NEW p \in Players, MovePlayer(p)
        PROVE  Placement'
    <2> DEFINE candidate == Step(player[p].pos, player[p].input)
               s == [player[p] EXCEPT
                      !.direction = player[p].input,
                      !.pos = IF CanPlacePlayer(candidate) THEN candidate ELSE @,
                      !.attackRequested = FALSE]
    <2>1. player[p] \in PlayerState /\ CanPlacePlayer(player[p].pos) /\ player[p].input # "None"
      BY <1>1, <1>4 DEF MovePlayer, PlayersArePlaced
    <2>2. player[p].pos.x \in Int /\ player[p].pos.y \in Int
      BY <2>1, Products DEF PlayerState, Position
    <2>3. CanPlacePlayer(candidate) => candidate \in Position
      <3>1. /\ GetMoveDelta(player[p].input).x \in Int
            /\ GetMoveDelta(player[p].input).y \in Int
        BY DEF GetMoveDelta
      <3>2. QED  BY <2>2, <3>1, PlacedPlayer DEF Step
    <2>4. s \in PlayerState /\ CanPlacePlayer(s.pos)
      <3> DEFINE to == IF CanPlacePlayer(candidate) THEN candidate ELSE player[p].pos
      <3>1. to \in Position /\ CanPlacePlayer(to)
        BY <2>1, <2>3 DEF PlayerState
      <3>2. s = [player[p] EXCEPT !.direction = player[p].input, !.pos = to, !.attackRequested = FALSE]
        BY <2>1 DEF PlayerState
      <3>3. player[p].input \in Facings
        BY <2>1 DEF PlayerState, Facings
      <3> HIDE DEF to, s
      <3>4. QED  BY <2>1, <3>1, <3>2, <3>3 DEF PlayerState
    <2>5. player' = [player EXCEPT ![p] = s]
      BY <1>1, <1>4, <2>1 DEF MovePlayer, PlayerState
    <2> HIDE DEF s
    <2>6. player' \in [Players -> PlayerState] /\ PlayersArePlaced'
      BY <2>4, <2>5, OnePlayerChanges
    <2>7. enemy' \in [Enemies -> EnemyState] /\ EnemiesAreOnTheirWay'
      BY <1>4, PlacementOfEnemies DEF MovePlayer
    <2>8. TypeOK'
      BY <1>1, <1>4, <2>6, <2>7 DEF MovePlayer, NextPlayer, TypeOK
    <2>9. QED  BY <2>6, <2>7, <2>8 DEF Placement
  <1>5. ASSUME NEW p \in Players, AttackEnemy(p)
        PROVE  Placement'
    <2> DEFINE s == [player[p] EXCEPT !.attackRequested = FALSE]
    <2>1. player[p] \in PlayerState /\ CanPlacePlayer(player[p].pos)
      BY <1>1 DEF PlayersArePlaced
    <2>2. s \in PlayerState /\ s.pos = player[p].pos
      BY <2>1 DEF PlayerState
    <2>3. player' = [player EXCEPT ![p] = s]
      BY <1>1, <1>5 DEF AttackEnemy
    <2> HIDE DEF s
    <2>4. player' \in [Players -> PlayerState] /\ PlayersArePlaced'
      BY <2>1, <2>2, <2>3, OnePlayerChanges
    <2>5. enemy' \in [Enemies -> EnemyState] /\ EnemiesAreOnTheirWay'
      BY <1>5, PlacementOfEnemies
    <2>6. events' \subseteq Event
      <3>1. GetRoomAt(player[p].pos) \in RoomCoordinate /\ player[p].direction \in Facings
        BY <2>1, RoomOfPosition DEF PlayerState
      <3> DEFINE v == [player |-> p, direction |-> player[p].direction,
                       room |-> GetRoomAt(player[p].pos)]
      <3>2. v \in Event
        BY <3>1 DEF Event
      <3>3. events' = events \cup {v} /\ events \subseteq Event
        BY <1>1, <1>5 DEF AttackEnemy, TypeOK
      <3>4. QED  BY <3>2, <3>3
    <2>7. TypeOK'
      BY <1>1, <1>5, <2>4, <2>5, <2>6 DEF AttackEnemy, NextPlayer, TypeOK
    <2>8. QED  BY <2>4, <2>5, <2>7 DEF Placement
  <1>6. CASE EndPlayers
    <2>1. enemy' \in [Enemies -> EnemyState] /\ EnemiesAreOnTheirWay'
      BY <1>6, PlacementOfEnemies DEF EndPlayers, world
    <2>2. activeRooms' \subseteq RoomCoordinate
      <3>1. \A p \in players : player[p].pos \in Position
        BY <1>1 DEF TypeOK, PlayerState
      <3>2. QED  BY <1>6, <3>1, RoomOfPosition DEF EndPlayers
    <2>3. TypeOK'
      BY <1>1, <1>6, <2>1, <2>2 DEF EndPlayers, world, TypeOK
    <2>4. PlayersArePlaced'
      BY <1>1, <1>6 DEF EndPlayers, world, PlayersArePlaced
    <2>5. QED  BY <2>1, <2>3, <2>4 DEF Placement
  <1>7. QED  BY <1>2, <1>3, <1>4, <1>5, <1>6 DEF TickPlayers

LEMMA PlacementEnemies ==
  ASSUME Placement, TickEnemies
  PROVE  Placement'
  <1>1. TypeOK /\ PlayersArePlaced /\ EnemiesAreOnTheirWay
    BY DEF Placement
  <1>2. ASSUME NEW e \in Enemies,
               SkipEnemy(e) \/ HoldEnemy(e) \/ FollowWaypoint(e) \/ FindPath(e)
        PROVE  Placement'
    <2>1. PICK s, new, path : EnemyTurn(e, s, new, path)
      BY <1>1, <1>2, EveryEnemyHasATurn
    <2>2. enemy' \in [Enemies -> EnemyState] /\ EnemiesAreOnTheirWay'
      BY <1>1, <2>1 DEF EnemyTurn, TypeOK, EnemiesAreOnTheirWay
    <2>3. TypeOK'
      BY <1>1, <2>1, <2>2 DEF EnemyTurn, TypeOK
    <2>4. PlayersArePlaced'
      BY <1>1, <2>1 DEF EnemyTurn, PlayersArePlaced
    <2>5. QED  BY <2>2, <2>3, <2>4 DEF Placement
  <1>3. CASE EndEnemies
    <2>1. enemy' \in [Enemies -> EnemyState] /\ EnemiesAreOnTheirWay'
      BY <1>3, PlacementOfEnemies DEF EndEnemies, world
    <2>2. TypeOK'
      BY <1>1, <1>3, <2>1 DEF EndEnemies, world, TypeOK
    <2>3. PlayersArePlaced'
      BY <1>1, <1>3 DEF EndEnemies, world, PlayersArePlaced
    <2>4. QED  BY <2>1, <2>2, <2>3 DEF Placement
  <1>4. QED  BY <1>2, <1>3 DEF TickEnemies

LEMMA PlacementProjectiles ==
  ASSUME Placement, TickProjectiles \/ TakeCombatEvents
  PROVE  Placement'
  <1>1. TypeOK /\ PlayersArePlaced /\ player \in [Players -> PlayerState]
    BY DEF Placement, TypeOK
  <1>2. ASSUME NEW q \in projectiles, RemoveProjectile(q) \/ HitPlayer(q) \/ MoveProjectile(q)
        PROVE  Placement'
    <2>1. PICK left : ProjectileTurn(q, left)
      BY <1>1, <1>2, ProjectileHasATurn
    <2>2. enemy' \in [Enemies -> EnemyState] /\ EnemiesAreOnTheirWay'
      BY <2>1, PlacementOfEnemies DEF ProjectileTurn, NextProjectile
    <2>3. player' \in [Players -> PlayerState] /\ PlayersArePlaced'
      <3>1. CASE player' = player
        BY <1>1, <3>1 DEF PlayersArePlaced
      <3>2. ASSUME NEW p \in PlayersHit(q), player' = [player EXCEPT ![p] = Hurt(@)]
            PROVE  player' \in [Players -> PlayerState] /\ PlayersArePlaced'
        <4>1. p \in Players /\ player[p] \in PlayerState /\ player[p].hp > 0
              /\ CanPlacePlayer(player[p].pos)
          BY <1>1 DEF PlayersHit, Alive, TypeOK, PlayersArePlaced
        <4> DEFINE s == Hurt(player[p])
        <4>2. s \in PlayerState /\ s.pos = player[p].pos
          <5>1. player[p].hp - 1 \in 0 .. MaxHp
            BY <4>1, Ticks DEF PlayerState
          <5>2. "None" \in MoveDirections
            BY DEF MoveDirections
          <5>3. QED  BY <4>1, <5>1, <5>2 DEF Hurt, PlayerState
        <4>3. player' = [player EXCEPT ![p] = s]
          BY <1>1, <3>2, <4>1
        <4> HIDE DEF s
        <4>4. QED  BY <4>1, <4>2, <4>3, OnePlayerChanges
      <3>3. QED  BY <1>2, <3>1, <3>2 DEF RemoveProjectile, HitPlayer, MoveProjectile
    <2>4. projectiles' \subseteq Projectile /\ todo' \subseteq projectiles'
      BY <1>1, <2>1 DEF ProjectileTurn, NextProjectile, TypeOK
    <2>5. TypeOK'
      BY <1>1, <2>1, <2>2, <2>3, <2>4 DEF ProjectileTurn, NextProjectile, TypeOK
    <2>6. QED  BY <2>2, <2>3, <2>5 DEF Placement
  <1>3. CASE EndTick
    <2>1. enemy' \in [Enemies -> EnemyState] /\ EnemiesAreOnTheirWay'
      BY <1>3, PlacementOfEnemies DEF EndTick, world
    <2>2. TypeOK'
      BY <1>1, <1>3, <2>1 DEF EndTick, world, TypeOK
    <2>3. PlayersArePlaced'
      BY <1>1, <1>3 DEF EndTick, world, PlayersArePlaced
    <2>4. QED  BY <2>1, <2>2, <2>3 DEF Placement
  <1>4. CASE TakeCombatEvents
    <2>1. enemy' \in [Enemies -> EnemyState] /\ EnemiesAreOnTheirWay'
      BY <1>4, PlacementOfEnemies DEF TakeCombatEvents
    <2>2. TypeOK'
      BY <1>1, <1>4, <2>1 DEF TakeCombatEvents, TypeOK
    <2>3. PlayersArePlaced'
      BY <1>1, <1>4 DEF TakeCombatEvents, PlayersArePlaced
    <2>4. QED  BY <2>1, <2>2, <2>3 DEF Placement
  <1>5. QED  BY <1>2, <1>3, <1>4 DEF TickProjectiles

LEMMA PlacementNext ==
  ASSUME Placement, [Next]_vars
  PROVE  Placement'
  <1>1. CASE UNCHANGED vars
    <2>1. UNCHANGED <<players, player, enemy, projectiles, events, dbgPaths, clock, phase, todo, activeRooms>>
      BY <1>1 DEF vars, world, tick
    <2>2. enemy' \in [Enemies -> EnemyState] /\ EnemiesAreOnTheirWay'
      BY <2>1, PlacementOfEnemies
    <2>3. QED  BY <2>1, <2>2 DEF Placement, TypeOK, PlayersArePlaced
  <1>2. QED
    BY <1>1, PlacementCommands, PlacementPlayers, PlacementEnemies, PlacementProjectiles
    DEF Next, Tick

\* The inductive invariant: in every state all variables have their types, every
\* player stands where a player fits, and every enemy is on a free tile or on a
\* straight way between two, whatever the map and the choices of the search.
THEOREM PlacementIsInvariant == Spec => []Placement
  <1>1. QED  BY PlacementInit, PlacementNext, PTL DEF Spec

LEMMA PlacementIsEnough ==
  ASSUME Placement
  PROVE  EverybodyIsPlaced
  <1>1. TypeOK /\ PlayersArePlaced /\ EnemiesAreOnTheirWay
    BY DEF Placement
  <1>2. NobodyInWalls
    <2>1. ASSUME NEW b, CanPlaceBox(b)
          PROVE  /\ TilesUnder(b) \cap BlockedTiles = {}
                 /\ b.x + b.w <= MapCellWidth /\ b.y + b.h <= MapCellHeight
      BY <2>1 DEF CanPlaceBox, TilesUnder
    <2>2. \A p \in players : CanPlaceBox(PlayerBox(player[p].pos))
      BY <1>1 DEF PlayersArePlaced, CanPlacePlayer, TypeOK
    <2>3. ASSUME NEW e \in Enemies
          PROVE  /\ TilesUnder(EnemyBox(enemy[e].pos)) \cap BlockedTiles = {}
                 /\ \A t \in TilesUnder(EnemyBox(enemy[e].pos)) :
                      [x |-> t.x \div RoomWidth, y |-> t.y \div RoomHeight] = HomeRoom(e)
      <3>1. /\ enemy[e].direction \in Facings
            /\ OnTile(e, enemy[e]) \/ OnLane(e, enemy[e])
        BY <1>1 DEF TypeOK, EnemyState, EnemiesAreOnTheirWay
      <3>2. /\ CanPlaceEnemy(enemy[e].pos)
            /\ \A t \in TilesUnder(EnemyBox(enemy[e].pos)) :
                 [x |-> t.x \div RoomWidth, y |-> t.y \div RoomHeight] = HomeRoom(e)
        BY <3>1, OnTheWayIsPlaced
      <3>3. QED  BY <2>1, <3>2 DEF CanPlaceEnemy
    <2>4. QED  BY <2>1, <2>2, <2>3 DEF NobodyInWalls
  <1>3. WalksBetweenTiles
    <2> DEFINE on(e, p) == ToWorldCellPosition(HomeRoom(e), ToLocalTile(HomeRoom(e), p)) = p
    <2>1. ASSUME NEW e \in Enemies, NEW t \in Walkable(HomeRoom(e))
          PROVE  on(e, ToWorldCellPosition(HomeRoom(e), t))
      <3>1. t \in LocalTile
        BY DEF Walkable
      <3>2. ToLocalTile(HomeRoom(e), ToWorldCellPosition(HomeRoom(e), t)) = t
        BY <3>1, HomeOfEnemy, WorldPosition
      <3>3. QED  BY <3>2
    <2>2. SUFFICES ASSUME NEW e \in Enemies
                   PROVE  IF enemy[e].waypoint = NoWaypoint THEN on(e, enemy[e].pos)
                          ELSE /\ on(e, enemy[e].waypoint) /\ CanPlaceEnemy(enemy[e].waypoint)
                               /\ enemy[e].waypoint # enemy[e].pos
                               /\ enemy[e].direction = DirectionTo(enemy[e].pos, enemy[e].waypoint)
                               /\ \/ enemy[e].pos.x = enemy[e].waypoint.x
                                  \/ enemy[e].pos.y = enemy[e].waypoint.y
      BY DEF WalksBetweenTiles
    <2> DEFINE s == enemy[e]
               R == HomeRoom(e)
               d == s.direction
    <2>3. d \in Facings /\ R \in RoomCoordinate
      BY <1>1, HomeOfEnemy DEF TypeOK, EnemyState
    <2>4. CASE OnTile(e, s)
      <3>1. s.waypoint = NoWaypoint
        BY <2>4 DEF OnTile
      <3>2. PICK t \in Walkable(R) : s.pos = ToWorldCellPosition(R, t)
        BY <2>4 DEF OnTile
      <3>3. on(e, s.pos)
        BY <2>1, <3>2
      <3>4. QED  BY <3>1, <3>3
    <2>5. CASE OnLane(e, s)
      <3>1. PICK t \in Walkable(R) : \E n \in 1 .. Size(d) - 1 :
               /\ Step(t, d) \in Walkable(R)
               /\ s.waypoint = ToWorldCellPosition(R, Step(t, d))
               /\ s.pos = Along(ToWorldCellPosition(R, t), d, n)
        BY <2>5 DEF OnLane
      <3>2. PICK n \in 1 .. Size(d) - 1 :
               /\ Step(t, d) \in Walkable(R)
               /\ s.waypoint = ToWorldCellPosition(R, Step(t, d))
               /\ s.pos = Along(ToWorldCellPosition(R, t), d, n)
        BY <3>1
      <3> DEFINE w == ToWorldCellPosition(R, t)
      <3>3. /\ w.x \in Int /\ w.y \in Int /\ Size(d) \in Nat \ {0}
            /\ s.waypoint = Along(w, d, Size(d))
        BY <2>3, <3>2, WorldOfStep DEF Walkable
      <3>4. n \in Nat /\ Size(d) \in Nat /\ n < Size(d)
        BY <3>3
      <3>5. /\ DirectionTo(s.pos, s.waypoint) = d /\ s.pos # s.waypoint
            /\ s.pos.x = s.waypoint.x \/ s.pos.y = s.waypoint.y
        <4> HIDE DEF w, d
        <4>1. s.pos = Along(w, d, n)
          BY <3>2 DEF w
        <4>2. QED  BY <2>3, <3>3, <3>4, <4>1, DirectionOfLane
      <3>6. on(e, s.waypoint)
        BY <2>1, <3>2
      <3>7. CanPlaceEnemy(s.waypoint)
        BY <3>2 DEF Walkable
      <3>8. s.waypoint # NoWaypoint
        BY <2>3, <2>5, OnTheWayIsPlaced
      <3> HIDE DEF on
      <3>9. QED  BY <3>5, <3>6, <3>7, <3>8
    <2>6. QED  BY <1>1, <2>4, <2>5 DEF EnemiesAreOnTheirWay
  <1>4. QED  BY <1>1, <1>2, <1>3 DEF EverybodyIsPlaced

\* Nobody is ever in a wall or across the border of the map, no part of an enemy
\* is outside its room, and an enemy keeps to the grid on which paths are
\* searched, although its first step towards a tile is not checked
\* (OverworldSimulation.cpp:604-620): for every map, room size and step order.
THEOREM EverybodyIsAlwaysPlaced == Spec => []EverybodyIsPlaced
  <1>1. QED  BY PlacementIsInvariant, PlacementIsEnough, PTL

-----------------------------------------------------------------------------
(* Projectiles and their owners.                                           *)

LEMMA FlightInit == Init => CooldownCoversFlight /\ OwnersDiffer /\ MovedProjectilesAreOwned
  BY DEF Init, CooldownCoversFlight, OwnersDiffer, MovedProjectilesAreOwned

LEMMA FlightTypes ==
  ASSUME TypeOK
  PROVE  \A q \in projectiles :
           /\ q.owner \in Enemies /\ q.remain \in Int /\ q.remain >= 1
           /\ enemy[q.owner].attackCooldown \in Int
  BY Ticks DEF TypeOK, Projectile, EnemyState

\* Where the tick neither moves a projectile nor counts a cooldown down, the
\* cooldown covers the flight as before, if it is not asked to be further ahead.
LEMMA CooldownStillCovers ==
  ASSUME TypeOK, CooldownCoversFlight, projectiles' = projectiles,
         \A e \in Enemies : enemy'[e].attackCooldown = enemy[e].attackCooldown,
         \A q \in projectiles : CooldownIsAhead(q)' => CooldownIsAhead(q)
  PROVE  CooldownCoversFlight'
  <1>1. SUFFICES ASSUME NEW q \in projectiles
                 PROVE  enemy'[q.owner].attackCooldown >=
                          q.remain + (AttackCooldownTicks - ProjectileTicks)
                                   + (IF CooldownIsAhead(q)' THEN 1 ELSE 0)
    BY DEF CooldownCoversFlight
  <1>2. enemy[q.owner].attackCooldown >=
          q.remain + (AttackCooldownTicks - ProjectileTicks)
                   + (IF CooldownIsAhead(q) THEN 1 ELSE 0)
    BY DEF CooldownCoversFlight
  <1>3. /\ q.owner \in Enemies /\ q.remain \in Int
        /\ enemy[q.owner].attackCooldown \in Int
    BY FlightTypes
  <1>4. enemy'[q.owner].attackCooldown = enemy[q.owner].attackCooldown
    BY <1>3
  <1>5. CooldownIsAhead(q)' => CooldownIsAhead(q)
    OBVIOUS
  <1>6. QED  BY <1>2, <1>3, <1>4, <1>5, Ticks

\* Steps outside the loops over the enemies and the projectiles.
LEMMA FlightQuiet ==
  ASSUME Flight, projectiles' = projectiles,
         BeginTick \/ (\E p \in Players : AttackEnemy(p)) \/ UNCHANGED enemy,
         phase' \in {"idle", "players", "enemies"},
         phase \in {"idle", "players", "taken"}
  PROVE  CooldownCoversFlight' /\ OwnersDiffer' /\ MovedProjectilesAreOwned'
  <1>1. TypeOK /\ CooldownCoversFlight /\ OwnersDiffer
    BY DEF Flight
  <1>2. \A e \in Enemies : enemy'[e].attackCooldown = enemy[e].attackCooldown
    BY <1>1, EnemiesStay
  <1>3. \A q \in projectiles : CooldownIsAhead(q)
    BY DEF CooldownIsAhead
  <1>4. CooldownCoversFlight'
    BY <1>1, <1>2, <1>3, CooldownStillCovers
  <1>5. OwnersDiffer'
    BY <1>1 DEF OwnersDiffer
  <1>6. MovedProjectilesAreOwned'
    BY DEF MovedProjectilesAreOwned
  <1>7. QED  BY <1>4, <1>5, <1>6

LEMMA FlightEnemies ==
  ASSUME Flight, EnemiesAreOnTheirWay, NEW e \in Enemies,
         SkipEnemy(e) \/ HoldEnemy(e) \/ FollowWaypoint(e) \/ FindPath(e)
  PROVE  CooldownCoversFlight' /\ OwnersDiffer' /\ MovedProjectilesAreOwned'
  <1>1. TypeOK /\ CooldownCoversFlight /\ OwnersDiffer
    BY DEF Flight
  <1>2. PICK s, new, path : EnemyTurn(e, s, new, path)
    BY <1>1, EveryEnemyHasATurn
  <1>3. /\ phase = "enemies" /\ phase' = "enemies" /\ e \in todo /\ todo' = todo \ {e}
        /\ enemy' = [enemy EXCEPT ![e] = s] /\ projectiles' = projectiles \cup new
        /\ s.attackCooldown >= enemy[e].attackCooldown - 1
        /\ \A q \in new : /\ q.owner = e /\ q.remain = ProjectileTicks
                          /\ enemy[e].attackCooldown <= 1
                          /\ s.attackCooldown = AttackCooldownTicks
        /\ \A q, r \in new : q = r
        /\ s.attackCooldown \in Int /\ enemy \in [Enemies -> EnemyState]
    BY <1>1, <1>2, Ticks DEF EnemyTurn, EnemyState, TypeOK
  <1>4. \A q \in projectiles :
          /\ q.owner \in Enemies /\ q.remain \in Int /\ q.remain >= 1
          /\ enemy[q.owner].attackCooldown \in Int
          /\ enemy[q.owner].attackCooldown >=
               q.remain + (AttackCooldownTicks - ProjectileTicks)
                        + (IF q.owner \in todo THEN 1 ELSE 0)
    BY <1>1, <1>3, FlightTypes DEF CooldownCoversFlight, CooldownIsAhead
  <1>5. new # {} => \A q \in projectiles : q.owner # e
    <2>1. SUFFICES ASSUME new # {}, NEW q \in projectiles, q.owner = e
                   PROVE  FALSE
      OBVIOUS
    <2>2. enemy[e].attackCooldown <= 1
      BY <1>3, <2>1
    <2>3. enemy[e].attackCooldown >= q.remain + (AttackCooldownTicks - ProjectileTicks) + 1
      BY <1>3, <1>4, <2>1
    <2>4. q.remain \in Int /\ q.remain >= 1 /\ enemy[e].attackCooldown \in Int
      BY <1>4, <2>1
    <2>5. QED  BY <2>2, <2>3, <2>4, Ticks
  <1>6. OwnersDiffer'
    BY <1>1, <1>3, <1>5 DEF OwnersDiffer
  <1>7. CooldownCoversFlight'
    <2>1. SUFFICES ASSUME NEW q \in projectiles'
                   PROVE  enemy'[q.owner].attackCooldown >=
                            q.remain + (AttackCooldownTicks - ProjectileTicks)
                                     + (IF q.owner \in todo' THEN 1 ELSE 0)
      BY <1>3 DEF CooldownCoversFlight, CooldownIsAhead
    <2>2. CASE q \in new
      <3>1. /\ enemy'[q.owner].attackCooldown = AttackCooldownTicks
            /\ q.owner \notin todo' /\ q.remain = ProjectileTicks
        BY <1>3, <2>2
      <3>2. QED  BY <3>1, Ticks
    <2>3. CASE q \in projectiles /\ q.owner = e
      <3>1. /\ enemy'[q.owner].attackCooldown >= enemy[q.owner].attackCooldown - 1
            /\ enemy'[q.owner].attackCooldown \in Int
            /\ q.owner \notin todo' /\ q.owner \in todo
        BY <1>3, <2>3
      <3>2. QED  BY <1>4, <2>3, <3>1, Ticks
    <2>4. CASE q \in projectiles /\ q.owner # e
      <3>1. /\ enemy'[q.owner] = enemy[q.owner]
            /\ (q.owner \in todo' <=> q.owner \in todo)
        BY <1>3, <1>4, <2>4
      <3>2. QED  BY <1>4, <2>4, <3>1
    <2>5. QED  BY <1>3, <2>2, <2>3, <2>4
  <1>8. MovedProjectilesAreOwned'
    BY <1>3 DEF MovedProjectilesAreOwned
  <1>9. QED  BY <1>6, <1>7, <1>8

LEMMA FlightProjectiles ==
  ASSUME Flight, NEW q \in projectiles,
         RemoveProjectile(q) \/ HitPlayer(q) \/ MoveProjectile(q)
  PROVE  CooldownCoversFlight' /\ OwnersDiffer' /\ MovedProjectilesAreOwned'
  <1>1. TypeOK /\ CooldownCoversFlight /\ OwnersDiffer /\ MovedProjectilesAreOwned
    BY DEF Flight
  <1>2. PICK left : ProjectileTurn(q, left)
    BY <1>1, ProjectileHasATurn
  <1>3. /\ phase = "projectiles" /\ phase' = "projectiles" /\ q \in todo /\ todo' = todo \ {q}
        /\ enemy' = enemy /\ activeRooms' = activeRooms
        /\ left \subseteq {Flown(q)} /\ projectiles' = (projectiles \ {q}) \cup left
        /\ left # {} => /\ ~Vanishes(q) /\ GetRoomAt(Flown(q).pos) = HomeRoom(q.owner)
    BY <1>2 DEF ProjectileTurn, NextProjectile
  <1>4. /\ Flown(q).owner = q.owner /\ Flown(q).remain = q.remain - 1
        /\ q.owner \in Enemies /\ q.remain \in Int
    BY <1>1, Ticks DEF TypeOK, Projectile, Flown
  <1>5. \A r \in projectiles' : \E p \in projectiles : r.owner = p.owner /\ (r = p \/ p = q)
    BY <1>3, <1>4
  <1>6. OwnersDiffer'
    <2>1. SUFFICES ASSUME NEW r \in projectiles', NEW p \in projectiles', r.owner = p.owner
                   PROVE  r = p
      BY DEF OwnersDiffer
    <2>2. CASE r \in projectiles \ {q} /\ p \in projectiles \ {q}
      BY <1>1, <2>1, <2>2 DEF OwnersDiffer
    <2>3. CASE r \in left /\ p \in left
      BY <1>3, <2>3
    <2>4. CASE r \in left /\ p \in projectiles \ {q}
      <3>1. p.owner = q.owner
        BY <1>3, <1>4, <2>1, <2>4
      <3>2. QED  BY <1>1, <2>4, <3>1 DEF OwnersDiffer
    <2>5. CASE p \in left /\ r \in projectiles \ {q}
      <3>1. r.owner = q.owner
        BY <1>3, <1>4, <2>1, <2>5
      <3>2. QED  BY <1>1, <2>5, <3>1 DEF OwnersDiffer
    <2>6. QED  BY <1>3, <2>2, <2>3, <2>4, <2>5
  <1>7. CooldownCoversFlight'
    <2>1. SUFFICES ASSUME NEW r \in projectiles'
                   PROVE  enemy[r.owner].attackCooldown >=
                            r.remain + (AttackCooldownTicks - ProjectileTicks)
                                     + (IF r \notin todo' THEN 1 ELSE 0)
      BY <1>3 DEF CooldownCoversFlight, CooldownIsAhead
    <2>2. \A p \in projectiles :
            /\ enemy[p.owner].attackCooldown \in Int /\ p.remain \in Int
            /\ enemy[p.owner].attackCooldown >=
                 p.remain + (AttackCooldownTicks - ProjectileTicks)
                          + (IF p \notin todo THEN 1 ELSE 0)
      BY <1>1, <1>3, FlightTypes DEF CooldownCoversFlight, CooldownIsAhead
    <2>3. CASE r \in projectiles \ {q}
      <3>1. r \in todo' <=> r \in todo
        BY <1>3, <2>3
      <3>2. QED  BY <2>2, <2>3, <3>1
    <2>4. CASE r \in left
      <3>1. r.owner = q.owner /\ r.remain = q.remain - 1
        BY <1>3, <1>4, <2>4
      <3>2. QED  BY <1>3, <1>4, <2>2, <3>1, Ticks
    <2>5. QED  BY <1>3, <2>3, <2>4
  <1>8. MovedProjectilesAreOwned'
    <2>1. SUFFICES ASSUME NEW r \in projectiles', r \notin todo'
                   PROVE  /\ enemy[r.owner].hp > 0 /\ HomeRoom(r.owner) \in activeRooms
                          /\ GetRoomAt(r.pos) = HomeRoom(r.owner)
      BY <1>3 DEF MovedProjectilesAreOwned
    <2>2. CASE r \in projectiles \ {q}
      <3>1. r \notin todo
        BY <1>3, <2>1, <2>2
      <3>2. QED  BY <1>1, <1>3, <2>2, <3>1 DEF MovedProjectilesAreOwned
    <2>3. CASE r \in left
      <3>1. r = Flown(q) /\ ~Vanishes(q) /\ GetRoomAt(r.pos) = HomeRoom(r.owner)
        BY <1>3, <1>4, <2>3
      <3>2. HomeRoom(q.owner) \in activeRooms /\ enemy[q.owner].hp # 0
        BY <3>1 DEF Vanishes
      <3>3. enemy[q.owner].hp > 0
        BY <1>1, <1>4, <3>2 DEF TypeOK, EnemyState
      <3>4. QED  BY <1>4, <3>1, <3>2, <3>3
    <2>4. QED  BY <1>3, <2>2, <2>3
  <1>9. QED  BY <1>6, <1>7, <1>8

LEMMA FlightNext ==
  ASSUME Placement, Flight, [Next]_vars
  PROVE  CooldownCoversFlight' /\ OwnersDiffer' /\ MovedProjectilesAreOwned'
  <1>1. TypeOK /\ EnemiesAreOnTheirWay
    BY DEF Placement
  <1> DEFINE Goal == CooldownCoversFlight' /\ OwnersDiffer' /\ MovedProjectilesAreOwned'
  <1> HIDE DEF Goal
  <1> SUFFICES Goal
    BY DEF Goal
  <1>2. ASSUME NEW p \in Players, SpawnPlayer(p) \/ DespawnPlayer(p)
                 \/ \E direction \in InputDirections, attack \in BOOLEAN : SetInput(p, direction, attack)
        PROVE  Goal
    BY <1>2, FlightQuiet DEF SpawnPlayer, DespawnPlayer, SetInput, tick, Goal
  <1>3. CASE BeginTick
    <2>1. projectiles' = projectiles /\ phase = "idle" /\ phase' = "players"
      BY <1>3 DEF BeginTick
    <2>2. QED  BY <1>3, <2>1, FlightQuiet DEF Goal
  <1>4. ASSUME NEW p \in Players, SkipPlayer(p) \/ MovePlayer(p) \/ AttackEnemy(p)
        PROVE  Goal
    <2>1. projectiles' = projectiles /\ phase = "players" /\ phase' = "players"
      BY <1>4 DEF SkipPlayer, MovePlayer, AttackEnemy, NextPlayer
    <2>2. AttackEnemy(p) \/ enemy' = enemy
      BY <1>4 DEF SkipPlayer, MovePlayer
    <2>3. QED  BY <2>1, <2>2, FlightQuiet DEF Goal
  <1>5. CASE EndPlayers \/ TakeCombatEvents
    <2>1. /\ projectiles' = projectiles /\ enemy' = enemy /\ phase \in {"players", "taken"}
          /\ phase' \in {"idle", "players", "enemies"}
      BY <1>5 DEF EndPlayers, TakeCombatEvents, world
    <2>2. QED  BY <2>1, FlightQuiet DEF Goal
  <1>6. ASSUME NEW e \in Enemies,
               SkipEnemy(e) \/ HoldEnemy(e) \/ FollowWaypoint(e) \/ FindPath(e)
        PROVE  Goal
    BY <1>1, <1>6, FlightEnemies DEF Goal
  <1>7. CASE EndEnemies \/ EndTick \/ UNCHANGED vars
    <2>1. /\ UNCHANGED <<projectiles, enemy, activeRooms>>
          /\ \/ phase = "enemies" /\ todo = {} /\ phase' = "projectiles" /\ todo' = projectiles
             \/ phase = "projectiles" /\ todo = {} /\ phase' = "taken"
             \/ UNCHANGED <<phase, todo>>
      BY <1>7 DEF EndEnemies, EndTick, vars, world, tick
    <2>2. CooldownCoversFlight'
      <3>1. \A q \in projectiles : CooldownIsAhead(q)' => CooldownIsAhead(q)
        BY <2>1 DEF CooldownIsAhead
      <3>2. QED  BY <2>1, <3>1, <1>1, CooldownStillCovers DEF Flight
    <2>3. OwnersDiffer'
      BY <2>1 DEF Flight, OwnersDiffer
    <2>4. MovedProjectilesAreOwned'
      BY <2>1 DEF Flight, MovedProjectilesAreOwned
    <2>5. QED  BY <2>2, <2>3, <2>4 DEF Goal
  <1>8. ASSUME NEW q \in projectiles, RemoveProjectile(q) \/ HitPlayer(q) \/ MoveProjectile(q)
        PROVE  Goal
    BY <1>8, FlightProjectiles DEF Goal
  <1>9. Commands => Goal
    BY <1>2 DEF Commands
  <1>10. TickPlayers => Goal
    BY <1>4, <1>5 DEF TickPlayers
  <1>11. TickEnemies => Goal
    BY <1>6, <1>7 DEF TickEnemies
  <1>12. TickProjectiles => Goal
    BY <1>7, <1>8 DEF TickProjectiles
  <1>13. QED
    BY <1>3, <1>5, <1>7, <1>9, <1>10, <1>11, <1>12 DEF Next, Tick

\* The inductive invariant of the projectiles: the owner's cooldown outlasts the
\* flight, so that a second spear cannot be thrown while one is in the air.
THEOREM FlightIsInvariant == Spec => []Flight
  <1>1. Init => Flight
    BY PlacementInit, FlightInit DEF Placement, Flight
  <1>2. Flight /\ Placement /\ Placement' /\ [Next]_vars => Flight'
    BY FlightNext DEF Flight, Placement
  <1>3. QED  BY <1>1, <1>2, PlacementIsInvariant, PTL DEF Spec

\* After every tick an enemy has one projectile at most, in its own room, and
\* it is alive and its room active: for any cooldown longer than the flight.
THEOREM OneProjectileEachAlways == Spec => []OneProjectileEach
  <1>1. Flight => OneProjectileEach
    BY DEF Flight, OwnersDiffer, MovedProjectilesAreOwned, OneProjectileEach
  <1>2. QED  BY <1>1, FlightIsInvariant, PTL

-----------------------------------------------------------------------------
(* Combat events.                                                          *)

Events == TypeOK /\ EventsAreOfThisTick /\ EventsReachTheAttacker

\* The events stay true while their attackers stay as they are.
LEMMA EventsStayTrue ==
  ASSUME Events, events' \subseteq events,
         \A p \in players :
           (\E v \in events : v.player = p) =>
             /\ p \in players' /\ player'[p].pos = player[p].pos
             /\ player'[p].direction = player[p].direction
  PROVE  EventsReachTheAttacker'
  BY DEF Events, EventsReachTheAttacker

LEMMA EventsNext ==
  ASSUME Events, [Next]_vars
  PROVE  EventsAreOfThisTick' /\ EventsReachTheAttacker'
  <1> DEFINE Goal == EventsAreOfThisTick' /\ EventsReachTheAttacker'
  <1> HIDE DEF Goal
  <1> SUFFICES Goal
    BY DEF Goal
  <1>1. /\ player \in [Players -> PlayerState] /\ players \subseteq Players
        /\ EventsAreOfThisTick /\ EventsReachTheAttacker
        /\ \A v \in events : v.player \in players
    BY DEF Events, TypeOK, EventsReachTheAttacker
  <1>2. CASE Commands \/ BeginTick
    <2>1. events = {} /\ events' = {} /\ phase' \in {"idle", "players"}
      BY <1>1, <1>2 DEF Commands, SpawnPlayer, DespawnPlayer, SetInput, BeginTick, tick,
                        EventsAreOfThisTick
    <2>2. QED  BY <2>1 DEF Goal, EventsAreOfThisTick, EventsReachTheAttacker
  <1>3. ASSUME NEW p \in Players, SkipPlayer(p) \/ MovePlayer(p) \/ AttackEnemy(p)
        PROVE  Goal
    <2>1. /\ phase = "players" /\ phase' = "players" /\ p \in todo /\ todo' = todo \ {p}
          /\ players' = players
      BY <1>3 DEF SkipPlayer, MovePlayer, AttackEnemy, NextPlayer
    <2>2. \A v \in events : v.player # p /\ v.player \notin todo
      BY <1>1, <2>1 DEF EventsAreOfThisTick
    <2>3. \A q \in players \ {p} : player'[q] = player[q]
      BY <1>1, <1>3 DEF SkipPlayer, MovePlayer, AttackEnemy
    <2>4. CASE SkipPlayer(p) \/ MovePlayer(p)
      <3>1. events' = events
        BY <2>4 DEF SkipPlayer, MovePlayer
      <3>2. EventsReachTheAttacker'
        BY <2>1, <2>2, <2>3, <3>1, EventsStayTrue
      <3>3. EventsAreOfThisTick'
        BY <2>1, <2>2, <3>1 DEF EventsAreOfThisTick
      <3>4. QED  BY <3>2, <3>3 DEF Goal
    <2>5. CASE AttackEnemy(p)
      <3> DEFINE new == [player |-> p, direction |-> player[p].direction,
                         room |-> GetRoomAt(player[p].pos)]
      <3>1. events' = events \cup {new} /\ p \in players
        BY <2>5 DEF AttackEnemy, Alive
      <3>2. /\ player'[p].pos = player[p].pos /\ player'[p].direction = player[p].direction
        BY <1>1, <2>5 DEF AttackEnemy, PlayerState
      <3>3. EventsReachTheAttacker'
        BY <1>1, <2>1, <2>2, <2>3, <3>1, <3>2 DEF EventsReachTheAttacker
      <3>4. EventsAreOfThisTick'
        BY <2>1, <2>2, <3>1 DEF EventsAreOfThisTick
      <3>5. QED  BY <3>3, <3>4 DEF Goal
    <2>6. QED  BY <1>3, <2>4, <2>5
  <1>4. CASE EndPlayers \/ EndEnemies \/ EndTick \/ UNCHANGED vars
    <2>1. UNCHANGED <<players, player, events>>
      BY <1>4 DEF EndPlayers, EndEnemies, EndTick, vars, world
    <2>2. \/ phase' \in {"enemies", "projectiles", "taken"}
          \/ phase' = phase /\ todo' = todo
      BY <1>4 DEF EndPlayers, EndEnemies, EndTick, vars, tick
    <2>3. EventsReachTheAttacker'
      BY <2>1, EventsStayTrue
    <2>4. EventsAreOfThisTick'
      BY <1>1, <2>1, <2>2 DEF EventsAreOfThisTick
    <2>5. QED  BY <2>3, <2>4 DEF Goal
  <1>5. ASSUME NEW e \in Enemies,
               SkipEnemy(e) \/ HoldEnemy(e) \/ FollowWaypoint(e) \/ FindPath(e)
        PROVE  Goal
    <2>1. UNCHANGED <<players, player, events>> /\ phase' = "enemies"
      BY <1>5 DEF SkipEnemy, HoldEnemy, FollowWaypoint, FindPath, NextEnemy
    <2>2. EventsReachTheAttacker'
      BY <2>1, EventsStayTrue
    <2>3. QED  BY <2>1, <2>2 DEF Goal, EventsAreOfThisTick
  <1>6. ASSUME NEW q \in projectiles, RemoveProjectile(q) \/ HitPlayer(q) \/ MoveProjectile(q)
        PROVE  Goal
    <2>1. UNCHANGED <<players, events>> /\ phase' = "projectiles"
      BY <1>6 DEF RemoveProjectile, HitPlayer, MoveProjectile, NextProjectile
    <2>2. \A p \in players : /\ player'[p].pos = player[p].pos
                             /\ player'[p].direction = player[p].direction
      <3>1. CASE player' = player
        BY <3>1
      <3>2. ASSUME NEW p \in PlayersHit(q), player' = [player EXCEPT ![p] = Hurt(@)]
            PROVE  \A r \in players : /\ player'[r].pos = player[r].pos
                                      /\ player'[r].direction = player[r].direction
        <4>1. p \in Players
          BY <1>1 DEF PlayersHit
        <4>2. Hurt(player[p]).pos = player[p].pos /\ Hurt(player[p]).direction = player[p].direction
          BY <1>1, <4>1 DEF Hurt, PlayerState
        <4>3. QED  BY <1>1, <3>2, <4>1, <4>2
      <3>3. QED  BY <1>6, <3>1, <3>2 DEF RemoveProjectile, HitPlayer, MoveProjectile
    <2>3. EventsReachTheAttacker'
      BY <2>1, <2>2, EventsStayTrue
    <2>4. QED  BY <2>1, <2>3 DEF Goal, EventsAreOfThisTick
  <1>7. CASE TakeCombatEvents
    BY <1>7 DEF TakeCombatEvents, Goal, EventsAreOfThisTick, EventsReachTheAttacker
  <1>8. TickPlayers => Goal
    BY <1>3, <1>4 DEF TickPlayers
  <1>9. TickEnemies => Goal
    BY <1>4, <1>5 DEF TickEnemies
  <1>10. TickProjectiles => Goal
    BY <1>4, <1>6 DEF TickProjectiles
  <1>11. QED
    BY <1>2, <1>4, <1>7, <1>8, <1>9, <1>10 DEF Next, Tick

\* When the server takes an event its attacker is still a player, in the room
\* the event is sent to and facing the way the blow went.
THEOREM EventsAlwaysReachTheAttacker == Spec => []EventsReachTheAttacker
  <1>1. Init => Events
    <2>1. Init => EventsAreOfThisTick /\ EventsReachTheAttacker
      BY DEF Init, EventsAreOfThisTick, EventsReachTheAttacker
    <2>2. QED  BY <2>1, PlacementInit DEF Placement, Events
  <1>2. Events /\ Placement' /\ [Next]_vars => Events'
    BY EventsNext DEF Events, Placement
  <1>3. Events => EventsReachTheAttacker
    BY DEF Events
  <1>4. QED  BY <1>1, <1>2, <1>3, PlacementIsInvariant, PTL DEF Spec

-----------------------------------------------------------------------------
(* What one step may do to whom.                                           *)

\* A command, or a turn of a player.
LEMMA PlayerStep ==
  ASSUME TypeOK, Commands \/ TickPlayers
  PROVE  /\ projectiles' = projectiles /\ phase' # "projectiles" /\ phase # "enemies"
         /\ \A p \in players \cap players' :
              /\ player'[p].hp = player[p].hp
              /\ player[p].hp = 0 => /\ player'[p].pos = player[p].pos
                                     /\ player'[p].direction = player[p].direction
                                     /\ \A v \in events' \ events : v.player # p
         /\ enemy' = enemy \/ \E p \in Players : AttackEnemy(p)
  <1>1. player \in [Players -> PlayerState] /\ players \subseteq Players
    BY DEF TypeOK
  <1>2. ASSUME NEW q \in Players, SpawnPlayer(q) \/ DespawnPlayer(q)
        PROVE  /\ projectiles' = projectiles /\ enemy' = enemy /\ events' = events
               /\ phase = "idle" /\ phase' = "idle"
               /\ \A p \in players \cap players' : player'[p] = player[p]
    BY <1>1, <1>2 DEF SpawnPlayer, DespawnPlayer, tick
  <1>3. ASSUME NEW q \in Players, NEW direction \in InputDirections, NEW attack \in BOOLEAN,
               SetInput(q, direction, attack)
        PROVE  /\ projectiles' = projectiles /\ enemy' = enemy /\ events' = events
               /\ phase = "idle" /\ phase' = "idle"
               /\ \A p \in players \cap players' :
                    /\ player'[p].hp = player[p].hp
                    /\ player'[p].pos = player[p].pos
                    /\ player'[p].direction = player[p].direction
    <2>1. /\ UNCHANGED <<projectiles, enemy, events>> /\ phase = "idle" /\ phase' = "idle"
      BY <1>3 DEF SetInput, tick
    <2>2. \A p \in Players : /\ player'[p].hp = player[p].hp
                             /\ player'[p].pos = player[p].pos
                             /\ player'[p].direction = player[p].direction
      BY <1>1, <1>3 DEF SetInput, PlayerState
    <2>3. QED  BY <1>1, <2>1, <2>2
  <1>4. ASSUME NEW q \in Players, SkipPlayer(q) \/ MovePlayer(q) \/ AttackEnemy(q)
        PROVE  /\ projectiles' = projectiles /\ phase = "players" /\ phase' = "players"
               /\ enemy' = enemy \/ AttackEnemy(q)
               /\ \A p \in Players : player'[p].hp = player[p].hp
               /\ \A p \in Players : player[p].hp = 0 => player'[p] = player[p]
               /\ \A v \in events' \ events : v.player = q /\ player[q].hp > 0
    <2>1. /\ projectiles' = projectiles /\ phase = "players" /\ phase' = "players"
          /\ enemy' = enemy \/ AttackEnemy(q)
      BY <1>4 DEF SkipPlayer, MovePlayer, AttackEnemy, NextPlayer
    <2>2. CASE SkipPlayer(q)
      BY <2>1, <2>2 DEF SkipPlayer
    <2>3. CASE MovePlayer(q)
      <3>1. events' = events /\ player[q].hp > 0
        BY <2>3 DEF MovePlayer, Alive
      <3>2. \A p \in Players : p # q => player'[p] = player[p]
        BY <1>1, <2>3 DEF MovePlayer
      <3>3. player'[q].hp = player[q].hp
        BY <1>1, <2>3 DEF MovePlayer, PlayerState
      <3>4. QED  BY <2>1, <3>1, <3>2, <3>3
    <2>4. CASE AttackEnemy(q)
      <3>1. player[q].hp > 0
        BY <2>4 DEF AttackEnemy, Alive
      <3>2. \A v \in events' \ events : v.player = q
        <4> DEFINE new == [player |-> q, direction |-> player[q].direction,
                           room |-> GetRoomAt(player[q].pos)]
        <4>1. new.player = q
          OBVIOUS
        <4>2. events' = events \cup {new}
          BY <2>4 DEF AttackEnemy
        <4> HIDE DEF new
        <4>3. QED  BY <4>1, <4>2
      <3>3. \A p \in Players : p # q => player'[p] = player[p]
        BY <1>1, <2>4 DEF AttackEnemy
      <3>4. player'[q].hp = player[q].hp
        BY <1>1, <2>4 DEF AttackEnemy, PlayerState
      <3>5. QED  BY <2>1, <3>1, <3>2, <3>3, <3>4
    <2>5. QED  BY <1>4, <2>2, <2>3, <2>4
  <1>5. CASE EndPlayers
    <2>1. /\ UNCHANGED <<players, player, enemy, projectiles, events>>
          /\ phase = "players" /\ phase' = "enemies"
      BY <1>5 DEF EndPlayers, world
    <2>2. QED  BY <2>1
  <1>6. CASE Commands
    <2>1. PICK q \in Players :
            \/ SpawnPlayer(q) \/ DespawnPlayer(q)
            \/ \E direction \in InputDirections, attack \in BOOLEAN : SetInput(q, direction, attack)
      BY <1>6 DEF Commands
    <2>2. CASE SpawnPlayer(q) \/ DespawnPlayer(q)
      BY <1>2, <2>2
    <2>3. ASSUME NEW direction \in InputDirections, NEW attack \in BOOLEAN,
                 SetInput(q, direction, attack)
          PROVE  /\ projectiles' = projectiles /\ enemy' = enemy /\ events' = events
                 /\ phase = "idle" /\ phase' = "idle"
                 /\ \A p \in players \cap players' :
                      /\ player'[p].hp = player[p].hp
                      /\ player'[p].pos = player[p].pos
                      /\ player'[p].direction = player[p].direction
      BY <1>3, <2>3
    <2>4. QED  BY <2>1, <2>2, <2>3
  <1>7. ASSUME NEW q \in Players, SkipPlayer(q) \/ MovePlayer(q) \/ AttackEnemy(q)
        PROVE  /\ projectiles' = projectiles /\ phase' # "projectiles" /\ phase # "enemies"
               /\ \A p \in players \cap players' :
                    /\ player'[p].hp = player[p].hp
                    /\ player[p].hp = 0 => /\ player'[p].pos = player[p].pos
                                           /\ player'[p].direction = player[p].direction
                                           /\ \A v \in events' \ events : v.player # p
               /\ enemy' = enemy \/ \E p \in Players : AttackEnemy(p)
    <2>1. \A v \in events' \ events : player[v.player].hp > 0
      BY <1>4, <1>7
    <2>2. \A p \in Players : player[p].hp = 0 => \A v \in events' \ events : v.player # p
      BY <2>1
    <2>3. QED  BY <1>1, <1>4, <1>7, <2>2
  <1>8. QED  BY <1>5, <1>6, <1>7 DEF TickPlayers

\* A turn of a projectile: it moves or goes, and hurts one living player at most.
LEMMA ProjectileStep ==
  ASSUME TypeOK, NEW q \in projectiles,
         RemoveProjectile(q) \/ HitPlayer(q) \/ MoveProjectile(q)
  PROVE  /\ phase = "projectiles" /\ phase' = "projectiles" /\ q \in Projectile
         /\ UNCHANGED <<players, enemy, events, dbgPaths, activeRooms>>
         /\ \/ player' = player
            \/ /\ projectiles' = projectiles \ {q}
               /\ \E p \in players : /\ player[p].hp > 0
                                     /\ player' = [player EXCEPT ![p] = Hurt(player[p])]
  <1>1. /\ phase = "projectiles" /\ phase' = "projectiles"
        /\ UNCHANGED <<players, enemy, events, dbgPaths, activeRooms>>
    BY DEF RemoveProjectile, HitPlayer, MoveProjectile, NextProjectile
  <1>2. player \in [Players -> PlayerState] /\ players \subseteq Players /\ q \in Projectile
    BY DEF TypeOK
  <1>3. CASE HitPlayer(q)
    <2>1. PICK p \in PlayersHit(q) : player' = [player EXCEPT ![p] = Hurt(@)]
      BY <1>3 DEF HitPlayer
    <2>2. p \in players /\ player[p].hp > 0
      BY DEF PlayersHit, Alive
    <2>3. player' = [player EXCEPT ![p] = Hurt(player[p])]
      BY <1>2, <2>1, <2>2
    <2>4. projectiles' = projectiles \ {q}
      BY <1>3 DEF HitPlayer
    <2>5. QED  BY <1>1, <1>2, <2>2, <2>3, <2>4
  <1>4. CASE RemoveProjectile(q) \/ MoveProjectile(q)
    BY <1>1, <1>2, <1>4 DEF RemoveProjectile, MoveProjectile
  <1>5. QED  BY <1>3, <1>4

LEMMA HurtLosesAPoint ==
  ASSUME NEW s \in PlayerState
  PROVE  /\ Hurt(s).hp = s.hp - 1 /\ Hurt(s).pos = s.pos
         /\ Hurt(s).direction = s.direction
  BY DEF Hurt, PlayerState

-----------------------------------------------------------------------------
(* The dead do nothing.                                                    *)

LEMMA PathsNext ==
  ASSUME TypeOK, EnemiesAreOnTheirWay, PathsAreOfTheActive, [Next]_vars
  PROVE  PathsAreOfTheActive'
  <1>1. ASSUME NEW e \in Enemies,
               SkipEnemy(e) \/ HoldEnemy(e) \/ FollowWaypoint(e) \/ FindPath(e)
        PROVE  PathsAreOfTheActive'
    <2>1. PICK s, new, path : EnemyTurn(e, s, new, path)
      BY <1>1, EveryEnemyHasATurn
    <2>2. /\ phase = "enemies" /\ todo' = todo \ {e} /\ activeRooms' = activeRooms
          /\ enemy' = [enemy EXCEPT ![e] = s] /\ dbgPaths' = [dbgPaths EXCEPT ![e] = path]
          /\ path = "path" => s.hp > 0 /\ HomeRoom(e) \in activeRooms
      BY <2>1 DEF EnemyTurn
    <2>3. enemy \in [Enemies -> EnemyState] /\ dbgPaths \in [Enemies -> {"none", "empty", "path"}]
      BY DEF TypeOK
    <2>4. SUFFICES ASSUME NEW f \in Enemies, f \notin todo', dbgPaths'[f] = "path"
                   PROVE  enemy'[f].hp > 0 /\ HomeRoom(f) \in activeRooms'
      BY DEF PathsAreOfTheActive
    <2>5. CASE f = e
      BY <2>2, <2>3, <2>4, <2>5
    <2>6. CASE f # e
      <3>1. dbgPaths[f] = "path" /\ f \notin todo /\ enemy'[f] = enemy[f]
        BY <2>2, <2>3, <2>4, <2>6
      <3>2. QED  BY <2>2, <3>1 DEF PathsAreOfTheActive
    <2>7. QED  BY <2>5, <2>6
  <1>2. CASE UNCHANGED vars
    BY <1>2 DEF vars, world, tick, PathsAreOfTheActive
  <1>3. CASE Commands
    BY <1>3 DEF Commands, SpawnPlayer, DespawnPlayer, SetInput, tick, PathsAreOfTheActive
  <1>4. CASE BeginTick \/ TakeCombatEvents
    BY <1>4 DEF BeginTick, TakeCombatEvents, PathsAreOfTheActive
  <1>5. CASE TickPlayers
    <2>1. CASE EndPlayers
      <3>1. phase' = "enemies" /\ todo' = Enemies
        BY <2>1 DEF EndPlayers
      <3>2. QED  BY <3>1 DEF PathsAreOfTheActive
    <2>2. ASSUME NEW p \in Players, SkipPlayer(p) \/ MovePlayer(p) \/ AttackEnemy(p)
          PROVE  PathsAreOfTheActive'
      <3>1. phase' = "players"
        BY <2>2 DEF SkipPlayer, MovePlayer, AttackEnemy, NextPlayer
      <3>2. QED  BY <3>1 DEF PathsAreOfTheActive
    <2>3. QED  BY <1>5, <2>1, <2>2 DEF TickPlayers
  <1>6. CASE EndEnemies \/ TickProjectiles
    <2>1. phase' \in {"projectiles", "taken"}
      BY <1>6 DEF EndEnemies, TickProjectiles, RemoveProjectile, HitPlayer, MoveProjectile,
                  NextProjectile, EndTick
    <2>2. QED  BY <2>1 DEF PathsAreOfTheActive
  <1>7. TickEnemies => PathsAreOfTheActive'
    BY <1>1, <1>6 DEF TickEnemies
  <1>8. QED  BY <1>2, <1>3, <1>4, <1>5, <1>6, <1>7 DEF Next, Tick

\* The three parts of DeadDoNothing.
DeadPlayersRest ==
  \A p \in players \cap players' : player[p].hp = 0 =>
    /\ player'[p].pos = player[p].pos /\ player'[p].direction = player[p].direction
    /\ player'[p].hp = 0
    /\ \A v \in events' \ events : v.player # p

DeadEnemiesRest ==
  \A e \in Enemies : enemy[e].hp = 0 /\ enemy'[e].hp = 0 =>
    /\ enemy'[e].pos = enemy[e].pos
    /\ \A q \in projectiles' \ projectiles : q.owner = e => q.remain < ProjectileTicks

PathsAreShownOfTheActive ==
  phase = "enemies" /\ phase' # "enemies" =>
    \A e \in Enemies : dbgPaths[e] = "path" =>
      enemy[e].hp > 0 /\ HomeRoom(e) \in activeRooms

LEMMA DeadRest ==
  ASSUME TypeOK, EnemiesAreOnTheirWay, PathsAreOfTheActive, [Next]_vars
  PROVE  DeadPlayersRest /\ DeadEnemiesRest /\ PathsAreShownOfTheActive
  <1>1. CASE Commands \/ TickPlayers
    <2>1. DeadPlayersRest /\ PathsAreShownOfTheActive /\ projectiles' = projectiles
      BY <1>1, PlayerStep DEF DeadPlayersRest, PathsAreShownOfTheActive
    <2>2. \A e \in Enemies : enemy'[e].pos = enemy[e].pos
      BY <1>1, PlayerStep, EnemiesStay
    <2>3. QED  BY <2>1, <2>2 DEF DeadEnemiesRest
  <1>2. ASSUME BeginTick \/ EndEnemies \/ EndTick \/ TakeCombatEvents \/ UNCHANGED vars
        PROVE  DeadPlayersRest /\ DeadEnemiesRest /\ PathsAreShownOfTheActive
    <2>1. /\ UNCHANGED <<players, player, projectiles>> /\ events' \subseteq events
          /\ BeginTick \/ enemy' = enemy
          /\ phase = "enemies" /\ phase' # "enemies" => todo = {}
      BY <1>2 DEF BeginTick, EndEnemies, EndTick, TakeCombatEvents, vars, world, tick
    <2>2. \A e \in Enemies : enemy'[e].pos = enemy[e].pos
      BY <2>1, EnemiesStay
    <2>3. PathsAreShownOfTheActive
      BY <2>1 DEF PathsAreShownOfTheActive, PathsAreOfTheActive
    <2>4. QED  BY <2>1, <2>2, <2>3 DEF DeadPlayersRest, DeadEnemiesRest
  <1>3. ASSUME NEW e \in Enemies,
               SkipEnemy(e) \/ HoldEnemy(e) \/ FollowWaypoint(e) \/ FindPath(e)
        PROVE  DeadPlayersRest /\ DeadEnemiesRest /\ PathsAreShownOfTheActive
    <2>1. PICK s, new, path : EnemyTurn(e, s, new, path)
      BY <1>3, EveryEnemyHasATurn
    <2>2. /\ phase' = phase /\ UNCHANGED <<players, player, events>>
          /\ enemy' = [enemy EXCEPT ![e] = s] /\ enemy \in [Enemies -> EnemyState]
          /\ s.hp = 0 => s = enemy[e]
          /\ projectiles' = projectiles \cup new
          /\ \A q \in new : q.owner = e /\ s.hp > 0
      BY <2>1 DEF EnemyTurn, TypeOK
    <2>3. DeadEnemiesRest
      BY <2>2 DEF DeadEnemiesRest
    <2>4. QED  BY <2>2, <2>3 DEF DeadPlayersRest, PathsAreShownOfTheActive
  <1>4. ASSUME NEW q \in projectiles, RemoveProjectile(q) \/ HitPlayer(q) \/ MoveProjectile(q)
        PROVE  DeadPlayersRest /\ DeadEnemiesRest /\ PathsAreShownOfTheActive
    <2>1. PICK left : ProjectileTurn(q, left)
      BY <1>4, ProjectileHasATurn
    <2>2. /\ enemy' = enemy /\ players' = players /\ events' = events /\ phase = "projectiles"
          /\ q \in Projectile
          /\ \/ player' = player
             \/ \E p \in players : /\ player[p].hp > 0
                                   /\ player' = [player EXCEPT ![p] = Hurt(player[p])]
      BY <1>4, ProjectileStep
    <2>3. \A r \in projectiles' \ projectiles : r.remain < ProjectileTicks
      <3>1. \A r \in projectiles' \ projectiles : r = Flown(q)
        BY <2>1 DEF ProjectileTurn
      <3>2. Flown(q).remain < ProjectileTicks
        BY <2>2, Ticks DEF Flown, Projectile
      <3>3. QED  BY <3>1, <3>2
    <2>4. \A p \in players : player[p].hp = 0 => player'[p] = player[p]
      BY <2>2 DEF TypeOK
    <2>5. QED
      BY <2>2, <2>3, <2>4 DEF DeadPlayersRest, DeadEnemiesRest, PathsAreShownOfTheActive
  <1>5. TickEnemies => DeadPlayersRest /\ DeadEnemiesRest /\ PathsAreShownOfTheActive
    BY <1>2, <1>3 DEF TickEnemies
  <1>6. TickProjectiles => DeadPlayersRest /\ DeadEnemiesRest /\ PathsAreShownOfTheActive
    BY <1>2, <1>4 DEF TickProjectiles
  <1>7. QED  BY <1>1, <1>2, <1>5, <1>6 DEF Next, Tick

\* A dead player does not move, turn or strike, and is not hurt again; a dead
\* enemy does not move or shoot, and no path is shown for it after its turn.
THEOREM TheDeadDoNothing == Spec => DeadDoNothing
  <1>1. Init => PathsAreOfTheActive
    BY DEF Init, PathsAreOfTheActive
  <1>2. PathsAreOfTheActive /\ Placement /\ [Next]_vars => PathsAreOfTheActive'
    BY PathsNext DEF Placement
  <1>3. PathsAreOfTheActive /\ Placement /\ [Next]_vars =>
          [DeadPlayersRest /\ DeadEnemiesRest /\ PathsAreShownOfTheActive]_vars
    BY DeadRest DEF Placement
  <1>4. [][DeadPlayersRest /\ DeadEnemiesRest /\ PathsAreShownOfTheActive]_vars => DeadDoNothing
    <2>1. [DeadPlayersRest /\ DeadEnemiesRest /\ PathsAreShownOfTheActive]_vars <=>
          [/\ \A p \in players \cap players' : player[p].hp = 0 =>
                /\ player'[p].pos = player[p].pos /\ player'[p].direction = player[p].direction
                /\ player'[p].hp = 0
                /\ \A v \in events' \ events : v.player # p
           /\ \A e \in Enemies : enemy[e].hp = 0 /\ enemy'[e].hp = 0 =>
                /\ enemy'[e].pos = enemy[e].pos
                /\ \A q \in projectiles' \ projectiles : q.owner = e => q.remain < ProjectileTicks
           /\ phase = "enemies" /\ phase' # "enemies" =>
                \A e \in Enemies : dbgPaths[e] = "path" =>
                  enemy[e].hp > 0 /\ HomeRoom(e) \in activeRooms]_vars
      BY DEF DeadPlayersRest, DeadEnemiesRest, PathsAreShownOfTheActive
    <2>2. QED  BY <2>1, PTL DEF DeadDoNothing
  <1>5. QED  BY <1>1, <1>2, <1>3, <1>4, PlacementIsInvariant, PTL DEF Spec

-----------------------------------------------------------------------------
(* One blow, one hit.                                                      *)

HurtPlayers == {p \in players \cap players' : player'[p].hp < player[p].hp}

StruckEnemies == {e \in Enemies : enemy'[e].hp < enemy[e].hp}

OneHurt ==
  HurtPlayers # {} =>
    /\ Cardinality(HurtPlayers) = 1
    /\ \A p \in HurtPlayers : player'[p].hp = player[p].hp - 1
    /\ Cardinality(projectiles') = Cardinality(projectiles) - 1

OneStruck ==
  StruckEnemies # {} =>
    /\ Cardinality(StruckEnemies) = 1
    /\ \E p \in players : player[p].attackRequested /\ ~player'[p].attackRequested

FewProjectiles == IsFiniteSet(projectiles)

LEMMA FewProjectilesNext ==
  ASSUME TypeOK, EnemiesAreOnTheirWay, FewProjectiles, [Next]_vars
  PROVE  FewProjectiles'
  <1>1. ASSUME NEW S, NEW x, S \subseteq {x}
        PROVE  IsFiniteSet(S)
    BY <1>1, FS_Singleton, FS_Subset
  <1>2. ASSUME NEW e \in Enemies,
               SkipEnemy(e) \/ HoldEnemy(e) \/ FollowWaypoint(e) \/ FindPath(e)
        PROVE  FewProjectiles'
    <2>1. PICK s, new, path : EnemyTurn(e, s, new, path)
      BY <1>2, EveryEnemyHasATurn
    <2>2. projectiles' = projectiles \cup new /\ \A q, r \in new : q = r
      BY <2>1 DEF EnemyTurn
    <2>3. \E x : new \subseteq {x}
      <3>1. CASE new = {}
        BY <3>1
      <3>2. CASE new # {}
        <4>1. PICK x : x \in new
          BY <3>2
        <4>2. new \subseteq {x}
          BY <2>2, <4>1
        <4>3. QED  BY <4>2
      <3>3. QED  BY <3>1, <3>2
    <2>4. IsFiniteSet(new)
      BY <1>1, <2>3
    <2>5. QED  BY <2>2, <2>4, FS_Union DEF FewProjectiles
  <1>3. ASSUME NEW q \in projectiles, RemoveProjectile(q) \/ HitPlayer(q) \/ MoveProjectile(q)
        PROVE  FewProjectiles'
    <2>1. PICK left : ProjectileTurn(q, left)
      BY <1>3, ProjectileHasATurn
    <2>2. projectiles' = (projectiles \ {q}) \cup left /\ left \subseteq {Flown(q)}
      BY <2>1 DEF ProjectileTurn
    <2>3. IsFiniteSet(left) /\ IsFiniteSet(projectiles \ {q})
      BY <1>1, <2>2, FS_RemoveElement DEF FewProjectiles
    <2>4. QED  BY <2>2, <2>3, FS_Union DEF FewProjectiles
  <1>4. CASE Commands \/ TickPlayers
    BY <1>4, PlayerStep DEF FewProjectiles
  <1>5. ASSUME BeginTick \/ EndEnemies \/ EndTick \/ TakeCombatEvents \/ UNCHANGED vars
        PROVE  FewProjectiles'
    BY <1>5 DEF BeginTick, EndEnemies, EndTick, TakeCombatEvents, vars, world, FewProjectiles
  <1>6. TickEnemies => FewProjectiles'
    BY <1>2, <1>5 DEF TickEnemies
  <1>7. TickProjectiles => FewProjectiles'
    BY <1>3, <1>5 DEF TickProjectiles
  <1>8. QED  BY <1>4, <1>5, <1>6, <1>7 DEF Next, Tick

\* The lowest id is one enemy's.
LEMMA TargetIsOne ==
  ASSUME NEW p, NEW e \in Target(p), NEW f \in Target(p)
  PROVE  e = f
  <1>1. /\ e \in EnemiesHit(p) /\ f \in EnemiesHit(p)
        /\ e <= f /\ f <= e
    BY DEF Target
  <1>2. e \in Enemies /\ f \in Enemies
    BY <1>1 DEF EnemiesHit
  <1>3. e \in Nat /\ f \in Nat
    BY <1>2, EnemiesAssumption
  <1>4. QED  BY <1>1, <1>3

LEMMA BlowStrikesOne ==
  ASSUME TypeOK, NEW p \in Players, AttackEnemy(p)
  PROVE  OneStruck
  <1>1. SUFFICES ASSUME NEW e \in StruckEnemies
                 PROVE  /\ StruckEnemies = {e}
                        /\ \E q \in players : player[q].attackRequested /\ ~player'[q].attackRequested
    BY FS_Singleton DEF OneStruck
  <1>2. ASSUME NEW f \in StruckEnemies
        PROVE  f \in Target(p)
    <2>1. CASE f \notin Target(p)
      <3>1. enemy'[f] = enemy[f]
        BY <2>1 DEF StruckEnemies, AttackEnemy
      <3>2. enemy[f].hp \in Int
        BY DEF StruckEnemies, TypeOK, EnemyState
      <3>3. QED  BY <3>1, <3>2 DEF StruckEnemies
    <2>2. QED  BY <2>1
  <1>3. StruckEnemies = {e}
    BY <1>2, TargetIsOne
  <1>4. p \in players /\ player[p].attackRequested
    BY DEF AttackEnemy, Alive
  <1>5. ~player'[p].attackRequested
    <2>1. player \in [Players -> PlayerState]
      BY DEF TypeOK
    <2>2. QED  BY <2>1 DEF AttackEnemy, PlayerState
  <1>6. QED  BY <1>3, <1>4, <1>5

LEMMA OneHit ==
  ASSUME TypeOK, EnemiesAreOnTheirWay, FewProjectiles, [Next]_vars
  PROVE  OneHurt /\ OneStruck
  <1>1. \A p \in Players : player[p] \in PlayerState /\ player[p].hp \in Int
    BY DEF TypeOK, PlayerState
  <1>2. \A e \in Enemies : enemy[e] \in EnemyState /\ enemy[e].hp \in Int
    BY DEF TypeOK, EnemyState
  <1>3. ASSUME \A p \in players \cap players' : player'[p].hp = player[p].hp
        PROVE  OneHurt
    <2>1. HurtPlayers = {}
      BY <1>1, <1>3 DEF HurtPlayers, TypeOK
    <2>2. QED  BY <2>1 DEF OneHurt
  <1>4. ASSUME \A e \in Enemies : enemy'[e].hp \in Int /\ enemy'[e].hp >= enemy[e].hp
        PROVE  OneStruck
    <2>1. StruckEnemies = {}
      BY <1>2, <1>4 DEF StruckEnemies
    <2>2. QED  BY <2>1 DEF OneStruck
  <1>5. enemy' = enemy => OneStruck
    BY <1>2, <1>4
  <1>6. CASE Commands \/ TickPlayers
    <2>1. OneHurt
      BY <1>3, <1>6, PlayerStep
    <2>2. OneStruck
      BY <1>5, <1>6, PlayerStep, BlowStrikesOne
    <2>3. QED  BY <2>1, <2>2
  <1>7. CASE BeginTick
    <2>1. player' = player /\ players' = players
      BY <1>7 DEF BeginTick
    <2>2. \A e \in Enemies : enemy'[e].hp = enemy[e].hp
      <3>1. ASSUME NEW e \in Enemies
            PROVE  enemy'[e].hp = enemy[e].hp
        <4>1. \/ enemy'[e] = enemy[e]
              \/ enemy'[e] = [enemy[e] EXCEPT !.deadFor = @ + 1]
          BY <1>7 DEF BeginTick
        <4>2. QED  BY <1>2, <4>1 DEF EnemyState
      <3>2. QED  BY <3>1
    <2>3. QED  BY <1>2, <1>3, <1>4, <2>1, <2>2
  <1>8. ASSUME EndEnemies \/ EndTick \/ TakeCombatEvents \/ UNCHANGED vars
        PROVE  OneHurt /\ OneStruck
    <2>1. UNCHANGED <<players, player, enemy>>
      BY <1>8 DEF EndEnemies, EndTick, TakeCombatEvents, vars, world
    <2>2. QED  BY <1>3, <1>5, <2>1
  <1>9. ASSUME NEW e \in Enemies,
               SkipEnemy(e) \/ HoldEnemy(e) \/ FollowWaypoint(e) \/ FindPath(e)
        PROVE  OneHurt /\ OneStruck
    <2>1. PICK s, new, path : EnemyTurn(e, s, new, path)
      BY <1>9, EveryEnemyHasATurn
    <2>2. /\ UNCHANGED <<players, player>> /\ enemy' = [enemy EXCEPT ![e] = s]
          /\ s \in EnemyState /\ s.hp >= enemy[e].hp /\ enemy \in [Enemies -> EnemyState]
      BY <2>1 DEF EnemyTurn, TypeOK
    <2>3. s.hp \in Int
      BY <2>2 DEF EnemyState
    <2>4. \A f \in Enemies : enemy'[f].hp \in Int /\ enemy'[f].hp >= enemy[f].hp
      BY <1>2, <2>2, <2>3
    <2>5. QED  BY <1>3, <1>4, <2>2, <2>4
  <1>10. ASSUME NEW q \in projectiles, RemoveProjectile(q) \/ HitPlayer(q) \/ MoveProjectile(q)
         PROVE  OneHurt /\ OneStruck
    <2>1. /\ players' = players /\ enemy' = enemy
          /\ \/ player' = player
             \/ /\ projectiles' = projectiles \ {q}
                /\ \E p \in players : /\ player[p].hp > 0
                                      /\ player' = [player EXCEPT ![p] = Hurt(player[p])]
      BY <1>10, ProjectileStep
    <2>2. CASE player' = player
      BY <1>3, <1>5, <2>1, <2>2
    <2>3. ASSUME NEW p \in players, player' = [player EXCEPT ![p] = Hurt(player[p])],
                 projectiles' = projectiles \ {q}
          PROVE  OneHurt
      <3>1. player \in [Players -> PlayerState] /\ players \subseteq Players
        BY DEF TypeOK
      <3>2. player'[p].hp = player[p].hp - 1 /\ player[p].hp \in Int
        BY <1>1, <2>3, <3>1, HurtLosesAPoint
      <3>3. HurtPlayers = {p}
        BY <1>1, <2>1, <2>3, <3>1, <3>2 DEF HurtPlayers
      <3>4. Cardinality(projectiles') = Cardinality(projectiles) - 1
        BY <2>3, FS_RemoveElement DEF FewProjectiles
      <3>5. QED  BY <3>2, <3>3, <3>4, FS_Singleton DEF OneHurt
    <2>4. QED  BY <1>5, <2>1, <2>2, <2>3
  <1>11. TickEnemies => OneHurt /\ OneStruck
    BY <1>8, <1>9 DEF TickEnemies
  <1>12. TickProjectiles => OneHurt /\ OneStruck
    BY <1>8, <1>10 DEF TickProjectiles
  <1>13. QED  BY <1>6, <1>7, <1>8, <1>11, <1>12 DEF Next, Tick

\* Whoever loses life in a step is alone in it and loses one point, for one
\* projectile gone or one request for an attack consumed.
THEOREM OneBlowOneHit == Spec => OneHitEach
  <1>1. Init => FewProjectiles
    BY FS_EmptySet DEF Init, FewProjectiles
  <1>2. FewProjectiles /\ Placement /\ [Next]_vars => FewProjectiles'
    BY FewProjectilesNext DEF Placement
  <1>3. FewProjectiles /\ Placement /\ [Next]_vars => [OneHurt /\ OneStruck]_vars
    BY OneHit DEF Placement
  <1>4. [][OneHurt /\ OneStruck]_vars => OneHitEach
    <2>1. [OneHurt /\ OneStruck]_vars <=>
          [LET hurt == {p \in players \cap players' : player'[p].hp < player[p].hp}
               struck == {e \in Enemies : enemy'[e].hp < enemy[e].hp}
           IN /\ hurt # {} => /\ Cardinality(hurt) = 1
                              /\ \A p \in hurt : player'[p].hp = player[p].hp - 1
                              /\ Cardinality(projectiles') = Cardinality(projectiles) - 1
              /\ struck # {} => /\ Cardinality(struck) = 1
                                /\ \E p \in players : /\ player[p].attackRequested
                                                     /\ ~player'[p].attackRequested]_vars
      BY DEF OneHurt, OneStruck, HurtPlayers, StruckEnemies
    <2>2. QED  BY <2>1, PTL DEF OneHitEach
  <1>5. QED  BY <1>1, <1>2, <1>3, <1>4, PlacementIsInvariant, PTL DEF Spec

=============================================================================
