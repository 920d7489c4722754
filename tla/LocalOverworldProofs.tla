------------------------- MODULE LocalOverworldProofs -------------------------
(***************************************************************************)
(* The overworld, for every map, every path of rooms, every size of boxes  *)
(* and every number of enemies: nobody is misplaced, what flies belongs to *)
(* the room shown, and all of it implements LevelVisit.                    *)
(***************************************************************************)
EXTENDS LocalOverworld, LocalCombatProofs

\* Whoever cannot fly stands where the map lets it.
Walkable ==
  /\ CanPlaceBox(PawnBox(player))
  /\ \A e \in Living : enemies[e].kind # "Tektite" => CanPlaceBox(PawnBox(enemies[e]))

\* What has just flown is inside the room.
Flying ==
  phase = "player" =>
    \A s \in shots : ~s.fresh => IsInsideRoom(Box(s.at, ShotSize(s)), room)

IInv == /\ TypeOK /\ Typed(EnemyKinds, 1)
        /\ Placed /\ Walkable /\ Ordered /\ Turns /\ Flying

-----------------------------------------------------------------------------
(* The map.                                                                *)

LEMMA Layout ==
  /\ EnemyKinds \in SUBSET AllKinds /\ "Aquamentus" \notin EnemyKinds
  /\ AccessibleRooms \subseteq Cells /\ StartRoom \in AccessibleRooms /\ 1 \in Nat \ {0}
  <1>1. EnemyKinds \in SUBSET AllKinds /\ "Aquamentus" \notin EnemyKinds
    BY OverworldAssumption DEF AllKinds
  <1>2. AccessibleRooms \subseteq Cells /\ StartRoom \in AccessibleRooms
    BY OverworldAssumption, LayoutAssumption DEF Cells
  <1>3. QED
    BY <1>1, <1>2

\* The tiles along an axis that a pawn next to a room's edge covers: s cells at
\* most a tile wide, the edge at the k-th room of n tiles of t cells.
LEMMA EdgeTiles ==
  ASSUME NEW t \in Nat \ {0}, NEW n \in Nat \ {0}, NEW s \in Nat \ {0}, s <= t, NEW k \in Int
  PROVE  LET edge == k * (n * t)
         IN /\ edge = (k * n) * t /\ k * n \in Int /\ edge \in Int
            /\ \A c \in edge .. (edge + s - 1) : c \div t = k * n
            /\ \A c \in (edge - s) .. (edge - 1) : c \div t = k * n - 1
  <1> DEFINE edge == k * (n * t)
             m == k * n
  <1>1. edge = m * t /\ m \in Int /\ edge \in Int /\ (m - 1) * t = m * t - t
    BY Z3
  <1> HIDE DEF edge, m
  <1>2. ASSUME NEW c \in edge .. (edge + s - 1)
        PROVE  c \div t = m
    <2>1. c \in Int /\ m * t <= c /\ c < m * t + t
      BY <1>1
    <2>2. QED
      BY <1>1, <2>1, Division
  <1>3. ASSUME NEW c \in (edge - s) .. (edge - 1)
        PROVE  c \div t = m - 1
    <2>1. c \in Int /\ (m - 1) * t <= c /\ c < (m - 1) * t + t
      BY <1>1
    <2>2. m - 1 \in Int
      BY <1>1
    <2>3. QED
      BY <2>1, <2>2, Division
  <1>4. QED
    BY <1>1, <1>2, <1>3 DEF edge, m

\* The cells of an axis that lie on the map, tile by tile.
LEMMA WholeTiles ==
  ASSUME NEW t \in Nat \ {0}, NEW n \in Nat \ {0}, NEW q \in Int, NEW c \in Int, c \div t = q,
         0 <= c, c < n * t, NEW b \in Int, b \div t = q
  PROVE  0 <= b /\ b < n * t
  <1>1. q * t <= c /\ c < q * t + t /\ q * t <= b /\ b < q * t + t /\ q * t \in Int /\ n * t \in Int
    BY Division
  <1>2. 0 <= q
    <2>1. ASSUME q + 1 <= 0  PROVE FALSE
      <3>1. (q + 1) * t <= 0 * t
        BY <2>1, Scaling
      <3>2. (q + 1) * t = q * t + t /\ 0 * t = 0
        BY Z3
      <3>3. QED
        BY <1>1, <3>1, <3>2
    <2>2. QED
      BY <2>1
  <1>3. q + 1 <= n
    <2>1. ASSUME n <= q  PROVE FALSE
      <3>1. n * t <= q * t
        BY <2>1, Scaling
      <3>2. QED
        BY <1>1, <3>1
    <2>2. QED
      BY <2>1
  <1>4. 0 * t <= q * t /\ (q + 1) * t <= n * t
    <2>1. 0 * t <= q * t
      BY <1>2, Scaling
    <2>2. (q + 1) * t <= n * t
      BY <1>3, Scaling
    <2>3. QED
      BY <2>1, <2>2
  <1>5. (q + 1) * t = q * t + t /\ 0 * t = 0
    BY Z3
  <1>6. QED
    BY <1>1, <1>4, <1>5

LEMMA QuotientsAreOrdered ==
  ASSUME NEW w \in Nat \ {0}, NEW a \in Int, NEW b \in Int, a <= b
  PROVE  a \div w \in Int /\ b \div w \in Int /\ a \div w <= b \div w
  <1> DEFINE p == a \div w
             q == b \div w
  <1>1. p \in Int /\ q \in Int
    BY QuotientIsInt
  <1>2. p * w <= a /\ b < q * w + w
    BY <1>1, Division
  <1> HIDE DEF p, q
  <1>3. ASSUME q + 1 <= p  PROVE FALSE
    <2>1. (q + 1) * w <= p * w
      BY <1>1, <1>3, Scaling
    <2>2. (q + 1) * w = q * w + w /\ q * w \in Int /\ p * w \in Int
      BY <1>1
    <2>3. QED
      BY <1>2, <2>1, <2>2
  <1>4. p <= q
    BY <1>1, <1>3
  <1>5. QED
    BY <1>1, <1>4 DEF p, q

\* A pawn stands where a whole tile would.
LEMMA TileHoldsPawn ==
  ASSUME NEW at \in Cells, CanPlaceBox(Box(at, TileSize))
  PROVE  CanPlaceBox(Box(at, PawnSize))
  <1> DEFINE r == at[1] + PawnSize[1] - 1
             b == at[2] + PawnSize[2] - 1
             R == at[1] + TileWidth - 1
             B == at[2] + TileHeight - 1
  <1>1. /\ at[1] \in Int /\ at[2] \in Int /\ r \in Int /\ b \in Int /\ R \in Int /\ B \in Int
        /\ at[1] <= r /\ at[2] <= b /\ r <= R /\ b <= B
        /\ TileWidth \in Nat \ {0} /\ TileHeight \in Nat \ {0}
        /\ MapTileWidth * TileWidth \in Int /\ MapTileHeight * TileHeight \in Int
    <2>1. /\ MapTileWidth \in Nat /\ MapTileHeight \in Nat
          /\ TileWidth \in Nat \ {0} /\ TileHeight \in Nat \ {0}
      BY GeometryAssumption
    <2>2. MapTileWidth * TileWidth \in Int /\ MapTileHeight * TileHeight \in Int
      BY <2>1
    <2>3. QED
      BY <2>1, <2>2, Sizes DEF Cells
  <1>2. /\ 0 <= at[1] /\ R < MapTileWidth * TileWidth
        /\ 0 <= at[2] /\ B < MapTileHeight * TileHeight
        /\ \A x \in (at[1] \div TileWidth) .. (R \div TileWidth),
              y \in (at[2] \div TileHeight) .. (B \div TileHeight) : <<x, y>> \notin BlockedTiles
    BY DEF CanPlaceBox, Box, TileSize
  <1> HIDE DEF r, b, R, B
  <1>3. /\ (at[1] \div TileWidth) \in Int /\ (r \div TileWidth) \in Int /\ (R \div TileWidth) \in Int
        /\ (at[2] \div TileHeight) \in Int /\ (b \div TileHeight) \in Int /\ (B \div TileHeight) \in Int
        /\ r \div TileWidth <= R \div TileWidth /\ b \div TileHeight <= B \div TileHeight
    BY <1>1, QuotientsAreOrdered
  <1>4. \A x \in (at[1] \div TileWidth) .. (r \div TileWidth),
           y \in (at[2] \div TileHeight) .. (b \div TileHeight) : <<x, y>> \notin BlockedTiles
    <2> SUFFICES ASSUME NEW x \in (at[1] \div TileWidth) .. (r \div TileWidth),
                        NEW y \in (at[2] \div TileHeight) .. (b \div TileHeight)
                 PROVE  <<x, y>> \notin BlockedTiles
      OBVIOUS
    <2> DEFINE p == at[1] \div TileWidth
               q == at[2] \div TileHeight
               v == r \div TileWidth
               w == b \div TileHeight
               V == R \div TileWidth
               W == B \div TileHeight
    <2>1. x \in p .. v /\ y \in q .. w
      OBVIOUS
    <2>2. \A i \in p .. V, j \in q .. W : <<i, j>> \notin BlockedTiles
      BY <1>2
    <2>3. p \in Int /\ q \in Int /\ v \in Int /\ w \in Int /\ V \in Int /\ W \in Int /\ v <= V /\ w <= W
      BY <1>3
    <2> HIDE DEF p, q, v, w, V, W
    <2>4. x \in p .. V /\ y \in q .. W
      BY <2>1, <2>3
    <2>5. QED
      BY <2>2, <2>4
  <1>5. 0 <= at[1] /\ r < MapTileWidth * TileWidth /\ 0 <= at[2] /\ b < MapTileHeight * TileHeight
    BY <1>1, <1>2
  <1>6. QED
    BY <1>4, <1>5 DEF CanPlaceBox, Box, r, b

\* An axis of m tiles of t cells, a pawn of s cells at x, a room of n tiles, the
\* k-th, that it reaches with its end, or leaves with its beginning.
Axis(t, n, m, s, k, x) ==
  /\ t \in Nat \ {0} /\ n \in Nat \ {0} /\ m \in Nat \ {0} /\ s \in Nat \ {0} /\ s <= t
  /\ k \in Int /\ x \in Int
ReachesRoom(t, n, m, s, k, x) ==
  Axis(t, n, m, s, k, x) /\ x + s = k * (n * t) /\ 0 <= x + 1 /\ x + s < m * t
LeavesRoom(t, n, m, s, k, x) ==
  Axis(t, n, m, s, k, x) /\ x = k * (n * t) /\ 0 <= x - 1 /\ x - 1 + s - 1 < m * t

\* The tiles a pawn covers on the axis along which it enters another room are
\* the foremost of those it covered a step before, forwards or backwards.
LEMMA EntersForwards ==
  ASSUME NEW t, NEW n, NEW m, NEW s, NEW k, NEW x, ReachesRoom(t, n, m, s, k, x)
  PROVE  /\ 0 <= x + s /\ x + s + s - 1 < m * t
         /\ (x + s + s - 1) \div t = (x + s) \div t
  <1>0. /\ t \in Nat \ {0} /\ n \in Nat \ {0} /\ m \in Nat \ {0} /\ s \in Nat \ {0} /\ s <= t
        /\ k \in Int /\ x \in Int /\ x + s = k * (n * t) /\ 0 <= x + 1 /\ x + s < m * t
    BY DEF ReachesRoom, Axis
  <1>1. /\ k * n \in Int /\ x + s \in Int /\ x + s + s - 1 \in Int
        /\ \A c \in (x + s) .. (x + s + s - 1) : c \div t = k * n
    <2> DEFINE edge == k * (n * t)
               q == k * n
    <2>1. q \in Int /\ \A c \in edge .. (edge + s - 1) : c \div t = q
      BY <1>0, EdgeTiles
    <2>2. x \in Int /\ s \in Int /\ x + s = edge
      BY <1>0
    <2> HIDE DEF edge, q
    <2>3. q \in Int /\ x + s \in Int /\ x + s + s - 1 \in Int
          /\ \A c \in (x + s) .. (x + s + s - 1) : c \div t = q
      BY <2>1, <2>2
    <2>4. QED
      BY <2>3 DEF q
  <1>2. x + s \in (x + s) .. (x + s + s - 1) /\ (x + s + s - 1) \in (x + s) .. (x + s + s - 1)
    BY <1>0
  <1>3. (x + s) \div t = k * n /\ (x + s + s - 1) \div t = k * n
    BY <1>0, <1>1, <1>2
  <1>4. 0 <= x + s
    BY <1>0
  <1>5. 0 <= x + s + s - 1 /\ x + s + s - 1 < m * t
    BY <1>0, <1>1, <1>3, <1>4, WholeTiles
  <1>6. QED
    BY <1>0, <1>3, <1>4, <1>5

\* The same backwards.
LEMMA EntersBackwards ==
  ASSUME NEW t, NEW n, NEW m, NEW s, NEW k, NEW x, LeavesRoom(t, n, m, s, k, x)
  PROVE  /\ 0 <= x - s /\ x - 1 < m * t
         /\ (x - s) \div t = (x - 1) \div t
  <1>0. /\ t \in Nat \ {0} /\ n \in Nat \ {0} /\ m \in Nat \ {0} /\ s \in Nat \ {0} /\ s <= t
        /\ k \in Int /\ x \in Int /\ x = k * (n * t) /\ 0 <= x - 1 /\ x - 1 + s - 1 < m * t
    BY DEF LeavesRoom, Axis
  <1>1. /\ k * n \in Int /\ k * n - 1 \in Int
        /\ \A c \in (x - s) .. (x - 1) : c \div t = k * n - 1
    <2> DEFINE edge == k * (n * t)
               q == k * n
    <2>1. q \in Int /\ \A c \in (edge - s) .. (edge - 1) : c \div t = q - 1
      BY <1>0, EdgeTiles
    <2>2. x \in Int /\ s \in Int /\ x = edge
      BY <1>0
    <2> HIDE DEF edge, q
    <2>3. q \in Int /\ q - 1 \in Int /\ \A c \in (x - s) .. (x - 1) : c \div t = q - 1
      BY <2>1, <2>2
    <2>4. QED
      BY <2>3 DEF q
  <1>2. (x - s) \div t = k * n - 1 /\ (x - 1) \div t = k * n - 1 /\ x - 1 \in Int /\ x - s \in Int
    <2>1. x \in Int /\ s \in Int /\ s >= 1
      BY <1>0
    <2>2. /\ x - 1 \in Int /\ x - s \in Int
          /\ (x - s) \in (x - s) .. (x - 1) /\ (x - 1) \in (x - s) .. (x - 1)
      BY <2>1
    <2>3. QED
      BY <1>1, <2>2
  <1>3. x - 1 < m * t
    <2>1. m * t \in Int
      BY <1>0, Z3
    <2>2. QED
      BY <1>0, <2>1
  <1>4. 0 <= x - s /\ x - s < m * t
    BY <1>0, <1>1, <1>2, <1>3, WholeTiles
  <1>5. QED
    BY <1>0, <1>2, <1>3, <1>4

\* A box of a pawn's size, in plain terms.
LEMMA PawnFits ==
  ASSUME NEW x \in Int, NEW y \in Int
  PROVE  CanPlaceBox(Box(<<x, y>>, PawnSize)) <=>
           /\ x >= 0 /\ x + PawnSize[1] - 1 < MapTileWidth * TileWidth
           /\ y >= 0 /\ y + PawnSize[2] - 1 < MapTileHeight * TileHeight
           /\ \A i \in (x \div TileWidth) .. ((x + PawnSize[1] - 1) \div TileWidth),
                 j \in (y \div TileHeight) .. ((y + PawnSize[2] - 1) \div TileHeight) :
                <<i, j>> \notin BlockedTiles
  BY DEF CanPlaceBox, Box

\* A step onto the map that leads into another room puts the pawn on the map:
\* on tiles its front was on, and they are free.
LEMMA StepsOntoTheMap ==
  ASSUME NEW at \in Cells, NEW d \in Directions \cup {NoDirection}, NEW r \in Cells,
         IsInsideRoom(Box(at, PawnSize), r), CanPlaceBox(Box(Plus(at, d), PawnSize))
  PROVE  CanPlaceBox(Box(EndOf(at, d, r), PawnSize))
  <1> DEFINE w == PawnSize[1]
             h == PawnSize[2]
             x == at[1]
             y == at[2]
             p == r[1] * RoomWidth
             q == r[2] * RoomHeight
  <1>1. /\ RoomAfter(at, d) \in {r, Plus(r, d)}
        /\ RoomAfter(at, d) = r => EndOf(at, d, r) = Plus(at, d)
    BY StepsIntoRooms
  <1>2. CASE RoomAfter(at, d) = r
    BY <1>1, <1>2
  <1>3. CASE RoomAfter(at, d) # r
    <2>1. /\ RoomAfter(at, d) = Plus(r, d) /\ Plus(r, d) # r
          /\ EndOf(at, d, r) = SnapIntoRoom(Plus(at, d), PawnSize, Plus(r, d), d)
      BY <1>1, <1>3 DEF EndOf, RoomAfter
    <2>2. /\ x \in Int /\ y \in Int /\ w \in Nat \ {0} /\ h \in Nat \ {0} /\ p \in Int /\ q \in Int
          /\ r[1] \in Int /\ r[2] \in Int
          /\ RoomWidth \in Nat \ {0} /\ RoomHeight \in Nat \ {0}
          /\ w <= TileWidth /\ h <= TileHeight /\ TileWidth \in Nat \ {0} /\ TileHeight \in Nat \ {0}
          /\ RoomTileWidth \in Nat \ {0} /\ RoomTileHeight \in Nat \ {0}
          /\ MapTileWidth \in Nat \ {0} /\ MapTileHeight \in Nat \ {0}
          /\ RoomWidth = RoomTileWidth * TileWidth /\ RoomHeight = RoomTileHeight * TileHeight
      BY Sizes, GeometryAssumption DEF Cells, RoomWidth, RoomHeight
    <2>3. p <= x /\ x + w <= p + RoomWidth /\ q <= y /\ y + h <= q + RoomHeight
      BY Sizes, InsideRoom
    <2>4. /\ (r[1] + 1) * RoomWidth = p + RoomWidth /\ (r[1] - 1) * RoomWidth = p - RoomWidth
          /\ (r[2] + 1) * RoomHeight = q + RoomHeight /\ (r[2] - 1) * RoomHeight = q - RoomHeight
      BY <2>2
    <2>5. CASE d = Right
      <3>1. Plus(at, d) = <<x + 1, y>> /\ Plus(r, d) = <<r[1] + 1, r[2]>>
        BY <2>2, <2>5 DEF Plus, Right
      <3>2. EndOf(at, d, r) = <<(r[1] + 1) * RoomWidth, y>>
        BY <2>1, <2>5, <3>1 DEF SnapIntoRoom, GetRoomCellOrigin, Right
      <3>3. x + w = (r[1] + 1) * RoomWidth
        <4>1. (x + 1 + (w - 1)) \div RoomWidth = r[1] + 1
          BY <2>1, <2>5, <3>1 DEF RoomAfter, GetRoomCoordinateAtLeadingEdge, GetRoomCoordinate, Plus, Right
        <4>2. x + 1 + (w - 1) \in Int /\ r[1] + 1 \in Int
          BY <2>2
        <4>3. (r[1] + 1) * RoomWidth <= x + 1 + (w - 1)
          BY <2>2, <4>1, <4>2, Division
        <4>4. p + RoomWidth <= x + 1 + (w - 1)
          BY <2>4, <4>3
        <4>5. x + w <= p + RoomWidth /\ p \in Int /\ x \in Int /\ w \in Int /\ RoomWidth \in Int
          BY <2>2, <2>3
        <4> HIDE DEF p, q, x, y, w, h
        <4>6. x + w = p + RoomWidth
          BY <4>4, <4>5
        <4>7. QED
          BY <2>4, <4>6
      <3>4. CanPlaceBox(Box(<<x + 1, y>>, PawnSize))
        BY <3>1
      <3> DEFINE end == (r[1] + 1) * RoomWidth
                 right == (x + w) \div TileWidth
      <3> HIDE DEF p, q, x, y, w, h
      <3>5. /\ x + 1 >= 0 /\ x + w < MapTileWidth * TileWidth
            /\ y >= 0 /\ y + h - 1 < MapTileHeight * TileHeight
            /\ \A i \in ((x + 1) \div TileWidth) .. right,
                  j \in (y \div TileHeight) .. ((y + h - 1) \div TileHeight) : <<i, j>> \notin BlockedTiles
        <4>1. x + 1 \in Int /\ x + 1 + w - 1 = x + w
          BY <2>2
        <4>2. QED
          BY <2>2, <3>4, <4>1, PawnFits DEF w, h
      <3>6. /\ end \in Int /\ 0 <= end /\ end + w - 1 < MapTileWidth * TileWidth
            /\ end \div TileWidth = right /\ (end + w - 1) \div TileWidth = right
        <4>1. /\ r[1] + 1 \in Int /\ x + w = (r[1] + 1) * (RoomTileWidth * TileWidth)
              /\ end = x + w /\ end \in Int
          BY <2>2, <3>3
        <4>2. /\ 0 <= x + 1 /\ x + w < MapTileWidth * TileWidth /\ w <= TileWidth
              /\ TileWidth \in Nat \ {0} /\ RoomTileWidth \in Nat \ {0} /\ MapTileWidth \in Nat \ {0}
              /\ w \in Nat \ {0} /\ x \in Int
          BY <2>2, <3>5
        <4>3. /\ 0 <= x + w /\ x + w + w - 1 < MapTileWidth * TileWidth
              /\ (x + w + w - 1) \div TileWidth = (x + w) \div TileWidth
          <5>1. ReachesRoom(TileWidth, RoomTileWidth, MapTileWidth, w, r[1] + 1, x)
            BY <4>1, <4>2 DEF ReachesRoom, Axis
          <5>2. QED
            BY <5>1, EntersForwards
        <4> HIDE DEF end
        <4>4. QED
          BY <4>1, <4>3 DEF right
      <3>7. right \in ((x + 1) \div TileWidth) .. right
        <4>1. x + 1 \in Int /\ x + w \in Int /\ x + 1 <= x + w
          BY <2>2
        <4>2. (x + 1) \div TileWidth \in Int /\ right \in Int /\ (x + 1) \div TileWidth <= right
          BY <2>2, <4>1, QuotientsAreOrdered
        <4>3. QED
          BY <4>2
      <3>8. \A i \in (end \div TileWidth) .. ((end + w - 1) \div TileWidth),
               j \in (y \div TileHeight) .. ((y + h - 1) \div TileHeight) : <<i, j>> \notin BlockedTiles
        <4>1. \A i \in right .. right : i = right
          BY <3>7
        <4>2. QED
          BY <3>5, <3>6, <3>7, <4>1
      <3>9. CanPlaceBox(Box(<<end, y>>, PawnSize))
        <4>1. end \in Int /\ end >= 0
          BY <3>6
        <4>2. QED
          BY <2>2, <3>5, <3>6, <3>8, <4>1, PawnFits DEF w, h
      <3>10. QED
        BY <3>2, <3>9
    <2>6. CASE d = Down
      <3>1. Plus(at, d) = <<x, y + 1>> /\ Plus(r, d) = <<r[1], r[2] + 1>>
        BY <2>2, <2>6 DEF Plus, Down
      <3>2. EndOf(at, d, r) = <<x, (r[2] + 1) * RoomHeight>>
        BY <2>1, <2>6, <3>1 DEF SnapIntoRoom, GetRoomCellOrigin, Down
      <3>3. y + h = (r[2] + 1) * RoomHeight
        <4>1. (y + 1 + (h - 1)) \div RoomHeight = r[2] + 1
          BY <2>1, <2>6, <3>1 DEF RoomAfter, GetRoomCoordinateAtLeadingEdge, GetRoomCoordinate, Plus, Down
        <4>2. y + 1 + (h - 1) \in Int /\ r[2] + 1 \in Int
          BY <2>2
        <4>3. (r[2] + 1) * RoomHeight <= y + 1 + (h - 1)
          BY <2>2, <4>1, <4>2, Division
        <4>4. q + RoomHeight <= y + 1 + (h - 1)
          BY <2>4, <4>3
        <4>5. y + h <= q + RoomHeight /\ q \in Int /\ y \in Int /\ h \in Int /\ RoomHeight \in Int
          BY <2>2, <2>3
        <4> HIDE DEF p, q, x, y, w, h
        <4>6. y + h = q + RoomHeight
          BY <4>4, <4>5
        <4>7. QED
          BY <2>4, <4>6
      <3>4. CanPlaceBox(Box(<<x, y + 1>>, PawnSize))
        BY <3>1
      <3> DEFINE end == (r[2] + 1) * RoomHeight
                 bottom == (y + h) \div TileHeight
      <3> HIDE DEF p, q, x, y, w, h
      <3>5. /\ x >= 0 /\ x + w - 1 < MapTileWidth * TileWidth
            /\ y + 1 >= 0 /\ y + h < MapTileHeight * TileHeight
            /\ \A i \in (x \div TileWidth) .. ((x + w - 1) \div TileWidth),
                  j \in ((y + 1) \div TileHeight) .. bottom : <<i, j>> \notin BlockedTiles
        <4>1. y + 1 \in Int /\ y + 1 + h - 1 = y + h
          BY <2>2
        <4>2. QED
          BY <2>2, <3>4, <4>1, PawnFits DEF w, h
      <3>6. /\ end \in Int /\ 0 <= end /\ end + h - 1 < MapTileHeight * TileHeight
            /\ end \div TileHeight = bottom /\ (end + h - 1) \div TileHeight = bottom
        <4>1. /\ r[2] + 1 \in Int /\ y + h = (r[2] + 1) * (RoomTileHeight * TileHeight)
              /\ end = y + h /\ end \in Int
          BY <2>2, <3>3
        <4>2. /\ 0 <= y + 1 /\ y + h < MapTileHeight * TileHeight /\ h <= TileHeight
              /\ TileHeight \in Nat \ {0} /\ RoomTileHeight \in Nat \ {0} /\ MapTileHeight \in Nat \ {0}
              /\ h \in Nat \ {0} /\ y \in Int
          BY <2>2, <3>5
        <4>3. /\ 0 <= y + h /\ y + h + h - 1 < MapTileHeight * TileHeight
              /\ (y + h + h - 1) \div TileHeight = (y + h) \div TileHeight
          <5>1. ReachesRoom(TileHeight, RoomTileHeight, MapTileHeight, h, r[2] + 1, y)
            BY <4>1, <4>2 DEF ReachesRoom, Axis
          <5>2. QED
            BY <5>1, EntersForwards
        <4> HIDE DEF end
        <4>4. QED
          BY <4>1, <4>3 DEF bottom
      <3>7. bottom \in ((y + 1) \div TileHeight) .. bottom
        <4>1. y + 1 \in Int /\ y + h \in Int /\ y + 1 <= y + h
          BY <2>2
        <4>2. (y + 1) \div TileHeight \in Int /\ bottom \in Int /\ (y + 1) \div TileHeight <= bottom
          BY <2>2, <4>1, QuotientsAreOrdered
        <4>3. QED
          BY <4>2
      <3>8. \A i \in (x \div TileWidth) .. ((x + w - 1) \div TileWidth),
               j \in (end \div TileHeight) .. ((end + h - 1) \div TileHeight) : <<i, j>> \notin BlockedTiles
        <4>1. \A j \in bottom .. bottom : j = bottom
          BY <3>7
        <4>2. QED
          BY <3>5, <3>6, <3>7, <4>1
      <3>9. CanPlaceBox(Box(<<x, end>>, PawnSize))
        <4>1. end \in Int /\ end >= 0
          BY <3>6
        <4>2. QED
          BY <2>2, <3>5, <3>6, <3>8, <4>1, PawnFits DEF w, h
      <3>10. QED
        BY <3>2, <3>9
    <2>7. CASE d = Left
      <3>1. Plus(at, d) = <<x - 1, y>> /\ Plus(r, d) = <<r[1] - 1, r[2]>>
        BY <2>2, <2>7 DEF Plus, Left
      <3>2. EndOf(at, d, r) = <<(r[1] - 1) * RoomWidth + RoomWidth - w, y>>
        BY <2>1, <2>7, <3>1 DEF SnapIntoRoom, GetRoomCellOrigin, Left
      <3>3. x = p
        <4>1. (x - 1) \div RoomWidth = r[1] - 1
          BY <2>1, <2>7, <3>1 DEF RoomAfter, GetRoomCoordinateAtLeadingEdge, GetRoomCoordinate, Plus, Left
        <4>2. x - 1 \in Int /\ r[1] - 1 \in Int
          BY <2>2
        <4>3. x - 1 < (r[1] - 1) * RoomWidth + RoomWidth
          BY <2>2, <4>1, <4>2, Division
        <4> HIDE DEF p, q, x, y, w, h
        <4>4. QED
          BY <2>2, <2>3, <2>4, <4>3
      <3>4. CanPlaceBox(Box(<<x - 1, y>>, PawnSize)) /\ EndOf(at, d, r) = <<x - w, y>>
        <4>1. (r[1] - 1) * RoomWidth + RoomWidth - w = x - w
          <5> HIDE DEF p, q, x, y, w, h
          <5>1. QED
            BY <2>2, <2>4, <3>3
        <4>2. QED
          BY <3>1, <3>2, <4>1
      <3> DEFINE left == (x - 1) \div TileWidth
      <3> HIDE DEF q, x, y, w, h
      <3>5. /\ x - 1 >= 0 /\ x - 1 + w - 1 < MapTileWidth * TileWidth
            /\ y >= 0 /\ y + h - 1 < MapTileHeight * TileHeight
            /\ \A i \in left .. ((x - 1 + w - 1) \div TileWidth),
                  j \in (y \div TileHeight) .. ((y + h - 1) \div TileHeight) : <<i, j>> \notin BlockedTiles
        <4>1. x - 1 \in Int
          BY <2>2
        <4>2. QED
          BY <2>2, <3>4, <4>1, PawnFits DEF w, h
      <3>6. /\ 0 <= x - w /\ x - 1 < MapTileWidth * TileWidth
            /\ (x - w) \div TileWidth = left
        <4>1. /\ x = r[1] * (RoomTileWidth * TileWidth) /\ r[1] \in Int
              /\ 0 <= x - 1 /\ x - 1 + w - 1 < MapTileWidth * TileWidth /\ w <= TileWidth
              /\ TileWidth \in Nat \ {0} /\ RoomTileWidth \in Nat \ {0} /\ MapTileWidth \in Nat \ {0}
              /\ w \in Nat \ {0} /\ x \in Int
          BY <2>2, <3>3, <3>5
        <4>2. /\ 0 <= x - w /\ x - 1 < MapTileWidth * TileWidth
              /\ (x - w) \div TileWidth = (x - 1) \div TileWidth
          <5>1. LeavesRoom(TileWidth, RoomTileWidth, MapTileWidth, w, r[1], x)
            BY <4>1 DEF LeavesRoom, Axis
          <5>2. QED
            BY <5>1, EntersBackwards
        <4>3. QED
          BY <4>2 DEF left
      <3>7. left \in left .. ((x - 1 + w - 1) \div TileWidth)
        <4>1. x - 1 \in Int /\ x - 1 + w - 1 \in Int /\ x - 1 <= x - 1 + w - 1
          BY <2>2
        <4> DEFINE far == (x - 1 + w - 1) \div TileWidth
        <4>2. far \in Int /\ left \in Int /\ left <= far
          BY <2>2, <4>1, QuotientsAreOrdered
        <4> HIDE DEF left, far
        <4>3. left \in left .. far
          BY <4>2
        <4>4. QED
          BY <4>3 DEF far
      <3>8. \A i \in ((x - w) \div TileWidth) .. ((x - w + w - 1) \div TileWidth),
               j \in (y \div TileHeight) .. ((y + h - 1) \div TileHeight) : <<i, j>> \notin BlockedTiles
        <4>1. x - w + w - 1 = x - 1
          BY <2>2
        <4>2. \A i \in left .. left : i = left
          BY <3>7
        <4>3. QED
          BY <3>5, <3>6, <3>7, <4>1, <4>2
      <3>9. CanPlaceBox(Box(<<x - w, y>>, PawnSize))
        <4>1. x - w \in Int /\ x - w >= 0 /\ x - w + w - 1 < MapTileWidth * TileWidth
          BY <2>2, <3>6
        <4>2. QED
          BY <2>2, <3>5, <3>8, <4>1, PawnFits DEF w, h
      <3>10. QED
        BY <3>4, <3>9
    <2>8. CASE d = Up
      <3>1. Plus(at, d) = <<x, y - 1>> /\ Plus(r, d) = <<r[1], r[2] - 1>>
        BY <2>2, <2>8 DEF Plus, Up
      <3>2. EndOf(at, d, r) = <<x, (r[2] - 1) * RoomHeight + RoomHeight - h>>
        BY <2>1, <2>8, <3>1 DEF SnapIntoRoom, GetRoomCellOrigin, Up
      <3>3. y = q
        <4>1. (y - 1) \div RoomHeight = r[2] - 1
          BY <2>1, <2>8, <3>1 DEF RoomAfter, GetRoomCoordinateAtLeadingEdge, GetRoomCoordinate, Plus, Up
        <4>2. y - 1 \in Int /\ r[2] - 1 \in Int
          BY <2>2
        <4>3. y - 1 < (r[2] - 1) * RoomHeight + RoomHeight
          BY <2>2, <4>1, <4>2, Division
        <4> HIDE DEF p, q, x, y, w, h
        <4>4. QED
          BY <2>2, <2>3, <2>4, <4>3
      <3>4. CanPlaceBox(Box(<<x, y - 1>>, PawnSize)) /\ EndOf(at, d, r) = <<x, y - h>>
        <4>1. (r[2] - 1) * RoomHeight + RoomHeight - h = y - h
          <5> HIDE DEF p, q, x, y, w, h
          <5>1. QED
            BY <2>2, <2>4, <3>3
        <4>2. QED
          BY <3>1, <3>2, <4>1
      <3> DEFINE top == (y - 1) \div TileHeight
      <3> HIDE DEF p, x, y, w, h
      <3>5. /\ x >= 0 /\ x + w - 1 < MapTileWidth * TileWidth
            /\ y - 1 >= 0 /\ y - 1 + h - 1 < MapTileHeight * TileHeight
            /\ \A i \in (x \div TileWidth) .. ((x + w - 1) \div TileWidth),
                  j \in top .. ((y - 1 + h - 1) \div TileHeight) : <<i, j>> \notin BlockedTiles
        <4>1. y - 1 \in Int
          BY <2>2
        <4>2. QED
          BY <2>2, <3>4, <4>1, PawnFits DEF w, h
      <3>6. /\ 0 <= y - h /\ y - 1 < MapTileHeight * TileHeight
            /\ (y - h) \div TileHeight = top
        <4>1. /\ y = r[2] * (RoomTileHeight * TileHeight) /\ r[2] \in Int
              /\ 0 <= y - 1 /\ y - 1 + h - 1 < MapTileHeight * TileHeight /\ h <= TileHeight
              /\ TileHeight \in Nat \ {0} /\ RoomTileHeight \in Nat \ {0} /\ MapTileHeight \in Nat \ {0}
              /\ h \in Nat \ {0} /\ y \in Int
          BY <2>2, <3>3, <3>5
        <4>2. /\ 0 <= y - h /\ y - 1 < MapTileHeight * TileHeight
              /\ (y - h) \div TileHeight = (y - 1) \div TileHeight
          <5>1. LeavesRoom(TileHeight, RoomTileHeight, MapTileHeight, h, r[2], y)
            BY <4>1 DEF LeavesRoom, Axis
          <5>2. QED
            BY <5>1, EntersBackwards
        <4>3. QED
          BY <4>2 DEF top
      <3>7. top \in top .. ((y - 1 + h - 1) \div TileHeight)
        <4>1. y - 1 \in Int /\ y - 1 + h - 1 \in Int /\ y - 1 <= y - 1 + h - 1
          BY <2>2
        <4> DEFINE far == (y - 1 + h - 1) \div TileHeight
        <4>2. far \in Int /\ top \in Int /\ top <= far
          BY <2>2, <4>1, QuotientsAreOrdered
        <4> HIDE DEF top, far
        <4>3. top \in top .. far
          BY <4>2
        <4>4. QED
          BY <4>3 DEF far
      <3>8. \A i \in (x \div TileWidth) .. ((x + w - 1) \div TileWidth),
               j \in ((y - h) \div TileHeight) .. ((y - h + h - 1) \div TileHeight) :
               <<i, j>> \notin BlockedTiles
        <4>1. y - h + h - 1 = y - 1
          BY <2>2
        <4>2. \A j \in top .. top : j = top
          BY <3>7
        <4>3. QED
          BY <3>5, <3>6, <3>7, <4>1, <4>2
      <3>9. CanPlaceBox(Box(<<x, y - h>>, PawnSize))
        <4>1. y - h \in Int /\ y - h >= 0 /\ y - h + h - 1 < MapTileHeight * TileHeight
          BY <2>2, <3>6
        <4>2. QED
          BY <2>2, <3>5, <3>8, <4>1, PawnFits DEF w, h
      <3>10. QED
        BY <3>4, <3>9
    <2>9. CASE d = NoDirection
      BY <2>1, <2>2, <2>9 DEF Plus, NoDirection, Cells
    <2>10. QED
      BY <2>5, <2>6, <2>7, <2>8, <2>9 DEF Directions
  <1>4. QED
    BY <1>2, <1>3

-----------------------------------------------------------------------------
(* What a room holds when it is entered.                                   *)

LEMMA SpawnedOnFreeTiles ==
  ASSUME NEW r, NEW playerAt, NEW at \in SpawnPositions(r, playerAt)
  PROVE  CanPlaceBox(Box(at, TileSize))
  BY DEF SpawnPositions

LEMMA LooksAWay ==
  ASSUME NEW kind
  PROVE  FirstLook(kind) \in Ways
  BY DirectionsAreWays DEF FirstLook, Directions

LEMMA PlannedEnemyFacts ==
  ASSUME NEW p \in PawnRecord(EnemyKinds, 1), NEW d \in Ways
  PROVE  LET q == [p EXCEPT !.dir = d]
         IN /\ q \in PawnRecord(EnemyKinds, 1) /\ q.at = p.at /\ q.hp = p.hp /\ q.kind = p.kind
  BY DEF PawnRecord, Ways

LEMMA SpawnedFacts ==
  ASSUME NEW r \in Cells, NEW at \in Cells, NEW spawned \in SpawnRoomEnemies(r, at)
  PROVE  /\ DOMAIN spawned \subseteq EnemyIds
         /\ \A e \in DOMAIN spawned :
              /\ spawned[e] \in PawnRecord(EnemyKinds, 1) /\ ~IsDead(spawned[e])
              /\ IsInsideRoom(PawnBox(spawned[e]), r) /\ CanPlaceBox(PawnBox(spawned[e]))
  <1>1. CASE r = StartRoom
    <2>1. spawned = <<>>
      BY <1>1 DEF SpawnRoomEnemies
    <2>2. DOMAIN spawned = {}
      BY <2>1
    <2>3. QED
      BY <2>2
  <1>2. CASE r # StartRoom
    <2> DEFINE places == SpawnPositions(r, at)
    <2>1. PICK plan \in SpawnPlans(EnemyKinds, places) :
            spawned = [e \in DOMAIN plan |-> [plan[e] EXCEPT !.dir = FirstLook(plan[e].kind)]]
      BY <1>2 DEF SpawnRoomEnemies
    <2>2. places \in SUBSET Cells
      BY SpawnPositionFacts
    <2> HIDE DEF places
    <2>3. /\ DOMAIN plan \subseteq EnemyIds
          /\ \A e \in DOMAIN plan :
               /\ plan[e] \in PawnRecord(EnemyKinds, 1) /\ plan[e].at \in places
               /\ plan[e].kind \in EnemyKinds /\ ~IsDead(plan[e])
      BY <2>1, <2>2, Layout, SpawnPlanFacts
    <2>4. ASSUME NEW e \in DOMAIN spawned
          PROVE  /\ spawned[e] \in PawnRecord(EnemyKinds, 1) /\ ~IsDead(spawned[e])
                 /\ IsInsideRoom(PawnBox(spawned[e]), r) /\ CanPlaceBox(PawnBox(spawned[e]))
      <3>1. e \in DOMAIN plan /\ spawned[e] = [plan[e] EXCEPT !.dir = FirstLook(plan[e].kind)]
        BY <2>1
      <3>2. /\ spawned[e] \in PawnRecord(EnemyKinds, 1)
            /\ spawned[e].at = plan[e].at /\ spawned[e].hp = plan[e].hp
            /\ spawned[e].kind = plan[e].kind
        BY <2>3, <3>1, LooksAWay, PlannedEnemyFacts
      <3>3. ~IsDead(spawned[e])
        BY <2>3, <3>1, <3>2 DEF IsDead
      <3>4. PawnBox(spawned[e]) = Box(plan[e].at, PawnSize)
        BY <2>3, <3>1, <3>2, Layout DEF PawnBox, SizeOf
      <3>5. /\ IsInsideRoom(Box(plan[e].at, PawnSize), r)
            /\ CanPlaceBox(Box(plan[e].at, PawnSize))
        <4>1. plan[e].at \in SpawnPositions(r, at)
          BY <2>3, <3>1 DEF places
        <4>2. plan[e].at \in Cells /\ CanPlaceBox(Box(plan[e].at, TileSize))
          BY <4>1, SpawnedOnFreeTiles, SpawnPositionFacts
        <4>3. QED
          BY <4>1, <4>2, SpawnPositionFacts, TileHoldsPawn
      <3>6. QED
        BY <3>2, <3>3, <3>4, <3>5
    <2>5. DOMAIN spawned = DOMAIN plan
      BY <2>1
    <2>6. QED
      BY <2>3, <2>4, <2>5
  <1>3. QED
    BY <1>1, <1>2

-----------------------------------------------------------------------------
(* A step of the player.                                                   *)

\* One cell walked or pushed, perhaps into another room.
LEMMA MovesKeeps ==
  ASSUME IInv, StepIn({"walk", "pushed"}), Moves
  PROVE  /\ IInv' /\ UNCHANGED <<hasSword, phase, request>> /\ player'.hp = player.hp
         /\ phase \in {"walk", "pushed"}
  <1> DEFINE d == stride.dir
             next == RoomAfter(player.at, d)
             end == EndOf(player.at, d, room)
  <1>1. /\ room \in Cells /\ player.at \in Cells /\ player.dir \in Directions
        /\ player \in PawnRecord({"Player"}, MaxHp)
        /\ d \in Directions \cup {NoDirection} /\ stride.left \in FrameSteps
        /\ stride \in [dir : Directions \cup {NoDirection}, left : FrameSteps]
        /\ IsInsideRoom(Box(player.at, PawnSize), room)
    BY Everybody DEF IInv, Placed
  <1>2. /\ Destination = Plus(player.at, d) /\ NextRoom = next /\ StepEnd = end
        /\ CanPlaceBox(Box(Plus(player.at, d), PawnSize)) /\ next \in AccessibleRooms
    BY DEF Moves, CanStep, IsAccessibleRoom, Destination, NextRoom, StepEnd, RoomAfter, EndOf,
           PlayerCanMoveTo
  <1>3. /\ end \in Cells /\ next \in Cells /\ IsInsideRoom(Box(end, PawnSize), next)
        /\ CanPlaceBox(Box(end, PawnSize))
    BY <1>1, <1>2, StepsIntoRooms, StepsOntoTheMap
  <1>4. /\ TryChangeRoom(next, end) /\ player' = [player EXCEPT !.at = end]
        /\ stride' = [stride EXCEPT !.left = @ - 1]
        /\ UNCHANGED <<phase, hasSword, input, sword, waiting, gameOverPending, clock, request>>
    BY <1>2 DEF Moves
  <1>5. /\ phase \in {"walk", "pushed"} /\ stride.left > 0 /\ ~IsDead(player)
        /\ waiting = {} /\ request = NoRequest
    BY DEF StepIn, IInv, Ordered, Turns
  <1> HIDE DEF next, end
  <1>6. /\ player' \in PawnRecord({"Player"}, MaxHp) /\ player'.at = end /\ player'.dir = player.dir
        /\ player'.hp = player.hp /\ player'.kind = "Player"
    BY <1>1, <1>3, <1>4 DEF PawnRecord, Cells
  <1>7. PawnBox(player)' = Box(end, PawnSize)
    BY <1>6 DEF PawnBox, SizeOf
  <1>8. stride' \in [dir : Directions \cup {NoDirection}, left : FrameSteps]
    <2>1. stride.left - 1 \in FrameSteps
      BY <1>1, <1>5, PawnAssumption DEF FrameSteps
    <2>2. QED
      BY <1>1, <1>4, <2>1
  <1>9. Ordered' /\ Turns' /\ Flying'
    BY <1>4, <1>5, <1>6 DEF Ordered, Turns, Flying, IsDead
  <1>10. CASE next = room
    <2>1. UNCHANGED <<room, enemies, shots>>
      BY <1>4, <1>10 DEF TryChangeRoom
    <2>2. CombatTypeOK(EnemyKinds, 1)'
      BY <1>4, <1>6, <1>8, <2>1 DEF IInv, Typed, CombatTypeOK
    <2>3. Typed(EnemyKinds, 1)'
      BY <1>1, <1>6, <2>1, <2>2 DEF IInv, Typed
    <2>4. TypeOK'
      BY <1>4, <2>1, <2>2 DEF IInv, TypeOK
    <2>5. /\ Living' = Living /\ \A e \in Living : PawnBox(enemies[e])' = PawnBox(enemies[e])
      BY <2>1 DEF Living, PawnBox, SizeOf
    <2>6. Placed' /\ Walkable'
      BY <1>3, <1>7, <1>10, <2>1, <2>5 DEF IInv, Placed, Walkable
    <2>7. QED
      BY <1>4, <1>5, <1>6, <1>9, <2>3, <2>4, <2>6 DEF IInv
  <1>11. CASE next # room
    <2>1. room' = next /\ shots' = {} /\ enemies' \in SpawnRoomEnemies(next, end)
      BY <1>4, <1>11 DEF TryChangeRoom
    <2>2. /\ DOMAIN enemies' \subseteq EnemyIds
          /\ \A e \in DOMAIN enemies' :
               /\ enemies'[e] \in PawnRecord(EnemyKinds, 1) /\ ~IsDead(enemies'[e])
               /\ IsInsideRoom(PawnBox(enemies'[e]), next) /\ CanPlaceBox(PawnBox(enemies'[e]))
      BY <1>3, <2>1, SpawnedFacts
    <2>3. CombatTypeOK(EnemyKinds, 1)'
      <3>1. CombatTypeOK(EnemyKinds, 1) /\ next \in Int \X Int
        BY <1>3 DEF IInv, Typed, Cells
      <3>2. QED
        BY <1>4, <1>5, <1>6, <1>8, <2>1, <2>2, <3>1 DEF CombatTypeOK
    <2>4. Typed(EnemyKinds, 1)'
      BY <1>1, <1>6, <2>1, <2>3 DEF Typed
    <2>5. TypeOK'
      BY <1>2, <1>4, <2>1, <2>2, <2>3 DEF IInv, TypeOK
    <2>6. Placed' /\ Walkable'
      BY <1>3, <1>7, <2>1, <2>2 DEF Placed, Walkable, Living, PawnBox, SizeOf
    <2>7. QED
      BY <1>4, <1>5, <1>6, <1>9, <2>4, <2>5, <2>6 DEF IInv
  <1>12. QED
    BY <1>10, <1>11

-----------------------------------------------------------------------------
(* Steps in which nobody goes anywhere.                                    *)

LEMMA SceneKeeps ==
  ASSUME IInv, Typed(EnemyKinds, 1)', Ordered', Turns', Flying', SceneStays,
         request' \in {NoRequest, "SwordCave", "Dungeon1", "GameOver"}
  PROVE  IInv'
  <1>1. TypeOK'
    BY DEF IInv, TypeOK, Typed, SceneStays
  <1>2. Placed'
    BY SceneStaysKeeps DEF IInv
  <1>3. PawnBox(player)' = PawnBox(player)
    BY Everybody DEF IInv, Typed, CombatTypeOK, SceneStays, PawnRecord, PawnBox, SizeOf
  <1>4. ASSUME NEW e \in Living'
        PROVE  /\ e \in Living /\ PawnBox(enemies[e])' = PawnBox(enemies[e])
               /\ enemies'[e].kind = enemies[e].kind
    BY <1>4 DEF SceneStays, Living, PawnBox, SizeOf
  <1>5. Walkable'
    BY <1>3, <1>4 DEF IInv, Walkable
  <1>6. QED
    BY <1>1, <1>2, <1>5 DEF IInv

LEMMA NobodyHurtKeeps ==
  ASSUME IInv, Typed(EnemyKinds, 1)', Ordered', Turns', NobodyHurt, phase' # "player",
         request' \in {NoRequest, "SwordCave", "Dungeon1", "GameOver"}
  PROVE  IInv'
  BY SceneKeeps DEF NobodyHurt, Flying

\* What an actor's Tick lets fly on is inside the room.
LEMMA ActorsTickKeepsFlying ==
  ASSUME Typed(EnemyKinds, 1), ActorsTick
  PROVE  Flying'
  <1>0. PICK flying \in SUBSET {s \in shots : ~s.fresh} :
          \E n \in [flying -> FrameSteps] :
             shots' = {s \in shots : s.fresh}
                      \cup {Flown(s, n[s]) : s \in {t \in flying : CanFly(t, n[t])}}
    BY DEF ActorsTick
  <1>1. PICK n \in [flying -> FrameSteps] :
          shots' = {s \in shots : s.fresh}
                   \cup {Flown(s, n[s]) : s \in {t \in flying : CanFly(t, n[t])}}
    BY <1>0
  <1>2. room' = room
    BY DEF ActorsTick
  <1>3. ASSUME NEW f \in shots', ~f.fresh
        PROVE  IsInsideRoom(Box(f.at, ShotSize(f)), room)
    <2>1. PICK s \in flying : f = Flown(s, n[s]) /\ CanFly(s, n[s])
      BY <1>1, <1>3
    <2>2. s \in Shot(DOMAIN enemies) /\ n[s] \in Nat
      BY <1>1, <2>1, Everybody, Steps
    <2>3. f.by = s.by
      BY <2>1, <2>2 DEF Flown, Shot
    <2>4. n[s] \in 0 .. n[s]
      BY <2>2
    <2>5. CanProjectileOccupy(Box(f.at, ShotSize(s)))
      BY <2>1, <2>4 DEF CanFly
    <2>6. QED
      BY <2>3, <2>5 DEF CanProjectileOccupy, ShotSize
  <1>4. QED
    BY <1>2, <1>3 DEF Flying, ShotSize

\* The steps of the engine's own loop.
EngineStep == ActorsTick \/ FinishFrame \/ LeaveLevel

LEMMA EngineStepKeeps ==
  ASSUME IInv, EngineStep
  PROVE  IInv' /\ NobodyHurt
  <1>1. Typed(EnemyKinds, 1) /\ Ordered /\ Turns
    BY DEF IInv
  <1>2. Typed(EnemyKinds, 1)' /\ Ordered' /\ NobodyHurt
    BY <1>1, ActorsTickKeeps, FinishFrameKeeps, LeaveLevelKeeps DEF EngineStep
  <1>3. Turns'
    BY <1>1, TurnsKept DEF EngineStep
  <1>4. Flying'
    <2>1. CASE ActorsTick
      BY <1>1, <2>1, ActorsTickKeepsFlying
    <2>2. CASE FinishFrame \/ LeaveLevel
      BY <2>2 DEF FinishFrame, LeaveLevel, Flying
    <2>3. QED
      BY <2>1, <2>2 DEF EngineStep
  <1>5. request' \in {NoRequest, "SwordCave", "Dungeon1", "GameOver"}
    BY DEF EngineStep, ActorsTick, FinishFrame, LeaveLevel, IInv, TypeOK
  <1>6. QED
    BY <1>1, <1>2, <1>3, <1>4, <1>5, SceneKeeps DEF NobodyHurt

LEMMA TickKeeps ==
  ASSUME IInv, Tick
  PROVE  /\ IInv' /\ NobodyHurt /\ UNCHANGED hasSword /\ phase = "player" /\ phase' # "away"
         /\ request' = request \/ (request' = "GameOver" /\ IsDead(player))
  <1>1. Typed(EnemyKinds, 1) /\ Ordered /\ Turns
    BY DEF IInv
  <1>2. Typed(EnemyKinds, 1)' /\ Ordered' /\ NobodyHurt
    BY <1>1, AwaitGameOverKeeps, StartKnockbackKeeps, StartWalkKeeps, StandStillKeeps, AttackKeeps
    DEF Tick
  <1>3. Turns'
    BY <1>1, TurnsKept DEF Tick
  <1>4. /\ phase = "player" /\ phase' \in {"collide", "pushed", "walk", "enemies"}
        /\ UNCHANGED hasSword
        /\ request' = request \/ (request' = "GameOver" /\ IsDead(player))
    BY DEF Tick, AwaitGameOver, StartKnockback, StartWalk, StandStill, Attack, PlayerActs
  <1>5. request' \in {NoRequest, "SwordCave", "Dungeon1", "GameOver"}
    BY <1>4 DEF IInv, TypeOK
  <1>6. QED
    BY <1>2, <1>3, <1>4, <1>5, NobodyHurtKeeps

LEMMA StoppedKeeps ==
  ASSUME IInv, Stopped
  PROVE  IInv' /\ NobodyHurt /\ UNCHANGED <<phase, hasSword, request>>
  <1>1. Blocked /\ phase \in {"walk", "pushed"}
    BY DEF Stopped, StepIn
  <1>2. Typed(EnemyKinds, 1) /\ Ordered /\ Turns
    BY DEF IInv
  <1>3. Typed(EnemyKinds, 1)' /\ Ordered' /\ NobodyHurt
    BY <1>1, <1>2, BlockedKeeps
  <1>4. Turns'
    BY <1>1, <1>2, TurnsKept
  <1>5. UNCHANGED <<phase, hasSword, request>>
    BY <1>1 DEF Blocked
  <1>6. phase' # "player" /\ request' \in {NoRequest, "SwordCave", "Dungeon1", "GameOver"}
    BY <1>1, <1>5 DEF IInv, TypeOK
  <1>7. QED
    BY <1>3, <1>4, <1>5, <1>6, NobodyHurtKeeps

LEMMA TryEnterEntranceKeeps ==
  ASSUME IInv, TryEnterEntrance
  PROVE  /\ IInv' /\ NobodyHurt /\ UNCHANGED <<phase, hasSword>> /\ phase = "walk"
         /\ request = NoRequest /\ ~IsDead(player)
         /\ request' \in {"SwordCave", "Dungeon1"} /\ (request' = "Dungeon1" => hasSword)
  <1>1. /\ phase = "walk" /\ stride.left > 0 /\ request' \in Entrances
        /\ stride' = [stride EXCEPT !.left = 0]
        /\ UNCHANGED <<phase, room, player, hasSword, input, sword,
                       enemies, waiting, shots, gameOverPending, clock>>
    BY DEF TryEnterEntrance, StepIn
  <1>2. Typed(EnemyKinds, 1) /\ Ordered /\ Turns
    BY DEF IInv
  <1>3. request' \in {"SwordCave", "Dungeon1"} /\ (request' = "Dungeon1" => hasSword)
    BY <1>1 DEF Entrances
  <1>4. stride' \in [dir : Directions \cup {NoDirection}, left : FrameSteps] /\ stride'.left = 0
    <2>1. stride \in [dir : Directions \cup {NoDirection}, left : FrameSteps] /\ 0 \in FrameSteps
      BY <1>2, Everybody, Steps
    <2>2. QED
      BY <1>1, <2>1
  <1>5. Typed(EnemyKinds, 1)' /\ NobodyHurt
    <2>1. /\ sword' \in [dir : Directions \cup {NoDirection}, fresh : BOOLEAN, placed : BOOLEAN]
          /\ waiting' \subseteq DOMAIN enemies /\ gameOverPending' \in BOOLEAN /\ clock' \in Nat
          /\ input' \in Directions \cup {NoDirection}
      BY <1>1, <1>2 DEF Typed, CombatTypeOK
    <2>2. QED
      BY <1>1, <1>2, <1>4, <2>1, ControlOnly
  <1>6. Ordered' /\ Turns'
    BY <1>1, <1>2, <1>4 DEF Ordered, Turns
  <1>7. request = NoRequest /\ ~IsDead(player)
    BY <1>1, <1>2 DEF Ordered
  <1>8. phase' # "player" /\ request' \in {NoRequest, "SwordCave", "Dungeon1", "GameOver"}
    BY <1>1, <1>3
  <1>9. QED
    BY <1>1, <1>3, <1>5, <1>6, <1>7, <1>8, NobodyHurtKeeps

-----------------------------------------------------------------------------
(* The enemies' move, the contact and the blows.                           *)

LEMMA UpdateEnemyMovementKeeps ==
  ASSUME IInv, UpdateEnemyMovement
  PROVE  /\ IInv' /\ UNCHANGED <<hasSword, player, request>> /\ phase # "away" /\ phase' # "away"
  <1>1. Typed(EnemyKinds, 1) /\ Ordered /\ Turns /\ Placed
    BY DEF IInv
  <1>2. CASE EndStride \/ EnemiesMoved
    <2>1. Typed(EnemyKinds, 1)' /\ Ordered' /\ NobodyHurt
      BY <1>1, <1>2, EndStrideKeeps, EnemiesMovedKeeps
    <2>2. Turns'
      BY <1>1, <1>2, TurnsKept
    <2>3. /\ UNCHANGED <<hasSword, player, request>> /\ phase' \in {"enemies", "contact"}
          /\ phase # "away"
      BY <1>2 DEF EndStride, EnemiesMoved
    <2>4. request' \in {NoRequest, "SwordCave", "Dungeon1", "GameOver"}
      BY <2>3 DEF IInv, TypeOK
    <2>5. QED
      BY <2>1, <2>2, <2>3, <2>4, NobodyHurtKeeps
  <1>3. CASE \E e \in waiting : EnemyMoves(e)
    <2>1. PICK e \in waiting : EnemyMoves(e)
      BY <1>3
    <2>2. /\ Typed(EnemyKinds, 1)' /\ Ordered' /\ UNCHANGED <<room, player, request, phase>>
          /\ DOMAIN enemies' = DOMAIN enemies
          /\ \A d \in DOMAIN enemies :
               /\ enemies'[d].hp = enemies[d].hp /\ enemies'[d].kind = enemies[d].kind
               /\ \/ enemies'[d].at = enemies[d].at
                  \/ EnemyCanMoveTo(enemies'[d], enemies'[d].at)
      BY <1>1, <2>1, Layout, EnemyMovesKeeps
    <2>3. Placed'
      BY <1>1, <2>1, Layout, EnemyMovesKeepsPlaces
    <2>4. Turns'
      BY <1>1, <2>1, TurnsKept
    <2>5. UNCHANGED hasSword /\ phase = "enemies"
      BY <2>1 DEF EnemyMoves
    <2>6. TypeOK'
      BY <2>2 DEF IInv, TypeOK, Typed
    <2>7. ASSUME NEW d \in Living', enemies'[d].kind # "Tektite"
          PROVE  CanPlaceBox(PawnBox(enemies'[d]))
      <3>1. d \in DOMAIN enemies /\ d \in Living /\ enemies[d].kind = enemies'[d].kind
        BY <2>2 DEF Living, IsDead
      <3>2. CASE enemies'[d].at = enemies[d].at
        <4>1. PawnBox(enemies'[d]) = PawnBox(enemies[d])
          BY <3>1, <3>2 DEF PawnBox, SizeOf
        <4>2. QED
          BY <2>7, <3>1, <4>1 DEF IInv, Walkable
      <3>3. CASE EnemyCanMoveTo(enemies'[d], enemies'[d].at)
        BY <2>7, <3>3 DEF EnemyCanMoveTo, PawnBox
      <3>4. QED
        BY <2>2, <3>1, <3>2, <3>3
    <2>8. Walkable'
      <3>1. PawnBox(player)' = PawnBox(player)
        BY <2>2 DEF PawnBox, SizeOf
      <3>2. QED
        BY <2>7, <3>1 DEF IInv, Walkable, PawnBox, SizeOf
    <2>9. Flying'
      BY <2>2, <2>5 DEF Flying
    <2>10. QED
      BY <2>2, <2>3, <2>4, <2>5, <2>6, <2>8, <2>9 DEF IInv
  <1>4. QED
    BY <1>2, <1>3 DEF UpdateEnemyMovement

\* Contacts and blows take health and spend what struck.
BlowStep == TakeContactDamageToPlayer \/ Collisions \/ Collided

LEMMA BlowStepKeeps ==
  ASSUME IInv, BlowStep
  PROVE  /\ IInv' /\ UNCHANGED <<hasSword, request>> /\ player'.hp <= player.hp
         /\ phase # "away" /\ phase' # "away"
  <1>1. Typed(EnemyKinds, 1) /\ Ordered /\ Turns /\ 1 \in Nat
    BY DEF IInv
  <1>2. Turns'
    BY <1>1, TurnsKept DEF BlowStep, TakeContactDamageToPlayer
  <1>3. player.hp \in Int
    BY <1>1, Everybody, PawnFields
  <1>4. /\ Typed(EnemyKinds, 1)' /\ Ordered' /\ SceneStays /\ UNCHANGED <<hasSword, request>>
        /\ phase \in {"contact", "collide", "strike"}
        /\ phase' \in {"collide", "strike", "finish"}
        /\ player'.hp <= player.hp
    <2>1. CASE TakeContactDamageToPlayer
      BY <1>1, <2>1, ContactKeeps DEF TakeContactDamageToPlayer
    <2>2. CASE \E s \in shots : ShotHitsPlayer(s)
      <3>1. PICK s \in shots : ShotHitsPlayer(s)
        BY <2>2
      <3>2. QED
        BY <1>1, <3>1, ShotHitsPlayerKeeps
    <2>3. CASE \E s \in shots, e \in Living : BeamHitsEnemy(s, e)
      <3>1. PICK s \in shots, e \in Living : BeamHitsEnemy(s, e)
        BY <2>3
      <3>2. /\ Typed(EnemyKinds, 1)' /\ Ordered' /\ SceneStays
            /\ UNCHANGED <<phase, player, hasSword, request>> /\ phase = "strike"
        BY <1>1, <3>1, BeamHitsEnemyKeeps
      <3>3. QED
        BY <1>3, <3>2
    <2>4. CASE \E e \in Living : SwordHitsEnemy(e)
      <3>1. PICK e \in Living : SwordHitsEnemy(e)
        BY <2>4
      <3>2. /\ Typed(EnemyKinds, 1)' /\ Ordered' /\ SceneStays
            /\ UNCHANGED <<phase, player, hasSword, request>> /\ phase = "strike"
        BY <1>1, <3>1, SwordHitsEnemyKeeps
      <3>3. QED
        BY <1>3, <3>2
    <2>5. CASE Collided
      <3>1. Typed(EnemyKinds, 1)' /\ Ordered' /\ NobodyHurt
        BY <1>1, <2>5, CollidedKeeps
      <3>2. UNCHANGED <<hasSword, request>> /\ phase \in {"collide", "strike"}
            /\ phase' \in {"strike", "finish"}
        BY <2>5 DEF Collided
      <3>3. QED
        BY <1>3, <3>1, <3>2 DEF NobodyHurt
    <2>6. QED
      BY <2>1, <2>2, <2>3, <2>4, <2>5 DEF BlowStep, Collisions
  <1>5. Flying' /\ request' \in {NoRequest, "SwordCave", "Dungeon1", "GameOver"}
    BY <1>4 DEF Flying, IInv, TypeOK
  <1>6. IInv'
    BY <1>2, <1>4, <1>5, SceneKeeps
  <1>7. QED
    BY <1>4, <1>6

-----------------------------------------------------------------------------
(* Coming and coming back.                                                 *)

\* What the player may have when it is back.
LEMMA Returning ==
  ASSUME IInv, Return
  PROVE  /\ request \in {"SwordCave", "Dungeon1"}
         /\ \E hp \in 0 .. MaxHp, equipped \in BOOLEAN : ReturnWith(hp, equipped)
  <1>1. player.hp \in 0 .. MaxHp
    BY Everybody, PawnFields DEF IInv
  <1>2. CASE request = "SwordCave" /\ \E found \in BOOLEAN : ReturnWith(player.hp, found)
    BY <1>1, <1>2
  <1>3. CASE request = "Dungeon1" /\ \E hp \in 0 .. MaxHp : ReturnWith(hp, TRUE)
    BY <1>3
  <1>4. QED
    BY <1>2, <1>3 DEF Return

LEMMA ReturnKeepsAll ==
  ASSUME IInv, Return
  PROVE  IInv'
  <1>1. PICK hp \in 0 .. MaxHp, equipped \in BOOLEAN : ReturnWith(hp, equipped)
    BY Returning
  <1>2. Typed(EnemyKinds, 1) /\ Ordered /\ Turns
    BY DEF IInv
  <1>3. Typed(EnemyKinds, 1)' /\ Ordered' /\ SceneStays
    BY <1>1, <1>2, ReturnKeeps
  <1>4. Turns'
    BY <1>1, <1>2, TurnsKept
  <1>5. request' = NoRequest /\ phase' = "tick"
    BY <1>1 DEF ReturnWith
  <1>6. Flying'
    BY <1>5 DEF Flying
  <1>7. QED
    BY <1>3, <1>4, <1>5, <1>6, SceneKeeps

\* A pawn put on a tile of the map is inside one room, and stands free if the
\* tile is.
LEMMA StandsOnATile ==
  ASSUME NEW t \in (0 .. MapTileWidth - 1) \X (0 .. MapTileHeight - 1), t \notin BlockedTiles
  PROVE  /\ TileCell(t) \in Cells /\ CanPlaceBox(Box(TileCell(t), PawnSize))
         /\ IsInsideRoom(Box(TileCell(t), PawnSize),
                         <<t[1] \div RoomTileWidth, t[2] \div RoomTileHeight>>)
  <1> DEFINE i == t[1]
             j == t[2]
             x == i * TileWidth
             y == j * TileHeight
             a == i \div RoomTileWidth
             b == j \div RoomTileHeight
             w == PawnSize[1]
             h == PawnSize[2]
  <1>1. /\ i \in Nat /\ j \in Nat /\ i + 1 <= MapTileWidth /\ j + 1 <= MapTileHeight /\ t = <<i, j>>
        /\ TileWidth \in Nat \ {0} /\ TileHeight \in Nat \ {0}
        /\ RoomTileWidth \in Nat \ {0} /\ RoomTileHeight \in Nat \ {0}
        /\ MapTileWidth \in Nat /\ MapTileHeight \in Nat
        /\ w \in Nat \ {0} /\ h \in Nat \ {0} /\ w <= TileWidth /\ h <= TileHeight
        /\ TileCell(t) = <<x, y>>
    BY Sizes, GeometryAssumption DEF Cells, TileCell
  <1>2. a \in Int /\ b \in Int
    BY <1>1, QuotientIsInt
  <1> HIDE DEF i, j, a, b, w, h
  <1>3. /\ x \in Nat /\ y \in Nat
        /\ (i + 1) * TileWidth = x + TileWidth /\ (j + 1) * TileHeight = y + TileHeight
    BY <1>1
  <1>4. (i + 1) * TileWidth <= MapTileWidth * TileWidth /\ (j + 1) * TileHeight <= MapTileHeight * TileHeight
    BY <1>1, Scaling
  <1>5. /\ MapTileWidth * TileWidth \in Int /\ MapTileHeight * TileHeight \in Int
    BY <1>1
  <1>6. /\ a * RoomTileWidth <= i /\ i + 1 <= a * RoomTileWidth + RoomTileWidth
        /\ b * RoomTileHeight <= j /\ j + 1 <= b * RoomTileHeight + RoomTileHeight
        /\ a * RoomTileWidth \in Int /\ b * RoomTileHeight \in Int
    <2>1. i \in Int /\ j \in Int /\ a = i \div RoomTileWidth /\ b = j \div RoomTileHeight
      BY <1>1 DEF a, b
    <2>2. /\ a * RoomTileWidth <= i /\ i < a * RoomTileWidth + RoomTileWidth
          /\ b * RoomTileHeight <= j /\ j < b * RoomTileHeight + RoomTileHeight
      BY <1>1, <1>2, <2>1, Division
    <2>3. a * RoomTileWidth \in Int /\ b * RoomTileHeight \in Int
      BY <1>1, <1>2
    <2>4. QED
      BY <1>1, <2>1, <2>2, <2>3
  <1>7. /\ (a * RoomTileWidth) * TileWidth <= i * TileWidth
        /\ (b * RoomTileHeight) * TileHeight <= j * TileHeight
        /\ (i + 1) * TileWidth <= (a * RoomTileWidth + RoomTileWidth) * TileWidth
        /\ (j + 1) * TileHeight <= (b * RoomTileHeight + RoomTileHeight) * TileHeight
    <2>1. i \in Int /\ j \in Int /\ i + 1 \in Int /\ j + 1 \in Int
      BY <1>1
    <2>2. a * RoomTileWidth + RoomTileWidth \in Int /\ b * RoomTileHeight + RoomTileHeight \in Int
      BY <1>1, <1>6
    <2>3. QED
      BY <1>1, <1>6, <2>1, <2>2, Scaling
  <1>8. /\ (a * RoomTileWidth) * TileWidth = a * RoomWidth
        /\ (b * RoomTileHeight) * TileHeight = b * RoomHeight
        /\ (a * RoomTileWidth + RoomTileWidth) * TileWidth = a * RoomWidth + RoomWidth
        /\ (b * RoomTileHeight + RoomTileHeight) * TileHeight = b * RoomHeight + RoomHeight
        /\ a * RoomWidth \in Int /\ b * RoomHeight \in Int /\ RoomWidth \in Int /\ RoomHeight \in Int
    BY <1>1, <1>2, Z3 DEF RoomWidth, RoomHeight
  <1> HIDE DEF x, y
  <1>9. <<x, y>> \in Cells
    BY <1>3 DEF Cells
  <1>10. IsInsideRoom(Box(<<x, y>>, PawnSize), <<a, b>>)
    <2>1. /\ a * RoomWidth <= x /\ x + w <= a * RoomWidth + RoomWidth
          /\ b * RoomHeight <= y /\ y + h <= b * RoomHeight + RoomHeight
      <3>1. /\ a * RoomWidth <= x /\ x + TileWidth <= a * RoomWidth + RoomWidth
            /\ b * RoomHeight <= y /\ y + TileHeight <= b * RoomHeight + RoomHeight
        BY <1>3, <1>7, <1>8 DEF x, y
      <3>2. QED
        BY <1>1, <1>3, <1>8, <3>1
    <2>2. <<a, b>> \in Cells /\ PawnSize \in Cells
      BY <1>2, Sizes DEF Cells
    <2>3. QED
      BY <1>9, <2>1, <2>2, InsideRoom DEF w, h
  <1>11. CanPlaceBox(Box(<<x, y>>, PawnSize))
    <2>1. x + w - 1 < MapTileWidth * TileWidth /\ y + h - 1 < MapTileHeight * TileHeight
      BY <1>1, <1>3, <1>4, <1>5
    <2>2. /\ x \div TileWidth = i /\ (x + w - 1) \div TileWidth = i
          /\ y \div TileHeight = j /\ (y + h - 1) \div TileHeight = j
      <3>1. i * TileWidth = x /\ j * TileHeight = y /\ i \in Int /\ j \in Int
        BY <1>1 DEF x, y
      <3>2. /\ x \in Int /\ y \in Int /\ x + w - 1 \in Int /\ y + h - 1 \in Int
            /\ i * TileWidth <= x /\ x < i * TileWidth + TileWidth
            /\ i * TileWidth <= x + w - 1 /\ x + w - 1 < i * TileWidth + TileWidth
            /\ j * TileHeight <= y /\ y < j * TileHeight + TileHeight
            /\ j * TileHeight <= y + h - 1 /\ y + h - 1 < j * TileHeight + TileHeight
        BY <1>1, <1>3, <3>1
      <3>3. QED
        BY <1>1, <3>1, <3>2, Division
    <2>3. \A k \in (x \div TileWidth) .. ((x + w - 1) \div TileWidth),
             l \in (y \div TileHeight) .. ((y + h - 1) \div TileHeight) : <<k, l>> \notin BlockedTiles
      <3>1. (\A k \in i .. i : k = i) /\ \A l \in j .. j : l = j
        BY <1>1
      <3>2. QED
        BY <1>1, <2>2, <3>1
    <2>4. x \in Int /\ y \in Int /\ x >= 0 /\ y >= 0
      BY <1>3
    <2>5. QED
      BY <2>1, <2>3, <2>4, PawnFits DEF w, h
  <1>12. QED
    BY <1>1, <1>9, <1>10, <1>11 DEF a, b, i, j

LEMMA InitIsPlaced ==
  ASSUME Init
  PROVE  IInv
  <1> DEFINE at == TileCell(StartTile)
             pawn == NewPawn("Player", at, MaxHp, Up)
  <1>1. /\ phase = "tick" /\ room = StartRoom /\ player = EndFrame(pawn) /\ hasSword = FALSE
        /\ input = NoDirection /\ stride = NoStride /\ sword = NoSword
        /\ enemies = <<>> /\ waiting = {} /\ shots = {}
        /\ gameOverPending = FALSE /\ clock = 0 /\ request = NoRequest
    BY DEF Init
  <1>2. DOMAIN enemies = {}
    BY <1>1
  <1>3. /\ at \in Cells /\ CanPlaceBox(Box(at, PawnSize)) /\ IsInsideRoom(Box(at, PawnSize), StartRoom)
    BY LayoutAssumption, StandsOnATile
  <1>4. /\ player \in PawnRecord({"Player"}, MaxHp) /\ player.at = at /\ player.dir = Up
        /\ PawnBox(player) = Box(at, PawnSize) /\ player.hp = MaxHp
    <2>1. Up \in Ways /\ MaxHp \in Nat /\ MaxHp \in 0 .. MaxHp
      BY DirectionsAreWays, CombatAssumption DEF Directions
    <2>2. pawn \in PawnRecord({"Player"}, MaxHp)
      BY <1>3, <2>1, NewPawnIsTyped
    <2>3. pawn.at = at /\ pawn.dir = Up /\ pawn.kind = "Player" /\ pawn.hp = MaxHp
      BY DEF NewPawn
    <2> HIDE DEF pawn
    <2>4. QED
      BY <1>1, <2>2, <2>3, EndFrameFacts DEF PawnBox, SizeOf
  <1>5. CombatTypeOK(EnemyKinds, 1)
    <2>1. room \in Int \X Int
      BY <1>1, Layout DEF Cells
    <2>2. QED
      BY <1>1, <1>2, <1>4, <2>1, Rests DEF CombatTypeOK
  <1>6. Typed(EnemyKinds, 1)
    BY <1>1, <1>4, <1>5 DEF Typed, Directions
  <1>7. TypeOK
    BY <1>1, <1>2, <1>5, Layout DEF TypeOK
  <1>8. Placed /\ Walkable
    BY <1>1, <1>2, <1>3, <1>4 DEF Placed, Walkable, Living
  <1>9. Ordered /\ Turns /\ Flying
    BY <1>1 DEF Ordered, Turns, Flying
  <1>10. QED
    BY <1>6, <1>7, <1>8, <1>9 DEF IInv

-----------------------------------------------------------------------------
(* The theorems.                                                           *)

\* The steps of the player into another cell.
PlayerMoves == UpdatePlayerMovement \/ UpdatePawnKnockback

LEMMA PlayerMovesKeeps ==
  ASSUME IInv, PlayerMoves
  PROVE  /\ IInv' /\ UNCHANGED <<hasSword, phase, request>> /\ player'.hp = player.hp
         /\ phase \in {"walk", "pushed"}
  <1>1. StepIn({"walk", "pushed"}) /\ Moves
    BY DEF PlayerMoves, UpdatePlayerMovement, UpdatePawnKnockback, StepIn
  <1>2. QED
    BY <1>1, MovesKeeps

LEMMA StepKeepsAll ==
  ASSUME IInv, [Next]_vars
  PROVE  IInv'
  <1>1. CASE EngineStep
    BY <1>1, EngineStepKeeps
  <1>2. CASE Tick
    BY <1>2, TickKeeps
  <1>3. CASE TryEnterEntrance
    BY <1>3, TryEnterEntranceKeeps
  <1>4. CASE Stopped
    BY <1>4, StoppedKeeps
  <1>5. CASE PlayerMoves
    BY <1>5, PlayerMovesKeeps
  <1>6. CASE UpdateEnemyMovement
    BY <1>6, UpdateEnemyMovementKeeps
  <1>7. CASE BlowStep
    BY <1>7, BlowStepKeeps
  <1>8. CASE Return
    BY <1>8, ReturnKeepsAll
  <1>9. CASE UNCHANGED vars
    <2>1. UNCHANGED <<phase, room, player, hasSword, input, stride, sword, enemies, waiting, shots,
                      gameOverPending, clock, request>>
      BY <1>9 DEF vars, combatVars
    <2>2. TypeOK' /\ Typed(EnemyKinds, 1)'
      BY <2>1 DEF IInv, TypeOK, Typed, CombatTypeOK
    <2>3. Placed' /\ Walkable'
      BY <2>1 DEF IInv, Placed, Walkable, Living, PawnBox, SizeOf
    <2>4. Ordered' /\ Turns' /\ Flying'
      BY <2>1 DEF IInv, Ordered, Turns, Flying
    <2>5. QED
      BY <2>2, <2>3, <2>4 DEF IInv
  <1>10. QED
    BY <1>1, <1>2, <1>3, <1>4, <1>5, <1>6, <1>7, <1>8, <1>9
    DEF Next, Frame, EngineStep, PlayerMoves, BlowStep

\* The strengthened invariant holds for every map and every path of rooms.
THEOREM OverworldInvariant == Spec => []IInv
  <1>1. Init => IInv
    BY InitIsPlaced
  <1>2. IInv /\ [Next]_vars => IInv'
    BY StepKeepsAll
  <1>3. QED
    BY <1>1, <1>2, PTL DEF Spec

\* Wherever walking, knockbacks and the edges of rooms bring them, the player
\* and the enemies are inside the room shown, and none of them but a Tektite is
\* in a wall (OverworldLevel::TryChangeRoom, CanMoveTo).
THEOREM NobodyIsEverMisplaced == Spec => []NobodyIsMisplaced
  <1>1. IInv => NobodyIsMisplaced
    BY DEF IInv, TypeOK, Placed, Walkable, NobodyIsMisplaced
  <1>2. QED
    BY <1>1, OverworldInvariant, PTL

\* What flies is inside the room shown and was thrown by the player or by one
\* of that room's enemies (TryChangeRoom, ClearRoomActors).
THEOREM ShotsAlwaysBelong == Spec => []ShotsBelongToTheRoom
  <1>1. IInv => ShotsBelongToTheRoom
    <2> SUFFICES ASSUME IInv  PROVE ShotsBelongToTheRoom
      OBVIOUS
    <2>1. \A s \in shots : s.by # "player" => s.by \in DOMAIN enemies
      BY DEF IInv, Typed, Shot
    <2>2. \A s \in shots : phase = "player" /\ ~s.fresh => IsInsideRoom(Box(s.at, ShotSize(s)), room)
      BY DEF IInv, Flying
    <2>3. TypeOK
      BY DEF IInv
    <2>4. QED
      BY <2>1, <2>2, <2>3 DEF ShotsBelongToTheRoom
  <1>2. QED
    BY <1>1, OverworldInvariant, PTL

-----------------------------------------------------------------------------
(* What the rest of the game sees of the overworld.                        *)

VisitRecord ==
  [hp : Nat, hasSword : BOOLEAN, boss : {FALSE}, heart : {FALSE}, triforce : {FALSE},
   request : {NoRequest, "SwordCave", "Dungeon1", "GameOver"}, away : BOOLEAN]

Shown == [hp |-> player.hp, hasSword |-> hasSword, boss |-> FALSE, heart |-> FALSE,
          triforce |-> FALSE, request |-> request, away |-> phase = "away"]

ShownTyped == /\ Shown \in VisitRecord /\ Shown' \in VisitRecord
              /\ player.hp \in Nat /\ player'.hp \in Nat

LEMMA ShownIsTyped ==
  ASSUME IInv, IInv'
  PROVE  ShownTyped
  <1>1. player.hp \in Nat /\ player'.hp \in Nat
    <2>1. player \in PawnRecord({"Player"}, MaxHp) /\ player' \in PawnRecord({"Player"}, MaxHp)
      BY DEF IInv, TypeOK, CombatTypeOK
    <2>2. player.hp \in 0 .. MaxHp /\ player'.hp \in 0 .. MaxHp
      BY <2>1, PawnFields
    <2>3. QED
      BY <2>2, CombatAssumption
  <1>2. hasSword \in BOOLEAN /\ request \in {NoRequest, "SwordCave", "Dungeon1", "GameOver"}
    BY DEF IInv, TypeOK, CombatTypeOK
  <1>3. hasSword' \in BOOLEAN /\ request' \in {NoRequest, "SwordCave", "Dungeon1", "GameOver"}
    BY DEF IInv, TypeOK, CombatTypeOK
  <1>4. Shown \in VisitRecord
    BY <1>1, <1>2 DEF Shown, VisitRecord
  <1>5. Shown' \in VisitRecord
    BY <1>1, <1>3 DEF Shown, VisitRecord
  <1>6. QED
    BY <1>1, <1>4, <1>5 DEF ShownTyped

LEMMA ShownFields ==
  /\ Shown.hp = player.hp /\ Shown.hasSword = hasSword /\ Shown.request = request
  /\ Shown.away = (phase = "away") /\ ~Shown.triforce
  /\ Shown'.hp = player'.hp /\ Shown'.hasSword = hasSword' /\ Shown'.request = request'
  /\ Shown'.away = (phase' = "away")
  BY DEF Shown

\* Visits that differ in what a step changes.
LEMMA DifferInHp ==
  ASSUME NEW v \in VisitRecord, NEW w \in VisitRecord,
         w.hasSword = v.hasSword, w.request = v.request, w.away = v.away
  PROVE  w = [v EXCEPT !.hp = w.hp]
  BY DEF VisitRecord

LEMMA DifferInRequest ==
  ASSUME NEW v \in VisitRecord, NEW w \in VisitRecord,
         w.hp = v.hp, w.hasSword = v.hasSword, w.away = v.away
  PROVE  w = [v EXCEPT !.request = w.request]
  BY DEF VisitRecord

LEMMA DifferInAway ==
  ASSUME NEW v \in VisitRecord, NEW w \in VisitRecord,
         w.hp = v.hp, w.hasSword = v.hasSword, w.request = v.request, w.away
  PROVE  w = [v EXCEPT !.away = TRUE]
  BY DEF VisitRecord

LEMMA DifferInReturn ==
  ASSUME NEW v \in VisitRecord, NEW w \in VisitRecord, NEW armed \in BOOLEAN,
         w.hasSword = (v.hasSword \/ armed), ~w.away
  PROVE  w = [v EXCEPT !.hp = w.hp, !.hasSword = v.hasSword \/ armed, !.request = w.request,
                       !.away = FALSE]
  BY DEF VisitRecord

\* The fields an action leaves alone are shown unchanged.
LEMMA KeptShown ==
  /\ hasSword' = hasSword => Shown'.hasSword = Shown.hasSword
  /\ request' = request => Shown'.request = Shown.request
  /\ player'.hp = player.hp => Shown'.hp = Shown.hp
  /\ phase # "away" /\ phase' # "away" => Shown'.away = Shown.away /\ ~Shown.away
  BY DEF Shown

LEMMA NothingShown ==
  ASSUME player'.hp = player.hp, (phase' = "away") = (phase = "away"),
         UNCHANGED <<hasSword, request>>
  PROVE  UNCHANGED Shown
  BY DEF Shown

\* A step that hurts the player, or does nothing that is seen.
LEMMA PerhapsHurtShown ==
  ASSUME ShownTyped, player'.hp <= player.hp, phase # "away", phase' # "away",
         UNCHANGED <<hasSword, request>>
  PROVE  Visit!Next \/ UNCHANGED Shown
  <1>1. CASE player'.hp = player.hp
    BY <1>1, NothingShown
  <1>2. CASE player'.hp # player.hp
    <2>1. /\ Shown'.hasSword = Shown.hasSword /\ Shown'.request = Shown.request
          /\ Shown'.away = Shown.away /\ ~Shown.away
      BY KeptShown
    <2>2. Shown' = [Shown EXCEPT !.hp = Shown'.hp]
      BY <2>1, DifferInHp DEF ShownTyped
    <2>3. Shown'.hp \in {n \in 0 .. (Shown.hp - 1) : ~Shown.triforce}
      BY <1>2, ShownFields DEF ShownTyped
    <2>4. Shown' \in Visit!Hurt(Shown)
      BY <2>2, <2>3 DEF Visit!Hurt
    <2>5. QED
      BY <2>1, <2>4 DEF Visit!Next, Visit!Played, Shown
  <1>3. QED
    BY <1>1, <1>2

LEMMA RequestShown ==
  ASSUME ShownTyped, player'.hp = player.hp, phase # "away", phase' # "away", UNCHANGED hasSword,
         request = NoRequest,
         \/ request' \in {"SwordCave", "Dungeon1"} /\ (request' = "Dungeon1" => hasSword)
            /\ ~IsDead(player)
         \/ request' = "GameOver" /\ IsDead(player)
  PROVE  Visit!Next
  <1>1. /\ Shown'.hasSword = Shown.hasSword /\ Shown'.hp = Shown.hp
        /\ Shown'.away = Shown.away /\ ~Shown.away
    BY KeptShown
  <1>2. Shown' = [Shown EXCEPT !.request = Shown'.request]
    BY <1>1, DifferInRequest DEF ShownTyped
  <1>3. Shown.request = Visit!NoRequest /\ Shown'.request = request'
    BY ShownFields DEF NoRequest, Visit!NoRequest
  <1>4. Shown' \in Visit!Ask(Shown)
    <2>1. CASE /\ request' \in {"SwordCave", "Dungeon1"} /\ (request' = "Dungeon1" => hasSword)
               /\ ~IsDead(player)
      <3>1. Shown.hp > 0
        BY <2>1, ShownFields DEF ShownTyped, IsDead
      <3>2. Shown'.request \in {e \in {"SwordCave", "Dungeon1"} :
                                   /\ Shown.hp > 0 /\ ~Shown.triforce
                                   /\ Shown.request = Visit!NoRequest
                                   /\ e = "Dungeon1" => Shown.hasSword}
        BY <2>1, <1>3, <3>1, ShownFields
      <3>3. QED
        BY <1>2, <3>2 DEF Visit!Ask
    <2>2. CASE request' = "GameOver" /\ IsDead(player)
      <3>1. Shown.hp = 0 /\ Shown'.request = "GameOver"
        BY <2>2, <1>3, ShownFields DEF IsDead
      <3>2. QED
        BY <1>2, <1>3, <3>1 DEF Visit!Ask, Visit!When
    <2>3. QED
      BY <2>1, <2>2
  <1>5. QED
    BY <1>1, <1>4 DEF Visit!Next, Visit!Played, Shown

LEMMA LeaveShown ==
  ASSUME ShownTyped, LeaveLevel
  PROVE  Visit!Next
  <1>1. /\ phase = "finish" /\ phase' = "away" /\ request # NoRequest
        /\ UNCHANGED <<player, hasSword, request>>
    BY DEF LeaveLevel
  <1>2. /\ Shown'.hasSword = Shown.hasSword /\ Shown'.hp = Shown.hp
        /\ Shown'.request = Shown.request
    BY <1>1, KeptShown
  <1>3. Shown'.away /\ ~Shown.away /\ Shown.request # Visit!NoRequest
    BY <1>1 DEF Shown, NoRequest, Visit!NoRequest
  <1>4. Shown' = [Shown EXCEPT !.away = TRUE]
    BY <1>2, <1>3, DifferInAway DEF ShownTyped
  <1>5. Shown' \in Visit!Leave(Shown)
    BY <1>3, <1>4 DEF Visit!Leave, Visit!When
  <1>6. QED
    BY <1>3, <1>5 DEF Visit!Next, Shown

LEMMA ReturnShown ==
  ASSUME IInv, ShownTyped, Return
  PROVE  Visit!Next
  <1>1. PICK hp \in 0 .. MaxHp, equipped \in BOOLEAN : ReturnWith(hp, equipped)
    BY Returning
  <1>2. player'.hp = hp
    BY <1>1, ReturnKeeps DEF IInv
  <1>3. /\ phase = "away" /\ phase' = "tick" /\ request \in {"SwordCave", "Dungeon1"}
        /\ request' = NoRequest /\ hasSword' = (hasSword \/ equipped)
    BY <1>1, Returning DEF ReturnWith
  <1>4. /\ Shown'.hasSword = (Shown.hasSword \/ equipped) /\ ~Shown'.away /\ Shown'.hp = hp
        /\ Shown'.request = Visit!NoRequest
        /\ Shown.away /\ Shown.request \in {"SwordCave", "Dungeon1"}
    BY <1>2, <1>3, ShownFields DEF NoRequest, Visit!NoRequest
  <1>5. Shown' = [Shown EXCEPT !.hp = Shown'.hp, !.hasSword = Shown.hasSword \/ equipped,
                               !.request = Shown'.request, !.away = FALSE]
    BY <1>4, DifferInReturn DEF ShownTyped
  <1>6. Shown' = Visit!ReturnWith(Shown, hp, equipped)
    BY <1>4, <1>5 DEF Visit!ReturnWith, ShownTyped, VisitRecord
  <1>7. QED
    BY <1>4, <1>6 DEF Visit!Next, Shown

\* Every step of the overworld is a step of the visit, or nothing that is seen.
LEMMA VisitStep ==
  ASSUME IInv, [Next]_vars
  PROVE  Visit!Next \/ UNCHANGED Shown
  <1>1. IInv'
    BY StepKeepsAll
  <1>2. ShownTyped
    BY <1>1, ShownIsTyped
  <1>3. CASE LeaveLevel
    BY <1>2, <1>3, LeaveShown
  <1>4. CASE ActorsTick \/ FinishFrame
    <2>1. phase # "away" /\ phase' # "away" /\ UNCHANGED <<hasSword, request>>
      BY <1>4 DEF ActorsTick, FinishFrame
    <2>2. player'.hp = player.hp
      BY <1>4, EngineStepKeeps DEF NobodyHurt, EngineStep
    <2>3. QED
      BY <2>1, <2>2, NothingShown
  <1>5. CASE Tick
    <2>1. /\ player'.hp = player.hp /\ UNCHANGED hasSword /\ phase = "player" /\ phase' # "away"
          /\ request' = request \/ (request' = "GameOver" /\ IsDead(player))
      BY <1>5, TickKeeps DEF NobodyHurt
    <2>2. request = NoRequest
      BY <2>1 DEF IInv, Ordered
    <2>3. QED
      BY <1>2, <2>1, <2>2, NothingShown, RequestShown
  <1>6. CASE TryEnterEntrance
    <2>1. /\ player'.hp = player.hp /\ UNCHANGED <<phase, hasSword>> /\ phase = "walk"
          /\ request = NoRequest /\ ~IsDead(player)
          /\ request' \in {"SwordCave", "Dungeon1"} /\ (request' = "Dungeon1" => hasSword)
      BY <1>6, TryEnterEntranceKeeps DEF NobodyHurt
    <2>2. QED
      BY <1>2, <2>1, RequestShown
  <1>7. CASE Stopped
    BY <1>7, StoppedKeeps, NothingShown DEF NobodyHurt
  <1>8. CASE PlayerMoves
    BY <1>8, PlayerMovesKeeps, NothingShown
  <1>9. CASE UpdateEnemyMovement
    BY <1>9, UpdateEnemyMovementKeeps, NothingShown
  <1>10. CASE BlowStep
    BY <1>2, <1>10, BlowStepKeeps, PerhapsHurtShown
  <1>11. CASE Return
    BY <1>2, <1>11, ReturnShown
  <1>12. CASE UNCHANGED vars
    BY <1>12, NothingShown DEF vars, combatVars
  <1>13. QED
    BY <1>3, <1>4, <1>5, <1>6, <1>7, <1>8, <1>9, <1>10, <1>11, <1>12
    DEF Next, Frame, PlayerMoves, BlowStep

\* To the rest of the game the overworld, with all its rooms and frames, is a
\* visit (LevelVisit): the step of the one is a step of the other or none.
THEOREM OverworldImplementsVisit == Spec => ImplementsVisit
  <1>1. Init => Visit!Init
    <2> SUFFICES ASSUME Init  PROVE Visit!Init
      OBVIOUS
    <2>1. player.hp = MaxHp
      BY DEF Init, EndFrame, NewPawn
    <2>2. phase = "tick" /\ hasSword = FALSE /\ request = NoRequest
      BY DEF Init
    <2>3. Shown = Visit!NewVisit(MaxHp, FALSE)
      BY <2>1, <2>2 DEF Shown, Visit!NewVisit, NoRequest, Visit!NoRequest
    <2>4. MaxHp \in 0 .. MaxHp
      BY CombatAssumption
    <2>5. QED
      BY <2>3, <2>4 DEF Visit!Init, Shown
  <1>2. IInv /\ [Next]_vars => [Visit!Next]_Shown
    BY VisitStep
  <1>3. QED
    BY <1>1, <1>2, OverworldInvariant, PTL DEF Spec, ImplementsVisit, Visit!Spec, Shown
=============================================================================
