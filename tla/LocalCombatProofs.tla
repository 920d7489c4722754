-------------------------- MODULE LocalCombatProofs --------------------------
(***************************************************************************)
(* Lemmas about LocalCombat.tla, for every size of tiles, rooms and boxes, *)
(* every map and every number of enemies: the arithmetic of rooms, what    *)
(* the helpers of pawns return, and what each action of a frame does to    *)
(* the places, the health and the types of those in the room.  The proofs  *)
(* about the levels that extend LocalCombat rest on them.                  *)
(***************************************************************************)
EXTENDS LocalCombat, WellFoundedInduction, TLAPS

Cells == Int \X Int
Ways  == {-1, 0, 1} \X {-1, 0, 1}

(* A projectile of the room, thrown by the player or one of some enemies.  *)
Shot(throwers) ==
  [at : Cells, prev : Cells, dir : Ways, by : {"player"} \cup throwers, fresh : BOOLEAN]

AllKinds == {"Octorok", "Moblin", "Tektite", "Aquamentus"}

Typed(kinds, maxEnemyHp) ==
  /\ CombatTypeOK(kinds, maxEnemyHp)
  /\ shots \subseteq Shot(DOMAIN enemies)
  /\ player.dir \in Directions

(* The player and the living enemies are inside the room that is shown.    *)
Placed ==
  /\ IsInsideRoom(PawnBox(player), room)
  /\ \A e \in Living : IsInsideRoom(PawnBox(enemies[e]), room)

Apart == \A e \in Living : ~Overlaps(PawnBox(enemies[e]), PawnBox(player))

(* From its move to the contact the player lives, and until its move is    *)
(* over the level has not been asked to be left.                           *)
Ordered ==
  /\ phase \in {"walk", "pushed", "enemies", "contact"} => ~IsDead(player)
  /\ phase \in {"tick", "player"} => request = NoRequest
  /\ phase \in {"walk", "pushed"} /\ stride.left > 0 => request = NoRequest

-----------------------------------------------------------------------------
(* Arithmetic.                                                             *)

\* Every set of naturals that has an element has a least one.
LEMMA LeastElement ==
  ASSUME NEW T, T \subseteq Nat, T # {}
  PROVE  \E x \in T : \A y \in T : x <= y
  <1> DEFINE R == OpToRel(<, Nat)
  <1>1. IsWellFoundedOn(R, Nat)
    BY NatLessThanWellFounded
  <1>2. \A x, y \in Nat : <<x, y>> \in R <=> x < y
    BY DEF OpToRel
  <1> HIDE DEF R
  <1>3. PICK x \in T : \A y \in T : ~(<<y, x>> \in R)
    BY <1>1, WFMin
  <1>4. \A y \in T : y \in Nat /\ x \in Nat /\ ~(y < x)
    BY <1>2, <1>3
  <1>5. QED
    BY <1>4

LEMMA Product ==
  ASSUME NEW a \in Nat \ {0}, NEW b \in Nat \ {0}
  PROVE  a * b \in Nat \ {0}
  OBVIOUS

LEMMA Sizes ==
  /\ TileWidth \in Nat \ {0} /\ TileHeight \in Nat \ {0}
  /\ RoomWidth \in Nat \ {0} /\ RoomHeight \in Nat \ {0}
  /\ TileWidth <= RoomWidth /\ TileHeight <= RoomHeight
  /\ PawnSize \in Cells /\ PawnSize[1] >= 1 /\ PawnSize[2] >= 1
  /\ PawnSize[1] <= TileWidth /\ PawnSize[2] <= TileHeight
  /\ BossSize \in Cells /\ BossSize[1] >= 1 /\ BossSize[2] >= 1
  /\ SwordSize \in Cells /\ RockSize \in Cells
  <1>1. /\ TileWidth \in Nat \ {0} /\ TileHeight \in Nat \ {0}
        /\ RoomTileWidth \in Nat \ {0} /\ RoomTileHeight \in Nat \ {0}
    BY GeometryAssumption
  <1>2. RoomWidth \in Nat \ {0} /\ RoomHeight \in Nat \ {0}
    BY <1>1, Product DEF RoomWidth, RoomHeight
  <1>3. TileWidth <= RoomWidth /\ TileHeight <= RoomHeight
    <2>1. ASSUME NEW a \in Nat \ {0}, NEW b \in Nat \ {0}  PROVE a <= b * a
      OBVIOUS
    <2>2. QED
      BY <1>1, <2>1 DEF RoomWidth, RoomHeight
  <1>4. /\ PawnSize \in Cells /\ PawnSize[1] >= 1 /\ PawnSize[2] >= 1
        /\ BossSize \in Cells /\ BossSize[1] >= 1 /\ BossSize[2] >= 1
        /\ SwordSize \in Cells /\ RockSize \in Cells
        /\ PawnSize[1] <= TileWidth /\ PawnSize[2] <= TileHeight
    BY CombatAssumption DEF Cells
  <1>5. QED
    BY <1>1, <1>2, <1>3, <1>4

\* The quotient says between which multiples a number lies.
LEMMA Division ==
  ASSUME NEW c \in Int, NEW w \in Nat \ {0}, NEW r \in Int
  PROVE  c \div w = r <=> r * w <= c /\ c < r * w + w
  OBVIOUS

LEMMA QuotientIsInt ==
  ASSUME NEW c \in Int, NEW w \in Nat \ {0}
  PROVE  c \div w \in Int
  OBVIOUS

\* On one axis: a box inside a room that takes a step either keeps inside it, or
\* its front edge is the neighbouring room's first.
LEMMA AxisStep ==
  ASSUME NEW w \in Nat \ {0}, NEW s \in Nat \ {0}, s <= w, NEW r \in Int, NEW x \in Int,
         r * w <= x, x + s <= r * w + w
  PROVE  /\ x \div w = r
         /\ \/ (x + 1 + (s - 1)) \div w = r /\ x + 1 + s <= r * w + w
            \/ (x + 1 + (s - 1)) \div w = r + 1
         /\ \/ (x + -1) \div w = r /\ r * w <= x + -1
            \/ (x + -1) \div w = r - 1
         /\ (r + 1) * w = r * w + w /\ (r - 1) * w = r * w - w
  <1> DEFINE q == r * w
  <1>1. q \in Int /\ (r + 1) * w = q + w /\ (r - 1) * w = q - w
    OBVIOUS
  <1>2. x \div w = r
    BY Division
  <1>3. (x + s < q + w \/ x + s = q + w) /\ (x > q \/ x = q)
    BY <1>1
  <1>4. \/ (x + 1 + (s - 1)) \div w = r /\ x + 1 + s <= q + w
        \/ (x + 1 + (s - 1)) \div w = r + 1
    <2>1. CASE x + s < q + w
      <3>1. x + 1 + (s - 1) \in Int /\ q <= x + 1 + (s - 1) /\ x + 1 + (s - 1) < q + w
        BY <1>1, <2>1
      <3>2. QED
        BY <1>1, <2>1, <3>1, Division
    <2>2. CASE x + s = q + w
      <3>1. x + 1 + (s - 1) \in Int /\ (r + 1) * w <= x + 1 + (s - 1) /\ x + 1 + (s - 1) < (r + 1) * w + w
        BY <1>1, <2>2
      <3>2. QED
        BY <3>1, Division
    <2>3. QED  BY <1>3, <2>1, <2>2
  <1>5. \/ (x + -1) \div w = r /\ q <= x + -1
        \/ (x + -1) \div w = r - 1
    <2>1. CASE x > q
      <3>1. x + -1 \in Int /\ q <= x + -1 /\ x + -1 < q + w
        BY <1>1, <2>1
      <3>2. QED
        BY <3>1, Division
    <2>2. CASE x = q
      <3>1. x + -1 \in Int /\ (r - 1) * w <= x + -1 /\ x + -1 < (r - 1) * w + w
        BY <1>1, <2>2
      <3>2. QED
        BY <3>1, Division
    <2>3. QED  BY <1>3, <2>1, <2>2
  <1>6. QED
    BY <1>1, <1>2, <1>4, <1>5

-----------------------------------------------------------------------------
(* Boxes and rooms.                                                        *)

\* A box inside a room, in numbers.
LEMMA InsideRoom ==
  ASSUME NEW at \in Cells, NEW size \in Cells, NEW r \in Cells
  PROVE  IsInsideRoom(Box(at, size), r) <=>
           /\ r[1] * RoomWidth <= at[1] /\ at[1] + size[1] <= r[1] * RoomWidth + RoomWidth
           /\ r[2] * RoomHeight <= at[2] /\ at[2] + size[2] <= r[2] * RoomHeight + RoomHeight
  <1> DEFINE p == r[1] * RoomWidth
             q == r[2] * RoomHeight
  <1>1. p \in Int /\ q \in Int /\ RoomWidth \in Int /\ RoomHeight \in Int
    BY Sizes DEF Cells
  <1>2. Box(GetRoomCellOrigin(r), <<RoomWidth, RoomHeight>>) =
          [left |-> p, top |-> q, right |-> p + RoomWidth - 1, bottom |-> q + RoomHeight - 1]
    BY DEF Box, GetRoomCellOrigin
  <1> HIDE DEF p, q
  <1>3. at[1] \in Int /\ at[2] \in Int /\ size[1] \in Int /\ size[2] \in Int
    BY DEF Cells
  <1>4. IsInsideRoom(Box(at, size), r) <=>
           /\ p <= at[1] /\ at[1] + size[1] <= p + RoomWidth
           /\ q <= at[2] /\ at[2] + size[2] <= q + RoomHeight
    BY <1>1, <1>2, <1>3 DEF IsInsideRoom, IsInside, Box
  <1>5. QED
    BY <1>4 DEF p, q

LEMMA OverlapsIsSymmetric ==
  ASSUME NEW a, NEW b
  PROVE  Overlaps(a, b) <=> Overlaps(b, a)
  BY DEF Overlaps, ShareColumns, ShareRows

LEMMA Moving ==
  ASSUME NEW at \in Cells, NEW d \in Cells, NEW k \in Int
  PROVE  /\ Plus(at, d) \in Cells /\ Minus(at, d) \in Cells /\ Times(k, d) \in Cells
         /\ Plus(at, Times(k, d)) \in Cells
  <1>1. k * d[1] \in Int /\ k * d[2] \in Int /\ at[1] \in Int /\ at[2] \in Int
        /\ d[1] \in Int /\ d[2] \in Int
    BY DEF Cells
  <1>2. QED
    BY <1>1 DEF Cells, Plus, Minus, Times

LEMMA DirectionsAreWays ==
  /\ Directions \cup {NoDirection} \subseteq Ways /\ Ways \subseteq Cells
  /\ NoDirection \in Ways /\ \A d \in Directions : d # NoDirection
  BY DEF Directions, NoDirection, Up, Down, Left, Right, Ways, Cells

\* Where a step of the player ends.
EndOf(at, d, r) ==
  LET to == Plus(at, d)
      next == GetRoomCoordinateAtLeadingEdge(to, PawnSize, d)
  IN IF next = r THEN to ELSE SnapIntoRoom(to, PawnSize, next, d)

RoomAfter(at, d) == GetRoomCoordinateAtLeadingEdge(Plus(at, d), PawnSize, d)

\* From a box inside a room a step leads into that room or into the one next to
\* it, and the step's end is inside the room it leads to: the front edge is the
\* only one that can leave the room, and SnapIntoRoom brings the box after it.
LEMMA StepsIntoRooms ==
  ASSUME NEW at \in Cells, NEW r \in Cells, NEW d \in Directions \cup {NoDirection},
         IsInsideRoom(Box(at, PawnSize), r)
  PROVE  /\ RoomAfter(at, d) \in Cells /\ EndOf(at, d, r) \in Cells
         /\ RoomAfter(at, d) \in {r, Plus(r, d)}
         /\ IsInsideRoom(Box(EndOf(at, d, r), PawnSize), RoomAfter(at, d))
         /\ RoomAfter(at, d) = r => EndOf(at, d, r) = Plus(at, d)
         /\ RoomAfter(at, d) # r /\ d = Left =>
              EndOf(at, d, r)[1] = r[1] * RoomWidth - PawnSize[1]
         /\ RoomAfter(at, d) # r /\ d = Right => EndOf(at, d, r)[1] = r[1] * RoomWidth + RoomWidth
  <1> DEFINE x == at[1]
             y == at[2]
             w == PawnSize[1]
             h == PawnSize[2]
             i == r[1]
             j == r[2]
             W == RoomWidth
             H == RoomHeight
  <1>1. /\ at = <<x, y>> /\ r = <<i, j>> /\ x \in Int /\ y \in Int /\ i \in Int /\ j \in Int
        /\ w \in Nat \ {0} /\ h \in Nat \ {0} /\ W \in Nat \ {0} /\ H \in Nat \ {0}
        /\ w <= W /\ h <= H
    BY Sizes DEF Cells
  <1>2. i * W <= x /\ x + w <= i * W + W /\ j * H <= y /\ y + h <= j * H + H
    BY Sizes, InsideRoom
  <1> HIDE DEF x, y, w, h, i, j, W, H
  <1>3. /\ x \div W = i
        /\ \/ (x + 1 + (w - 1)) \div W = i /\ x + 1 + w <= i * W + W
           \/ (x + 1 + (w - 1)) \div W = i + 1
        /\ \/ (x + -1) \div W = i /\ i * W <= x + -1
           \/ (x + -1) \div W = i - 1
        /\ (i + 1) * W = i * W + W /\ (i - 1) * W = i * W - W
    BY <1>1, <1>2, AxisStep
  <1>4. /\ y \div H = j
        /\ \/ (y + 1 + (h - 1)) \div H = j /\ y + 1 + h <= j * H + H
           \/ (y + 1 + (h - 1)) \div H = j + 1
        /\ \/ (y + -1) \div H = j /\ j * H <= y + -1
           \/ (y + -1) \div H = j - 1
        /\ (j + 1) * H = j * H + H /\ (j - 1) * H = j * H - H
    BY <1>1, <1>2, AxisStep
  <1>5. i * W \in Int /\ j * H \in Int
    BY <1>1
  <1>6. \A p, q, m, n \in Int :
          /\ m * W <= p /\ p + w <= m * W + W
          /\ n * H <= q /\ q + h <= n * H + H
          => IsInsideRoom(Box(<<p, q>>, PawnSize), <<m, n>>)
    BY Sizes, InsideRoom DEF w, h, W, H, Cells
  <1>7. CASE d = Right
    <2>1. RoomAfter(at, d) = <<(x + 1 + (w - 1)) \div W, y \div H>>
      BY <1>1, <1>7 DEF RoomAfter, GetRoomCoordinateAtLeadingEdge, GetRoomCoordinate, Plus, Right, w, W, H
    <2>2. CASE (x + 1 + (w - 1)) \div W = i /\ x + 1 + w <= i * W + W
      <3>1. RoomAfter(at, d) = r
        BY <1>1, <1>4, <2>1, <2>2
      <3>2. EndOf(at, d, r) = <<x + 1, y>> /\ Plus(at, d) = <<x + 1, y>>
        BY <1>1, <1>7, <3>1 DEF EndOf, RoomAfter, Plus, Right
      <3>3. IsInsideRoom(Box(<<x + 1, y>>, PawnSize), <<i, j>>)
        BY <1>1, <1>2, <1>5, <1>6, <2>2
      <3>4. QED
        BY <1>1, <3>1, <3>2, <3>3 DEF Cells
    <2>3. CASE (x + 1 + (w - 1)) \div W = i + 1
      <3>1. RoomAfter(at, d) = <<i + 1, j>> /\ RoomAfter(at, d) # r /\ Plus(r, d) = <<i + 1, j>>
        BY <1>1, <1>4, <1>7, <2>1, <2>3 DEF Plus, Right
      <3>2. EndOf(at, d, r) = <<i * W + W, y>>
        BY <1>1, <1>3, <1>7, <3>1
           DEF EndOf, RoomAfter, SnapIntoRoom, GetRoomCellOrigin, Plus, Right, W
      <3>3. IsInsideRoom(Box(<<i * W + W, y>>, PawnSize), <<i + 1, j>>)
        BY <1>1, <1>2, <1>3, <1>5, <1>6
      <3>4. QED
        BY <1>1, <1>5, <1>7, <3>1, <3>2, <3>3 DEF Cells, Left, Right, i, W
    <2>4. QED
      BY <1>3, <2>2, <2>3
  <1>8. CASE d = Left
    <2>1. RoomAfter(at, d) = <<(x + -1) \div W, y \div H>>
      BY <1>1, <1>8 DEF RoomAfter, GetRoomCoordinateAtLeadingEdge, GetRoomCoordinate, Plus, Left, w, W, H
    <2>2. CASE (x + -1) \div W = i /\ i * W <= x + -1
      <3>1. RoomAfter(at, d) = r
        BY <1>1, <1>4, <2>1, <2>2
      <3>2. EndOf(at, d, r) = <<x + -1, y>> /\ Plus(at, d) = <<x + -1, y>>
        BY <1>1, <1>8, <3>1 DEF EndOf, RoomAfter, Plus, Left
      <3>3. IsInsideRoom(Box(<<x + -1, y>>, PawnSize), <<i, j>>)
        BY <1>1, <1>2, <1>5, <1>6, <2>2
      <3>4. QED
        BY <1>1, <3>1, <3>2, <3>3 DEF Cells
    <2>3. CASE (x + -1) \div W = i - 1
      <3>1. RoomAfter(at, d) = <<i - 1, j>> /\ RoomAfter(at, d) # r /\ Plus(r, d) = <<i + -1, j>>
            /\ <<i + -1, j>> = <<i - 1, j>>
        BY <1>1, <1>4, <1>8, <2>1, <2>3 DEF Plus, Left
      <3>2. EndOf(at, d, r) = <<i * W - w, y>>
        <4>1. EndOf(at, d, r) = <<(i - 1) * W + W - w, y>>
          BY <1>1, <1>8, <3>1
             DEF EndOf, RoomAfter, SnapIntoRoom, GetRoomCellOrigin, Plus, Left, W, w
        <4>2. QED
          BY <1>1, <1>3, <1>5, <4>1
      <3>3. IsInsideRoom(Box(<<i * W - w, y>>, PawnSize), <<i - 1, j>>)
        BY <1>1, <1>2, <1>3, <1>5, <1>6
      <3>4. QED
        BY <1>1, <1>5, <1>8, <3>1, <3>2, <3>3 DEF Cells, Left, Right, i, W, w
    <2>4. QED
      BY <1>3, <2>2, <2>3
  <1>9. CASE d = Down
    <2>1. RoomAfter(at, d) = <<x \div W, (y + 1 + (h - 1)) \div H>>
      BY <1>1, <1>9 DEF RoomAfter, GetRoomCoordinateAtLeadingEdge, GetRoomCoordinate, Plus, Down, h, W, H
    <2>2. CASE (y + 1 + (h - 1)) \div H = j /\ y + 1 + h <= j * H + H
      <3>1. RoomAfter(at, d) = r
        BY <1>1, <1>3, <2>1, <2>2
      <3>2. EndOf(at, d, r) = <<x, y + 1>> /\ Plus(at, d) = <<x, y + 1>>
        BY <1>1, <1>9, <3>1 DEF EndOf, RoomAfter, Plus, Down
      <3>3. IsInsideRoom(Box(<<x, y + 1>>, PawnSize), <<i, j>>)
        BY <1>1, <1>2, <1>5, <1>6, <2>2
      <3>4. QED
        BY <1>1, <3>1, <3>2, <3>3 DEF Cells
    <2>3. CASE (y + 1 + (h - 1)) \div H = j + 1
      <3>1. RoomAfter(at, d) = <<i, j + 1>> /\ RoomAfter(at, d) # r /\ Plus(r, d) = <<i, j + 1>>
        BY <1>1, <1>3, <1>9, <2>1, <2>3 DEF Plus, Down
      <3>2. EndOf(at, d, r) = <<x, j * H + H>>
        BY <1>1, <1>4, <1>9, <3>1
           DEF EndOf, RoomAfter, SnapIntoRoom, GetRoomCellOrigin, Plus, Down, H
      <3>3. IsInsideRoom(Box(<<x, j * H + H>>, PawnSize), <<i, j + 1>>)
        BY <1>1, <1>2, <1>4, <1>5, <1>6
      <3>4. QED
        BY <1>1, <1>5, <1>9, <3>1, <3>2, <3>3 DEF Cells, Left, Right, Down
    <2>4. QED
      BY <1>4, <2>2, <2>3
  <1>10. CASE d = Up
    <2>1. RoomAfter(at, d) = <<x \div W, (y + -1) \div H>>
      BY <1>1, <1>10 DEF RoomAfter, GetRoomCoordinateAtLeadingEdge, GetRoomCoordinate, Plus, Up, W, H
    <2>2. CASE (y + -1) \div H = j /\ j * H <= y + -1
      <3>1. RoomAfter(at, d) = r
        BY <1>1, <1>3, <2>1, <2>2
      <3>2. EndOf(at, d, r) = <<x, y + -1>> /\ Plus(at, d) = <<x, y + -1>>
        BY <1>1, <1>10, <3>1 DEF EndOf, RoomAfter, Plus, Up
      <3>3. IsInsideRoom(Box(<<x, y + -1>>, PawnSize), <<i, j>>)
        BY <1>1, <1>2, <1>5, <1>6, <2>2
      <3>4. QED
        BY <1>1, <3>1, <3>2, <3>3 DEF Cells
    <2>3. CASE (y + -1) \div H = j - 1
      <3>1. RoomAfter(at, d) = <<i, j - 1>> /\ RoomAfter(at, d) # r /\ Plus(r, d) = <<i, j + -1>>
            /\ <<i, j + -1>> = <<i, j - 1>>
        BY <1>1, <1>3, <1>10, <2>1, <2>3 DEF Plus, Up
      <3>2. EndOf(at, d, r) = <<x, j * H - h>>
        <4>1. EndOf(at, d, r) = <<x, (j - 1) * H + H - h>>
          BY <1>1, <1>10, <3>1
             DEF EndOf, RoomAfter, SnapIntoRoom, GetRoomCellOrigin, Plus, Up, H, h
        <4>2. QED
          BY <1>1, <1>4, <1>5, <4>1
      <3>3. IsInsideRoom(Box(<<x, j * H - h>>, PawnSize), <<i, j - 1>>)
        BY <1>1, <1>2, <1>4, <1>5, <1>6
      <3>4. QED
        BY <1>1, <1>5, <1>10, <3>1, <3>2, <3>3 DEF Cells, Left, Right, Up
    <2>4. QED
      BY <1>4, <2>2, <2>3
  <1>11. CASE d = NoDirection
    <2>1. RoomAfter(at, d) = <<x \div W, y \div H>> /\ Plus(at, d) = at
      BY <1>1, <1>11
         DEF RoomAfter, GetRoomCoordinateAtLeadingEdge, GetRoomCoordinate, Plus, NoDirection, W, H
    <2>2. RoomAfter(at, d) = r
      BY <1>1, <1>3, <1>4, <2>1
    <2>3. EndOf(at, d, r) = at
      BY <2>1, <2>2 DEF EndOf, RoomAfter
    <2>4. QED
      BY <2>1, <2>2, <2>3 DEF Cells
  <1>12. QED
    BY <1>7, <1>8, <1>9, <1>10, <1>11 DEF Directions

-----------------------------------------------------------------------------
(* Pawns.                                                                  *)

LEMMA Steps ==
  /\ StepsPerFrame \in Nat \ {0} /\ KnockbackDistance \in Nat \ {0}
  /\ FrameSteps \subseteq Nat /\ 0 \in FrameSteps
  BY PawnAssumption DEF FrameSteps

LEMMA PawnFields ==
  ASSUME NEW kinds, NEW m, NEW p \in PawnRecord(kinds, m)
  PROVE  /\ p.kind \in kinds /\ p.at \in Cells /\ p.prev \in Cells /\ p.dir \in Ways
         /\ p.hp \in 0 .. m /\ p.hurt \in BOOLEAN /\ p.push \in Directions \cup {NoDirection}
         /\ p.push \in Ways /\ p.pushSteps \in 0 .. KnockbackDistance
         /\ p.hopping \in BOOLEAN /\ p.fresh \in BOOLEAN
  <1>1. p.push \in Directions \cup {NoDirection}
    BY DEF PawnRecord
  <1>2. p.push \in Ways
    BY <1>1, DirectionsAreWays
  <1>3. QED
    BY <1>1, <1>2 DEF PawnRecord, Cells, Ways

LEMMA NewPawnIsTyped ==
  ASSUME NEW kinds, NEW kind \in kinds, NEW m \in Nat, NEW at \in Cells, NEW hp \in 0 .. m,
         NEW dir \in Ways
  PROVE  NewPawn(kind, at, hp, dir) \in PawnRecord(kinds, m)
  BY Steps DEF NewPawn, PawnRecord, Cells, Ways

\* What each helper makes of a pawn is a pawn, and where it leaves it.
LEMMA EndFrameFacts ==
  ASSUME NEW kinds, NEW m, NEW p \in PawnRecord(kinds, m)
  PROVE  /\ EndFrame(p) \in PawnRecord(kinds, m)
         /\ EndFrame(p).at = p.at /\ EndFrame(p).hp = p.hp /\ EndFrame(p).kind = p.kind
         /\ EndFrame(p).dir = p.dir
  BY DEF EndFrame, PawnRecord

LEMMA StopKnockbackFacts ==
  ASSUME NEW kinds, NEW m, NEW p \in PawnRecord(kinds, m)
  PROVE  /\ StopKnockback(p) \in PawnRecord(kinds, m)
         /\ StopKnockback(p).at = p.at /\ StopKnockback(p).hp = p.hp
         /\ StopKnockback(p).kind = p.kind /\ StopKnockback(p).dir = p.dir
  <1>1. 0 \in 0 .. KnockbackDistance /\ NoDirection \in Directions \cup {NoDirection}
    BY Steps
  <1>2. QED
    BY <1>1 DEF StopKnockback, PawnRecord

LEMMA ConsumeFacts ==
  ASSUME NEW kinds, NEW m, NEW p \in PawnRecord(kinds, m), NEW n \in KnockbackSteps(p)
  PROVE  /\ ConsumeKnockbackSteps(p, n) \in PawnRecord(kinds, m) /\ n \in FrameSteps
         /\ ConsumeKnockbackSteps(p, n).at = p.at /\ ConsumeKnockbackSteps(p, n).hp = p.hp
         /\ ConsumeKnockbackSteps(p, n).kind = p.kind /\ ConsumeKnockbackSteps(p, n).dir = p.dir
  <1>1. p.pushSteps \in 0 .. KnockbackDistance
    BY PawnFields
  <1>2. n \in Nat /\ n <= p.pushSteps /\ n <= StepsPerFrame
    BY <1>1, Steps DEF KnockbackSteps, Smaller
  <1>3. p.pushSteps - n \in 0 .. KnockbackDistance /\ 0 \in 0 .. KnockbackDistance
    BY <1>1, <1>2, Steps
  <1>4. n \in FrameSteps
    BY <1>2, Steps DEF FrameSteps
  <1>5. QED
    BY <1>3, <1>4 DEF ConsumeKnockbackSteps, PawnRecord

LEMMA MoveFacts ==
  ASSUME NEW kinds, NEW m, NEW p \in PawnRecord(kinds, m), NEW d \in Cells
  PROVE  /\ MoveBy(p, d) \in PawnRecord(kinds, m)
         /\ MoveBy(p, d).at = Plus(p.at, d) /\ MoveBy(p, d).hp = p.hp /\ MoveBy(p, d).kind = p.kind
  <1>1. p.at \in Cells
    BY PawnFields
  <1>2. Plus(p.at, d) \in Int \X Int
    BY <1>1 DEF Plus, Cells
  <1>3. QED
    BY <1>2 DEF MoveBy, PawnRecord

LEMMA KnockbackIsDirected ==
  ASSUME NEW p \in Cells, NEW q \in Cells, NEW s \in Cells
  PROVE  KnockbackDirection(p, q, s) \in Directions \cup {NoDirection}
  <1> DEFINE weapon == Minus(s, q)
             d == IF weapon # NoDirection THEN weapon ELSE Minus(p, s)
  <1>1. KnockbackDirection(p, q, s) =
          CASE d = NoDirection -> NoDirection
            [] d # NoDirection /\ Magnitude(d[1]) >= Magnitude(d[2]) ->
                 IF d[1] >= 0 THEN Right ELSE Left
            [] OTHER -> IF d[2] >= 0 THEN Down ELSE Up
    BY DEF KnockbackDirection
  <1> HIDE DEF d
  <1>2. CASE d = NoDirection
    BY <1>1, <1>2
  <1>3. CASE d # NoDirection /\ Magnitude(d[1]) >= Magnitude(d[2])
    <2>1. KnockbackDirection(p, q, s) = IF d[1] >= 0 THEN Right ELSE Left
      BY <1>1, <1>3
    <2>2. QED
      BY <2>1 DEF Directions
  <1>4. CASE d # NoDirection /\ ~(Magnitude(d[1]) >= Magnitude(d[2]))
    <2>1. KnockbackDirection(p, q, s) = IF d[2] >= 0 THEN Down ELSE Up
      BY <1>1, <1>4
    <2>2. QED
      BY <2>1 DEF Directions
  <1>5. QED
    BY <1>2, <1>3, <1>4

LEMMA DamageFacts ==
  ASSUME NEW kinds, NEW m \in Nat, NEW p \in PawnRecord(kinds, m), NEW amount \in Nat,
         NEW q \in Cells, NEW s \in Cells
  PROVE  LET hit == TakeDamage(p, amount, q, s)
         IN /\ hit \in PawnRecord(kinds, m)
            /\ hit.at = p.at /\ hit.kind = p.kind /\ hit.dir = p.dir /\ hit.hp <= p.hp
            /\ IsDead(p) => hit = p
            /\ hit.hp = p.hp => hit = p \/ amount = 0
  <1> DEFINE hp == p.hp - Smaller(amount, p.hp)
             push == KnockbackDirection(p.at, q, s)
             hit == TakeDamage(p, amount, q, s)
  <1>1. p.hp \in 0 .. m /\ p.at \in Cells
    BY PawnFields
  <1>2. hp \in 0 .. m /\ hp <= p.hp /\ (hp = p.hp => amount = 0 \/ p.hp = 0)
    BY <1>1 DEF Smaller
  <1>3. push \in Directions \cup {NoDirection}
    BY <1>1, KnockbackIsDirected
  <1>4. hit = CASE amount <= 0 \/ ~CanBeHurt(p) -> p
                [] amount > 0 /\ CanBeHurt(p) /\ hp = 0 -> [p EXCEPT !.hp = 0]
                [] OTHER -> IF push = NoDirection
                            THEN [p EXCEPT !.hp = hp, !.hurt = TRUE]
                            ELSE [p EXCEPT !.hp = hp, !.hurt = TRUE, !.push = push,
                                           !.pushSteps = KnockbackDistance]
    BY DEF TakeDamage
  <1> HIDE DEF hit, hp, push
  <1>5. CASE amount <= 0 \/ ~CanBeHurt(p)
    <2>1. hit = p
      BY <1>4, <1>5
    <2>2. QED
      BY <1>1, <2>1 DEF hit
  <1>6. CASE amount > 0 /\ CanBeHurt(p) /\ hp = 0
    <2>1. hit = [p EXCEPT !.hp = 0] /\ p.hp # 0
      BY <1>4, <1>6 DEF CanBeHurt, IsDead
    <2>2. QED
      BY <1>1, <2>1 DEF hit, PawnRecord, IsDead
  <1>7. CASE amount > 0 /\ CanBeHurt(p) /\ hp # 0
    <2>1. \/ hit = [p EXCEPT !.hp = hp, !.hurt = TRUE]
          \/ hit = [p EXCEPT !.hp = hp, !.hurt = TRUE, !.push = push, !.pushSteps = KnockbackDistance]
      BY <1>4, <1>7
    <2>2. p.hp # 0 /\ hp # p.hp /\ KnockbackDistance \in 0 .. KnockbackDistance
      BY <1>2, <1>7, Steps DEF CanBeHurt, IsDead
    <2>3. /\ hit \in PawnRecord(kinds, m) /\ hit.at = p.at /\ hit.kind = p.kind /\ hit.dir = p.dir
          /\ hit.hp = hp
      BY <1>2, <1>3, <2>1, <2>2 DEF PawnRecord
    <2>4. QED
      BY <1>2, <2>2, <2>3 DEF hit, IsDead
  <1>8. amount <= 0 \/ amount > 0
    OBVIOUS
  <1>9. QED
    BY <1>5, <1>6, <1>7, <1>8

-----------------------------------------------------------------------------
(* What an enemy can do of a move.                                         *)

\* StepsTaken is well defined: there is a first step that cannot be taken, or
\* all can be.
LEMMA StepsTakenFacts ==
  ASSUME NEW enemy, NEW dir, NEW n \in Nat
  PROVE  LET k == StepsTaken(enemy, dir, n)
         IN /\ k \in 0 .. n
            /\ \A i \in 1 .. k : EnemyCanMoveTo(enemy, Plus(enemy.at, Times(i, dir)))
  <1> DEFINE can(i) == EnemyCanMoveTo(enemy, Plus(enemy.at, Times(i, dir)))
             good(k) == (\A i \in 1 .. k : can(i)) /\ (k < n => ~can(k + 1))
             T == {i \in 1 .. n : ~can(i)}
  <1>1. StepsTaken(enemy, dir, n) = CHOOSE k \in 0 .. n : good(k)
    BY DEF StepsTaken
  <1>2. T \subseteq Nat /\ \A i \in 1 .. n : i \in T <=> ~can(i)
    OBVIOUS
  <1> HIDE DEF can
  <1>3. \E k \in 0 .. n : good(k)
    <2>1. CASE T = {}
      <3>1. \A i \in 1 .. n : can(i)
        BY <2>1
      <3>2. good(n) /\ n \in 0 .. n
        BY <3>1
      <3>3. QED  BY <3>2
    <2>2. CASE T # {}
      <3>1. PICK x \in T : \A y \in T : x <= y
        BY <1>2, <2>2, LeastElement
      <3>2. x \in 1 .. n /\ ~can(x) /\ x - 1 \in 0 .. n /\ (x - 1) + 1 = x
        OBVIOUS
      <3>3. \A i \in 1 .. (x - 1) : can(i)
        BY <3>1, <3>2
      <3>4. good(x - 1)
        BY <3>2, <3>3
      <3>5. QED  BY <3>2, <3>4
    <2>3. QED  BY <2>1, <2>2
  <1> HIDE DEF good
  <1>4. (CHOOSE k \in 0 .. n : good(k)) \in 0 .. n /\ good(CHOOSE k \in 0 .. n : good(k))
    BY <1>3
  <1>5. QED
    BY <1>1, <1>4 DEF good, can

-----------------------------------------------------------------------------
(* The actions of a frame that move nobody.                                *)

\* Nobody moves, comes or goes; the dead stay dead.
SceneStays ==
  /\ room' = room /\ player'.at = player.at /\ DOMAIN enemies' = DOMAIN enemies
  /\ \A e \in DOMAIN enemies :
       /\ enemies'[e].at = enemies[e].at /\ enemies'[e].kind = enemies[e].kind
       /\ IsDead(enemies[e]) => IsDead(enemies'[e])

\* Nor does anybody lose or gain health.
NobodyHurt ==
  /\ SceneStays /\ player'.hp = player.hp
  /\ \A e \in DOMAIN enemies : enemies'[e].hp = enemies[e].hp

LEMMA SceneStaysKeeps ==
  ASSUME NEW kinds, NEW m, Typed(kinds, m), Typed(kinds, m)', SceneStays
  PROVE  (Placed => Placed') /\ (Apart => Apart')
  <1>1. \A e \in Living' : e \in Living
    BY DEF SceneStays, Living
  <1>2. \A e \in Living : PawnBox(enemies[e])' = PawnBox(enemies[e])
    BY DEF SceneStays, Living, PawnBox, SizeOf
  <1>3. PawnBox(player)' = PawnBox(player)
    <2>1. player.kind = "Player" /\ player'.kind = "Player"
      BY PawnFields DEF Typed, CombatTypeOK
    <2>2. QED
      BY <2>1 DEF SceneStays, PawnBox, SizeOf
  <1>4. Placed => Placed'
    BY <1>1, <1>2, <1>3 DEF Placed, SceneStays
  <1>5. Apart => Apart'
    BY <1>1, <1>2, <1>3 DEF Apart
  <1>6. QED
    BY <1>4, <1>5

LEMMA Everybody ==
  ASSUME NEW kinds, NEW m, Typed(kinds, m)
  PROVE  /\ room \in Cells /\ player \in PawnRecord({"Player"}, MaxHp) /\ player.at \in Cells
         /\ player.dir \in Directions /\ PawnBox(player) = Box(player.at, PawnSize)
         /\ \A e \in DOMAIN enemies : enemies[e] \in PawnRecord(kinds, m)
         /\ \A s \in shots : s \in Shot(DOMAIN enemies)
         /\ waiting \subseteq DOMAIN enemies
         /\ stride \in [dir : Directions \cup {NoDirection}, left : FrameSteps]
         /\ sword \in [dir : Directions \cup {NoDirection}, fresh : BOOLEAN, placed : BOOLEAN]
         /\ input \in Directions \cup {NoDirection} /\ clock \in Nat
  <1>1. player \in PawnRecord({"Player"}, MaxHp)
    BY DEF Typed, CombatTypeOK
  <1>2. player.at \in Cells /\ player.kind = "Player"
    BY <1>1, PawnFields
  <1>3. PawnBox(player) = Box(player.at, PawnSize)
    BY <1>2 DEF PawnBox, SizeOf
  <1>4. QED
    BY <1>1, <1>2, <1>3 DEF Typed, CombatTypeOK, Cells

\* A step that touches neither pawns nor projectiles.
LEMMA ControlOnly ==
  ASSUME NEW kinds, NEW m, Typed(kinds, m),
         UNCHANGED <<room, player, hasSword, enemies, shots>>,
         phase' \in {"tick", "player", "walk", "pushed", "enemies", "contact", "collide", "strike", "finish", "away"},
         input' \in Directions \cup {NoDirection},
         stride' \in [dir : Directions \cup {NoDirection}, left : FrameSteps],
         sword' \in [dir : Directions \cup {NoDirection}, fresh : BOOLEAN, placed : BOOLEAN],
         waiting' \subseteq DOMAIN enemies,
         gameOverPending' \in BOOLEAN, clock' \in Nat
  PROVE  Typed(kinds, m)' /\ NobodyHurt
  <1>1. Typed(kinds, m)'
    BY DEF Typed, CombatTypeOK
  <1>2. QED
    BY <1>1 DEF NobodyHurt, SceneStays, IsDead

LEMMA Rests ==
  /\ NoDirection \in Directions \cup {NoDirection}
  /\ NoSword \in [dir : Directions \cup {NoDirection}, fresh : BOOLEAN, placed : BOOLEAN]
  /\ NoStride \in [dir : Directions \cup {NoDirection}, left : FrameSteps]
  BY Steps DEF NoSword, NoStride

LEMMA AwaitGameOverKeeps ==
  ASSUME NEW kinds, NEW m, Typed(kinds, m), Ordered, AwaitGameOver
  PROVE  Typed(kinds, m)' /\ Ordered' /\ NobodyHurt
  <1>1. clock' \in Nat
    <2>1. clock + 1 \in Nat /\ GameOverFrames \in Nat /\ 0 \in Nat
      BY Everybody, CombatAssumption
    <2>2. QED
      BY <2>1 DEF AwaitGameOver, GameOverClock, Smaller
  <1>2. Typed(kinds, m)' /\ NobodyHurt
    BY <1>1, Rests, ControlOnly, Everybody DEF AwaitGameOver
  <1>3. QED
    BY <1>2 DEF AwaitGameOver, Ordered

LEMMA StartWalkKeeps ==
  ASSUME NEW kinds, NEW m, Typed(kinds, m), Ordered, StartWalk
  PROVE  Typed(kinds, m)' /\ Ordered' /\ NobodyHurt
  <1>1. PICK n \in FrameSteps : stride' = [dir |-> input, left |-> n]
    BY DEF StartWalk
  <1>2. stride' \in [dir : Directions \cup {NoDirection}, left : FrameSteps]
    BY <1>1, Everybody
  <1>3. Typed(kinds, m)' /\ NobodyHurt
    BY <1>2, Rests, ControlOnly, Everybody DEF StartWalk, Typed, CombatTypeOK
  <1>4. QED
    BY <1>3 DEF StartWalk, PlayerActs, Ordered

LEMMA StandStillKeeps ==
  ASSUME NEW kinds, NEW m, Typed(kinds, m), Ordered, StandStill
  PROVE  Typed(kinds, m)' /\ Ordered' /\ NobodyHurt
  <1>1. Typed(kinds, m)' /\ NobodyHurt
    BY Rests, ControlOnly, Everybody DEF StandStill, Typed, CombatTypeOK
  <1>2. QED
    BY <1>1 DEF StandStill, PlayerActs, Ordered

LEMMA EndStrideKeeps ==
  ASSUME NEW kinds, NEW m, Typed(kinds, m), Ordered, EndStride
  PROVE  Typed(kinds, m)' /\ Ordered' /\ NobodyHurt
  <1>1. Typed(kinds, m)' /\ NobodyHurt
    BY Rests, ControlOnly, Everybody DEF EndStride, Typed, CombatTypeOK
  <1>2. QED
    BY <1>1 DEF EndStride, Ordered

LEMMA EnemiesMovedKeeps ==
  ASSUME NEW kinds, NEW m, Typed(kinds, m), Ordered, EnemiesMoved
  PROVE  Typed(kinds, m)' /\ Ordered' /\ NobodyHurt
  <1>1. Typed(kinds, m)' /\ NobodyHurt
    BY Rests, ControlOnly, Everybody DEF EnemiesMoved, Typed, CombatTypeOK
  <1>2. QED
    BY <1>1 DEF EnemiesMoved, Ordered

LEMMA CollidedKeeps ==
  ASSUME NEW kinds, NEW m, Typed(kinds, m), Ordered, Collided
  PROVE  Typed(kinds, m)' /\ Ordered' /\ NobodyHurt
  <1>1. Typed(kinds, m)' /\ NobodyHurt
    BY Rests, ControlOnly, Everybody DEF Collided, Typed, CombatTypeOK
  <1>2. QED
    BY <1>1 DEF Collided, Ordered

LEMMA LeaveLevelKeeps ==
  ASSUME NEW kinds, NEW m, Typed(kinds, m), Ordered, LeaveLevel
  PROVE  Typed(kinds, m)' /\ Ordered' /\ NobodyHurt
  <1>1. Typed(kinds, m)' /\ NobodyHurt
    BY Rests, ControlOnly, Everybody DEF LeaveLevel, Typed, CombatTypeOK
  <1>2. QED
    BY <1>1 DEF LeaveLevel, Ordered

LEMMA StartKnockbackKeeps ==
  ASSUME NEW kinds, NEW m, Typed(kinds, m), Ordered, StartKnockback
  PROVE  Typed(kinds, m)' /\ Ordered' /\ NobodyHurt
  <1>1. PICK n \in KnockbackSteps(player) :
           /\ stride' = [dir |-> player.push, left |-> n]
           /\ player' = ConsumeKnockbackSteps(player, n)
    BY DEF StartKnockback
  <1>2. /\ player' \in PawnRecord({"Player"}, MaxHp) /\ player'.at = player.at
        /\ player'.dir \in Directions /\ player'.hp = player.hp /\ n \in FrameSteps /\ player.push \in Directions \cup {NoDirection}
    BY <1>1, Everybody, ConsumeFacts, PawnFields
  <1>3. Typed(kinds, m)'
    BY <1>1, <1>2, Rests DEF StartKnockback, Typed, CombatTypeOK
  <1>4. NobodyHurt
    BY <1>2 DEF StartKnockback, NobodyHurt, SceneStays
  <1>5. QED
    BY <1>2, <1>3, <1>4 DEF StartKnockback, PlayerActs, Ordered, IsDead

LEMMA BlockedKeeps ==
  ASSUME NEW kinds, NEW m, Typed(kinds, m), Ordered, Blocked
  PROVE  Typed(kinds, m)' /\ Ordered' /\ NobodyHurt
  <1>1. /\ player' \in PawnRecord({"Player"}, MaxHp) /\ player'.at = player.at
        /\ player'.dir \in Directions /\ player'.hp = player.hp
    BY Everybody, StopKnockbackFacts DEF Blocked
  <1>2. stride' \in [dir : Directions \cup {NoDirection}, left : FrameSteps] /\ stride'.left = 0
    BY Everybody, Steps DEF Blocked
  <1>3. Typed(kinds, m)'
    BY <1>1, <1>2 DEF Blocked, Typed, CombatTypeOK
  <1>4. NobodyHurt
    BY <1>1 DEF Blocked, NobodyHurt, SceneStays
  <1>5. QED
    BY <1>1, <1>2, <1>3, <1>4, Steps DEF Blocked, Ordered, IsDead

-----------------------------------------------------------------------------
(* Projectiles.                                                            *)

LEMMA SpawnPositionIsACell ==
  ASSUME NEW at \in Cells, NEW size \in Cells, NEW shotSize \in Cells, NEW d \in Cells
  PROVE  GetProjectileSpawnPosition(at, size, shotSize, d) \in Cells
  <1> DEFINE place(i) == CASE d[i] > 0 -> at[i] + size[i]
                           [] d[i] < 0 -> at[i] - shotSize[i]
                           [] OTHER -> at[i] + (size[i] - shotSize[i]) \div 2
  <1>1. GetProjectileSpawnPosition(at, size, shotSize, d) = <<place(1), place(2)>>
    BY DEF GetProjectileSpawnPosition
  <1>2. place(1) \in Int
    <2>1. d[1] \in Int /\ at[1] \in Int /\ size[1] \in Int /\ shotSize[1] \in Int
      BY DEF Cells
    <2>2. (size[1] - shotSize[1]) \div 2 \in Int
      BY <2>1
    <2>3. QED  BY <2>1, <2>2
  <1>3. place(2) \in Int
    <2>1. d[2] \in Int /\ at[2] \in Int /\ size[2] \in Int /\ shotSize[2] \in Int
      BY DEF Cells
    <2>2. (size[2] - shotSize[2]) \div 2 \in Int
      BY <2>1
    <2>3. QED  BY <2>1, <2>2
  <1>4. QED
    BY <1>1, <1>2, <1>3 DEF Cells

LEMMA NewShotIsTyped ==
  ASSUME NEW throwers, NEW at \in Cells, NEW d \in Ways, NEW by \in {"player"} \cup throwers
  PROVE  NewShot(at, d, by) \in Shot(throwers)
  BY DEF NewShot, Shot

LEMMA FlownIsTyped ==
  ASSUME NEW throwers, NEW s \in Shot(throwers), NEW n \in Int
  PROVE  Flown(s, n) \in Shot(throwers)
  <1>1. s.at \in Cells /\ s.dir \in Ways /\ s.dir \in Cells
    BY DirectionsAreWays DEF Shot
  <1>2. Plus(s.at, Times(n, s.dir)) \in Cells
    BY <1>1, Moving
  <1>3. QED
    BY <1>2 DEF Flown, Shot

LEMMA ActorsTickKeeps ==
  ASSUME NEW kinds, NEW m, Typed(kinds, m), Ordered, ActorsTick
  PROVE  Typed(kinds, m)' /\ Ordered' /\ NobodyHurt
  <1>1. PICK key \in Directions \cup {NoDirection}, recovers \in {FALSE, MayRecover(player)} :
          /\ input' = key
          /\ player' = [player EXCEPT !.dir = IF key = NoDirection THEN @ ELSE key,
                                      !.hurt = @ /\ ~recovers]
    BY DEF ActorsTick
  <1>2. /\ player' \in PawnRecord({"Player"}, MaxHp) /\ player'.at = player.at
        /\ player'.dir \in Directions /\ player'.hp = player.hp
    <2>1. /\ player \in PawnRecord({"Player"}, MaxHp) /\ player.dir \in Directions
          /\ key \in Ways /\ player.dir \in Ways
      BY Everybody, PawnFields, DirectionsAreWays
    <2>2. (player.hurt /\ ~recovers) \in BOOLEAN
      OBVIOUS
    <2>3. QED
      BY <1>1, <2>1, <2>2 DEF PawnRecord, Ways
  <1>3. /\ DOMAIN enemies' = DOMAIN enemies
        /\ \A e \in DOMAIN enemies :
             /\ enemies'[e] \in PawnRecord(kinds, m) /\ enemies'[e].at = enemies[e].at
             /\ enemies'[e].kind = enemies[e].kind /\ enemies'[e].hp = enemies[e].hp
    <2>1. PICK recovered \in SUBSET {e \in DOMAIN enemies : MayRecover(enemies[e])} :
            enemies' = [e \in DOMAIN enemies |->
                          [enemies[e] EXCEPT !.hurt = @ /\ e \notin recovered]]
      BY DEF ActorsTick
    <2>2. ASSUME NEW e \in DOMAIN enemies
          PROVE  /\ enemies'[e] \in PawnRecord(kinds, m) /\ enemies'[e].at = enemies[e].at
                 /\ enemies'[e].kind = enemies[e].kind /\ enemies'[e].hp = enemies[e].hp
      <3>1. enemies[e] \in PawnRecord(kinds, m)
        BY Everybody
      <3>2. enemies'[e] = [enemies[e] EXCEPT !.hurt = @ /\ e \notin recovered]
        BY <2>1
      <3>3. (enemies[e].hurt /\ e \notin recovered) \in BOOLEAN
        OBVIOUS
      <3>4. QED
        BY <3>1, <3>2, <3>3 DEF PawnRecord
    <2>3. DOMAIN enemies' = DOMAIN enemies
      BY <2>1
    <2>4. QED
      BY <2>2, <2>3
  <1>4. shots' \subseteq Shot(DOMAIN enemies)
    <2>1. PICK flying \in SUBSET {s \in shots : ~s.fresh} :
            \E n \in [flying -> FrameSteps] :
               shots' = {s \in shots : s.fresh}
                        \cup {Flown(s, n[s]) : s \in {t \in flying : CanFly(t, n[t])}}
      BY DEF ActorsTick
    <2>2. PICK n \in [flying -> FrameSteps] :
             shots' = {s \in shots : s.fresh}
                      \cup {Flown(s, n[s]) : s \in {t \in flying : CanFly(t, n[t])}}
      BY <2>1
    <2>3. ASSUME NEW s \in shots'  PROVE s \in Shot(DOMAIN enemies)
      <3>1. CASE s \in shots
        BY <3>1, Everybody
      <3>2. CASE \E t \in flying : s = Flown(t, n[t])
        <4>1. PICK t \in flying : s = Flown(t, n[t])
          BY <3>2
        <4>2. t \in shots /\ n[t] \in FrameSteps
          BY <2>2
        <4>3. n[t] \in Int
          <5>1. \A i \in FrameSteps : i \in Int
            BY Steps
          <5>2. QED
            BY <4>2, <5>1
        <4>4. t \in Shot(DOMAIN enemies)
          BY <4>2, Everybody
        <4>5. QED
          BY <4>1, <4>3, <4>4, FlownIsTyped
      <3>3. QED
        BY <2>2, <3>1, <3>2
    <2>4. QED
      BY <2>3
  <1>5. sword' \in [dir : Directions \cup {NoDirection}, fresh : BOOLEAN, placed : BOOLEAN]
    BY Everybody, Rests DEF ActorsTick
  <1>6. \A s \in shots' : s.at \in Int \X Int /\ s.prev \in Int \X Int /\ s.fresh \in BOOLEAN
    BY <1>4 DEF Shot, Cells
  <1>7. Typed(kinds, m)'
    BY <1>1, <1>2, <1>3, <1>4, <1>5, <1>6 DEF ActorsTick, Typed, CombatTypeOK
  <1>8. NobodyHurt
    BY <1>2, <1>3 DEF ActorsTick, NobodyHurt, SceneStays, IsDead
  <1>9. QED
    BY <1>7, <1>8 DEF ActorsTick, Ordered


LEMMA AttackKeeps ==
  ASSUME NEW kinds, NEW m, Typed(kinds, m), Ordered, Attack
  PROVE  Typed(kinds, m)' /\ Ordered' /\ NobodyHurt
  <1>1. UNCHANGED <<room, player, hasSword, input, stride, enemies, gameOverPending, clock, request>>
        /\ phase = "player" /\ phase' = "enemies" /\ waiting' = DOMAIN enemies /\ ~IsDead(player)
    BY DEF Attack, PlayerActs
  <1>2. player.dir \in Ways /\ player.at \in Cells
    BY Everybody, PawnFields
  <1>3. sword' \in [dir : Directions \cup {NoDirection}, fresh : BOOLEAN, placed : BOOLEAN]
    <2>1. [dir |-> player.dir, fresh |-> TRUE, placed |-> FALSE] \in [dir : Directions \cup {NoDirection}, fresh : BOOLEAN, placed : BOOLEAN]
      BY Everybody
    <2>2. sword' = [dir |-> player.dir, fresh |-> TRUE, placed |-> FALSE] \/ sword' = sword
      BY DEF Attack
    <2>3. QED
      BY <2>1, <2>2, Everybody
  <1>4. shots' \subseteq Shot(DOMAIN enemies)
    <2> DEFINE at == GetProjectileSpawnPosition(player.at, PawnSize, SwordSize, player.dir)
               shot == NewShot(at, player.dir, "player")
    <2>1. at \in Cells
      BY <1>2, Sizes, DirectionsAreWays, SpawnPositionIsACell
    <2>2. "player" \in {"player"} \cup DOMAIN enemies
      OBVIOUS
    <2> HIDE DEF at
    <2>3. shot \in Shot(DOMAIN enemies)
      BY <1>2, <2>1, <2>2, NewShotIsTyped
    <2> HIDE DEF shot
    <2>4. shots' \subseteq shots \cup {shot}
      BY DEF Attack, shot, at
    <2>5. QED
      BY <2>3, <2>4, Everybody
  <1>5. \A s \in shots' : s.at \in Int \X Int /\ s.prev \in Int \X Int /\ s.fresh \in BOOLEAN
    BY <1>4 DEF Shot, Cells
  <1>6. Typed(kinds, m)'
    BY <1>1, <1>3, <1>4, <1>5 DEF Typed, CombatTypeOK
  <1>7. NobodyHurt
    BY <1>1 DEF NobodyHurt, SceneStays
  <1>8. QED
    BY <1>1, <1>6, <1>7 DEF Ordered

-----------------------------------------------------------------------------
(* The end of the frame.                                                   *)

LEMMA ActorsJoinFacts ==
  ASSUME NEW kinds, NEW m, Typed(kinds, m), ActorsJoin
  PROVE  /\ DOMAIN enemies' = DOMAIN enemies
         /\ \A e \in DOMAIN enemies :
              /\ enemies'[e] \in PawnRecord(kinds, m) /\ enemies'[e].at = enemies[e].at
              /\ enemies'[e].kind = enemies[e].kind /\ enemies'[e].hp = enemies[e].hp
         /\ shots' \subseteq Shot(DOMAIN enemies)
         /\ sword' \in [dir : Directions \cup {NoDirection}, fresh : BOOLEAN, placed : BOOLEAN]
  <1>1. enemies' = [e \in DOMAIN enemies |-> EndFrame(enemies[e])]
    BY DEF ActorsJoin
  <1>2. ASSUME NEW e \in DOMAIN enemies
        PROVE  /\ enemies'[e] \in PawnRecord(kinds, m) /\ enemies'[e].at = enemies[e].at
               /\ enemies'[e].kind = enemies[e].kind /\ enemies'[e].hp = enemies[e].hp
    <2>1. enemies[e] \in PawnRecord(kinds, m)
      BY Everybody
    <2>2. enemies'[e] = EndFrame(enemies[e])
      BY <1>1
    <2>3. QED
      BY <2>1, <2>2, EndFrameFacts
  <1>3. ASSUME NEW s \in shots'  PROVE s \in Shot(DOMAIN enemies)
    <2>1. PICK t \in shots : s = [t EXCEPT !.fresh = FALSE, !.prev = t.at]
      BY DEF ActorsJoin
    <2>2. t \in Shot(DOMAIN enemies)
      BY Everybody
    <2>3. QED
      BY <2>1, <2>2 DEF Shot
  <1>4. sword' \in [dir : Directions \cup {NoDirection}, fresh : BOOLEAN, placed : BOOLEAN]
    BY Everybody DEF ActorsJoin
  <1>5. QED
    BY <1>1, <1>2, <1>3, <1>4

LEMMA FinishFrameKeeps ==
  ASSUME NEW kinds, NEW m, Typed(kinds, m), Ordered, FinishFrame
  PROVE  Typed(kinds, m)' /\ Ordered' /\ NobodyHurt
  <1>1. /\ DOMAIN enemies' = DOMAIN enemies
        /\ \A e \in DOMAIN enemies :
             /\ enemies'[e] \in PawnRecord(kinds, m) /\ enemies'[e].at = enemies[e].at
             /\ enemies'[e].kind = enemies[e].kind /\ enemies'[e].hp = enemies[e].hp
        /\ shots' \subseteq Shot(DOMAIN enemies)
        /\ sword' \in [dir : Directions \cup {NoDirection}, fresh : BOOLEAN, placed : BOOLEAN]
    BY ActorsJoinFacts DEF FinishFrame
  <1>2. /\ player' \in PawnRecord({"Player"}, MaxHp) /\ player'.at = player.at
        /\ player'.dir \in Directions /\ player'.hp = player.hp
    BY Everybody, EndFrameFacts DEF FinishFrame
  <1>3. \A s \in shots' : s.at \in Int \X Int /\ s.prev \in Int \X Int /\ s.fresh \in BOOLEAN
    BY <1>1 DEF Shot, Cells
  <1>4. Typed(kinds, m)'
    BY <1>1, <1>2, <1>3 DEF FinishFrame, Typed, CombatTypeOK
  <1>5. NobodyHurt
    BY <1>1, <1>2 DEF FinishFrame, NobodyHurt, SceneStays, IsDead
  <1>6. QED
    BY <1>4, <1>5 DEF FinishFrame, Ordered

LEMMA ReturnKeeps ==
  ASSUME NEW kinds, NEW m, Typed(kinds, m), Ordered, NEW hp \in 0 .. MaxHp,
         NEW equipped \in BOOLEAN, ReturnWith(hp, equipped)
  PROVE  /\ Typed(kinds, m)' /\ Ordered' /\ SceneStays
         /\ player'.hp = hp /\ \A e \in DOMAIN enemies : enemies'[e].hp = enemies[e].hp
  <1>1. /\ DOMAIN enemies' = DOMAIN enemies
        /\ \A e \in DOMAIN enemies :
             /\ enemies'[e] \in PawnRecord(kinds, m) /\ enemies'[e].at = enemies[e].at
             /\ enemies'[e].kind = enemies[e].kind /\ enemies'[e].hp = enemies[e].hp
        /\ shots' \subseteq Shot(DOMAIN enemies)
        /\ sword' \in [dir : Directions \cup {NoDirection}, fresh : BOOLEAN, placed : BOOLEAN]
    BY ActorsJoinFacts DEF ReturnWith
  <1>2. /\ player' \in PawnRecord({"Player"}, MaxHp) /\ player'.at = player.at
        /\ player'.dir \in Directions /\ player'.hp = hp
    <2>1. /\ EndFrame(player) \in PawnRecord({"Player"}, MaxHp)
          /\ EndFrame(player).at = player.at /\ EndFrame(player).dir \in Directions
      BY Everybody, EndFrameFacts
    <2>2. player' = [EndFrame(player) EXCEPT !.hp = hp]
      BY DEF ReturnWith
    <2>3. QED
      BY <2>1, <2>2 DEF PawnRecord
  <1>3. \A s \in shots' : s.at \in Int \X Int /\ s.prev \in Int \X Int /\ s.fresh \in BOOLEAN
    BY <1>1 DEF Shot, Cells
  <1>4. Typed(kinds, m)'
    BY <1>1, <1>2, <1>3 DEF ReturnWith, Typed, CombatTypeOK
  <1>5. SceneStays
    BY <1>1, <1>2 DEF ReturnWith, SceneStays, IsDead
  <1>6. QED
    BY <1>1, <1>2, <1>4, <1>5 DEF ReturnWith, Ordered

-----------------------------------------------------------------------------
(* The enemies' move.                                                      *)

LEMMA OppositeIsAWay ==
  ASSUME NEW d \in Ways
  PROVE  Opposite(d) \in Ways
  BY DEF Opposite, Ways

LEMMA HopsAreWays ==
  ASSUME NEW p \in Cells, NEW q \in Cells, NEW d \in HopDirections(p, q)
  PROVE  d \in Ways
  <1>1. \A n : (IF n >= 0 THEN 1 ELSE -1) \in {-1, 1}
    OBVIOUS
  <1>2. QED
    BY <1>1 DEF HopDirections, Ways

LEMMA ChaseIsDirected ==
  ASSUME NEW p \in Cells, NEW q \in Cells
  PROVE  ChaseDirection(p, q) \in Ways
  <1>1. KnockbackDirection(q, p, p) \in Ways
    BY KnockbackIsDirected, DirectionsAreWays
  <1>2. Right \in Ways
    BY DirectionsAreWays DEF Directions
  <1>3. QED
    BY <1>1, <1>2 DEF ChaseDirection

LEMMA FansAreWays ==
  ASSUME NEW d \in Ways
  PROVE  Fan(d) \subseteq Ways
  BY DEF Fan, Ways

LEMMA ThoughtFields ==
  ASSUME NEW dir, NEW move, NEW hopping, NEW throws
  PROVE  /\ Thought(dir, move, hopping, throws).dir = dir
         /\ Thought(dir, move, hopping, throws).move = move
         /\ Thought(dir, move, hopping, throws).hopping = hopping
         /\ Thought(dir, move, hopping, throws).throws = throws
  BY DEF Thought

\* Whatever an enemy thinks of, it looks, moves and throws along the grid.
LEMMA ThinkFacts ==
  ASSUME NEW kinds \in SUBSET AllKinds, NEW m, NEW enemy \in PawnRecord(kinds, m),
         player.at \in Cells, NEW t \in Think(enemy)
  PROVE  /\ t.dir \in Ways /\ t.move \in Ways /\ t.hopping \in BOOLEAN /\ t.throws \subseteq Ways
  <1> DEFINE Good == /\ t.dir \in Ways /\ t.move \in Ways
                     /\ t.hopping \in BOOLEAN /\ t.throws \subseteq Ways
  <1> SUFFICES Good
    OBVIOUS
  <1>1. enemy.kind \in AllKinds /\ enemy.dir \in Ways /\ enemy.at \in Cells
    BY PawnFields
  <1>2. /\ NoDirection \in Ways /\ \A d \in Directions : d \in Ways
        /\ ChaseDirection(enemy.at, player.at) \in Ways
    BY <1>1, DirectionsAreWays, ChaseIsDirected
  <1>3. CASE enemy.kind = "Octorok"
    <2>1. t \in Octorok(enemy)
      BY <1>3 DEF Think
    <2>2. PICK d \in Directions :
            t = Thought(NoDirection, d, FALSE, {}) \/ t = Thought(NoDirection, d, FALSE, {d})
      BY <2>1 DEF Octorok
    <2>3. t.dir = NoDirection /\ t.move = d /\ t.hopping = FALSE /\ t.throws \subseteq {d}
      BY <2>2 DEF Thought
    <2>4. QED
      BY <1>2, <2>3
  <1>4. CASE enemy.kind = "Moblin"
    <2>1. t \in Moblin(enemy)
      BY <1>4 DEF Think
    <2> DEFINE chase == ChaseDirection(enemy.at, player.at)
    <2>2. PICK d \in {enemy.dir, chase} :
            t = Thought(d, d, FALSE, {}) \/ t = Thought(chase, d, FALSE, {chase})
      BY <2>1 DEF Moblin
    <2>3. /\ t.dir \in {d, chase} /\ t.move = d /\ t.hopping = FALSE
          /\ t.throws = {} \/ t.throws = {chase}
      BY <2>2 DEF Thought
    <2>4. QED
      BY <1>1, <1>2, <2>3
  <1>5. CASE enemy.kind = "Tektite"
    <2>1. t \in Tektite(enemy)
      BY <1>5 DEF Think
    <2>2. CASE t = Thought(NoDirection, NoDirection, FALSE, {})
      BY <1>2, <2>2 DEF Thought
    <2>3. CASE \E d \in (IF enemy.hopping THEN {enemy.dir}
                         ELSE HopDirections(enemy.at, player.at)) : t = Thought(d, d, TRUE, {})
      <3>1. PICK d \in (IF enemy.hopping THEN {enemy.dir}
                        ELSE HopDirections(enemy.at, player.at)) : t = Thought(d, d, TRUE, {})
        BY <2>3
      <3>2. d \in Ways
        <4>1. CASE enemy.hopping
          BY <1>1, <4>1
        <4>2. CASE ~enemy.hopping
          BY <1>1, <4>2, HopsAreWays
        <4>3. QED  BY <4>1, <4>2
      <3>3. QED
        BY <3>1, <3>2 DEF Thought
    <2>4. QED
      BY <2>1, <2>2, <2>3 DEF Tektite
  <1>6. CASE enemy.kind = "Aquamentus"
    <2>1. t \in Aquamentus(enemy)
      BY <1>6 DEF Think
    <2>2. PICK throws \in {{}, Fan(ChaseDirection(enemy.at, player.at))} :
            t = Thought(enemy.dir, enemy.dir, FALSE, throws)
      BY <2>1 DEF Aquamentus
    <2>3. throws \subseteq Ways
      BY <1>2, FansAreWays
    <2>4. QED
      BY <1>1, <2>2, <2>3 DEF Thought
  <1>7. QED
    BY <1>1, <1>3, <1>4, <1>5, <1>6 DEF AllKinds

LEMMA BlockedEnemyFacts ==
  ASSUME NEW kinds, NEW m, NEW p \in PawnRecord(kinds, m)
  PROVE  /\ OnMoveBlocked(p) \in PawnRecord(kinds, m) /\ OnMoveBlocked(p).at = p.at
         /\ OnMoveBlocked(p).hp = p.hp /\ OnMoveBlocked(p).kind = p.kind
  <1>1. Opposite(p.dir) \in Ways /\ NoDirection \in Ways
    BY PawnFields, OppositeIsAWay, DirectionsAreWays
  <1>2. \/ OnMoveBlocked(p) = [p EXCEPT !.dir = Opposite(@)]
        \/ OnMoveBlocked(p) = [p EXCEPT !.hopping = FALSE, !.dir = NoDirection]
        \/ OnMoveBlocked(p) = p
    BY DEF OnMoveBlocked
  <1>3. QED
    BY <1>1, <1>2 DEF PawnRecord, Ways

\* Where the steps that were taken lead can be moved to.
LEMMA TakenSteps ==
  ASSUME NEW enemy, enemy.at \in Cells, NEW dir \in Ways, NEW n \in Nat
  PROVE  LET k == StepsTaken(enemy, dir, n)
             to == Plus(enemy.at, Times(k, dir))
         IN /\ k \in 0 .. n /\ Times(k, dir) \in Cells
            /\ to = enemy.at \/ EnemyCanMoveTo(enemy, to)
  <1> DEFINE k == StepsTaken(enemy, dir, n)
             to == Plus(enemy.at, Times(k, dir))
  <1>1. /\ k \in 0 .. n
        /\ \A i \in 1 .. k : EnemyCanMoveTo(enemy, Plus(enemy.at, Times(i, dir)))
    BY StepsTakenFacts
  <1> HIDE DEF k
  <1>2. dir \in Cells /\ k \in Int
    BY <1>1, DirectionsAreWays
  <1>3. Times(k, dir) \in Cells
    BY <1>2, Moving
  <1>4. CASE k = 0
    <2>1. Times(k, dir) = <<0, 0>>
      BY <1>2, <1>4 DEF Times, Cells
    <2>2. to = enemy.at
      BY <2>1 DEF Plus, Cells
    <2>3. QED  BY <1>1, <1>3, <2>2 DEF k
  <1>5. CASE k # 0
    <2>1. k \in 1 .. k
      BY <1>1, <1>5
    <2>2. QED
      BY <1>1, <1>3, <2>1 DEF k
  <1>6. QED  BY <1>4, <1>5


\* An enemy's turn: it may throw, and it stays where it was or goes where
\* CanMoveTo let it.
LEMMA EnemyMovesKeeps ==
  ASSUME NEW kinds \in SUBSET AllKinds, NEW m, Typed(kinds, m), Ordered, NEW e, EnemyMoves(e)
  PROVE  /\ Typed(kinds, m)' /\ Ordered' /\ UNCHANGED <<room, player, request, phase>>
         /\ DOMAIN enemies' = DOMAIN enemies
         /\ \A d \in DOMAIN enemies :
              /\ enemies'[d].hp = enemies[d].hp /\ enemies'[d].kind = enemies[d].kind
              /\ \/ enemies'[d].at = enemies[d].at
                 \/ EnemyCanMoveTo(enemies'[d], enemies'[d].at)
  <1> DEFINE Result(q) == /\ q \in PawnRecord(kinds, m)
                          /\ q.hp = enemies[e].hp /\ q.kind = enemies[e].kind
                          /\ q.at = enemies[e].at \/ EnemyCanMoveTo(q, q.at)
  <1>1. /\ phase = "enemies" /\ e \in DOMAIN enemies /\ waiting' \subseteq DOMAIN enemies
        /\ UNCHANGED <<phase, room, player, hasSword, input, stride, sword,
                       gameOverPending, clock, request>>
    BY Everybody DEF EnemyMoves
  <1>2. enemies[e] \in PawnRecord(kinds, m) /\ player.at \in Cells
    BY <1>1, Everybody
  <1>3. shots' \subseteq Shot(DOMAIN enemies)
        /\ (enemies' = enemies \/ \E q : Result(q) /\ enemies' = [enemies EXCEPT ![e] = q])
    <2>1. CASE IsDead(enemies[e])
      BY <2>1, Everybody DEF EnemyMoves
    <2>2. CASE ~IsDead(enemies[e])
      <3>1. PICK thought \in Think(enemies[e]) :
          /\ shots' = shots \cup ShotsOf(e, thought.throws)
          /\ LET enemy == [enemies[e] EXCEPT !.dir = thought.dir,
                                             !.hopping = thought.hopping]
             IN IF IsKnockback(enemy)
                THEN \E n \in KnockbackSteps(enemy) :
                       LET k == StepsTaken(enemy, enemy.push, n)
                           pushed == MoveBy(ConsumeKnockbackSteps(enemy, n),
                                            Times(k, enemy.push))
                       IN enemies' = [enemies EXCEPT ![e] =
                              IF k < n THEN StopKnockback(pushed) ELSE pushed]
                ELSE \E n \in FrameSteps :
                       LET k == StepsTaken(enemy, thought.move, n)
                           moved == MoveBy(enemy, Times(k, thought.move))
                       IN enemies' = [enemies EXCEPT ![e] =
                              IF k < n THEN OnMoveBlocked(moved) ELSE moved]
        BY <2>2 DEF EnemyMoves
      <3>2. /\ thought.dir \in Ways /\ thought.move \in Ways /\ thought.hopping \in BOOLEAN
            /\ thought.throws \subseteq Ways
        BY <1>2, ThinkFacts
      <3> DEFINE enemy == [enemies[e] EXCEPT !.dir = thought.dir, !.hopping = thought.hopping]
      <3>3. /\ enemy \in PawnRecord(kinds, m) /\ enemy.at = enemies[e].at
            /\ enemy.hp = enemies[e].hp /\ enemy.kind = enemies[e].kind
        BY <1>2, <3>2 DEF PawnRecord, Ways
      <3>4. shots' \subseteq Shot(DOMAIN enemies)
        <4>1. ASSUME NEW s \in ShotsOf(e, thought.throws)  PROVE s \in Shot(DOMAIN enemies)
          <5>1. PICK d \in thought.throws :
                  s = NewShot(GetProjectileSpawnPosition(enemies[e].at, SizeOf(enemies[e]),
                                                         RockSize, d), d, e)
            BY DEF ShotsOf
          <5>2. SizeOf(enemies[e]) \in Cells /\ enemies[e].at \in Cells /\ d \in Ways /\ d \in Cells
                /\ RockSize \in Cells
            BY <1>2, <3>2, Sizes, PawnFields, DirectionsAreWays DEF SizeOf
          <5>3. GetProjectileSpawnPosition(enemies[e].at, SizeOf(enemies[e]), RockSize, d) \in Cells
            BY <5>2, SpawnPositionIsACell
          <5>4. e \in {"player"} \cup DOMAIN enemies
            BY <1>1
          <5>5. QED
            BY <5>1, <5>2, <5>3, <5>4, NewShotIsTyped
        <4>2. QED
          BY <3>1, <4>1, Everybody
      <3>5. \E q : Result(q) /\ enemies' = [enemies EXCEPT ![e] = q]
        <4>0. enemy.at \in Cells /\ enemy.push \in Ways
          BY <3>3, PawnFields
        <4> HIDE DEF enemy
        <4>1. ASSUME NEW q \in PawnRecord(kinds, m), q.hp = enemy.hp, q.kind = enemy.kind,
                     q.at = enemy.at \/ EnemyCanMoveTo(enemy, q.at)
              PROVE  Result(q)
          BY <3>3, <4>1 DEF EnemyCanMoveTo, SizeOf
        <4> HIDE DEF Result
        <4>2. CASE IsKnockback(enemy)
          <5>1. PICK n \in KnockbackSteps(enemy) :
                  LET k == StepsTaken(enemy, enemy.push, n)
                      pushed == MoveBy(ConsumeKnockbackSteps(enemy, n), Times(k, enemy.push))
                  IN enemies' = [enemies EXCEPT ![e] =
                         IF k < n THEN StopKnockback(pushed) ELSE pushed]
            BY <3>1, <4>2 DEF enemy
          <5> DEFINE k == StepsTaken(enemy, enemy.push, n)
                     consumed == ConsumeKnockbackSteps(enemy, n)
                     pushed == MoveBy(consumed, Times(k, enemy.push))
                     q == IF k < n THEN StopKnockback(pushed) ELSE pushed
          <5>2. /\ consumed \in PawnRecord(kinds, m) /\ n \in Nat
                /\ consumed.at = enemy.at /\ consumed.hp = enemy.hp /\ consumed.kind = enemy.kind
            <6>1. n \in Nat
              BY <3>3, ConsumeFacts, Steps
            <6>2. QED
              BY <3>3, <6>1, ConsumeFacts
          <5>3. /\ Times(k, enemy.push) \in Cells
                /\ \/ Plus(enemy.at, Times(k, enemy.push)) = enemy.at
                   \/ EnemyCanMoveTo(enemy, Plus(enemy.at, Times(k, enemy.push)))
            BY <4>0, <5>2, TakenSteps
          <5>4. /\ pushed \in PawnRecord(kinds, m) /\ pushed.hp = enemy.hp
                /\ pushed.kind = enemy.kind /\ pushed.at = Plus(enemy.at, Times(k, enemy.push))
            <6> HIDE DEF consumed, k
            <6>1. QED
              BY <5>2, <5>3, MoveFacts
          <5>5. enemies' = [enemies EXCEPT ![e] = q]
            BY <5>1
          <5> HIDE DEF pushed, k
          <5>6. /\ q \in PawnRecord(kinds, m) /\ q.hp = enemy.hp
                /\ q.kind = enemy.kind /\ q.at = Plus(enemy.at, Times(k, enemy.push))
            BY <5>4, StopKnockbackFacts
          <5> HIDE DEF q
          <5>7. Result(q)
            BY <4>1, <5>3, <5>6
          <5>8. QED
            BY <5>5, <5>7
        <4>3. CASE ~IsKnockback(enemy)
          <5>1. PICK n \in FrameSteps :
                  LET k == StepsTaken(enemy, thought.move, n)
                      moved == MoveBy(enemy, Times(k, thought.move))
                  IN enemies' = [enemies EXCEPT ![e] =
                         IF k < n THEN OnMoveBlocked(moved) ELSE moved]
            BY <3>1, <4>3 DEF enemy
          <5> DEFINE k == StepsTaken(enemy, thought.move, n)
                     moved == MoveBy(enemy, Times(k, thought.move))
                     q == IF k < n THEN OnMoveBlocked(moved) ELSE moved
          <5>2. n \in Nat
            BY Steps
          <5>3. /\ Times(k, thought.move) \in Cells
                /\ \/ Plus(enemy.at, Times(k, thought.move)) = enemy.at
                   \/ EnemyCanMoveTo(enemy, Plus(enemy.at, Times(k, thought.move)))
            BY <3>2, <4>0, <5>2, TakenSteps
          <5>4. /\ moved \in PawnRecord(kinds, m) /\ moved.hp = enemy.hp
                /\ moved.kind = enemy.kind /\ moved.at = Plus(enemy.at, Times(k, thought.move))
            <6> HIDE DEF k
            <6>1. QED
              BY <3>3, <5>3, MoveFacts
          <5>5. enemies' = [enemies EXCEPT ![e] = q]
            BY <5>1
          <5> HIDE DEF moved, k
          <5>6. /\ q \in PawnRecord(kinds, m) /\ q.hp = enemy.hp
                /\ q.kind = enemy.kind /\ q.at = Plus(enemy.at, Times(k, thought.move))
            BY <5>4, BlockedEnemyFacts
          <5> HIDE DEF q
          <5>7. Result(q)
            BY <4>1, <5>3, <5>6
          <5>8. QED
            BY <5>5, <5>7
        <4>4. QED  BY <4>2, <4>3
      <3>6. QED
        BY <3>4, <3>5
    <2>3. QED  BY <2>1, <2>2
  <1>4. /\ DOMAIN enemies' = DOMAIN enemies
        /\ \A d \in DOMAIN enemies :
             /\ enemies'[d] \in PawnRecord(kinds, m)
             /\ enemies'[d].hp = enemies[d].hp /\ enemies'[d].kind = enemies[d].kind
             /\ \/ enemies'[d].at = enemies[d].at
                \/ EnemyCanMoveTo(enemies'[d], enemies'[d].at)
    <2>1. CASE enemies' = enemies
      BY <2>1, Everybody
    <2>2. CASE \E q : Result(q) /\ enemies' = [enemies EXCEPT ![e] = q]
      <3>1. PICK q : Result(q) /\ enemies' = [enemies EXCEPT ![e] = q]
        BY <2>2
      <3>2. /\ DOMAIN enemies' = DOMAIN enemies /\ enemies'[e] = q
            /\ \A d \in DOMAIN enemies : d # e => enemies'[d] = enemies[d]
        BY <1>1, <3>1
      <3>3. QED
        BY <3>1, <3>2, Everybody
    <2>3. QED  BY <1>3, <2>1, <2>2
  <1> HIDE DEF Result
  <1>5. \A s \in shots' : s.at \in Int \X Int /\ s.prev \in Int \X Int /\ s.fresh \in BOOLEAN
    BY <1>3 DEF Shot, Cells
  <1>6. Typed(kinds, m)'
    BY <1>1, <1>3, <1>4, <1>5 DEF Typed, CombatTypeOK
  <1>7. Ordered'
    BY <1>1 DEF Ordered
  <1>8. QED
    BY <1>1, <1>4, <1>6, <1>7

LEMMA EnemyMovesKeepsPlaces ==
  ASSUME NEW kinds \in SUBSET AllKinds, NEW m, Typed(kinds, m), Ordered, Placed, NEW e, EnemyMoves(e)
  PROVE  Placed' /\ ("Tektite" \notin kinds /\ Apart => Apart')
  <1>1. /\ Typed(kinds, m)' /\ UNCHANGED <<room, player>> /\ DOMAIN enemies' = DOMAIN enemies
        /\ \A d \in DOMAIN enemies :
             /\ enemies'[d].hp = enemies[d].hp /\ enemies'[d].kind = enemies[d].kind
             /\ \/ enemies'[d].at = enemies[d].at
                \/ EnemyCanMoveTo(enemies'[d], enemies'[d].at)
    BY EnemyMovesKeeps
  <1>2. PawnBox(player)' = PawnBox(player)
    BY <1>1 DEF PawnBox, SizeOf
  <1>3. ASSUME NEW d \in Living'
        PROVE  /\ d \in Living
               /\ \/ PawnBox(enemies[d])' = PawnBox(enemies[d])
                  \/ EnemyCanMoveTo(enemies'[d], enemies'[d].at)
               /\ enemies'[d].kind \in kinds
    <2>1. d \in DOMAIN enemies /\ d \in Living
      BY <1>1 DEF Living, IsDead
    <2>2. enemies'[d].kind \in kinds
      BY <1>1, <2>1, PawnFields DEF Typed, CombatTypeOK
    <2>3. QED
      BY <1>1, <2>1, <2>2 DEF PawnBox, SizeOf
  <1>4. Placed'
    BY <1>1, <1>2, <1>3 DEF Placed, EnemyCanMoveTo, PawnBox, SizeOf
  <1>5. ASSUME "Tektite" \notin kinds, Apart  PROVE Apart'
    <2>1. ASSUME NEW d \in Living'  PROVE ~Overlaps(PawnBox(enemies[d]), PawnBox(player))'
      <3>1. CASE PawnBox(enemies[d])' = PawnBox(enemies[d])
        BY <1>2, <1>3, <1>5, <2>1, <3>1 DEF Apart
      <3>2. CASE EnemyCanMoveTo(enemies'[d], enemies'[d].at)
        BY <1>2, <1>3, <1>5, <2>1, <3>2 DEF EnemyCanMoveTo, PawnBox
      <3>3. QED  BY <1>3, <2>1, <3>1, <3>2
    <2>2. QED
      BY <2>1 DEF Apart
  <1>6. QED
    BY <1>4, <1>5

-----------------------------------------------------------------------------
(* Blows.                                                                  *)

\* A hit on the player leaves it where it is, with no more health than before.
LEMMA PlayerHitFacts ==
  ASSUME NEW kinds, NEW m, Typed(kinds, m), NEW amount \in Nat, NEW p \in Cells, NEW q \in Cells,
         PlayerHit(amount, p, q)
  PROVE  /\ player' \in PawnRecord({"Player"}, MaxHp) /\ player'.at = player.at
         /\ player'.dir \in Directions /\ player'.hp <= player.hp
         /\ sword' \in [dir : Directions \cup {NoDirection}, fresh : BOOLEAN, placed : BOOLEAN]
  <1>1. player' = TakeDamage(player, amount, p, q) /\ sword' \in {sword, NoSword}
    BY DEF PlayerHit
  <1>2. MaxHp \in Nat /\ player \in PawnRecord({"Player"}, MaxHp) /\ player.dir \in Directions
    BY CombatAssumption, Everybody
  <1> DEFINE hit == TakeDamage(player, amount, p, q)
  <1>3. /\ hit \in PawnRecord({"Player"}, MaxHp) /\ hit.at = player.at /\ hit.dir = player.dir
        /\ hit.hp <= player.hp
    BY <1>2, DamageFacts
  <1>4. player' = hit
    BY <1>1
  <1> HIDE DEF hit
  <1>5. sword' \in [dir : Directions \cup {NoDirection}, fresh : BOOLEAN, placed : BOOLEAN]
    BY <1>1, Everybody, Rests
  <1>6. QED
    BY <1>2, <1>3, <1>4, <1>5

\* What a step that hits nobody but the player leaves of the scene.
LEMMA PlayerHitKeeps ==
  ASSUME NEW kinds, NEW m, Typed(kinds, m),
         player' \in PawnRecord({"Player"}, MaxHp), player'.at = player.at,
         player'.dir \in Directions, player'.hp <= player.hp,
         sword' \in [dir : Directions \cup {NoDirection}, fresh : BOOLEAN, placed : BOOLEAN],
         phase' = "collide", shots' \subseteq shots,
         UNCHANGED <<room, hasSword, input, stride, enemies, waiting, gameOverPending, clock, request>>
  PROVE  Typed(kinds, m)' /\ Ordered' /\ SceneStays
  <1>1. shots' \subseteq Shot(DOMAIN enemies)
        /\ \A s \in shots' : s.at \in Int \X Int /\ s.prev \in Int \X Int /\ s.fresh \in BOOLEAN
    BY DEF Typed, CombatTypeOK
  <1>2. Typed(kinds, m)'
    BY <1>1 DEF Typed, CombatTypeOK
  <1>3. QED
    BY <1>2 DEF Ordered, SceneStays

LEMMA ContactKeeps ==
  ASSUME NEW kinds, NEW m, Typed(kinds, m), Ordered, Contact
  PROVE  /\ Typed(kinds, m)' /\ Ordered' /\ SceneStays
         /\ UNCHANGED <<hasSword, enemies, clock, request>> /\ phase = "contact" /\ phase' = "collide"
         /\ player'.hp <= player.hp /\ (Living = {} => UNCHANGED player)
  <1>1. /\ phase = "contact" /\ phase' = "collide"
        /\ UNCHANGED <<room, hasSword, input, stride, enemies, waiting, shots, gameOverPending, clock, request>>
    BY DEF Contact
  <1>2. \/ UNCHANGED <<player, sword>>
        \/ \E e \in Living : PlayerHit(ContactDamage(enemies[e]), enemies[e].at, enemies[e].at)
    BY DEF Contact
  <1>3. CASE UNCHANGED <<player, sword>>
    <2>1. /\ player' \in PawnRecord({"Player"}, MaxHp) /\ player'.at = player.at
          /\ player'.dir \in Directions /\ player'.hp <= player.hp
          /\ sword' \in [dir : Directions \cup {NoDirection}, fresh : BOOLEAN, placed : BOOLEAN]
      BY <1>3, Everybody, PawnFields
    <2>2. QED
      BY <1>1, <1>3, <2>1, PlayerHitKeeps
  <1>4. CASE \E e \in Living : PlayerHit(ContactDamage(enemies[e]), enemies[e].at, enemies[e].at)
    <2>1. PICK e \in Living : PlayerHit(ContactDamage(enemies[e]), enemies[e].at, enemies[e].at)
      BY <1>4
    <2>2. enemies[e].at \in Cells /\ ContactDamage(enemies[e]) \in Nat
      BY Everybody, PawnFields DEF Living, ContactDamage
    <2>3. /\ player' \in PawnRecord({"Player"}, MaxHp) /\ player'.at = player.at
          /\ player'.dir \in Directions /\ player'.hp <= player.hp
          /\ sword' \in [dir : Directions \cup {NoDirection}, fresh : BOOLEAN, placed : BOOLEAN]
      BY <2>1, <2>2, PlayerHitFacts
    <2>4. QED
      BY <1>1, <2>1, <2>3, PlayerHitKeeps
  <1>5. QED  BY <1>2, <1>3, <1>4

LEMMA ShotHitsPlayerKeeps ==
  ASSUME NEW kinds, NEW m, Typed(kinds, m), Ordered, NEW s \in shots, ShotHitsPlayer(s)
  PROVE  /\ Typed(kinds, m)' /\ Ordered' /\ SceneStays
         /\ UNCHANGED <<phase, hasSword, enemies, clock, request>> /\ phase = "collide"
         /\ player'.hp <= player.hp /\ DOMAIN enemies # {}
  <1>1. /\ phase = "collide" /\ phase' = "collide" /\ shots' \subseteq shots
        /\ UNCHANGED <<room, hasSword, input, stride, enemies, waiting, gameOverPending, clock, request>>
    BY DEF ShotHitsPlayer
  <1>2. s.by \in DOMAIN enemies /\ s.at \in Cells
    BY Everybody DEF ShotHitsPlayer, ShotMeetsPlayer, Shot
  <1>3. /\ player' \in PawnRecord({"Player"}, MaxHp) /\ player'.at = player.at
        /\ player'.dir \in Directions /\ player'.hp <= player.hp
        /\ sword' \in [dir : Directions \cup {NoDirection}, fresh : BOOLEAN, placed : BOOLEAN]
    <2>1. CASE UNCHANGED <<player, sword>>
      BY <2>1, Everybody, PawnFields
    <2>2. CASE PlayerHit(1, enemies[s.by].at, s.at)
      <3>1. enemies[s.by].at \in Cells
        BY <1>2, Everybody, PawnFields
      <3>2. QED
        BY <1>2, <2>2, <3>1, PlayerHitFacts
    <2>3. QED
      BY <2>1, <2>2 DEF ShotHitsPlayer
  <1>4. QED
    BY <1>1, <1>2, <1>3, PlayerHitKeeps

\* A hit on an enemy leaves everybody where they are.
LEMMA EnemyHitKeeps ==
  ASSUME NEW kinds, NEW m \in Nat, Typed(kinds, m), NEW e \in DOMAIN enemies, NEW p \in Cells,
         EnemyHit(e, p), shots' \subseteq shots, sword' \in {sword, NoSword},
         UNCHANGED <<phase, room, player, hasSword, input, stride, waiting,
                     gameOverPending, clock, request>>
  PROVE  /\ Typed(kinds, m)' /\ SceneStays /\ (Ordered => Ordered')
         /\ \A d \in DOMAIN enemies : enemies'[d].hp <= enemies[d].hp
  <1> DEFINE hit == TakeDamage(enemies[e], 1, player.at, p)
  <1>1. /\ enemies[e] \in PawnRecord(kinds, m) /\ player.at \in Cells
        /\ \A d \in DOMAIN enemies : enemies[d] \in PawnRecord(kinds, m)
    BY Everybody
  <1>2. /\ hit \in PawnRecord(kinds, m) /\ hit.at = enemies[e].at /\ hit.kind = enemies[e].kind
        /\ hit.hp <= enemies[e].hp /\ (IsDead(enemies[e]) => IsDead(hit))
    BY <1>1, DamageFacts
  <1>3. enemies' = [enemies EXCEPT ![e] = hit]
    BY DEF EnemyHit
  <1> HIDE DEF hit
  <1>4. /\ DOMAIN enemies' = DOMAIN enemies /\ enemies'[e] = hit
        /\ \A d \in DOMAIN enemies : d # e => enemies'[d] = enemies[d]
    BY <1>3
  <1>5. ASSUME NEW d \in DOMAIN enemies
        PROVE  /\ enemies'[d] \in PawnRecord(kinds, m) /\ enemies'[d].at = enemies[d].at
               /\ enemies'[d].kind = enemies[d].kind /\ enemies'[d].hp <= enemies[d].hp
               /\ IsDead(enemies[d]) => IsDead(enemies'[d])
    <2>1. enemies[d].hp <= enemies[d].hp
      BY <1>1, PawnFields
    <2>2. QED
      BY <1>1, <1>2, <1>4, <2>1
  <1>6. SceneStays
    BY <1>4, <1>5 DEF SceneStays
  <1>7. shots' \subseteq Shot(DOMAIN enemies)
        /\ \A s \in shots' : s.at \in Int \X Int /\ s.prev \in Int \X Int /\ s.fresh \in BOOLEAN
    BY DEF Typed, CombatTypeOK
  <1>8. sword' \in [dir : Directions \cup {NoDirection}, fresh : BOOLEAN, placed : BOOLEAN]
    BY Everybody, Rests
  <1>9. Typed(kinds, m)'
    BY <1>4, <1>5, <1>7, <1>8 DEF Typed, CombatTypeOK
  <1>10. QED
    BY <1>5, <1>6, <1>9 DEF Ordered

LEMMA BeamHitsEnemyKeeps ==
  ASSUME NEW kinds, NEW m \in Nat, Typed(kinds, m), Ordered, NEW s \in shots, NEW e \in Living,
         BeamHitsEnemy(s, e)
  PROVE  /\ Typed(kinds, m)' /\ Ordered' /\ SceneStays
         /\ UNCHANGED <<phase, player, hasSword, clock, request>> /\ phase = "strike"
  <1>1. e \in DOMAIN enemies /\ s.at \in Cells
    BY Everybody DEF Living, Shot
  <1>2. /\ EnemyHit(e, s.at) /\ shots' \subseteq shots /\ sword' \in {sword, NoSword}
        /\ phase = "strike"
        /\ UNCHANGED <<phase, room, player, hasSword, input, stride, waiting,
                       gameOverPending, clock, request>>
    BY DEF BeamHitsEnemy
  <1>3. QED
    BY <1>1, <1>2, EnemyHitKeeps

LEMMA SwordHitsEnemyKeeps ==
  ASSUME NEW kinds, NEW m \in Nat, Typed(kinds, m), Ordered, NEW e \in Living, SwordHitsEnemy(e)
  PROVE  /\ Typed(kinds, m)' /\ Ordered' /\ SceneStays
         /\ UNCHANGED <<phase, player, hasSword, clock, request>> /\ phase = "strike"
  <1>1. e \in DOMAIN enemies
    BY DEF Living
  <1>2. SwordAt(player.at) \in Cells
    <2>1. player.at \in Cells /\ PawnSize \in Cells /\ SwordSize \in Cells /\ sword.dir \in Cells
      BY Everybody, Sizes, DirectionsAreWays
    <2>2. QED
      BY <2>1, SpawnPositionIsACell DEF SwordAt
  <1>3. /\ EnemyHit(e, SwordAt(player.at)) /\ shots' \subseteq shots /\ sword' \in {sword, NoSword}
        /\ phase = "strike"
        /\ UNCHANGED <<phase, room, player, hasSword, input, stride, waiting,
                       gameOverPending, clock, request>>
    BY DEF SwordHitsEnemy
  <1>4. QED
    BY <1>1, <1>2, <1>3, EnemyHitKeeps

-----------------------------------------------------------------------------
(* Spawning.                                                               *)

LEMMA Scaling ==
  ASSUME NEW a \in Int, NEW b \in Int, NEW w \in Nat, a <= b
  PROVE  a * w <= b * w
  <1>1. (b - a) * w >= 0
    OBVIOUS
  <1>2. (b - a) * w = b * w - a * w
    OBVIOUS
  <1>3. QED
    BY <1>1, <1>2

\* A plan spawns enemies of the room, of the kinds asked for, in the places
\* offered, alive.
LEMMA SpawnPlanFacts ==
  ASSUME NEW kinds, NEW m \in Nat \ {0}, NEW places \in SUBSET Cells,
         NEW plan \in SpawnPlans(kinds, places)
  PROVE  /\ DOMAIN plan \subseteq EnemyIds
         /\ \A e \in DOMAIN plan :
              /\ plan[e] \in PawnRecord(kinds, m) /\ plan[e].at \in places
              /\ plan[e].kind \in kinds /\ ~IsDead(plan[e])
  <1>1. PICK group \in SUBSET EnemyIds :
          plan \in {[e \in group |-> NewPawn(kind[e], at[e], 1, NoDirection)] :
                      kind \in [group -> kinds],
                      at \in {f \in [group -> places] :
                                \A d, e \in group : f[d] = f[e] => d = e}}
    BY DEF SpawnPlans
  <1>2. PICK kind \in [group -> kinds], at \in [group -> places] :
          plan = [e \in group |-> NewPawn(kind[e], at[e], 1, NoDirection)]
    BY <1>1
  <1>3. ASSUME NEW e \in group
        PROVE  /\ plan[e] \in PawnRecord(kinds, m) /\ plan[e].at \in places
               /\ plan[e].kind \in kinds /\ ~IsDead(plan[e])
    <2>1. plan[e] = NewPawn(kind[e], at[e], 1, NoDirection)
      BY <1>2
    <2>2. kind[e] \in kinds /\ at[e] \in places /\ at[e] \in Cells /\ 1 \in 0 .. m /\ NoDirection \in Ways
      BY <1>2, DirectionsAreWays
    <2>3. plan[e] \in PawnRecord(kinds, m)
      BY <2>1, <2>2, NewPawnIsTyped
    <2>4. QED
      BY <2>1, <2>2, <2>3 DEF NewPawn, IsDead
  <1>4. DOMAIN plan = group
    BY <1>2
  <1>5. QED
    BY <1>3, <1>4

\* The places offered are inside the room, and far enough from the player.
LEMMA SpawnPositionFacts ==
  ASSUME NEW r \in Cells, NEW playerAt \in Cells, NEW at \in SpawnPositions(r, playerAt)
  PROVE  /\ at \in Cells /\ IsInsideRoom(Box(at, PawnSize), r)
         /\ ~Overlaps(Box(at, PawnSize), Box(playerAt, PawnSize))
  <1>1. PICK x \in SpawnMargin .. (RoomTileWidth - 1 - SpawnMargin),
             y \in SpawnMargin .. (RoomTileHeight - 1 - SpawnMargin) :
          at = Plus(GetRoomCellOrigin(r), TileCell(<<x, y>>))
    BY DEF SpawnPositions
  <1>2. \/ Magnitude(at[1] - playerAt[1]) >= SpawnDistance * TileWidth
        \/ Magnitude(at[2] - playerAt[2]) >= SpawnDistance * TileHeight
    BY DEF SpawnPositions
  <1> DEFINE w == TileWidth
             h == TileHeight
             p == r[1] * RoomWidth
             q == r[2] * RoomHeight
  <1>3. /\ x \in Int /\ y \in Int /\ 0 <= x /\ x + 1 <= RoomTileWidth /\ 0 <= y /\ y + 1 <= RoomTileHeight
        /\ RoomTileWidth \in Int /\ RoomTileHeight \in Int
    <2>1. SpawnMargin \in Nat /\ RoomTileWidth \in Int /\ RoomTileHeight \in Int
      BY CombatAssumption, GeometryAssumption
    <2>2. QED
      BY <2>1
  <1>4. w \in Nat /\ h \in Nat /\ p \in Int /\ q \in Int
    BY Sizes DEF Cells
  <1>5. /\ 0 <= x * w /\ x * w + w <= RoomWidth /\ 0 <= y * h /\ y * h + h <= RoomHeight
        /\ x * w \in Int /\ y * h \in Int
    <2>1. (x + 1) * w <= RoomTileWidth * w /\ (y + 1) * h <= RoomTileHeight * h
      <3>1. x + 1 \in Int /\ y + 1 \in Int
        BY <1>3
      <3>2. QED
        BY <1>3, <1>4, <3>1, Scaling
    <2>2. (x + 1) * w = x * w + w /\ (y + 1) * h = y * h + h /\ 0 <= x * w /\ 0 <= y * h
      BY <1>3, <1>4
    <2>3. QED
      BY <1>3, <1>4, <2>1, <2>2 DEF RoomWidth, RoomHeight
  <1>6. at = <<p + x * w, q + y * h>>
    BY <1>1 DEF Plus, GetRoomCellOrigin, TileCell
  <1>7. /\ PawnSize[1] <= w /\ PawnSize[2] <= h /\ PawnSize[1] \in Int /\ PawnSize[2] \in Int
        /\ RoomWidth \in Int /\ RoomHeight \in Int /\ PawnSize \in Cells
    BY Sizes DEF Cells
  <1>8. SpawnDistance * TileWidth >= w /\ SpawnDistance * TileHeight >= h
        /\ SpawnDistance * TileWidth \in Int /\ SpawnDistance * TileHeight \in Int
    <2>1. SpawnDistance \in Nat \ {0}
      BY CombatAssumption
    <2>2. 1 * w <= SpawnDistance * w /\ 1 * h <= SpawnDistance * h
      BY <1>4, <2>1, Scaling
    <2>3. QED
      BY <1>4, <2>1, <2>2
  <1> HIDE DEF w, h, p, q
  <1>9. at \in Cells
    BY <1>4, <1>5, <1>6 DEF Cells
  <1>10. IsInsideRoom(Box(at, PawnSize), r)
    <2>1. /\ p <= at[1] /\ at[1] + PawnSize[1] <= p + RoomWidth
          /\ q <= at[2] /\ at[2] + PawnSize[2] <= q + RoomHeight
      BY <1>4, <1>5, <1>6, <1>7
    <2>2. QED
      BY <1>7, <1>9, <2>1, InsideRoom DEF p, q
  <1>11. ~Overlaps(Box(at, PawnSize), Box(playerAt, PawnSize))
    <2>1. at[1] \in Int /\ at[2] \in Int /\ playerAt[1] \in Int /\ playerAt[2] \in Int
      BY <1>9 DEF Cells
    <2>2. \/ Magnitude(at[1] - playerAt[1]) >= PawnSize[1]
          \/ Magnitude(at[2] - playerAt[2]) >= PawnSize[2]
      <3>1. Magnitude(at[1] - playerAt[1]) \in Int /\ Magnitude(at[2] - playerAt[2]) \in Int
        BY <2>1 DEF Magnitude
      <3>2. w \in Int /\ h \in Int
        BY <1>4
      <3>3. QED
        BY <1>2, <1>7, <1>8, <3>1, <3>2
    <2>3. CASE Magnitude(at[1] - playerAt[1]) >= PawnSize[1]
      BY <1>7, <2>1, <2>3 DEF Magnitude, Overlaps, ShareColumns, Box
    <2>4. CASE Magnitude(at[2] - playerAt[2]) >= PawnSize[2]
      BY <1>7, <2>1, <2>4 DEF Magnitude, Overlaps, ShareRows, Box
    <2>5. QED  BY <2>2, <2>3, <2>4
  <1>12. QED
    BY <1>9, <1>10, <1>11

-----------------------------------------------------------------------------
(* Whose turn it is.                                                       *)

\* Enemies wait only for their own turn: none is left over when the player
\* moves, perhaps into another room.
Turns == phase # "enemies" => waiting = {}

LEMMA TurnsKept ==
  ASSUME Turns,
         \/ ActorsTick \/ AwaitGameOver \/ StartKnockback \/ StartWalk \/ StandStill \/ Attack
         \/ Blocked \/ EndStride \/ (\E e \in waiting : EnemyMoves(e)) \/ EnemiesMoved \/ Contact
         \/ Collisions \/ Collided \/ FinishFrame \/ LeaveLevel
         \/ \E hp, equipped : ReturnWith(hp, equipped)
  PROVE  Turns'
  <1>1. CASE ActorsTick
    BY <1>1 DEF ActorsTick, Turns
  <1>2. CASE AwaitGameOver
    BY <1>2 DEF AwaitGameOver, Turns
  <1>3. CASE StartKnockback \/ StartWalk
    BY <1>3 DEF StartKnockback, StartWalk, PlayerActs, Turns
  <1>4. CASE StandStill \/ Attack
    BY <1>4 DEF StandStill, Attack, Turns
  <1>5. CASE Blocked
    BY <1>5 DEF Blocked, Turns
  <1>6. CASE EndStride
    BY <1>6 DEF EndStride, Turns
  <1>7. CASE \E e \in waiting : EnemyMoves(e)
    BY <1>7 DEF EnemyMoves, Turns
  <1>8. CASE EnemiesMoved
    BY <1>8 DEF EnemiesMoved, Turns
  <1>9. CASE Contact
    BY <1>9 DEF Contact, Turns
  <1>10. CASE Collisions
    BY <1>10 DEF Collisions, ShotHitsPlayer, BeamHitsEnemy, SwordHitsEnemy, Turns
  <1>11. CASE Collided
    BY <1>11 DEF Collided, Turns
  <1>12. CASE FinishFrame \/ LeaveLevel
    BY <1>12 DEF FinishFrame, LeaveLevel, Turns
  <1>13. CASE \E hp, equipped : ReturnWith(hp, equipped)
    BY <1>13 DEF ReturnWith, Turns
  <1>14. QED
    BY <1>1, <1>2, <1>3, <1>4, <1>5, <1>6, <1>7, <1>8, <1>9, <1>10, <1>11, <1>12, <1>13
=============================================================================
