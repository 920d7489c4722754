-------------------------- MODULE LocalDungeonProofs --------------------------
(***************************************************************************)
(* The dungeon, for every row of rooms, every map, every size of boxes and *)
(* every number of enemies: nobody stands on the player, a room holds its  *)
(* own, the rewards are earned, and all of it implements LevelVisit.       *)
(***************************************************************************)
EXTENDS LocalDungeon, LocalCombatProofs

Kinds == {"Octorok", "Aquamentus"}

Rooms == (0 .. LastRoom) \X {0}

\* Who may live in a room: each of the three sorts of rooms has its own.
Residents(r) == IF r[1] <= RandomEnemyRoomLast THEN EnemyIds
                ELSE IF r[1] = BossRoom THEN {Boss} ELSE {}

RoomsOwn == DOMAIN enemies \subseteq Residents(room)

\* What was won was won of the boss, and what is there of it unkilled lives.
Rewards ==
  /\ Boss \in DOMAIN enemies /\ ~bossKilled => ~IsDead(enemies[Boss])
  /\ bossDefeated => bossKilled
  /\ heartCollected \/ triforceCollected => bossDefeated
  /\ clearPending <=> triforceCollected

\* The holder of the triforce has left every danger behind: it is in the last
\* room, or on its way out of it for the rest of this frame.
Calm ==
  clearPending =>
    /\ DOMAIN enemies = {} /\ ~IsDead(player) /\ request \in {NoRequest, "Clear"}
    /\ phase # "pushed"
    /\ phase = "walk" =>
         \/ room[1] = LastRoom
         \/ /\ room[1] = LastRoom - 1
            /\ player.at[1] - stride.left >= LastRoom * RoomWidth - PawnSize[1] - StepsPerFrame

IInv == /\ TypeOK /\ Typed(Kinds, BossHp)
        /\ Placed /\ Apart /\ Ordered /\ Turns
        /\ RoomsOwn /\ Rewards /\ Calm

-----------------------------------------------------------------------------
(* The layout.                                                             *)

LEMMA Layout ==
  /\ LastRoom \in Nat /\ BossRoom \in Nat /\ RandomEnemyRoomLast \in Nat
  /\ RandomEnemyRoomLast < BossRoom /\ BossRoom < LastRoom
  /\ MapTileWidth * TileWidth = (LastRoom + 1) * RoomWidth
  /\ MapTileHeight * TileHeight = RoomHeight
  /\ Kinds \in SUBSET AllKinds /\ "Tektite" \notin Kinds /\ BossHp \in Nat \ {0}
  /\ Rooms \subseteq Cells
  <1>1. /\ LastRoom \in Nat /\ BossRoom \in Nat /\ RandomEnemyRoomLast \in Nat
        /\ BossHp \in Nat \ {0}
    BY DungeonAssumption
  <1>2. TileWidth \in Nat /\ RoomTileWidth \in Nat
    BY GeometryAssumption
  <1>3. ((LastRoom + 1) * RoomTileWidth) * TileWidth = (LastRoom + 1) * (RoomTileWidth * TileWidth)
    BY <1>1, <1>2
  <1>4. /\ RandomEnemyRoomLast < BossRoom /\ BossRoom < LastRoom
        /\ MapTileWidth * TileWidth = (LastRoom + 1) * RoomWidth
        /\ MapTileHeight * TileHeight = RoomHeight
    BY <1>3, LayoutAssumption DEF RoomWidth, RoomHeight
  <1>5. Kinds \in SUBSET AllKinds /\ "Tektite" \notin Kinds
    BY DEF Kinds, AllKinds
  <1>6. Rooms \subseteq Cells
    BY <1>1 DEF Rooms, Cells
  <1>7. QED
    BY <1>1, <1>4, <1>5, <1>6

LEMMA QuotientBounds ==
  ASSUME NEW c \in Int, NEW w \in Nat \ {0}, NEW n \in Nat, 0 <= c, c < (n + 1) * w
  PROVE  c \div w \in 0 .. n
  <1> DEFINE q == c \div w
  <1>1. q \in Int
    BY QuotientIsInt
  <1>2. q * w <= c /\ c < q * w + w
    BY <1>1, Division
  <1> HIDE DEF q
  <1>3. (q + 1) * w = q * w + w /\ q * w \in Int /\ (n + 1) * w \in Int /\ 0 * w = 0
    BY <1>1
  <1>4. 0 <= q
    <2>1. ASSUME q + 1 <= 0  PROVE FALSE
      <3>1. (q + 1) * w <= 0 * w
        BY <1>1, <2>1, Scaling
      <3>2. QED
        BY <1>2, <1>3, <3>1
    <2>2. QED
      BY <1>1, <2>1
  <1>5. q <= n
    <2>1. ASSUME n + 1 <= q  PROVE FALSE
      <3>1. (n + 1) * w <= q * w
        BY <1>1, <2>1, Scaling
      <3>2. QED
        BY <1>2, <1>3, <3>1
    <2>2. QED
      BY <1>1, <2>1
  <1>6. QED
    BY <1>1, <1>4, <1>5 DEF q

\* A step to a place on the map leads into a room of the dungeon, and only to
\* the left or to the right into another one: TryChangeRoom refuses no room.
LEMMA RoomsOnTheMap ==
  ASSUME NEW at \in Cells, NEW d \in Directions \cup {NoDirection}, NEW r \in Rooms,
         IsInsideRoom(Box(at, PawnSize), r), CanPlaceBox(Box(Plus(at, d), PawnSize))
  PROVE  /\ RoomAfter(at, d) \in Rooms
         /\ RoomAfter(at, d) # r => /\ d \in {Left, Right}
                                    /\ RoomAfter(at, d) = Plus(r, d)
  <1> DEFINE to == Plus(at, d)
             w == PawnSize[1]
             h == PawnSize[2]
             edge == CASE d[1] > 0 -> Plus(to, <<w - 1, 0>>)
                       [] d[1] <= 0 /\ d[2] > 0 -> Plus(to, <<0, h - 1>>)
                       [] OTHER -> to
  <1>1. d \in Cells /\ to \in Cells /\ PawnSize \in Cells /\ w >= 1 /\ h >= 1
    BY DirectionsAreWays, Moving, Sizes
  <1>2. /\ 0 <= to[1] /\ to[1] + w - 1 < (LastRoom + 1) * RoomWidth
        /\ 0 <= to[2] /\ to[2] + h - 1 < RoomHeight
    BY Layout DEF CanPlaceBox, Box
  <1>3. RoomAfter(at, d) = <<edge[1] \div RoomWidth, edge[2] \div RoomHeight>>
    BY DEF RoomAfter, GetRoomCoordinateAtLeadingEdge, GetRoomCoordinate
  <1>4. /\ edge[1] \in Int /\ edge[2] \in Int
        /\ 0 <= edge[1] /\ edge[1] < (LastRoom + 1) * RoomWidth
        /\ 0 <= edge[2] /\ edge[2] < RoomHeight
    <2>1. to[1] \in Int /\ to[2] \in Int /\ w \in Int /\ h \in Int /\ d[1] \in Int /\ d[2] \in Int
          /\ (LastRoom + 1) * RoomWidth \in Int /\ RoomHeight \in Int
      BY <1>1, Layout, Sizes DEF Cells
    <2>2. edge \in {Plus(to, <<w - 1, 0>>), Plus(to, <<0, h - 1>>), to}
      BY <2>1
    <2> HIDE DEF edge, to, w, h
    <2>3. QED
      BY <1>1, <1>2, <2>1, <2>2 DEF Plus
  <1> HIDE DEF edge
  <1>5. RoomAfter(at, d) \in Rooms
    <2>1. edge[1] \div RoomWidth \in 0 .. LastRoom
      BY <1>4, Layout, Sizes, QuotientBounds
    <2>2. (0 + 1) * RoomHeight = RoomHeight /\ 0 \in Nat
      BY Sizes
    <2>3. edge[2] \div RoomHeight \in 0 .. 0
      BY <1>4, <2>2, Sizes, QuotientBounds
    <2>4. QED
      BY <1>3, <2>1, <2>3 DEF Rooms
  <1>6. RoomAfter(at, d) \in {r, Plus(r, d)}
    BY Layout, StepsIntoRooms
  <1>7. ASSUME RoomAfter(at, d) # r  PROVE d \in {Left, Right} /\ RoomAfter(at, d) = Plus(r, d)
    <2>1. Plus(r, d) \in Rooms /\ RoomAfter(at, d) = Plus(r, d)
      BY <1>5, <1>6, <1>7
    <2>2. r[2] = 0 /\ r[2] + d[2] = 0 /\ d[2] \in Int
      BY <1>1, <2>1 DEF Rooms, Plus, Cells
    <2>3. d[2] = 0
      BY <2>2
    <2>4. d # NoDirection
      BY <1>7, <2>1, Layout DEF Plus, NoDirection, Rooms
    <2>5. QED
      BY <2>1, <2>3, <2>4 DEF Directions, Up, Down, Left, Right
  <1>8. QED
    BY <1>5, <1>7

-----------------------------------------------------------------------------
(* What a room holds when it is entered.                                   *)

LEMMA BossFacts ==
  ASSUME NEW r \in Rooms, r[1] = BossRoom, NEW at \in Cells,
         at[1] = r[1] * RoomWidth \/ at[1] + PawnSize[1] = r[1] * RoomWidth + RoomWidth
  PROVE  LET boss == NewPawn("Aquamentus", TileCell(BossTile), BossHp, Left)
         IN /\ boss \in PawnRecord(Kinds, BossHp) /\ ~IsDead(boss)
            /\ IsInsideRoom(PawnBox(boss), r) /\ ~Overlaps(PawnBox(boss), Box(at, PawnSize))
  <1> DEFINE p == BossTile[1] * TileWidth
             q == BossTile[2] * TileHeight
             boss == NewPawn("Aquamentus", TileCell(BossTile), BossHp, Left)
             b == BossRoom * RoomWidth
  <1>1. /\ BossTile[1] \in Nat /\ BossTile[2] \in Nat
        /\ p >= b + PawnSize[1] /\ p + BossSize[1] + PawnSize[1] <= (BossRoom + 1) * RoomWidth
        /\ q + BossSize[2] <= RoomHeight
    BY LayoutAssumption
  <1>2. /\ p \in Nat /\ q \in Nat /\ b \in Int /\ RoomWidth \in Int /\ RoomHeight \in Int
        /\ (BossRoom + 1) * RoomWidth = b + RoomWidth
        /\ PawnSize[1] \in Nat /\ PawnSize[1] >= 1 /\ BossSize \in Cells /\ BossSize[1] \in Int
        /\ BossSize[2] \in Int
    BY <1>1, Layout, Sizes DEF Cells
  <1>3. TileCell(BossTile) = <<p, q>> /\ <<p, q>> \in Cells
    BY <1>2 DEF TileCell, Cells
  <1>4. boss \in PawnRecord(Kinds, BossHp)
    <2>1. "Aquamentus" \in Kinds /\ Left \in Ways /\ BossHp \in 0 .. BossHp /\ BossHp \in Nat
      BY Layout, DirectionsAreWays DEF Kinds, Directions
    <2>2. QED
      BY <1>3, <2>1, NewPawnIsTyped
  <1>5. ~IsDead(boss) /\ PawnBox(boss) = Box(<<p, q>>, BossSize)
    BY <1>3, Layout DEF NewPawn, IsDead, PawnBox, SizeOf
  <1> HIDE DEF boss, p, q
  <1>6. IsInsideRoom(Box(<<p, q>>, BossSize), r)
    <2>1. r[1] * RoomWidth = b /\ r[2] * RoomHeight = 0 /\ r \in Cells
      BY <1>2, Layout DEF Rooms
    <2> HIDE DEF b
    <2>2. /\ r[1] * RoomWidth <= p /\ p + BossSize[1] <= r[1] * RoomWidth + RoomWidth
          /\ r[2] * RoomHeight <= q /\ q + BossSize[2] <= r[2] * RoomHeight + RoomHeight
      BY <1>1, <1>2, <2>1
    <2>3. QED
      BY <1>2, <1>3, <2>1, <2>2, InsideRoom
  <1>7. ~Overlaps(Box(<<p, q>>, BossSize), Box(at, PawnSize))
    <2>1. at[1] \in Int /\ (at[1] = b \/ at[1] + PawnSize[1] = b + RoomWidth)
      BY DEF Cells
    <2> HIDE DEF b
    <2>2. QED
      BY <1>1, <1>2, <2>1 DEF Overlaps, ShareColumns, Box
  <1>8. QED
    BY <1>4, <1>5, <1>6, <1>7 DEF boss

LEMMA RoomEnemiesFacts ==
  ASSUME NEW r \in Rooms, NEW at \in Cells, NEW plan \in RoomEnemies(r, at),
         r[1] = BossRoom => \/ at[1] = r[1] * RoomWidth
                            \/ at[1] + PawnSize[1] = r[1] * RoomWidth + RoomWidth
  PROVE  /\ DOMAIN plan \subseteq Residents(r)
         /\ \A e \in DOMAIN plan :
              /\ plan[e] \in PawnRecord(Kinds, BossHp) /\ ~IsDead(plan[e])
              /\ IsInsideRoom(PawnBox(plan[e]), r)
              /\ ~Overlaps(PawnBox(plan[e]), Box(at, PawnSize))
         /\ bossDefeated /\ r[1] > RandomEnemyRoomLast => DOMAIN plan = {}
  <1>1. r[1] \in Nat /\ RandomEnemyRoomLast \in Nat /\ RandomEnemyRoomLast < BossRoom /\ BossRoom \in Nat
    BY Layout DEF Rooms
  <1>2. CASE r[1] <= RandomEnemyRoomLast
    <2>1. plan \in SpawnPlans({"Octorok"}, SpawnPositions(r, at))
      BY <1>1, <1>2 DEF RoomEnemies, SpawnRoomEnemies
    <2>2. SpawnPositions(r, at) \in SUBSET Cells /\ BossHp \in Nat \ {0}
      BY Layout, SpawnPositionFacts
    <2>3. /\ DOMAIN plan \subseteq EnemyIds
          /\ \A e \in DOMAIN plan :
               /\ plan[e] \in PawnRecord({"Octorok"}, BossHp) /\ plan[e].at \in SpawnPositions(r, at)
               /\ plan[e].kind \in {"Octorok"} /\ ~IsDead(plan[e])
      BY <2>1, <2>2, SpawnPlanFacts
    <2>4. ASSUME NEW e \in DOMAIN plan
          PROVE  /\ plan[e] \in PawnRecord(Kinds, BossHp) /\ IsInsideRoom(PawnBox(plan[e]), r)
                 /\ ~Overlaps(PawnBox(plan[e]), Box(at, PawnSize))
      <3>1. PawnBox(plan[e]) = Box(plan[e].at, PawnSize)
        BY <2>3 DEF PawnBox, SizeOf
      <3>2. plan[e] \in PawnRecord(Kinds, BossHp)
        BY <2>3 DEF PawnRecord, Kinds
      <3>3. QED
        BY <2>3, <3>1, <3>2, Layout, SpawnPositionFacts
    <2>5. QED
      BY <1>1, <1>2, <2>3, <2>4 DEF Residents
  <1>3. CASE r[1] = BossRoom /\ ~bossDefeated
    <2>1. plan = SpawnBoss
      BY <1>1, <1>3 DEF RoomEnemies
    <2>2. DOMAIN plan = {Boss} /\ plan[Boss] = NewPawn("Aquamentus", TileCell(BossTile), BossHp, Left)
      BY <2>1 DEF SpawnBoss
    <2>3. QED
      BY <1>1, <1>3, <2>2, BossFacts DEF Residents
  <1>4. CASE ~(r[1] <= RandomEnemyRoomLast) /\ ~(r[1] = BossRoom /\ ~bossDefeated)
    <2>1. plan = <<>>
      BY <1>4 DEF RoomEnemies
    <2>2. DOMAIN plan = {}
      BY <2>1
    <2>3. QED
      BY <2>2
  <1>5. QED
    BY <1>2, <1>3, <1>4

-----------------------------------------------------------------------------
(* A step of the player.                                                   *)

\* The room is left to the left from its edge.
LEMMA LeavesAtTheEdge ==
  ASSUME NEW at \in Cells, NEW r \in Cells, IsInsideRoom(Box(at, PawnSize), r),
         RoomAfter(at, Left) # r
  PROVE  at[1] = r[1] * RoomWidth
  <1> DEFINE p == r[1] * RoomWidth
             q == r[2] * RoomHeight
  <1>1. /\ p <= at[1] /\ at[1] + PawnSize[1] <= p + RoomWidth
        /\ q <= at[2] /\ at[2] + PawnSize[2] <= q + RoomHeight
    BY Sizes, InsideRoom
  <1>2. /\ at[1] \in Int /\ at[2] \in Int /\ p \in Int /\ q \in Int /\ r[1] \in Int /\ r[2] \in Int
        /\ RoomWidth \in Nat \ {0} /\ RoomHeight \in Nat \ {0}
        /\ PawnSize[1] \in Int /\ PawnSize[1] >= 1 /\ PawnSize[2] \in Int /\ PawnSize[2] >= 1
        /\ r = <<r[1], r[2]>>
    BY Sizes DEF Cells
  <1>3. RoomAfter(at, Left) = <<(at[1] + -1) \div RoomWidth, (at[2] + 0) \div RoomHeight>>
    BY DEF RoomAfter, GetRoomCoordinateAtLeadingEdge, GetRoomCoordinate, Plus, Left
  <1>4. ASSUME at[1] # p  PROVE FALSE
    <2>1. p <= at[1] + -1 /\ at[1] + -1 < p + RoomWidth /\ q <= at[2] + 0 /\ at[2] + 0 < q + RoomHeight
          /\ at[1] + -1 \in Int /\ at[2] + 0 \in Int
      <3> HIDE DEF p, q
      <3>1. QED
        BY <1>1, <1>2, <1>4
    <2>2. (at[1] + -1) \div RoomWidth = r[1] /\ (at[2] + 0) \div RoomHeight = r[2]
      BY <1>2, <2>1, Division
    <2>3. QED
      BY <1>2, <1>3, <2>2
  <1>5. QED
    BY <1>4


\* One cell walked or pushed, perhaps into another room.
LEMMA StepKeeps ==
  ASSUME IInv, StepIn({"walk", "pushed"}), PlayerCanMoveTo(Destination, FALSE),
         TryChangeRoom(NextRoom, StepEnd),
         player' \in PawnRecord({"Player"}, MaxHp), player'.at = StepEnd, player'.dir = player.dir,
         ~IsDead(player'), stride' = [stride EXCEPT !.left = @ - 1], clock' \in Nat,
         UNCHANGED <<phase, hasSword, input, sword, waiting, gameOverPending, request>>
  PROVE  /\ Typed(Kinds, BossHp)' /\ Placed' /\ Apart' /\ Ordered' /\ Turns' /\ RoomsOwn'
         /\ room' \in Rooms /\ StepEnd \in Cells /\ PawnBox(player)' = Box(StepEnd, PawnSize)
         /\ \/ room' = room /\ enemies' = enemies /\ StepEnd = Destination
            \/ /\ room' = Plus(room, stride.dir) /\ stride.dir \in {Left, Right}
               /\ stride.dir = Left => /\ StepEnd[1] = room[1] * RoomWidth - PawnSize[1]
                                       /\ player.at[1] = room[1] * RoomWidth
               /\ \A e \in DOMAIN enemies' : ~IsDead(enemies'[e])
               /\ bossDefeated /\ room'[1] > RandomEnemyRoomLast => DOMAIN enemies' = {}
  <1> DEFINE d == stride.dir
             next == RoomAfter(player.at, d)
             end == EndOf(player.at, d, room)
  <1>1. /\ room \in Rooms /\ room \in Cells /\ player.at \in Cells /\ player.dir \in Directions
        /\ d \in Directions \cup {NoDirection} /\ stride.left \in FrameSteps
        /\ IsInsideRoom(Box(player.at, PawnSize), room)
    BY Everybody, Layout DEF IInv, TypeOK, Placed, Rooms
  <1>2. /\ Destination = Plus(player.at, d) /\ NextRoom = next /\ StepEnd = end
        /\ CanPlaceBox(Box(Plus(player.at, d), PawnSize))
    BY DEF Destination, NextRoom, StepEnd, RoomAfter, EndOf, PlayerCanMoveTo
  <1>3. /\ next \in Rooms /\ (next # room => d \in {Left, Right} /\ next = Plus(room, d))
    BY <1>1, <1>2, RoomsOnTheMap
  <1>4. /\ end \in Cells /\ IsInsideRoom(Box(end, PawnSize), next)
        /\ next = room => end = Plus(player.at, d)
        /\ next # room /\ d = Left => end[1] = room[1] * RoomWidth - PawnSize[1]
        /\ next # room /\ d = Right => end[1] = room[1] * RoomWidth + RoomWidth
    BY <1>1, StepsIntoRooms
  <1>5. PawnBox(player)' = Box(end, PawnSize)
    <2>1. player'.kind = "Player"
      BY PawnFields
    <2>2. QED
      BY <1>2, <2>1 DEF PawnBox, SizeOf
  <1>6. /\ phase \in {"walk", "pushed"} /\ stride.left > 0
        /\ waiting = {} /\ request = NoRequest
    BY DEF StepIn, IInv, Ordered, Turns
  <1>7. stride' \in [dir : Directions \cup {NoDirection}, left : FrameSteps]
    <2>1. stride \in [dir : Directions \cup {NoDirection}, left : FrameSteps]
      BY Everybody DEF IInv
    <2>2. stride.left - 1 \in FrameSteps
      BY <1>1, <1>6, PawnAssumption DEF FrameSteps
    <2>3. QED
      BY <2>1, <2>2
  <1>8. Ordered' /\ Turns'
    BY <1>6 DEF Ordered, Turns
  <1> HIDE DEF next, end
  <1>9. CASE next = room
    <2>1. UNCHANGED <<room, enemies, shots>>
      BY <1>2, <1>9 DEF TryChangeRoom
    <2>2. Typed(Kinds, BossHp)'
      <3>1. CombatTypeOK(Kinds, BossHp) /\ shots \subseteq Shot(DOMAIN enemies)
        BY DEF IInv, Typed
      <3>2. CombatTypeOK(Kinds, BossHp)'
        BY <1>6, <1>7, <2>1, <3>1 DEF CombatTypeOK
      <3>3. QED
        BY <1>1, <2>1, <3>1, <3>2 DEF Typed
    <2>3. /\ Living' = Living /\ \A e \in Living : PawnBox(enemies[e])' = PawnBox(enemies[e])
      BY <2>1 DEF Living, PawnBox, SizeOf
    <2>4. Placed'
      BY <1>4, <1>5, <1>9, <2>1, <2>3 DEF IInv, Placed
    <2>5. Apart'
      <3>1. \A e \in Living : ~Overlaps(Box(Destination, PawnSize), PawnBox(enemies[e]))
        BY DEF PlayerCanMoveTo
      <3>2. end = Destination
        BY <1>2, <1>4, <1>9
      <3>3. QED
        BY <1>5, <2>3, <3>1, <3>2, OverlapsIsSymmetric DEF Apart
    <2>6. RoomsOwn'
      BY <2>1 DEF IInv, RoomsOwn
    <2>7. QED
      BY <1>1, <1>2, <1>4, <1>5, <1>8, <1>9, <2>1, <2>2, <2>4, <2>5, <2>6
  <1>10. CASE next # room
    <2>1. room' = next /\ shots' = {} /\ enemies' \in RoomEnemies(next, end)
      <3>1. next[1] \in 0 .. LastRoom /\ next[2] = 0
        BY <1>3 DEF Rooms
      <3>2. QED
        BY <1>2, <1>10, <3>1 DEF TryChangeRoom
    <2>2. next[1] * RoomWidth = end[1] \/ end[1] + PawnSize[1] = next[1] * RoomWidth + RoomWidth
      <3>1. /\ room[1] \in Int /\ RoomWidth \in Int /\ PawnSize[1] \in Int
            /\ (room[1] + 1) * RoomWidth = room[1] * RoomWidth + RoomWidth
            /\ (room[1] + (-1)) * RoomWidth = room[1] * RoomWidth - RoomWidth
            /\ room[1] * RoomWidth \in Int
        BY <1>1, Sizes DEF Cells
      <3>2. CASE d = Left
        <4>1. next[1] = room[1] + (-1) /\ end[1] = room[1] * RoomWidth - PawnSize[1]
          BY <1>3, <1>4, <1>10, <3>2 DEF Plus, Left
        <4>2. QED
          BY <3>1, <4>1
      <3>3. CASE d = Right
        <4>1. next[1] = room[1] + 1 /\ end[1] = room[1] * RoomWidth + RoomWidth
          BY <1>3, <1>4, <1>10, <3>3 DEF Plus, Right
        <4>2. QED
          BY <3>1, <4>1
      <3>4. QED
        BY <1>3, <1>10, <3>2, <3>3
    <2>3. /\ DOMAIN enemies' \subseteq Residents(next)
          /\ \A e \in DOMAIN enemies' :
               /\ enemies'[e] \in PawnRecord(Kinds, BossHp) /\ ~IsDead(enemies'[e])
               /\ IsInsideRoom(PawnBox(enemies'[e]), next)
               /\ ~Overlaps(PawnBox(enemies'[e]), Box(end, PawnSize))
          /\ bossDefeated /\ next[1] > RandomEnemyRoomLast => DOMAIN enemies' = {}
      <3>1. next[1] = BossRoom => \/ end[1] = next[1] * RoomWidth
                                  \/ end[1] + PawnSize[1] = next[1] * RoomWidth + RoomWidth
        BY <2>2
      <3>2. QED
        BY <1>3, <1>4, <2>1, <3>1, RoomEnemiesFacts
    <2>4. Typed(Kinds, BossHp)'
      <3>1. CombatTypeOK(Kinds, BossHp)
        BY DEF IInv, Typed
      <3>2. next \in Int \X Int
        BY <1>3, Layout DEF Cells
      <3>3. CombatTypeOK(Kinds, BossHp)'
        BY <1>6, <1>7, <2>1, <2>3, <3>1, <3>2 DEF CombatTypeOK
      <3>4. QED
        BY <1>1, <2>1, <3>3 DEF Typed
    <2>5. Placed' /\ Apart'
      BY <1>4, <1>5, <2>1, <2>3 DEF Placed, Apart, Living, PawnBox, SizeOf
    <2>6. RoomsOwn'
      BY <2>1, <2>3 DEF RoomsOwn
    <2>7. d = Left => player.at[1] = room[1] * RoomWidth
      BY <1>1, <1>10, LeavesAtTheEdge DEF next
    <2>8. QED
      BY <1>2, <1>3, <1>4, <1>5, <1>8, <1>10, <2>1, <2>3, <2>4, <2>5, <2>6, <2>7
  <1>11. QED  BY <1>9, <1>10

-----------------------------------------------------------------------------
(* The steps in which nobody goes anywhere.                                *)

LEMMA SceneKeeps ==
  ASSUME IInv, Typed(Kinds, BossHp)', Ordered', Turns', SceneStays,
         UNCHANGED <<heartCollected, triforceCollected, clearPending>>,
         request' \in {NoRequest, "Overworld", "GameOver", "Clear"},
         bossDefeated' \in BOOLEAN, bossKilled' \in BOOLEAN,
         bossDefeated => bossDefeated', bossDefeated' => bossKilled',
         Boss \in DOMAIN enemies /\ ~bossKilled' => ~IsDead(enemies'[Boss]),
         clearPending => /\ ~IsDead(player') /\ request' \in {NoRequest, "Clear"}
                         /\ phase' # "pushed"
                         /\ phase' = "walk" => phase = "walk" /\ stride'.left <= stride.left
  PROVE  IInv'
  <1>1. Placed' /\ Apart'
    BY SceneStaysKeeps DEF IInv
  <1>2. TypeOK'
    BY DEF IInv, TypeOK, Typed, Kinds, SceneStays
  <1>3. RoomsOwn'
    BY DEF IInv, RoomsOwn, SceneStays
  <1>4. Rewards'
    BY DEF IInv, Rewards, SceneStays
  <1>5. Calm'
    <2>1. CASE clearPending /\ phase' = "walk" /\ room[1] # LastRoom
      <3>1. /\ room[1] = LastRoom - 1
            /\ player.at[1] - stride.left >= LastRoom * RoomWidth - PawnSize[1] - StepsPerFrame
        BY <2>1 DEF IInv, Calm
      <3>2. /\ player.at[1] \in Int /\ stride.left \in Int /\ stride'.left \in Int
            /\ LastRoom * RoomWidth - PawnSize[1] - StepsPerFrame \in Int
        <4>1. \A k \in FrameSteps : k \in Int
          BY Steps
        <4>2. stride.left \in FrameSteps /\ stride'.left \in FrameSteps
          BY DEF IInv, Typed, CombatTypeOK
        <4>3. player.at \in Cells
          BY Everybody DEF IInv
        <4>4. QED
          BY <4>1, <4>2, <4>3, Layout, Sizes, PawnAssumption DEF Cells
      <3>3. player'.at[1] - stride'.left >= LastRoom * RoomWidth - PawnSize[1] - StepsPerFrame
        <4> DEFINE bound == LastRoom * RoomWidth - PawnSize[1] - StepsPerFrame
        <4>1. player'.at[1] = player.at[1] /\ stride'.left <= stride.left
          BY <2>1 DEF SceneStays
        <4> HIDE DEF bound
        <4>2. player'.at[1] - stride'.left >= bound
          BY <3>1, <3>2, <4>1 DEF bound
        <4>3. QED
          BY <4>2 DEF bound
      <3>4. QED
        BY <2>1, <3>1, <3>3 DEF IInv, Calm, SceneStays
    <2>2. CASE ~(clearPending /\ phase' = "walk" /\ room[1] # LastRoom)
      BY <2>2 DEF IInv, Calm, SceneStays
    <2>3. QED  BY <2>1, <2>2
  <1>6. QED
    BY <1>1, <1>2, <1>3, <1>4, <1>5 DEF IInv

LEMMA NobodyHurtKeeps ==
  ASSUME IInv, Typed(Kinds, BossHp)', Ordered', Turns', NobodyHurt, UNCHANGED dungeonVars,
         request' \in {request, "Overworld", "GameOver", "Clear"},
         clearPending => /\ request' \in {NoRequest, "Clear"} /\ phase' # "pushed"
                         /\ phase' = "walk" => phase = "walk" /\ stride'.left <= stride.left
  PROVE  IInv'
  <1>1. SceneStays /\ player'.hp = player.hp
        /\ \A e \in DOMAIN enemies : enemies'[e].hp = enemies[e].hp
    BY DEF NobodyHurt
  <1>2. request' \in {NoRequest, "Overworld", "GameOver", "Clear"}
        /\ bossDefeated' \in BOOLEAN /\ bossKilled' \in BOOLEAN
    BY DEF IInv, TypeOK, dungeonVars
  <1>3. /\ bossDefeated => bossDefeated'
        /\ bossDefeated' => bossKilled'
        /\ Boss \in DOMAIN enemies /\ ~bossKilled' => ~IsDead(enemies'[Boss])
    BY <1>1 DEF IInv, Rewards, dungeonVars, IsDead
  <1>4. clearPending => ~IsDead(player')
    BY <1>1 DEF IInv, Calm, IsDead
  <1>5. QED
    BY <1>1, <1>2, <1>3, <1>4, SceneKeeps DEF dungeonVars

LEMMA EngineStepKeeps ==
  ASSUME IInv, EngineStep
  PROVE  IInv' /\ NobodyHurt
  <1>1. ActorsTick \/ FinishFrame \/ LeaveLevel
    BY DEF EngineStep
  <1>2. Typed(Kinds, BossHp) /\ Ordered /\ Turns
    BY DEF IInv
  <1>3. Typed(Kinds, BossHp)' /\ Ordered' /\ NobodyHurt
    BY <1>1, <1>2, ActorsTickKeeps, FinishFrameKeeps, LeaveLevelKeeps
  <1>4. Turns'
    BY <1>1, <1>2, TurnsKept
  <1>5. UNCHANGED dungeonVars /\ request' = request /\ phase' \notin {"pushed", "walk"}
    BY <1>1 DEF EngineStep, ActorsTick, FinishFrame, LeaveLevel
  <1>6. clearPending => request' \in {NoRequest, "Clear"}
    BY <1>5 DEF IInv, Calm
  <1>7. QED
    BY <1>3, <1>4, <1>5, <1>6, NobodyHurtKeeps

LEMMA AwaitClearKeeps ==
  ASSUME IInv, AwaitClear
  PROVE  IInv' /\ NobodyHurt
  <1>1. /\ phase = "player" /\ clearPending /\ phase' = "collide" /\ input' = NoDirection
        /\ clock' = Smaller(clock + 1, ClearFrames)
        /\ request' = IF clock' = ClearFrames THEN "Clear" ELSE request
        /\ UNCHANGED <<room, player, hasSword, stride, sword, enemies, waiting, shots, gameOverPending>>
        /\ UNCHANGED dungeonVars
    BY DEF AwaitClear
  <1>2. Typed(Kinds, BossHp) /\ Ordered /\ Turns
    BY DEF IInv
  <1>3. clock' \in Nat
    BY <1>1, <1>2, Everybody, DungeonAssumption DEF Smaller
  <1>4. Typed(Kinds, BossHp)' /\ NobodyHurt
    <2>1. /\ stride' \in [dir : Directions \cup {NoDirection}, left : FrameSteps]
          /\ sword' \in [dir : Directions \cup {NoDirection}, fresh : BOOLEAN, placed : BOOLEAN]
          /\ waiting' \subseteq DOMAIN enemies /\ gameOverPending' \in BOOLEAN
      BY <1>1, <1>2 DEF Typed, CombatTypeOK
    <2>2. QED
      BY <1>1, <1>2, <1>3, <2>1, Rests, ControlOnly
  <1>5. Ordered' /\ Turns'
    BY <1>1, <1>2 DEF Ordered, Turns
  <1>6. request' \in {request, "Clear"}
    BY <1>1
  <1>7. clearPending => request' \in {NoRequest, "Clear"}
    BY <1>6 DEF IInv, Calm
  <1>8. QED
    BY <1>1, <1>4, <1>5, <1>6, <1>7, NobodyHurtKeeps

LEMMA TickKeeps ==
  ASSUME IInv, Tick
  PROVE  IInv' /\ NobodyHurt
  <1>1. CASE AwaitClear
    BY <1>1, AwaitClearKeeps
  <1>2. CASE /\ ~clearPending /\ UNCHANGED dungeonVars
             /\ AwaitGameOver \/ StartKnockback \/ StartWalk \/ StandStill \/ Attack
    <2>1. Typed(Kinds, BossHp) /\ Ordered /\ Turns
      BY DEF IInv
    <2>2. Typed(Kinds, BossHp)' /\ Ordered' /\ NobodyHurt
      BY <1>2, <2>1, AwaitGameOverKeeps, StartKnockbackKeeps, StartWalkKeeps, StandStillKeeps,
         AttackKeeps
    <2>3. Turns'
      BY <1>2, <2>1, TurnsKept
    <2>4. request' \in {request, "GameOver"}
      BY <1>2 DEF AwaitGameOver, StartKnockback, StartWalk, StandStill, Attack
    <2>5. QED
      BY <1>2, <2>2, <2>3, <2>4, NobodyHurtKeeps
  <1>3. QED
    BY <1>1, <1>2 DEF Tick

LEMMA StoppedKeeps ==
  ASSUME IInv, Stopped
  PROVE  IInv' /\ NobodyHurt
  <1>1. Blocked /\ UNCHANGED dungeonVars /\ phase \in {"walk", "pushed"}
    BY DEF Stopped, StepIn
  <1>2. Typed(Kinds, BossHp) /\ Ordered /\ Turns
    BY DEF IInv
  <1>3. Typed(Kinds, BossHp)' /\ Ordered' /\ NobodyHurt
    BY <1>1, <1>2, BlockedKeeps
  <1>4. Turns'
    BY <1>1, <1>2, TurnsKept
  <1>5. /\ request' = request /\ phase' = phase
        /\ stride'.left <= stride.left
    <2>1. stride \in [dir : Directions \cup {NoDirection}, left : FrameSteps]
      BY <1>2, Everybody
    <2>2. stride'.left = 0 /\ stride.left \in FrameSteps
      BY <1>1, <2>1 DEF Blocked
    <2>3. stride.left \in Nat
      BY <2>2, Steps
    <2>4. QED
      BY <1>1, <2>2, <2>3 DEF Blocked
  <1>6. clearPending => request' \in {NoRequest, "Clear"} /\ phase' # "pushed"
    BY <1>5 DEF IInv, Calm
  <1>7. QED
    BY <1>1, <1>3, <1>4, <1>5, <1>6, NobodyHurtKeeps

-----------------------------------------------------------------------------
(* The player's move.                                                      *)

\* Whoever touches the triforce is in its room.
LEMMA TriforceIsInTheLastRoom ==
  ASSUME NEW at \in Cells, NEW r \in Rooms, IsInsideRoom(Box(at, PawnSize), r),
         IsPlayerOverlappingTile(at, TriforceTile)
  PROVE  r[1] = LastRoom
  <1>1. /\ at[1] \in Int /\ RoomWidth \in Nat \ {0} /\ TileWidth \in Nat /\ RoomTileWidth \in Nat
        /\ PawnSize[1] \in Int /\ LastRoom \in Nat /\ r \in Cells /\ r[1] \in 0 .. LastRoom
        /\ TriforceTile[1] \in Nat /\ TriforceTile[1] >= LastRoom * RoomTileWidth
    BY Sizes, Layout, GeometryAssumption, LayoutAssumption DEF Cells, Rooms
  <1>2. TriforceTile[1] * TileWidth <= at[1] + PawnSize[1] - 1
    BY DEF IsPlayerOverlappingTile, Overlaps, ShareColumns, Box, TileCell
  <1>3. LastRoom * RoomWidth <= TriforceTile[1] * TileWidth
    <2>1. (LastRoom * RoomTileWidth) * TileWidth <= TriforceTile[1] * TileWidth
      <3>1. LastRoom * RoomTileWidth \in Int
        BY <1>1
      <3>2. QED
        BY <1>1, <3>1, Scaling
    <2>2. (LastRoom * RoomTileWidth) * TileWidth = LastRoom * (RoomTileWidth * TileWidth)
      BY <1>1
    <2>3. QED
      BY <2>1, <2>2 DEF RoomWidth
  <1>4. at[1] + PawnSize[1] <= r[1] * RoomWidth + RoomWidth
    BY <1>1, Sizes, InsideRoom
  <1>5. ASSUME r[1] # LastRoom  PROVE FALSE
    <2>1. r[1] + 1 <= LastRoom /\ r[1] + 1 \in Int
      BY <1>1, <1>5
    <2>2. (r[1] + 1) * RoomWidth <= LastRoom * RoomWidth
      BY <1>1, <2>1, Scaling
    <2>3. (r[1] + 1) * RoomWidth = r[1] * RoomWidth + RoomWidth
      BY <1>1
    <2>4. /\ r[1] * RoomWidth \in Int /\ LastRoom * RoomWidth \in Int
          /\ TriforceTile[1] * TileWidth \in Int
      BY <1>1
    <2>5. QED
      BY <1>1, <1>2, <1>3, <1>4, <2>2, <2>3, <2>4
  <1>6. QED
    BY <1>5

\* The exit is far from the triforce: its holder does not leave by it.
LEMMA HoldersStay ==
  ASSUME IInv, phase = "walk", LeavesDungeon
  PROVE  ~clearPending
  <1> SUFFICES ASSUME clearPending  PROVE FALSE
    OBVIOUS
  <1>1. /\ room[1] \in Int /\ room[1] >= 1 /\ room \in Cells /\ player.at \in Cells
        /\ IsInsideRoom(Box(player.at, PawnSize), room)
    <2>1. room \in Rooms /\ (room[1] = LastRoom \/ room[1] = LastRoom - 1)
      BY DEF IInv, TypeOK, Calm, Rooms
    <2>2. QED
      BY <2>1, Layout, Everybody DEF IInv, Placed, Rooms
  <1>2. /\ RoomWidth \in Nat /\ TileWidth \in Nat /\ RoomTileWidth \in Nat
        /\ ExitTileX + ExitTileWidth \in Int /\ ExitTileX + ExitTileWidth <= RoomTileWidth
    BY Sizes, GeometryAssumption, LayoutAssumption
  <1>3. player.at[1] >= room[1] * RoomWidth /\ player.at[1] \in Int
    BY <1>1, Sizes, InsideRoom DEF Cells
  <1>4. 1 * RoomWidth <= room[1] * RoomWidth /\ room[1] * RoomWidth \in Int
    BY <1>1, <1>2, Scaling
  <1>5. (ExitTileX + ExitTileWidth) * TileWidth <= RoomWidth
    BY <1>2, Scaling DEF RoomWidth
  <1>6. player.at[1] + 0 < (ExitTileX + ExitTileWidth) * TileWidth
    BY DEF LeavesDungeon, Destination, Plus, Down, Box
  <1>7. (ExitTileX + ExitTileWidth) * TileWidth \in Int
    BY <1>2
  <1>8. QED
    BY <1>2, <1>3, <1>4, <1>5, <1>6, <1>7

LEMMA TryExitDungeonKeeps ==
  ASSUME IInv, TryExitDungeon
  PROVE  /\ IInv' /\ NobodyHurt /\ ~clearPending
         /\ request = NoRequest /\ request' = "Overworld" /\ ~IsDead(player)
         /\ UNCHANGED <<player, hasSword, phase>>
  <1>1. /\ phase = "walk" /\ stride.left > 0 /\ LeavesDungeon /\ request' = "Overworld"
        /\ stride' = [stride EXCEPT !.left = 0]
        /\ UNCHANGED <<phase, room, player, hasSword, input, sword,
                       enemies, waiting, shots, gameOverPending, clock>>
        /\ UNCHANGED dungeonVars
    BY DEF TryExitDungeon, StepIn
  <1>2. Typed(Kinds, BossHp) /\ Ordered /\ Turns
    BY DEF IInv
  <1>3. stride' \in [dir : Directions \cup {NoDirection}, left : FrameSteps] /\ stride'.left = 0
    <2>1. stride \in [dir : Directions \cup {NoDirection}, left : FrameSteps] /\ 0 \in FrameSteps
      BY <1>2, Everybody, Steps
    <2>2. QED
      BY <1>1, <2>1
  <1>4. Typed(Kinds, BossHp)' /\ NobodyHurt
    <2>1. /\ sword' \in [dir : Directions \cup {NoDirection}, fresh : BOOLEAN, placed : BOOLEAN]
          /\ waiting' \subseteq DOMAIN enemies /\ gameOverPending' \in BOOLEAN /\ clock' \in Nat
          /\ input' \in Directions \cup {NoDirection}
      BY <1>1, <1>2 DEF Typed, CombatTypeOK
    <2>2. QED
      BY <1>1, <1>2, <1>3, <2>1, ControlOnly
  <1>5. Ordered' /\ Turns'
    BY <1>1, <1>2, <1>3 DEF Ordered, Turns
  <1>6. ~clearPending
    BY <1>1, HoldersStay
  <1>7. request = NoRequest /\ ~IsDead(player)
    BY <1>1, <1>2 DEF Ordered
  <1>8. QED
    BY <1>1, <1>4, <1>5, <1>6, <1>7, NobodyHurtKeeps


\* Where a step leads is a cell.
LEMMA StepEndIsACell ==
  ASSUME IInv, StepIn({"walk", "pushed"})
  PROVE  StepEnd \in Cells
  <1>1. /\ room \in Cells /\ player.at \in Cells /\ stride.dir \in Directions \cup {NoDirection}
        /\ IsInsideRoom(Box(player.at, PawnSize), room)
    BY Everybody DEF IInv, Placed
  <1>2. EndOf(player.at, stride.dir, room) \in Cells
    BY <1>1, StepsIntoRooms
  <1>3. QED
    BY <1>2 DEF EndOf, StepEnd, Destination, NextRoom

\* Where the holder of the triforce is after a step of its last frame.
HolderSteps(at) ==
  /\ DOMAIN enemies' = {}
  /\ \/ room'[1] = LastRoom
     \/ /\ room'[1] = LastRoom - 1
        /\ at[1] - stride'.left >= LastRoom * RoomWidth - PawnSize[1] - StepsPerFrame

\* A frame is too short to take it further than the room before the last.
LEMMA HolderKeepsClose ==
  ASSUME IInv, clearPending, phase = "walk", stride' = [stride EXCEPT !.left = @ - 1],
         stride.left > 0, room' \in Rooms,
         \/ room' = room /\ enemies' = enemies /\ StepEnd = Destination
         \/ /\ room' = Plus(room, stride.dir) /\ stride.dir \in {Left, Right}
            /\ stride.dir = Left => /\ StepEnd[1] = room[1] * RoomWidth - PawnSize[1]
                                    /\ player.at[1] = room[1] * RoomWidth
            /\ bossDefeated /\ room'[1] > RandomEnemyRoomLast => DOMAIN enemies' = {}
  PROVE  HolderSteps(StepEnd)
  <1> DEFINE x == player.at[1]
             n == stride.left
             far == LastRoom * RoomWidth
             w == PawnSize[1]
             W == RoomWidth
             p == StepsPerFrame
  <1>1. /\ DOMAIN enemies = {} /\ bossDefeated
        /\ room[1] = LastRoom \/ (room[1] = LastRoom - 1 /\ x - n >= far - w - p)
    BY DEF IInv, Calm, Rewards
  <1>2. /\ x \in Int /\ n \in Int /\ 1 <= n /\ n <= p /\ p \in Int /\ far \in Int /\ w \in Int
        /\ W \in Int /\ w + p <= W
        /\ (LastRoom - 1) * RoomWidth = far - W
        /\ stride'.left = n - 1 /\ stride.dir \in Directions \cup {NoDirection}
    <2>1. stride \in [dir : Directions \cup {NoDirection}, left : FrameSteps] /\ player.at \in Cells
      BY Everybody DEF IInv
    <2>2. n \in FrameSteps /\ stride'.left = n - 1 /\ stride.dir \in Directions \cup {NoDirection}
      BY <2>1
    <2>3. n \in Int /\ 1 <= n /\ n <= p
      BY <2>2, Steps DEF FrameSteps
    <2>4. (LastRoom - 1) * RoomWidth = LastRoom * RoomWidth - RoomWidth
      BY Layout, Sizes
    <2>5. x \in Int /\ p \in Int /\ w \in Int /\ W \in Int /\ far \in Int
      <3>1. LastRoom \in Int /\ RoomWidth \in Int /\ PawnSize \in Cells /\ StepsPerFrame \in Int
        BY Layout, Sizes, Steps
      <3>2. LastRoom * RoomWidth \in Int
        BY <3>1
      <3>3. QED
        BY <2>1, <3>1, <3>2 DEF Cells
    <2>6. w + p <= W
      BY LayoutAssumption
    <2>7. QED
      BY <2>2, <2>3, <2>4, <2>5, <2>6
  <1> HIDE DEF x, n, far, w, W, p
  <1>3. CASE room' = room /\ enemies' = enemies /\ StepEnd = Destination
    <2>1. StepEnd[1] \in Int /\ StepEnd[1] >= x - 1
      BY <1>2, <1>3 DEF Destination, Plus, Directions, Up, Down, Left, Right, NoDirection, x
    <2>2. x - n >= far - w - p => StepEnd[1] - stride'.left >= far - w - p
      BY <1>2, <2>1
    <2>3. QED
      BY <1>1, <1>3, <2>2 DEF HolderSteps, far, w, p
  <1>4. CASE /\ room' = Plus(room, stride.dir) /\ stride.dir \in {Left, Right}
             /\ stride.dir = Left => /\ StepEnd[1] = room[1] * RoomWidth - PawnSize[1]
                                     /\ player.at[1] = room[1] * RoomWidth
             /\ bossDefeated /\ room'[1] > RandomEnemyRoomLast => DOMAIN enemies' = {}
    <2>1. room'[1] = room[1] + stride.dir[1] /\ room'[1] \in 0 .. LastRoom /\ room[1] \in Int
      BY <1>1, <1>4, Layout DEF Plus, Rooms
    <2>2. CASE stride.dir = Right
      <3>1. room'[1] = room[1] + 1
        BY <2>1, <2>2 DEF Right
      <3>2. room'[1] = LastRoom
        BY <1>1, <2>1, <3>1, Layout
      <3>3. QED
        BY <1>1, <1>4, <3>2, Layout DEF HolderSteps
    <2>3. CASE stride.dir = Left /\ room[1] = LastRoom
      <3>1. room'[1] = LastRoom - 1
        BY <2>1, <2>3, Layout DEF Left
      <3>2. DOMAIN enemies' = {}
        BY <1>1, <1>4, <3>1, Layout
      <3>3. StepEnd[1] - stride'.left >= far - w - p
        <4>1. StepEnd[1] = far - w
          BY <1>4, <2>3 DEF far, w
        <4>2. QED
          BY <1>2, <4>1
      <3>4. QED
        BY <3>1, <3>2, <3>3 DEF HolderSteps, far, w, p
    <2>4. CASE stride.dir = Left /\ room[1] # LastRoom
      <3>1. x = far - W /\ x - n >= far - w - p
        BY <1>1, <1>2, <1>4, <2>4 DEF x
      <3>2. QED
        BY <1>2, <3>1
    <2>5. QED
      BY <1>4, <2>2, <2>3, <2>4
  <1>5. QED  BY <1>3, <1>4

\* What a step leaves of the invariant when it is known to leave the holder of
\* the triforce calm.
LEMMA StepInvariant ==
  ASSUME IInv, Typed(Kinds, BossHp)', Placed', Apart', Ordered', Turns', RoomsOwn', room' \in Rooms,
         UNCHANGED <<bossDefeated, bossKilled, request>>,
         heartCollected' \in BOOLEAN, triforceCollected' \in BOOLEAN, clearPending' \in BOOLEAN,
         heartCollected' \/ triforceCollected' => bossDefeated,
         clearPending' <=> triforceCollected',
         enemies' = enemies \/ \A e \in DOMAIN enemies' : ~IsDead(enemies'[e]),
         Calm'
  PROVE  IInv'
  <1>1. TypeOK'
    <2>1. DOMAIN enemies' \subseteq EnemyIds \cup {Boss}
      BY DEF RoomsOwn, Residents
    <2>2. QED
      BY <2>1 DEF IInv, TypeOK, Typed, Kinds, Rooms
  <1>2. Rewards'
    BY DEF IInv, Rewards
  <1>3. QED
    BY <1>1, <1>2 DEF IInv

LEMMA UpdatePawnKnockbackKeeps ==
  ASSUME IInv, UpdatePawnKnockback
  PROVE  /\ IInv' /\ UNCHANGED <<hasSword, phase, request>> /\ UNCHANGED dungeonVars
         /\ player'.hp = player.hp
  <1>1. /\ StepIn({"pushed"}) /\ PlayerCanMoveTo(Destination, FALSE)
        /\ TryChangeRoom(NextRoom, StepEnd)
        /\ player' = [player EXCEPT !.at = StepEnd]
        /\ stride' = [stride EXCEPT !.left = @ - 1]
        /\ UNCHANGED <<phase, hasSword, input, sword, waiting, gameOverPending, clock, request>>
        /\ UNCHANGED dungeonVars
    BY DEF UpdatePawnKnockback, CanStep
  <1>2. phase = "pushed" /\ StepIn({"walk", "pushed"}) /\ ~clearPending /\ ~IsDead(player)
    BY <1>1 DEF StepIn, IInv, Calm, Ordered
  <1>3. StepEnd \in Cells
    BY <1>2, StepEndIsACell
  <1>4. /\ player' \in PawnRecord({"Player"}, MaxHp) /\ player'.at = StepEnd
        /\ player'.dir = player.dir /\ player'.hp = player.hp /\ clock' \in Nat
    <2>1. player \in PawnRecord({"Player"}, MaxHp) /\ clock \in Nat
      BY Everybody DEF IInv
    <2>2. QED
      BY <1>1, <1>3, <2>1 DEF PawnRecord, Cells
  <1>5. ~IsDead(player')
    BY <1>2, <1>4 DEF IsDead
  <1>6. /\ Typed(Kinds, BossHp)' /\ Placed' /\ Apart' /\ Ordered' /\ Turns' /\ RoomsOwn'
        /\ room' \in Rooms
        /\ enemies' = enemies \/ \A e \in DOMAIN enemies' : ~IsDead(enemies'[e])
    BY <1>1, <1>2, <1>4, <1>5, StepKeeps
  <1>7. Calm'
    BY <1>1, <1>2 DEF Calm, dungeonVars
  <1>8. /\ heartCollected' \in BOOLEAN /\ triforceCollected' \in BOOLEAN /\ clearPending' \in BOOLEAN
        /\ heartCollected' \/ triforceCollected' => bossDefeated
        /\ clearPending' <=> triforceCollected'
        /\ UNCHANGED <<bossDefeated, bossKilled>>
    BY <1>1 DEF IInv, TypeOK, Rewards, dungeonVars
  <1>9. IInv'
    BY <1>1, <1>6, <1>7, <1>8, StepInvariant
  <1>10. QED
    BY <1>1, <1>4, <1>9

\* What is taken in a step, and where the holder of the triforce then is.
LEMMA UpdatePlayerMovementKeeps ==
  ASSUME IInv, UpdatePlayerMovement
  PROVE  /\ IInv' /\ UNCHANGED <<hasSword, phase, request, bossDefeated>>
         /\ ~IsDead(player) /\ request = NoRequest
         /\ heartCollected => heartCollected'
         /\ triforceCollected => triforceCollected'
         /\ player'.hp = IF heartCollected' /\ ~heartCollected THEN MaxHp ELSE player.hp
  <1> DEFINE heart == bossDefeated /\ ~heartCollected /\ IsPlayerOverlappingTile(StepEnd, HeartTile)
             triforce == /\ bossDefeated /\ ~triforceCollected
                         /\ IsPlayerOverlappingTile(StepEnd, TriforceTile)
  <1>1. /\ StepIn({"walk"}) /\ PlayerCanMoveTo(Destination, FALSE)
        /\ TryChangeRoom(NextRoom, StepEnd)
        /\ stride' = [stride EXCEPT !.left = @ - 1]
        /\ UNCHANGED <<phase, hasSword, input, sword, waiting, gameOverPending,
                       request, bossDefeated, bossKilled>>
    BY DEF UpdatePlayerMovement, CanStep
  <1>2. /\ heartCollected' = (heartCollected \/ heart)
        /\ triforceCollected' = (triforceCollected \/ triforce)
        /\ clearPending' = (clearPending \/ triforce)
        /\ clock' = IF triforce THEN 0 ELSE clock
        /\ player' = [player EXCEPT !.at = StepEnd, !.hp = IF heart THEN MaxHp ELSE @]
    BY DEF UpdatePlayerMovement, TryCollectItems
  <1> HIDE DEF heart, triforce
  <1>3. phase = "walk" /\ StepIn({"walk", "pushed"}) /\ ~IsDead(player) /\ request = NoRequest
    BY <1>1 DEF StepIn, IInv, Ordered
  <1>4. StepEnd \in Cells
    BY <1>3, StepEndIsACell
  <1>5. /\ player' \in PawnRecord({"Player"}, MaxHp) /\ player'.at = StepEnd
        /\ player'.dir = player.dir /\ clock' \in Nat
        /\ player'.hp = IF heart THEN MaxHp ELSE player.hp
    <2>1. player \in PawnRecord({"Player"}, MaxHp) /\ clock \in Nat /\ 0 \in Nat
      BY Everybody DEF IInv
    <2>2. MaxHp \in 0 .. MaxHp
      BY CombatAssumption
    <2>3. player.hp \in 0 .. MaxHp
      BY <2>1, PawnFields
    <2>4. (IF heart THEN MaxHp ELSE player.hp) \in 0 .. MaxHp
      BY <2>2, <2>3
    <2>5. player' = [player EXCEPT !.at = StepEnd, !.hp = IF heart THEN MaxHp ELSE player.hp]
      BY <1>2
    <2>6. clock' \in Nat
      BY <1>2, <2>1
    <2>7. QED
      BY <1>4, <2>1, <2>4, <2>5, <2>6 DEF PawnRecord, Cells
  <1>6. ~IsDead(player')
    BY <1>3, <1>5, CombatAssumption DEF IsDead
  <1>7. /\ Typed(Kinds, BossHp)' /\ Placed' /\ Apart' /\ Ordered' /\ Turns' /\ RoomsOwn'
        /\ room' \in Rooms /\ PawnBox(player)' = Box(StepEnd, PawnSize)
        /\ \/ room' = room /\ enemies' = enemies /\ StepEnd = Destination
           \/ /\ room' = Plus(room, stride.dir) /\ stride.dir \in {Left, Right}
              /\ stride.dir = Left => /\ StepEnd[1] = room[1] * RoomWidth - PawnSize[1]
                                      /\ player.at[1] = room[1] * RoomWidth
              /\ \A e \in DOMAIN enemies' : ~IsDead(enemies'[e])
              /\ bossDefeated /\ room'[1] > RandomEnemyRoomLast => DOMAIN enemies' = {}
    BY <1>1, <1>3, <1>5, <1>6, StepKeeps
  <1>8. /\ heartCollected' \in BOOLEAN /\ triforceCollected' \in BOOLEAN /\ clearPending' \in BOOLEAN
        /\ heartCollected' \/ triforceCollected' => bossDefeated
        /\ clearPending' <=> triforceCollected'
    BY <1>2 DEF IInv, TypeOK, Rewards, heart, triforce
  <1>9. Calm'
    <2>1. CASE triforce
      <3>1. room'[1] = LastRoom
        <4>1. IsInsideRoom(Box(StepEnd, PawnSize), room')
          BY <1>7 DEF Placed
        <4>2. QED
          BY <1>4, <1>7, <2>1, <4>1, TriforceIsInTheLastRoom DEF triforce
      <3>2. DOMAIN enemies' = {}
        <4>1. Residents(room') = {}
          BY <3>1, Layout DEF Residents
        <4>2. QED
          BY <1>7, <4>1 DEF RoomsOwn
      <3>3. QED
        BY <1>1, <1>3, <1>6, <3>1, <3>2 DEF Calm
    <2>2. CASE clearPending /\ ~triforce
      <3>1. HolderSteps(StepEnd)
        <4>1. stride.left > 0
          BY <1>1 DEF StepIn
        <4>2. QED
          BY <1>1, <1>3, <1>7, <2>2, <4>1, HolderKeepsClose
      <3>2. QED
        BY <1>1, <1>3, <1>5, <1>6, <3>1 DEF Calm, HolderSteps
    <2>3. CASE ~clearPending /\ ~triforce
      BY <1>2, <2>3 DEF Calm
    <2>4. QED  BY <2>1, <2>2, <2>3
  <1>10. enemies' = enemies \/ \A e \in DOMAIN enemies' : ~IsDead(enemies'[e])
    BY <1>7
  <1>11. IInv'
    BY <1>1, <1>7, <1>8, <1>9, <1>10, StepInvariant
  <1>12. QED
    BY <1>1, <1>2, <1>3, <1>5, <1>11 DEF heart

-----------------------------------------------------------------------------
(* The enemies' move, the contact and the blows.                           *)

LEMMA UpdateEnemyMovementKeeps ==
  ASSUME IInv, UpdateEnemyMovement
  PROVE  /\ IInv' /\ UNCHANGED <<hasSword, request>> /\ UNCHANGED dungeonVars
         /\ player'.hp = player.hp /\ phase # "away" /\ phase' # "away"
  <1>1. Typed(Kinds, BossHp) /\ Ordered /\ Turns /\ Placed /\ Apart
    BY DEF IInv
  <1>2. UNCHANGED dungeonVars
    BY DEF UpdateEnemyMovement
  <1>3. CASE EndStride \/ EnemiesMoved
    <2>1. Typed(Kinds, BossHp)' /\ Ordered' /\ NobodyHurt
      BY <1>1, <1>3, EndStrideKeeps, EnemiesMovedKeeps
    <2>2. Turns'
      BY <1>1, <1>3, TurnsKept
    <2>3. /\ UNCHANGED <<hasSword, player, request>> /\ phase' \in {"enemies", "contact"}
          /\ phase # "away"
      BY <1>3 DEF EndStride, EnemiesMoved
    <2>4. clearPending => request' \in {NoRequest, "Clear"}
      BY <2>3 DEF IInv, Calm
    <2>5. QED
      BY <1>2, <2>1, <2>2, <2>3, <2>4, NobodyHurtKeeps
  <1>4. CASE \E e \in waiting : EnemyMoves(e)
    <2>1. PICK e \in waiting : EnemyMoves(e)
      BY <1>4
    <2>2. /\ Typed(Kinds, BossHp)' /\ Ordered' /\ UNCHANGED <<room, player, request, phase>>
          /\ DOMAIN enemies' = DOMAIN enemies
          /\ \A d \in DOMAIN enemies : enemies'[d].hp = enemies[d].hp
      BY <1>1, <2>1, Layout, EnemyMovesKeeps
    <2>3. Placed' /\ Apart'
      BY <1>1, <2>1, Layout, EnemyMovesKeepsPlaces
    <2>4. Turns'
      BY <1>1, <2>1, TurnsKept
    <2>5. UNCHANGED hasSword /\ phase = "enemies"
      BY <2>1 DEF EnemyMoves
    <2>6. ~clearPending
      BY <1>1, <2>1, Everybody DEF IInv, Calm
    <2>7. TypeOK'
      BY <1>2, <2>2 DEF IInv, TypeOK, Typed, Kinds, dungeonVars
    <2>8. RoomsOwn'
      BY <2>2 DEF IInv, RoomsOwn
    <2>9. Rewards'
      BY <1>2, <2>2 DEF IInv, Rewards, IsDead, dungeonVars
    <2>10. Calm'
      BY <1>2, <2>6 DEF Calm, dungeonVars
    <2>11. QED
      BY <1>2, <2>2, <2>3, <2>4, <2>5, <2>7, <2>8, <2>9, <2>10 DEF IInv
  <1>5. QED
    BY <1>3, <1>4 DEF UpdateEnemyMovement

\* A boss found dead was killed, and it was alone in its room: nothing is left
\* there to strike the player in the same step.
LEMMA UpdateBossStateKeeps ==
  ASSUME IInv, UpdateBossState
  PROVE  /\ IInv' /\ UNCHANGED <<hasSword, request, heartCollected, triforceCollected>>
         /\ player'.hp <= player.hp /\ ~IsDead(player) /\ phase # "away" /\ phase' # "away"
         /\ clearPending => UNCHANGED player
         /\ bossDefeated' \in BOOLEAN /\ (bossDefeated => bossDefeated')
         /\ bossDefeated' # bossDefeated => UNCHANGED player
  <1>1. Typed(Kinds, BossHp) /\ Ordered /\ Turns
    BY DEF IInv
  <1>2. /\ Contact /\ bossDefeated' = (bossDefeated \/ BossFoundDead)
        /\ UNCHANGED <<heartCollected, triforceCollected, clearPending, bossKilled>>
    BY DEF UpdateBossState
  <1>3. /\ Typed(Kinds, BossHp)' /\ Ordered' /\ SceneStays
        /\ UNCHANGED <<hasSword, enemies, clock, request>> /\ phase = "contact" /\ phase' = "collide"
        /\ player'.hp <= player.hp /\ (Living = {} => UNCHANGED player)
    BY <1>1, <1>2, ContactKeeps
  <1>4. Turns'
    BY <1>1, <1>2, TurnsKept
  <1>5. bossDefeated' \in BOOLEAN /\ bossKilled' \in BOOLEAN /\ (bossDefeated => bossDefeated')
    BY <1>2 DEF IInv, TypeOK
  <1>6. /\ bossDefeated' => bossKilled'
        /\ Boss \in DOMAIN enemies /\ ~bossKilled' => ~IsDead(enemies'[Boss])
    BY <1>2, <1>3 DEF IInv, Rewards, BossFoundDead
  <1>7. clearPending => /\ UNCHANGED player /\ ~IsDead(player) /\ request' \in {NoRequest, "Clear"}
    BY <1>3 DEF IInv, Calm, Living
  <1>8. ASSUME bossDefeated' # bossDefeated  PROVE UNCHANGED player
    <2>1. Boss \in DOMAIN enemies /\ IsDead(enemies[Boss])
      BY <1>2, <1>8 DEF IInv, TypeOK, BossFoundDead
    <2>2. DOMAIN enemies \subseteq EnemyIds \/ DOMAIN enemies \subseteq {Boss}
      BY DEF IInv, RoomsOwn, Residents
    <2>3. Living = {}
      BY <2>1, <2>2, DungeonAssumption DEF Living
    <2>4. QED
      BY <1>3, <2>3
  <1>9. ~IsDead(player)
    BY <1>1, <1>3 DEF Ordered
  <1>10. request' \in {NoRequest, "Overworld", "GameOver", "Clear"}
    BY <1>3 DEF IInv, TypeOK
  <1>11. clearPending => /\ ~IsDead(player') /\ request' \in {NoRequest, "Clear"}
                         /\ phase' # "pushed"
                         /\ phase' = "walk" => phase = "walk" /\ stride'.left <= stride.left
    BY <1>3, <1>7 DEF IsDead
  <1>12. IInv'
    BY <1>2, <1>3, <1>4, <1>5, <1>6, <1>10, <1>11, SceneKeeps
  <1>13. QED
    BY <1>2, <1>3, <1>5, <1>7, <1>8, <1>9, <1>12

LEMMA ProcessCollisionKeeps ==
  ASSUME IInv, ProcessCollision
  PROVE  /\ IInv' /\ UNCHANGED <<hasSword, request, bossDefeated, heartCollected, triforceCollected>>
         /\ player'.hp <= player.hp /\ phase # "away" /\ phase' # "away"
         /\ clearPending => player'.hp = player.hp
  <1>1. Typed(Kinds, BossHp) /\ Ordered /\ Turns /\ BossHp \in Nat
    BY Layout DEF IInv
  <1>2. /\ Collisions \/ Collided
        /\ bossKilled' = (bossKilled \/ (Boss \in DOMAIN enemies' /\ IsDead(enemies'[Boss])))
        /\ UNCHANGED <<bossDefeated, heartCollected, triforceCollected, clearPending>>
    BY DEF ProcessCollision
  <1>3. Turns'
    BY <1>1, <1>2, TurnsKept
  <1>4. player.hp \in Int
    BY <1>1, Everybody, PawnFields
  <1>5. /\ Typed(Kinds, BossHp)' /\ Ordered' /\ SceneStays
        /\ UNCHANGED <<hasSword, request>> /\ phase \in {"collide", "strike"}
        /\ phase' \in {"collide", "strike", "finish"}
        /\ player'.hp <= player.hp /\ (clearPending => player'.hp = player.hp)
    <2>1. CASE \E s \in shots : ShotHitsPlayer(s)
      <3>1. PICK s \in shots : ShotHitsPlayer(s)
        BY <2>1
      <3>2. /\ Typed(Kinds, BossHp)' /\ Ordered' /\ SceneStays
            /\ UNCHANGED <<phase, hasSword, request>> /\ phase = "collide"
            /\ player'.hp <= player.hp /\ DOMAIN enemies # {}
        BY <1>1, <3>1, ShotHitsPlayerKeeps
      <3>3. QED
        BY <3>2 DEF IInv, Calm
    <2>2. CASE \E s \in shots, e \in Living : BeamHitsEnemy(s, e)
      <3>1. PICK s \in shots, e \in Living : BeamHitsEnemy(s, e)
        BY <2>2
      <3>2. /\ Typed(Kinds, BossHp)' /\ Ordered' /\ SceneStays
            /\ UNCHANGED <<phase, player, hasSword, request>> /\ phase = "strike"
        BY <1>1, <3>1, BeamHitsEnemyKeeps
      <3>3. QED
        BY <1>4, <3>2
    <2>3. CASE \E e \in Living : SwordHitsEnemy(e)
      <3>1. PICK e \in Living : SwordHitsEnemy(e)
        BY <2>3
      <3>2. /\ Typed(Kinds, BossHp)' /\ Ordered' /\ SceneStays
            /\ UNCHANGED <<phase, player, hasSword, request>> /\ phase = "strike"
        BY <1>1, <3>1, SwordHitsEnemyKeeps
      <3>3. QED
        BY <1>4, <3>2
    <2>4. CASE Collided
      <3>1. Typed(Kinds, BossHp)' /\ Ordered' /\ NobodyHurt
        BY <1>1, <2>4, CollidedKeeps
      <3>2. UNCHANGED <<hasSword, request>> /\ phase \in {"collide", "strike"}
            /\ phase' \in {"strike", "finish"}
        BY <2>4 DEF Collided
      <3>3. QED
        BY <1>4, <3>1, <3>2 DEF NobodyHurt
    <2>5. QED
      BY <1>2, <2>1, <2>2, <2>3, <2>4 DEF Collisions
  <1>6. /\ bossDefeated' \in BOOLEAN /\ bossKilled' \in BOOLEAN
        /\ request' \in {NoRequest, "Overworld", "GameOver", "Clear"}
    BY <1>2, <1>5 DEF IInv, TypeOK
  <1>7. /\ bossDefeated => bossDefeated'
        /\ bossDefeated' => bossKilled'
        /\ Boss \in DOMAIN enemies /\ ~bossKilled' => ~IsDead(enemies'[Boss])
    BY <1>2, <1>5 DEF IInv, Rewards, SceneStays
  <1>8. clearPending => /\ ~IsDead(player') /\ request' \in {NoRequest, "Clear"}
                        /\ phase' # "pushed"
                        /\ phase' = "walk" => phase = "walk" /\ stride'.left <= stride.left
    BY <1>5 DEF IInv, Calm, IsDead
  <1>9. IInv'
    BY <1>2, <1>3, <1>5, <1>6, <1>7, <1>8, SceneKeeps
  <1>10. QED
    BY <1>2, <1>5, <1>9

-----------------------------------------------------------------------------
(* Coming and coming back.                                                 *)

LEMMA ReturnKeepsAll ==
  ASSUME IInv, Return
  PROVE  IInv'
  <1>1. /\ request = "Overworld" /\ UNCHANGED dungeonVars
        /\ \E hp \in 0 .. player.hp : ReturnWith(hp, TRUE)
    BY DEF Return
  <1>2. Typed(Kinds, BossHp) /\ Ordered /\ Turns
    BY DEF IInv
  <1>3. PICK hp \in 0 .. player.hp : ReturnWith(hp, TRUE)
    BY <1>1
  <1>4. hp \in 0 .. MaxHp
    <2>1. player.hp \in 0 .. MaxHp
      BY <1>2, Everybody, PawnFields
    <2>2. QED
      BY <2>1, CombatAssumption
  <1>5. /\ Typed(Kinds, BossHp)' /\ Ordered' /\ SceneStays
        /\ \A e \in DOMAIN enemies : enemies'[e].hp = enemies[e].hp
    BY <1>2, <1>3, <1>4, ReturnKeeps
  <1>6. Turns'
    BY <1>2, <1>3, TurnsKept
  <1>7. request' = NoRequest
    BY <1>3 DEF ReturnWith
  <1>8. ~clearPending
    BY <1>1 DEF IInv, Calm, NoRequest
  <1>9. /\ bossDefeated' \in BOOLEAN /\ bossKilled' \in BOOLEAN
        /\ bossDefeated => bossDefeated'
        /\ bossDefeated' => bossKilled'
        /\ Boss \in DOMAIN enemies /\ ~bossKilled' => ~IsDead(enemies'[Boss])
    BY <1>1, <1>5 DEF IInv, TypeOK, Rewards, IsDead, dungeonVars
  <1>10. QED
    BY <1>1, <1>5, <1>6, <1>7, <1>8, <1>9, SceneKeeps DEF dungeonVars

LEMMA InitIsPlaced ==
  ASSUME Init
  PROVE  IInv
  <1> DEFINE at == TileCell(EntranceTile)
             origin == <<0, 0>>
  <1>1. /\ phase = "tick" /\ room = origin /\ hasSword = TRUE
        /\ bossDefeated = FALSE /\ heartCollected = FALSE
        /\ triforceCollected = FALSE /\ clearPending = FALSE
        /\ input = NoDirection /\ stride = NoStride /\ sword = NoSword
        /\ waiting = {} /\ shots = {}
        /\ gameOverPending = FALSE /\ clock = 0 /\ request = NoRequest
        /\ bossKilled = FALSE
    BY DEF Init
  <1>2. PICK hp \in 0 .. MaxHp : player = EndFrame(NewPawn("Player", at, hp, Up))
    BY DEF Init
  <1>3. PICK plan \in RoomEnemies(origin, at) :
          enemies = [e \in DOMAIN plan |-> EndFrame(plan[e])]
    BY DEF Init
  <1>4. origin \in Rooms /\ origin \in Cells /\ origin[1] = 0 /\ origin[2] = 0
    BY Layout DEF Rooms, Cells
  <1>5. at \in Cells /\ IsInsideRoom(Box(at, PawnSize), origin)
    <2> DEFINE i == EntranceTile[1]
               j == EntranceTile[2]
    <2>1. /\ i \in Nat /\ j \in Nat /\ i + 1 <= RoomTileWidth /\ j + 1 <= RoomTileHeight
          /\ RoomTileWidth \in Int /\ RoomTileHeight \in Int
          /\ TileWidth \in Nat /\ TileHeight \in Nat
      BY LayoutAssumption, GeometryAssumption
    <2> HIDE DEF i, j
    <2>2. (i + 1) * TileWidth <= RoomWidth /\ (j + 1) * TileHeight <= RoomHeight
      BY <2>1, Scaling DEF RoomWidth, RoomHeight
    <2>3. /\ (i + 1) * TileWidth = i * TileWidth + TileWidth
          /\ (j + 1) * TileHeight = j * TileHeight + TileHeight
          /\ i * TileWidth \in Nat /\ j * TileHeight \in Nat
      BY <2>1
    <2>4. at = <<i * TileWidth, j * TileHeight>>
      BY DEF TileCell, i, j
    <2>5. at \in Cells
      BY <2>3, <2>4 DEF Cells
    <2>6. /\ PawnSize \in Cells /\ PawnSize[1] \in Int /\ PawnSize[2] \in Int
          /\ PawnSize[1] <= TileWidth /\ PawnSize[2] <= TileHeight
          /\ RoomWidth \in Int /\ RoomHeight \in Int
      BY Sizes DEF Cells
    <2>7. origin[1] * RoomWidth = 0 /\ origin[2] * RoomHeight = 0
      BY <1>4, <2>6
    <2> HIDE DEF at, origin
    <2>8. /\ origin[1] * RoomWidth <= at[1]
          /\ at[1] + PawnSize[1] <= origin[1] * RoomWidth + RoomWidth
          /\ origin[2] * RoomHeight <= at[2]
          /\ at[2] + PawnSize[2] <= origin[2] * RoomHeight + RoomHeight
      BY <2>1, <2>2, <2>3, <2>4, <2>6, <2>7
    <2>9. QED
      BY <1>4, <2>5, <2>6, <2>8, InsideRoom
  <1> HIDE DEF at, origin
  <1>6. /\ player \in PawnRecord({"Player"}, MaxHp) /\ player.at = at /\ player.dir = Up
        /\ PawnBox(player) = Box(at, PawnSize)
    <2> DEFINE pawn == NewPawn("Player", at, hp, Up)
    <2>1. Up \in Ways /\ MaxHp \in Nat
      BY DirectionsAreWays, CombatAssumption DEF Directions
    <2>2. pawn \in PawnRecord({"Player"}, MaxHp)
      BY <1>5, <2>1, NewPawnIsTyped
    <2>3. pawn.at = at /\ pawn.dir = Up /\ pawn.kind = "Player"
      BY DEF NewPawn
    <2> HIDE DEF pawn
    <2>4. player = EndFrame(pawn)
      BY <1>2 DEF pawn
    <2>5. QED
      BY <2>2, <2>3, <2>4, EndFrameFacts DEF PawnBox, SizeOf
  <1>7. /\ DOMAIN plan \subseteq Residents(origin)
        /\ \A e \in DOMAIN plan :
             /\ plan[e] \in PawnRecord(Kinds, BossHp) /\ ~IsDead(plan[e])
             /\ IsInsideRoom(PawnBox(plan[e]), origin)
             /\ ~Overlaps(PawnBox(plan[e]), Box(at, PawnSize))
    <2>1. origin[1] # BossRoom
      BY <1>4, Layout
    <2>2. QED
      BY <1>4, <1>5, <2>1, RoomEnemiesFacts
  <1>8. /\ DOMAIN enemies = DOMAIN plan
        /\ \A e \in DOMAIN enemies :
             /\ enemies[e] \in PawnRecord(Kinds, BossHp) /\ ~IsDead(enemies[e])
             /\ PawnBox(enemies[e]) = PawnBox(plan[e])
    <2>1. ASSUME NEW e \in DOMAIN plan
          PROVE  /\ enemies[e] \in PawnRecord(Kinds, BossHp) /\ ~IsDead(enemies[e])
                 /\ PawnBox(enemies[e]) = PawnBox(plan[e])
      <3>1. enemies[e] = EndFrame(plan[e])
        BY <1>3
      <3>2. QED
        BY <1>7, <3>1, EndFrameFacts DEF PawnBox, SizeOf, IsDead
    <2>2. QED
      BY <1>3, <2>1
  <1>9. CombatTypeOK(Kinds, BossHp)
    <2>1. room \in Int \X Int
      BY <1>1, <1>4 DEF Cells
    <2>2. QED
      BY <1>1, <1>6, <1>8, <2>1, Rests DEF CombatTypeOK
  <1>10. Typed(Kinds, BossHp)
    BY <1>1, <1>6, <1>9 DEF Typed, Directions
  <1>11. TypeOK
    <2>1. DOMAIN enemies \subseteq EnemyIds \cup {Boss}
      BY <1>7, <1>8 DEF Residents
    <2>2. QED
      BY <1>1, <1>4, <1>9, <2>1 DEF TypeOK, Kinds, Rooms
  <1>12. Placed /\ Apart /\ RoomsOwn
    BY <1>1, <1>5, <1>6, <1>7, <1>8 DEF Placed, Apart, RoomsOwn, Living
  <1>13. Ordered /\ Turns /\ Calm
    BY <1>1 DEF Ordered, Turns, Calm
  <1>14. Rewards
    BY <1>1, <1>8 DEF Rewards
  <1>15. QED
    BY <1>10, <1>11, <1>12, <1>13, <1>14 DEF IInv

-----------------------------------------------------------------------------
(* The theorems.                                                           *)

LEMMA StepKeepsAll ==
  ASSUME IInv, [Next]_vars
  PROVE  IInv'
  <1>1. CASE EngineStep
    BY <1>1, EngineStepKeeps
  <1>2. CASE Tick
    BY <1>2, TickKeeps
  <1>3. CASE TryExitDungeon
    BY <1>3, TryExitDungeonKeeps
  <1>4. CASE Stopped
    BY <1>4, StoppedKeeps
  <1>5. CASE UpdatePlayerMovement
    BY <1>5, UpdatePlayerMovementKeeps
  <1>6. CASE UpdatePawnKnockback
    BY <1>6, UpdatePawnKnockbackKeeps
  <1>7. CASE UpdateEnemyMovement
    BY <1>7, UpdateEnemyMovementKeeps
  <1>8. CASE UpdateBossState
    BY <1>8, UpdateBossStateKeeps
  <1>9. CASE ProcessCollision
    BY <1>9, ProcessCollisionKeeps
  <1>10. CASE Return
    BY <1>10, ReturnKeepsAll
  <1>11. CASE UNCHANGED vars
    <2>1. /\ UNCHANGED <<phase, room, player, hasSword, input, stride, sword, enemies, waiting, shots,
                         gameOverPending, clock, request>>
          /\ UNCHANGED <<bossDefeated, heartCollected, triforceCollected, clearPending, bossKilled>>
      BY <1>11 DEF vars, combatVars, dungeonVars
    <2>2. TypeOK' /\ Typed(Kinds, BossHp)'
      BY <2>1 DEF IInv, TypeOK, Typed, CombatTypeOK
    <2>3. Placed' /\ Apart'
      BY <2>1 DEF IInv, Placed, Apart, Living, PawnBox, SizeOf
    <2>4. Ordered' /\ Turns' /\ RoomsOwn' /\ Rewards' /\ Calm'
      BY <2>1 DEF IInv, Ordered, Turns, RoomsOwn, Rewards, Calm
    <2>5. QED
      BY <2>2, <2>3, <2>4 DEF IInv
  <1>12. QED
    BY <1>1, <1>2, <1>3, <1>4, <1>5, <1>6, <1>7, <1>8, <1>9, <1>10, <1>11 DEF Next, Frame

\* The strengthened invariant holds for every layout that LayoutAssumption
\* allows.
THEOREM DungeonInvariant == Spec => []IInv
  <1>1. Init => IInv
    BY InitIsPlaced
  <1>2. IInv /\ [Next]_vars => IInv'
    BY StepKeepsAll
  <1>3. QED
    BY <1>1, <1>2, PTL DEF Spec

\* No living enemy ever stands on the player, wherever rooms, spawning and
\* knockbacks bring them (DungeonLevel::CanMoveTo, SpawnRoomEnemies).
THEOREM NobodyEverStandsOnThePlayer == Spec => []NobodyStandsOnThePlayer
  <1>1. IInv => NobodyStandsOnThePlayer
    BY DEF IInv, Apart, NobodyStandsOnThePlayer
  <1>2. QED
    BY <1>1, DungeonInvariant, PTL

\* Whatever is in the room shown belongs to it (DungeonLevel::TryChangeRoom,
\* ClearRoomActors).
THEOREM EveryRoomHoldsItsOwn == Spec => []RoomHoldsItsOwn
  <1>1. IInv => RoomHoldsItsOwn
    <2> SUFFICES ASSUME IInv  PROVE RoomHoldsItsOwn
      OBVIOUS
    <2>1. TypeOK /\ \A e \in Living : IsInsideRoom(PawnBox(enemies[e]), room)
      BY DEF IInv, Placed
    <2>2. \A s \in shots : s.by # "player" => s.by \in DOMAIN enemies
      BY DEF IInv, Typed, Shot
    <2>3. QED
      BY <2>1, <2>2 DEF RoomHoldsItsOwn
  <1>2. QED
    BY <1>1, DungeonInvariant, PTL

\* The heart and the triforce are the boss's, and the holder of the triforce is
\* alive when the ending comes (UpdateBossState, TryCollectItems).
THEOREM RewardsAreAlwaysEarned == Spec => []RewardsAreEarned
  <1>1. IInv => RewardsAreEarned
    BY DEF IInv, Rewards, Calm, RewardsAreEarned
  <1>2. QED
    BY <1>1, DungeonInvariant, PTL

-----------------------------------------------------------------------------
(* What the rest of the game sees of the dungeon.                          *)

VisitRecord ==
  [hp : Nat, hasSword : BOOLEAN, boss : BOOLEAN, heart : BOOLEAN, triforce : BOOLEAN,
   request : {NoRequest, "Overworld", "GameOver", "Clear"}, away : BOOLEAN]

Shown == [hp |-> player.hp, hasSword |-> hasSword, boss |-> bossDefeated,
          heart |-> heartCollected, triforce |-> triforceCollected,
          request |-> request, away |-> phase = "away"]

ShownTyped == Shown \in VisitRecord /\ Shown' \in VisitRecord

LEMMA ShownIsTyped ==
  ASSUME IInv, IInv'
  PROVE  ShownTyped /\ player.hp \in Nat /\ player'.hp \in Nat
  <1>1. player.hp \in Nat /\ player'.hp \in Nat
    <2>1. player \in PawnRecord({"Player"}, MaxHp) /\ player' \in PawnRecord({"Player"}, MaxHp)
      BY DEF IInv, TypeOK, CombatTypeOK
    <2>2. player.hp \in 0 .. MaxHp /\ player'.hp \in 0 .. MaxHp
      BY <2>1, PawnFields
    <2>3. QED
      BY <2>2, CombatAssumption
  <1>2. /\ hasSword \in BOOLEAN /\ bossDefeated \in BOOLEAN /\ heartCollected \in BOOLEAN
        /\ triforceCollected \in BOOLEAN
        /\ request \in {NoRequest, "Overworld", "GameOver", "Clear"}
    BY DEF IInv, TypeOK, CombatTypeOK
  <1>3. /\ hasSword' \in BOOLEAN /\ bossDefeated' \in BOOLEAN /\ heartCollected' \in BOOLEAN
        /\ triforceCollected' \in BOOLEAN
        /\ request' \in {NoRequest, "Overworld", "GameOver", "Clear"}
    BY DEF IInv, TypeOK, CombatTypeOK
  <1>4. Shown \in VisitRecord
    BY <1>1, <1>2 DEF Shown, VisitRecord
  <1>5. Shown' \in VisitRecord
    BY <1>1, <1>3 DEF Shown, VisitRecord
  <1>6. QED
    BY <1>1, <1>4, <1>5 DEF ShownTyped

LEMMA ShownFields ==
  /\ Shown.hp = player.hp /\ Shown.hasSword = hasSword /\ Shown.boss = bossDefeated
  /\ Shown.heart = heartCollected /\ Shown.triforce = triforceCollected
  /\ Shown.request = request /\ Shown.away = (phase = "away")
  /\ Shown'.hp = player'.hp /\ Shown'.hasSword = hasSword' /\ Shown'.boss = bossDefeated'
  /\ Shown'.heart = heartCollected' /\ Shown'.triforce = triforceCollected'
  /\ Shown'.request = request' /\ Shown'.away = (phase' = "away")
  BY DEF Shown

\* Visits that differ in what a step changes.
LEMMA DifferInHp ==
  ASSUME NEW v \in VisitRecord, NEW w \in VisitRecord,
         w.hasSword = v.hasSword, w.boss = v.boss, w.heart = v.heart,
         w.triforce = v.triforce, w.request = v.request, w.away = v.away
  PROVE  w = [v EXCEPT !.hp = w.hp]
  BY DEF VisitRecord

LEMMA DifferInBoss ==
  ASSUME NEW v \in VisitRecord, NEW w \in VisitRecord,
         w.hp = v.hp, w.hasSword = v.hasSword, w.heart = v.heart,
         w.triforce = v.triforce, w.request = v.request, w.away = v.away, w.boss
  PROVE  w = [v EXCEPT !.boss = TRUE]
  BY DEF VisitRecord

LEMMA DifferInCollection ==
  ASSUME NEW v \in VisitRecord, NEW w \in VisitRecord,
         w.hasSword = v.hasSword, w.boss = v.boss, w.request = v.request, w.away = v.away
  PROVE  w = [v EXCEPT !.heart = w.heart, !.triforce = w.triforce, !.hp = w.hp]
  BY DEF VisitRecord

LEMMA DifferInRequest ==
  ASSUME NEW v \in VisitRecord, NEW w \in VisitRecord,
         w.hp = v.hp, w.hasSword = v.hasSword, w.boss = v.boss, w.heart = v.heart,
         w.triforce = v.triforce, w.away = v.away
  PROVE  w = [v EXCEPT !.request = w.request]
  BY DEF VisitRecord

LEMMA DifferInAway ==
  ASSUME NEW v \in VisitRecord, NEW w \in VisitRecord,
         w.hp = v.hp, w.hasSword = v.hasSword, w.boss = v.boss, w.heart = v.heart,
         w.triforce = v.triforce, w.request = v.request, w.away
  PROVE  w = [v EXCEPT !.away = TRUE]
  BY DEF VisitRecord

LEMMA DifferInReturn ==
  ASSUME NEW v \in VisitRecord, NEW w \in VisitRecord,
         w.boss = v.boss, w.heart = v.heart, w.triforce = v.triforce, w.hasSword, ~w.away, NEW b
  PROVE  w = [v EXCEPT !.hp = w.hp, !.hasSword = b \/ TRUE, !.request = w.request, !.away = FALSE]
  BY DEF VisitRecord

LEMMA NothingShown ==
  ASSUME player'.hp = player.hp, (phase' = "away") = (phase = "away"),
         UNCHANGED <<hasSword, bossDefeated, heartCollected, triforceCollected, request>>
  PROVE  UNCHANGED Shown
  BY DEF Shown

\* The fields an action leaves alone are shown unchanged.
LEMMA KeptShown ==
  /\ hasSword' = hasSword => Shown'.hasSword = Shown.hasSword
  /\ bossDefeated' = bossDefeated => Shown'.boss = Shown.boss
  /\ heartCollected' = heartCollected => Shown'.heart = Shown.heart
  /\ triforceCollected' = triforceCollected => Shown'.triforce = Shown.triforce
  /\ request' = request => Shown'.request = Shown.request
  /\ player'.hp = player.hp => Shown'.hp = Shown.hp
  /\ phase # "away" /\ phase' # "away" => Shown'.away = Shown.away /\ ~Shown.away
  BY DEF Shown

LEMMA HurtShown ==
  ASSUME ShownTyped, player'.hp \in 0 .. (player.hp - 1), ~triforceCollected,
         phase # "away", phase' # "away",
         UNCHANGED <<hasSword, bossDefeated, heartCollected, triforceCollected, request>>
  PROVE  Visit!Next
  <1>1. /\ Shown'.hasSword = Shown.hasSword /\ Shown'.boss = Shown.boss
        /\ Shown'.heart = Shown.heart /\ Shown'.triforce = Shown.triforce
        /\ Shown'.request = Shown.request /\ Shown'.away = Shown.away /\ ~Shown.away
    BY KeptShown
  <1>2. Shown' = [Shown EXCEPT !.hp = Shown'.hp]
    BY <1>1, DifferInHp DEF ShownTyped
  <1>3. Shown'.hp \in {n \in 0 .. (Shown.hp - 1) : ~Shown.triforce}
    BY ShownFields
  <1>4. Shown' \in Visit!Hurt(Shown)
    BY <1>2, <1>3 DEF Visit!Hurt
  <1>5. QED
    BY <1>1, <1>4 DEF Visit!Next, Visit!Played, Shown

LEMMA BossShown ==
  ASSUME ShownTyped, player.hp \in Nat, ~IsDead(player), bossDefeated', phase # "away", phase' # "away",
         UNCHANGED <<player, hasSword, heartCollected, triforceCollected, request>>
  PROVE  Visit!Next
  <1>1. /\ Shown'.hasSword = Shown.hasSword /\ Shown'.hp = Shown.hp
        /\ Shown'.heart = Shown.heart /\ Shown'.triforce = Shown.triforce
        /\ Shown'.request = Shown.request /\ Shown'.away = Shown.away /\ ~Shown.away
    BY KeptShown
  <1>2. Shown'.boss
    BY DEF Shown
  <1>3. Shown.hp > 0
    BY DEF Shown, IsDead
  <1>4. Shown' = [Shown EXCEPT !.boss = TRUE]
    BY <1>1, <1>2, DifferInBoss DEF ShownTyped
  <1>5. Shown' \in Visit!DefeatBoss(Shown)
    BY <1>3, <1>4 DEF Visit!DefeatBoss, Visit!When
  <1>6. QED
    BY <1>1, <1>5 DEF Visit!Next, Visit!Played, Shown

LEMMA Collected ==
  ASSUME NEW v, NEW w, NEW h \in {b \in BOOLEAN : v.heart => b},
         NEW t \in {b \in BOOLEAN : /\ v.boss /\ v.hp > 0 /\ v.request = Visit!NoRequest
                                    /\ v.triforce => b},
         w = [v EXCEPT !.heart = h, !.triforce = t,
                       !.hp = IF h /\ ~v.heart THEN MaxHp ELSE @]
  PROVE  w \in Visit!Collect(v)
  <1> DEFINE hearts == {b \in BOOLEAN : v.heart => b}
             triforces == {b \in BOOLEAN : /\ v.boss /\ v.hp > 0 /\ v.request = Visit!NoRequest
                                           /\ v.triforce => b}
             after(a, c) == [v EXCEPT !.heart = a, !.triforce = c,
                                      !.hp = IF a /\ ~v.heart THEN MaxHp ELSE @]
  <1>1. Visit!Collect(v) = {after(a, c) : a \in hearts, c \in triforces}
    BY DEF Visit!Collect
  <1>2. w = after(h, t)
    BY Zenon
  <1>3. h \in hearts /\ t \in triforces
    BY Zenon
  <1> HIDE DEF after, hearts, triforces
  <1>4. QED
    BY <1>1, <1>2, <1>3

LEMMA CollectionShown ==
  ASSUME ShownTyped, player.hp \in Nat, ~IsDead(player), request = NoRequest, bossDefeated,
         phase # "away", UNCHANGED <<hasSword, phase, request, bossDefeated>>,
         heartCollected => heartCollected', triforceCollected => triforceCollected',
         player'.hp = IF heartCollected' /\ ~heartCollected THEN MaxHp ELSE player.hp
  PROVE  Visit!Next
  <1>1. /\ Shown'.hasSword = Shown.hasSword /\ Shown'.boss = Shown.boss
        /\ Shown'.request = Shown.request /\ Shown'.away = Shown.away /\ ~Shown.away
    BY KeptShown
  <1>2. Shown' = [Shown EXCEPT !.heart = Shown'.heart, !.triforce = Shown'.triforce, !.hp = Shown'.hp]
    BY <1>1, DifferInCollection DEF ShownTyped
  <1>3. Shown.hp > 0
    BY DEF Shown, IsDead
  <1>4. Shown.boss /\ Shown.request = Visit!NoRequest
    BY DEF Shown, NoRequest, Visit!NoRequest
  <1>5. (Shown.heart => Shown'.heart) /\ (Shown.triforce => Shown'.triforce)
    BY DEF Shown
  <1>6. Shown'.hp = IF Shown'.heart /\ ~Shown.heart THEN MaxHp ELSE Shown.hp
    BY DEF Shown
  <1>7. PICK h \in BOOLEAN, t \in BOOLEAN : h = Shown'.heart /\ t = Shown'.triforce
    BY DEF ShownTyped, VisitRecord
  <1>8. Shown' = [Shown EXCEPT !.heart = h, !.triforce = t,
                               !.hp = IF h /\ ~Shown.heart THEN MaxHp ELSE @]
    <2>1. [Shown EXCEPT !.heart = h, !.triforce = t, !.hp = IF h /\ ~Shown.heart THEN MaxHp ELSE @]
          = [Shown EXCEPT !.heart = h, !.triforce = t,
                          !.hp = IF h /\ ~Shown.heart THEN MaxHp ELSE Shown.hp]
      BY ShownTyped DEF ShownTyped, VisitRecord
    <2>2. Shown' = [Shown EXCEPT !.heart = h, !.triforce = t, !.hp = Shown'.hp]
      BY <1>2, <1>7
    <2>3. Shown'.hp = IF h /\ ~Shown.heart THEN MaxHp ELSE Shown.hp
      BY <1>6, <1>7
    <2>4. QED  BY <2>1, <2>2, <2>3
  <1>9. h \in {b \in BOOLEAN : Shown.heart => b}
    BY <1>5, <1>7
  <1>10. t \in {b \in BOOLEAN : /\ Shown.boss /\ Shown.hp > 0
                                /\ Shown.request = Visit!NoRequest
                                /\ Shown.triforce => b}
    BY <1>3, <1>4, <1>5, <1>7
  <1>11. Shown' \in Visit!Collect(Shown)
    BY <1>8, <1>9, <1>10, Collected
  <1>12. QED
    BY <1>1, <1>11 DEF Visit!Next, Visit!Played, Shown

LEMMA RequestShown ==
  ASSUME ShownTyped, player.hp \in Nat, player'.hp = player.hp, phase # "away", phase' # "away",
         UNCHANGED <<hasSword, bossDefeated, heartCollected, triforceCollected>>,
         \/ /\ request = NoRequest /\ request' = "Overworld"
            /\ ~IsDead(player) /\ ~triforceCollected
         \/ request = NoRequest /\ request' = "GameOver" /\ IsDead(player)
         \/ request' = "Clear" /\ triforceCollected
  PROVE  Visit!Next
  <1>1. /\ Shown'.hasSword = Shown.hasSword /\ Shown'.boss = Shown.boss /\ Shown'.hp = Shown.hp
        /\ Shown'.heart = Shown.heart /\ Shown'.triforce = Shown.triforce
        /\ Shown'.away = Shown.away /\ ~Shown.away
    BY KeptShown
  <1>2. Shown' = [Shown EXCEPT !.request = Shown'.request]
    BY <1>1, DifferInRequest DEF ShownTyped
  <1>3. Shown'.request = request'
    BY ShownFields
  <1>4. Shown' \in Visit!Ask(Shown)
    <2>1. CASE /\ request = NoRequest /\ request' = "Overworld"
               /\ ~IsDead(player) /\ ~triforceCollected
      <3>1. Shown'.request \in {e \in {"Overworld"} : /\ Shown.hp > 0 /\ ~Shown.triforce
                                                      /\ Shown.request = Visit!NoRequest
                                                      /\ e = "Dungeon1" => Shown.hasSword}
        BY <2>1, <1>3, ShownFields DEF IsDead, NoRequest, Visit!NoRequest
      <3>2. QED
        BY <1>2, <3>1 DEF Visit!Ask
    <2>2. CASE request = NoRequest /\ request' = "GameOver" /\ IsDead(player)
      <3>1. Shown.hp = 0 /\ Shown.request = Visit!NoRequest /\ Shown'.request = "GameOver"
        BY <2>2, <1>3, ShownFields DEF IsDead, NoRequest, Visit!NoRequest
      <3>2. QED
        BY <1>2, <3>1 DEF Visit!Ask, Visit!When
    <2>3. CASE request' = "Clear" /\ triforceCollected
      <3>1. Shown.triforce /\ Shown'.request = "Clear"
        BY <2>3, <1>3, ShownFields
      <3>2. QED
        BY <1>2, <3>1 DEF Visit!Ask, Visit!When
    <2>4. QED  BY <2>1, <2>2, <2>3
  <1>5. QED
    BY <1>1, <1>4 DEF Visit!Next, Visit!Played, Shown

LEMMA LeaveShown ==
  ASSUME ShownTyped, LeaveLevel, UNCHANGED dungeonVars
  PROVE  Visit!Next
  <1>1. /\ phase = "finish" /\ phase' = "away" /\ request # NoRequest
        /\ UNCHANGED <<player, hasSword, bossDefeated, heartCollected, triforceCollected, request>>
    BY DEF LeaveLevel, dungeonVars
  <1>2. /\ Shown'.hasSword = Shown.hasSword /\ Shown'.boss = Shown.boss /\ Shown'.hp = Shown.hp
        /\ Shown'.heart = Shown.heart /\ Shown'.triforce = Shown.triforce
        /\ Shown'.request = Shown.request
    BY <1>1, KeptShown
  <1>3. Shown'.away /\ ~Shown.away /\ Shown.request # Visit!NoRequest
    BY <1>1 DEF Shown, NoRequest, Visit!NoRequest
  <1>4. Shown' = [Shown EXCEPT !.away = TRUE]
    BY <1>2, <1>3, DifferInAway DEF ShownTyped
  <1>5. Shown' \in Visit!Leave(Shown)
    BY <1>3, <1>4 DEF Visit!Leave, Visit!When
  <1>6. QED
    BY <1>3, <1>5 DEF Visit!Next, Shown

LEMMA ReturnShown ==
  ASSUME IInv, ShownTyped, Return
  PROVE  Visit!Next
  <1>1. PICK hp \in 0 .. player.hp : ReturnWith(hp, TRUE)
    BY DEF Return
  <1>2. hp \in 0 .. MaxHp
    <2>1. player.hp \in 0 .. MaxHp
      BY Everybody, PawnFields DEF IInv
    <2>2. QED
      BY <2>1, CombatAssumption
  <1>3. player'.hp = hp
    BY <1>1, <1>2, ReturnKeeps DEF IInv
  <1>4. /\ phase = "away" /\ phase' = "tick" /\ request = "Overworld" /\ request' = NoRequest
        /\ hasSword' /\ UNCHANGED <<bossDefeated, heartCollected, triforceCollected>>
    BY <1>1 DEF Return, ReturnWith, dungeonVars
  <1>5. /\ Shown'.boss = Shown.boss /\ Shown'.heart = Shown.heart /\ Shown'.triforce = Shown.triforce
        /\ Shown'.hasSword /\ ~Shown'.away /\ Shown'.hp = hp /\ Shown'.request = Visit!NoRequest
        /\ Shown.away /\ Shown.request = "Overworld"
    BY <1>3, <1>4, ShownFields DEF NoRequest, Visit!NoRequest
  <1>6. Shown' = Visit!ReturnWith(Shown, hp, TRUE)
    <2>1. \A b : Shown' = [Shown EXCEPT !.hp = hp, !.hasSword = b \/ TRUE, !.request = Visit!NoRequest,
                                        !.away = FALSE]
      BY <1>5, DifferInReturn DEF ShownTyped
    <2>2. QED
      BY <2>1 DEF Visit!ReturnWith
  <1>7. \E h \in 0 .. MaxHp, armed \in BOOLEAN : Shown' = Visit!ReturnWith(Shown, h, armed)
    BY <1>2, <1>6
  <1>8. QED
    BY <1>5, <1>7 DEF Visit!Next, Shown

\* A step that hurts the player, or does nothing that is seen.
LEMMA PerhapsHurtShown ==
  ASSUME ShownTyped, IInv, player'.hp \in Nat, player'.hp <= player.hp,
         clearPending => player'.hp = player.hp, phase # "away", phase' # "away",
         UNCHANGED <<hasSword, bossDefeated, heartCollected, triforceCollected, request>>
  PROVE  Visit!Next \/ UNCHANGED Shown
  <1>1. player.hp \in Int
    BY Everybody, PawnFields DEF IInv
  <1>2. CASE player'.hp = player.hp
    BY <1>2, NothingShown
  <1>3. CASE player'.hp # player.hp
    <2>1. player'.hp \in 0 .. (player.hp - 1)
      BY <1>1, <1>3
    <2>2. ~triforceCollected
      BY <1>3 DEF IInv, Rewards
    <2>3. QED
      BY <2>1, <2>2, HurtShown
  <1>4. QED
    BY <1>2, <1>3

\* What a Tick asks for.
LEMMA TickShown ==
  ASSUME ShownTyped, IInv, Tick
  PROVE  Visit!Next \/ UNCHANGED Shown
  <1>1. player'.hp = player.hp /\ player.hp \in Nat
    <2>1. player.hp \in 0 .. MaxHp
      BY Everybody, PawnFields DEF IInv
    <2>2. QED
      BY <2>1, TickKeeps, CombatAssumption DEF NobodyHurt
  <1>2. /\ phase = "player" /\ phase' # "away" /\ request = NoRequest
        /\ UNCHANGED <<hasSword, bossDefeated, heartCollected, triforceCollected>>
    <2>1. /\ phase = "player" /\ phase' # "away"
          /\ UNCHANGED <<hasSword, bossDefeated, heartCollected, triforceCollected>>
      BY DEF Tick, AwaitClear, AwaitGameOver, StartKnockback, StartWalk, StandStill, Attack,
             PlayerActs, dungeonVars
    <2>2. QED
      BY <2>1 DEF IInv, Ordered
  <1>3. \/ request' = request
        \/ request' = "Clear" /\ clearPending
        \/ request' = "GameOver" /\ IsDead(player)
    BY DEF Tick, AwaitClear, AwaitGameOver, StartKnockback, StartWalk, StandStill, Attack
  <1>4. CASE request' = request
    BY <1>1, <1>2, <1>4, NothingShown
  <1>5. CASE request' = "Clear" /\ clearPending
    <2>1. triforceCollected
      BY <1>5 DEF IInv, Rewards
    <2>2. QED
      BY <1>1, <1>2, <1>5, <2>1, RequestShown
  <1>6. CASE request' = "GameOver" /\ IsDead(player)
    BY <1>1, <1>2, <1>6, RequestShown
  <1>7. QED
    BY <1>3, <1>4, <1>5, <1>6

\* What a step takes from the floor.
LEMMA MovementShown ==
  ASSUME ShownTyped, IInv, UpdatePlayerMovement
  PROVE  Visit!Next \/ UNCHANGED Shown
  <1>1. /\ IInv' /\ UNCHANGED <<hasSword, phase, request, bossDefeated>>
        /\ ~IsDead(player) /\ request = NoRequest
        /\ heartCollected => heartCollected'
        /\ triforceCollected => triforceCollected'
        /\ player'.hp = IF heartCollected' /\ ~heartCollected THEN MaxHp ELSE player.hp
    BY UpdatePlayerMovementKeeps
  <1>2. phase = "walk" /\ player.hp \in Nat
    <2>1. player.hp \in 0 .. MaxHp
      BY Everybody, PawnFields DEF IInv
    <2>2. QED
      BY <2>1, CombatAssumption DEF UpdatePlayerMovement, StepIn
  <1>3. /\ heartCollected \in BOOLEAN /\ triforceCollected \in BOOLEAN
        /\ heartCollected' \in BOOLEAN /\ triforceCollected' \in BOOLEAN
    BY <1>1 DEF IInv, TypeOK
  <1>4. CASE bossDefeated
    BY <1>1, <1>2, <1>4, CollectionShown
  <1>5. CASE ~bossDefeated
    <2>1. /\ ~heartCollected /\ ~triforceCollected
          /\ ~heartCollected' /\ ~triforceCollected'
      BY <1>1, <1>5 DEF IInv, Rewards
    <2>2. UNCHANGED <<heartCollected, triforceCollected>> /\ player'.hp = player.hp
      BY <1>1, <1>3, <2>1
    <2>3. QED
      BY <1>1, <2>2, NothingShown
  <1>6. QED
    BY <1>4, <1>5

LEMMA BossStateShown ==
  ASSUME ShownTyped, IInv, UpdateBossState
  PROVE  Visit!Next \/ UNCHANGED Shown
  <1>1. /\ IInv' /\ UNCHANGED <<hasSword, request, heartCollected, triforceCollected>>
        /\ player'.hp <= player.hp /\ ~IsDead(player) /\ phase # "away" /\ phase' # "away"
        /\ clearPending => UNCHANGED player
        /\ bossDefeated' \in BOOLEAN /\ (bossDefeated => bossDefeated')
        /\ bossDefeated' # bossDefeated => UNCHANGED player
    BY UpdateBossStateKeeps
  <1>2. player.hp \in Nat /\ player'.hp \in Nat
    BY <1>1, ShownIsTyped
  <1>3. CASE bossDefeated' = bossDefeated
    BY <1>1, <1>2, <1>3, PerhapsHurtShown
  <1>4. CASE bossDefeated' # bossDefeated
    <2>1. bossDefeated'
      BY <1>1, <1>4 DEF IInv, TypeOK
    <2>2. QED
      BY <1>1, <1>2, <1>4, <2>1, BossShown
  <1>5. QED
    BY <1>3, <1>4

\* Every step of the dungeon is a step of the visit, or nothing that is seen.
LEMMA VisitStep ==
  ASSUME IInv, [Next]_vars
  PROVE  Visit!Next \/ UNCHANGED Shown
  <1>1. IInv'
    BY StepKeepsAll
  <1>2. ShownTyped /\ player'.hp \in Nat
    BY <1>1, ShownIsTyped
  <1>3. player.hp \in Nat
    BY <1>1, ShownIsTyped
  <1>4. CASE EngineStep
    <2>1. CASE LeaveLevel
      <3>1. UNCHANGED dungeonVars
        BY <1>4 DEF EngineStep
      <3>2. QED
        BY <1>2, <2>1, <3>1, LeaveShown
    <2>2. CASE ActorsTick \/ FinishFrame
      <3>1. /\ phase # "away" /\ phase' # "away"
            /\ UNCHANGED <<hasSword, bossDefeated, heartCollected, triforceCollected, request>>
        BY <1>4, <2>2 DEF EngineStep, ActorsTick, FinishFrame, dungeonVars
      <3>2. player'.hp = player.hp
        BY <1>4, EngineStepKeeps DEF NobodyHurt
      <3>3. QED
        BY <3>1, <3>2, NothingShown
    <2>3. QED
      BY <1>4, <2>1, <2>2 DEF EngineStep
  <1>5. CASE Tick
    BY <1>2, <1>5, TickShown
  <1>6. CASE TryExitDungeon
    <2>1. /\ NobodyHurt /\ ~clearPending /\ request = NoRequest /\ request' = "Overworld"
          /\ ~IsDead(player) /\ UNCHANGED <<player, hasSword, phase>>
      BY <1>6, TryExitDungeonKeeps
    <2>2. /\ phase = "walk"
          /\ UNCHANGED <<bossDefeated, heartCollected, triforceCollected>>
      BY <1>6 DEF TryExitDungeon, StepIn, dungeonVars
    <2>3. ~triforceCollected
      BY <2>1 DEF IInv, Rewards
    <2>4. QED
      BY <1>2, <1>3, <2>1, <2>2, <2>3, RequestShown
  <1>7. CASE Stopped
    <2>1. player'.hp = player.hp
      BY <1>7, StoppedKeeps DEF NobodyHurt
    <2>2. UNCHANGED <<phase, hasSword, bossDefeated, heartCollected, triforceCollected, request>>
      BY <1>7 DEF Stopped, Blocked, dungeonVars
    <2>3. QED
      BY <2>1, <2>2, NothingShown
  <1>8. CASE UpdatePlayerMovement
    BY <1>2, <1>8, MovementShown
  <1>9. CASE UpdatePawnKnockback
    <2>1. UNCHANGED <<hasSword, phase, request>> /\ UNCHANGED dungeonVars /\ player'.hp = player.hp
      BY <1>9, UpdatePawnKnockbackKeeps
    <2>2. QED
      BY <2>1, NothingShown DEF dungeonVars
  <1>10. CASE UpdateEnemyMovement
    <2>1. /\ UNCHANGED <<hasSword, request>> /\ UNCHANGED dungeonVars
          /\ player'.hp = player.hp /\ phase # "away" /\ phase' # "away"
      BY <1>10, UpdateEnemyMovementKeeps
    <2>2. QED
      BY <2>1, NothingShown DEF dungeonVars
  <1>11. CASE UpdateBossState
    BY <1>2, <1>11, BossStateShown
  <1>12. CASE ProcessCollision
    <2>1. /\ UNCHANGED <<hasSword, request, bossDefeated, heartCollected, triforceCollected>>
          /\ player'.hp <= player.hp /\ phase # "away" /\ phase' # "away"
          /\ clearPending => player'.hp = player.hp
      BY <1>12, ProcessCollisionKeeps
    <2>2. QED
      BY <1>2, <2>1, PerhapsHurtShown
  <1>13. CASE Return
    BY <1>2, <1>13, ReturnShown
  <1>14. CASE UNCHANGED vars
    BY <1>14, NothingShown DEF vars, combatVars, dungeonVars
  <1>15. QED
    BY <1>4, <1>5, <1>6, <1>7, <1>8, <1>9, <1>10, <1>11, <1>12, <1>13, <1>14 DEF Next, Frame

\* To the rest of the game the dungeon, with all its rooms and frames, is a
\* visit (LevelVisit): the step of the one is a step of the other or none.
THEOREM DungeonImplementsVisit == Spec => ImplementsVisit
  <1>1. Init => Visit!Init
    <2> SUFFICES ASSUME Init  PROVE Visit!Init
      OBVIOUS
    <2>1. PICK hp \in 0 .. MaxHp : player = EndFrame(NewPawn("Player", TileCell(EntranceTile), hp, Up))
      BY DEF Init
    <2>2. player.hp = hp
      BY <2>1 DEF EndFrame, NewPawn
    <2>3. /\ phase = "tick" /\ hasSword = TRUE /\ bossDefeated = FALSE /\ heartCollected = FALSE
          /\ triforceCollected = FALSE /\ request = NoRequest
      BY DEF Init
    <2>4. Shown = Visit!NewVisit(hp, TRUE)
      BY <2>2, <2>3 DEF Shown, Visit!NewVisit, NoRequest, Visit!NoRequest
    <2>5. QED
      BY <2>4 DEF Visit!Init, Shown
  <1>2. IInv /\ [Next]_vars => [Visit!Next]_Shown
    BY VisitStep
  <1>3. QED
    BY <1>1, <1>2, DungeonInvariant, PTL DEF Spec, ImplementsVisit, Visit!Spec, Shown
=============================================================================
