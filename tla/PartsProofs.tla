----------------------------- MODULE PartsProofs -----------------------------
(***************************************************************************)
(* What the parts promise, proved for every stage, cave, world and set of  *)
(* files that PartsAssumption and StageAssumption admit.  Each part has    *)
(* its own inductive invariant; Steps of Parts are steps of one of them.   *)
(***************************************************************************)
EXTENDS Parts, Picks, FunctionTheorems, FiniteSetTheorems, SequenceTheorems,
        WellFoundedInduction, TLAPS

\* Whoever runs, each part sees a step of its own or none.
LEMMA EachPartSteps ==
  ASSUME [PartsNext]_partVars
  PROVE  /\ [View!Next]_viewVars /\ [Game!Next]_gameVars
         /\ [Shooting!Next]_shootingVars /\ [Next]_vars /\ [Player!Next]_soundVars
         /\ [Search!Next]_searchVars /\ [Codec!Next]_codecVars
<1>1. CASE InView(View!Next)
  BY <1>1 DEF InView
<1>2. CASE InGame(Game!Next)
  BY <1>2 DEF InGame
<1>3. CASE InShooting(Shooting!Next)
  BY <1>3 DEF InShooting
<1>4. CASE InStage(Next)
  BY <1>4 DEF InStage
<1>5. CASE InSound(Player!Next)
  BY <1>5 DEF InSound
<1>6. CASE InSearch(Search!Next)
  BY <1>6 DEF InSearch
<1>7. CASE InCodec(Codec!Next)
  BY <1>7 DEF InCodec
<1>8. CASE UNCHANGED partVars
  BY <1>8 DEF partVars
<1> QED
  BY <1>1, <1>2, <1>3, <1>4, <1>5, <1>6, <1>7, <1>8 DEF PartsNext

-----------------------------------------------------------------------------
(* Picks: what stands at some places of a sequence.                        *)

\* Every set of naturals that has an element has a least one.
LEMMA LeastElement ==
  ASSUME NEW T, T \subseteq Nat, T # {}
  PROVE  \E x \in T : \A y \in T : x <= y
<1> DEFINE R == OpToRel(<, Nat)
<1>1. IsWellFoundedOn(R, Nat)
  BY NatLessThanWellFounded
<1>2. \A x, y \in Nat : <<x, y>> \in R <=> x < y
  BY DEF OpToRel
<1> HIDE DEF R
<1>3. PICK x \in T : \A y \in T : ~(<<y, x>> \in R)
  BY <1>1, WFMin
<1>4. \A y \in T : y \in Nat /\ x \in Nat /\ ~(y < x)
  BY <1>2, <1>3
<1> QED
  BY <1>4

\* f lists the places, each once, in the order of what is picked there.
Lists(f, seq, places) ==
  /\ \A m, n \in 1 .. Cardinality(places) : f[m] = f[n] => m = n
  /\ \A i \in places : \E n \in 1 .. Cardinality(places) : f[n] = i
  /\ Picked(seq, places) = [n \in 1 .. Cardinality(places) |-> seq[f[n]]]

\* The ranks of the places are the numbers up to how many there are, each once:
\* the places can be listed by them.
LEMMA PickedPlaces ==
  ASSUME NEW seq, NEW places, places \subseteq Nat, IsFiniteSet(places)
  PROVE  \E f \in [1 .. Cardinality(places) -> places] : Lists(f, seq, places)
<1> DEFINE N == Cardinality(places)
           upTo(i) == {j \in places : j <= i}
           r == [i \in places |-> Rank(places, i)]
           f == [n \in 1 .. N |-> CHOOSE i \in places : Rank(places, i) = n]
<1>1. N \in Nat
  BY FS_CardinalityType
<1>2. ASSUME NEW i \in places
      PROVE  IsFiniteSet(upTo(i)) /\ Rank(places, i) \in 1 .. N
  <2>1. IsFiniteSet(upTo(i)) /\ Cardinality(upTo(i)) <= N
    <3>1. upTo(i) \in SUBSET places
      OBVIOUS
    <3> HIDE DEF upTo
    <3> QED
      BY <3>1, FS_Subset
  <2>2. i \in upTo(i)
    OBVIOUS
  <2>3. Cardinality(upTo(i)) \in Nat /\ Cardinality(upTo(i)) # 0
    <3> HIDE DEF upTo
    <3> QED
      BY <2>1, <2>2, FS_CardinalityType, FS_EmptySet
  <2>4. Rank(places, i) = Cardinality(upTo(i))
    BY DEF Rank
  <2> HIDE DEF upTo
  <2> QED
    BY <1>1, <2>1, <2>3, <2>4
<1>3. ASSUME NEW i \in places, NEW j \in places, i < j
      PROVE  Rank(places, i) # Rank(places, j)
  <2>1. IsFiniteSet(upTo(j)) /\ Rank(places, i) = Cardinality(upTo(i)) /\ Rank(places, j) = Cardinality(upTo(j))
    BY <1>2 DEF Rank
  <2>2. upTo(i) \in SUBSET upTo(j)
    <3>1. \A k \in places : k \in Nat
      OBVIOUS
    <3>2. \A k \in places : k <= i => k <= j
      BY <1>3, <3>1
    <3> QED
      BY <3>2
  <2>3. j \in upTo(j) /\ j \notin upTo(i)
    BY <1>3
  <2> HIDE DEF upTo
  <2> QED
    BY <2>1, <2>2, <2>3, FS_Subset
<1>4. \A i, j \in places : Rank(places, i) = Rank(places, j) => i = j
  <2>1. \A i, j \in places : i \in Nat /\ j \in Nat /\ (i < j \/ j < i \/ i = j)
    OBVIOUS
  <2> QED
    BY <1>3, <2>1
<1>5. r \in Injection(places, 1 .. N)
  <2>1. r \in [places -> 1 .. N]
    BY <1>2
  <2>2. IsInjective(r)
    BY <1>4 DEF IsInjective
  <2> QED
    BY <2>1, <2>2 DEF Injection
<1>6. IsFiniteSet(1 .. N) /\ Cardinality(1 .. N) = N
  BY <1>1, FS_Interval
<1>7. r \in Surjection(places, 1 .. N)
  <2> HIDE DEF r, N
  <2> QED
    BY <1>5, <1>6, FS_Injection DEF N
<1>8. \A n \in 1 .. N : \E i \in places : Rank(places, i) = n
  BY <1>7 DEF Surjection
<1>9. \A n \in 1 .. N : f[n] \in places /\ Rank(places, f[n]) = n
  BY <1>8
<1>10. f \in [1 .. N -> places]
  BY <1>9
<1>11. \A m, n \in 1 .. N : f[m] = f[n] => m = n
  <2> HIDE DEF f
  <2> QED
    BY <1>9
<1>12. \A i \in places : \E n \in 1 .. N : f[n] = i
  <2> HIDE DEF f, N
  <2> QED
    BY <1>2, <1>4, <1>9
<1>13. Picked(seq, places) = [n \in 1 .. N |-> seq[f[n]]]
  BY DEF Picked
<1>14. Lists(f, seq, places)
  BY <1>11, <1>12, <1>13 DEF Lists
<1> HIDE DEF f
<1> QED
  BY <1>10, <1>14

\* What is picked from a sequence are the elements at the places, as many.
LEMMA PickedElements ==
  ASSUME NEW S, NEW seq \in Seq(S), NEW places, places \subseteq DOMAIN seq
  PROVE  /\ Picked(seq, places) \in Seq(S)
         /\ IsFiniteSet(places) /\ Len(Picked(seq, places)) = Cardinality(places)
         /\ \A n \in DOMAIN Picked(seq, places) : \E i \in places : Picked(seq, places)[n] = seq[i]
         /\ \A i \in places : \E n \in DOMAIN Picked(seq, places) : Picked(seq, places)[n] = seq[i]
<1>1. IsFiniteSet(places) /\ places \subseteq Nat
  <2>1. DOMAIN seq = 1 .. Len(seq) /\ Len(seq) \in Nat
    OBVIOUS
  <2>2. IsFiniteSet(1 .. Len(seq))
    BY <2>1, FS_Interval
  <2> QED
    BY <2>1, <2>2, FS_Subset
<1>2. PICK f \in [1 .. Cardinality(places) -> places] : Lists(f, seq, places)
  BY <1>1, PickedPlaces
<1> USE DEF Lists
<1>3. Cardinality(places) \in Nat
  BY <1>1, FS_CardinalityType
<1>4. \A i \in places : seq[i] \in S
  OBVIOUS
<1>5. Picked(seq, places) \in [1 .. Cardinality(places) -> S]
  BY <1>2, <1>4
<1>6. Picked(seq, places) \in Seq(S) /\ Len(Picked(seq, places)) = Cardinality(places)
  BY <1>3, <1>5
<1>7. DOMAIN Picked(seq, places) = 1 .. Cardinality(places)
  BY <1>5
<1>8. \A n \in 1 .. Cardinality(places) : f[n] \in places /\ Picked(seq, places)[n] = seq[f[n]]
  BY <1>2
<1>9. \A n \in DOMAIN Picked(seq, places) : \E i \in places : Picked(seq, places)[n] = seq[i]
  BY <1>7, <1>8, Zenon
<1>10. ASSUME NEW i \in places
       PROVE  \E n \in DOMAIN Picked(seq, places) : Picked(seq, places)[n] = seq[i]
  <2>1. PICK n \in 1 .. Cardinality(places) : f[n] = i
    BY <1>2
  <2>2. n \in DOMAIN Picked(seq, places) /\ Picked(seq, places)[n] = seq[i]
    BY <1>7, <1>8, <2>1
  <2> QED
    BY <2>2
<1> QED
  BY <1>1, <1>6, <1>9, <1>10, Zenon

\* An instance has a copy of each operator, which says the same.
LEMMA InstancesCount ==
  ASSUME NEW S
  PROVE  /\ View!Cardinality(S) = Cardinality(S) /\ Shooting!Cardinality(S) = Cardinality(S)
         /\ Player!Cardinality(S) = Cardinality(S)
         /\ View!IsFiniteSet(S) <=> IsFiniteSet(S)
<1>1. View!Cardinality(S) = Cardinality(S)
  BY DEF View!Cardinality, Cardinality
<1>2. Shooting!Cardinality(S) = Cardinality(S)
  BY DEF Shooting!Cardinality, Cardinality
<1>3. Player!Cardinality(S) = Cardinality(S)
  BY DEF Player!Cardinality, Cardinality
<1>4. View!IsFiniteSet(S) <=> IsFiniteSet(S)
  BY DEF View!IsFiniteSet, IsFiniteSet
<1> QED
  BY <1>1, <1>2, <1>3, <1>4

\* So do those of Picks.
LEMMA InstancesPick ==
  ASSUME NEW seq, NEW places
  PROVE  /\ View!Picked(seq, places) = Picked(seq, places)
         /\ Shooting!Picked(seq, places) = Picked(seq, places)
         /\ Player!Picked(seq, places) = Picked(seq, places)
<1>1. View!Picked(seq, places) = Picked(seq, places)
  BY DEF View!Picked, View!Rank, View!Cardinality, Picked, Rank, Cardinality
<1>2. Shooting!Picked(seq, places) = Picked(seq, places)
  BY DEF Shooting!Picked, Shooting!Rank, Shooting!Cardinality, Picked, Rank, Cardinality
<1>3. Player!Picked(seq, places) = Picked(seq, places)
  BY DEF Player!Picked, Player!Rank, Player!Cardinality, Picked, Rank, Cardinality
<1> QED
  BY <1>1, <1>2, <1>3

-----------------------------------------------------------------------------
(* Sokoban: the stage and what is on it.                                   *)

\* What BoxesApart says of places alone.
Apart ==
  /\ \A a, b \in Boxes : box[a] = box[b] => a = b
  /\ \A b \in Boxes : box[b] # player

StageInv == TypeOK /\ Apart /\ ClearedMeansCovered

\* The code counts the boxes on targets; for boxes that are apart that is the
\* test whether each target is covered.
LEMMA CountingIsCovering ==
  ASSUME NEW at \in [Boxes -> Floor],
         \A a, b \in Boxes : at[a] = at[b] => a = b
  PROVE  IsGameCleared(at) <=> \A t \in Targets : \E b \in Boxes : at[b] = t
<1> DEFINE onTarget == {b \in Boxes : at[b] \in Targets}
           f == [b \in onTarget |-> at[b]]
<1>1. IsFiniteSet(Targets)
  BY StageAssumption
<1>2. f \in Injection(onTarget, Targets)
  <2>1. f \in [onTarget -> Targets]
    OBVIOUS
  <2>2. IsInjective(f)
    BY DEF IsInjective
  <2> QED
    BY <2>1, <2>2 DEF Injection
<1>3. Cardinality(onTarget) = Cardinality(Targets) <=> f \in Surjection(onTarget, Targets)
  <2> HIDE DEF onTarget, f
  <2> QED
    BY <1>1, <1>2, FS_Injection
<1>4. f \in Surjection(onTarget, Targets)
        <=> \A t \in Targets : \E b \in onTarget : f[b] = t
  BY <1>2 DEF Surjection, Injection
<1>5. (\A t \in Targets : \E b \in onTarget : f[b] = t)
        <=> \A t \in Targets : \E b \in Boxes : at[b] = t
  OBVIOUS
<1> QED
  BY <1>3, <1>4, <1>5 DEF IsGameCleared

\* The stage is closed: from the floor a step leads to the floor or into a wall.
LEMMA NothingBeyondTheWalls ==
  ASSUME NEW p \in Floor, NEW d \in Steps
  PROVE  Beyond(p, d) \in Floor \cup Walls
BY StageAssumption

\* A step in a direction leads elsewhere.
LEMMA BeyondIsElsewhere ==
  ASSUME NEW p \in Floor, NEW d \in Steps, d # <<0, 0>>
  PROVE  Beyond(p, d) # p
<1>1. p \in Int \X Int
  BY StageAssumption
<1>2. d[1] \in Int /\ d[2] \in Int /\ d = <<d[1], d[2]>>
  BY DEF Steps
<1>3. p = <<p[1], p[2]>> /\ p[1] \in Int /\ p[2] \in Int
  BY <1>1
<1>4. d[1] # 0 \/ d[2] # 0
  BY <1>2
<1>5. p[1] + d[1] # p[1] \/ p[2] + d[2] # p[2]
  BY <1>2, <1>3, <1>4
<1> QED
  BY <1>3, <1>5 DEF Beyond

\* A walk touches no box and ends where none is.
LEMMA WalkPlaces ==
  ASSUME StageInv, NEW to, Walk(to)
  PROVE  player' \in Floor /\ box' = box /\ cleared' = cleared /\ Apart'
<1>1. to \in Floor /\ player' = to /\ UNCHANGED <<box, cleared>>
  BY DEF Walk
<1>2. \A b \in Boxes : box[b] # to
  BY DEF Walk, BoxesAt
<1> QED
  BY <1>1, <1>2 DEF StageInv, Apart

\* The box pushed leaves its tile to the player and takes one that is free.
LEMMA PushPlaces ==
  ASSUME StageInv, NEW d \in Steps, Push(Beyond(player, d), d)
  PROVE  /\ player' \in Floor /\ box' \in [Boxes -> Floor] /\ Apart'
         /\ cleared' = IsGameCleared(box')
<1> DEFINE to == Beyond(player, d)
           p == Beyond(to, d)
<1>1. PICK b \in Boxes :
         /\ box[b] = to /\ CanBePushed(b, p)
         /\ box' = [box EXCEPT ![b] = p] /\ cleared' = IsGameCleared(box')
  BY DEF Push, BoxesAt
<1>2. player' = to
  BY DEF Push
<1>3. box \in [Boxes -> Floor] /\ player \in Floor
  BY DEF StageInv, TypeOK
<1>4. to \in Floor /\ p \in Floor
  BY <1>1, <1>3 DEF CanBePushed
<1>5. box' \in [Boxes -> Floor]
  BY <1>1, <1>3, <1>4
<1>6. p # to
  <2>1. d # <<0, 0>>
    <3>1. SUFFICES ASSUME d = <<0, 0>> PROVE FALSE
      OBVIOUS
    <3>2. player = <<player[1], player[2]>> /\ player[1] \in Int /\ player[2] \in Int
      BY <1>3, StageAssumption
    <3>3. to = player
      BY <3>1, <3>2 DEF Beyond
    <3> QED
      BY <1>1, <3>3 DEF StageInv, Apart
  <2> QED
    BY <1>4, <2>1, BeyondIsElsewhere
<1>7. \A c \in Boxes : c # b => box'[c] = box[c] /\ box[c] # to /\ box[c] # p
  <2>1. \A c \in Boxes : box[c] = box[b] => c = b
    BY <1>1 DEF StageInv, Apart
  <2>2. \A c \in Boxes : box[c] = p => c = b
    BY <1>1 DEF CanBePushed, BoxesAt
  <2> QED
    BY <1>1, <1>3, <2>1, <2>2
<1>8. box'[b] = p
  BY <1>1, <1>3
<1>9. \A c, e \in Boxes : box'[c] = box'[e] => c = e
  <2>1. \A c, e \in Boxes : box[c] = box[e] => c = e
    BY DEF StageInv, Apart
  <2> HIDE DEF p, to
  <2> QED
    BY <1>7, <1>8, <2>1
<1>10. \A c \in Boxes : box'[c] # player'
  <2> HIDE DEF p, to
  <2> QED
    BY <1>2, <1>6, <1>7, <1>8
<1> QED
  BY <1>1, <1>2, <1>4, <1>5, <1>9, <1>10 DEF Apart

\* A frame of the level, whichever keys are pressed.
LEMMA GameplayKeeps ==
  ASSUME StageInv, GameplayTick
  PROVE  StageInv'
<1>1. /\ mainLevel' \in {"Gameplay", "Menu"} /\ selected' = selected
      /\ isQuit' = isQuit
  BY DEF GameplayTick
<1>2. selected' \in {Resume, Quit} /\ isQuit' \in BOOLEAN
  BY <1>1 DEF StageInv, TypeOK
<1>3. box \in [Boxes -> Floor] /\ player \in Floor /\ cleared \in BOOLEAN
  BY DEF StageInv, TypeOK
<1>4. ASSUME NEW to, Walk(to)
      PROVE  StageInv'
  <2>1. player' \in Floor /\ box' = box /\ cleared' = cleared /\ Apart'
    BY <1>4, WalkPlaces
  <2>2. TypeOK'
    BY <1>1, <1>2, <1>3, <2>1 DEF TypeOK
  <2>3. ClearedMeansCovered'
    BY <2>1 DEF StageInv, ClearedMeansCovered
  <2> QED
    BY <2>1, <2>2, <2>3 DEF StageInv
<1>5. ASSUME NEW d \in Steps, Push(Beyond(player, d), d)
      PROVE  StageInv'
  <2>1. /\ player' \in Floor /\ box' \in [Boxes -> Floor] /\ Apart'
        /\ cleared' = IsGameCleared(box')
    BY <1>5, PushPlaces
  <2>2. \A a, b \in Boxes : box'[a] = box'[b] => a = b
    BY <2>1 DEF Apart
  <2>3. cleared' \in BOOLEAN
    BY <2>1 DEF IsGameCleared
  <2>4. cleared' <=> \A t \in Targets : \E b \in Boxes : box'[b] = t
    BY <2>1, <2>2, CountingIsCovering
  <2>5. TypeOK'
    BY <1>1, <1>2, <2>1, <2>3 DEF TypeOK
  <2> QED
    BY <2>1, <2>4, <2>5 DEF StageInv, ClearedMeansCovered
<1>6. ASSUME NEW d \in Steps
      PROVE  ~WalkOntoBox(Beyond(player, d), d)
  BY <1>3, <1>6, NothingBeyondTheWalls DEF WalkOntoBox
<1>7. ASSUME StandStill
      PROVE  StageInv'
  BY <1>1, <1>2, <1>7
     DEF StageInv, StandStill, TypeOK, Apart, ClearedMeansCovered
<1> QED
  BY <1>4, <1>5, <1>6, <1>7 DEF GameplayTick

\* The menu leaves the stage alone.
LEMMA MenuKeeps ==
  ASSUME StageInv, MenuTick
  PROVE  StageInv'
<1>1. player' = player /\ box' = box /\ cleared' = cleared
  BY DEF MenuTick
<1>2. PICK moved \in {0, 1}, enter \in BOOLEAN, escape \in BOOLEAN :
         LET item == (selected + moved) % 2
             resumes == IF enter /\ item = Resume THEN 1 ELSE 0
         IN /\ isQuit' = (enter /\ item = Quit)
            /\ mainLevel' = ToggledMenu(resumes + (IF escape THEN 1 ELSE 0))
            /\ selected' = IF escape THEN Resume ELSE item
  BY DEF MenuTick
<1>3. selected \in {0, 1}
  BY DEF StageInv, TypeOK, Resume, Quit
<1>4. (selected + moved) % 2 \in {0, 1}
  BY <1>3
<1>5. selected' \in {Resume, Quit}
  BY <1>2, <1>4 DEF Resume, Quit
<1>6. isQuit' \in BOOLEAN
  BY <1>2
<1>7. mainLevel' \in {"Gameplay", "Menu"}
  BY <1>2 DEF ToggledMenu
<1> QED
  BY <1>1, <1>5, <1>6, <1>7
     DEF StageInv, TypeOK, Apart, ClearedMeansCovered

\* A stage begins with its boxes apart, off the targets and off the player.
LEMMA StageBegins == Init => StageInv
<1> SUFFICES ASSUME Init PROVE StageInv
  OBVIOUS
<1>1. TypeOK
  <2>1. Ground \subseteq Floor
    BY DEF Floor
  <2> QED
    BY <2>1, StageAssumption DEF Init, TypeOK
<1>2. Apart
  BY StageAssumption DEF Init, Apart
<1>3. ClearedMeansCovered
  <2>1. PICK t \in Targets : TRUE
    BY StageAssumption
  <2>2. \A b \in Boxes : box[b] # t
    BY <2>1, StageAssumption DEF Init
  <2> QED
    BY <2>1, <2>2 DEF Init, ClearedMeansCovered
<1> QED
  BY <1>1, <1>2, <1>3 DEF StageInv

\* The inductive invariant of the game: none of its three parts is inductive
\* alone, a push keeps the boxes apart because they are on the floor, and the
\* count of a push is a test of covering because they are apart.
LEMMA StageInvariant == PartsSpec => []StageInv
<1>1. StageInv /\ [Next]_vars => StageInv'
  <2> SUFFICES ASSUME StageInv, [Next]_vars PROVE StageInv'
    OBVIOUS
  <2>1. CASE GameplayTick
    BY <2>1, GameplayKeeps
  <2>2. CASE MenuTick
    BY <2>2, MenuKeeps
  <2>3. CASE UNCHANGED vars
    BY <2>3 DEF vars, StageInv, TypeOK, Apart, ClearedMeansCovered
  <2> QED
    BY <2>1, <2>2, <2>3 DEF Next
<1>2. StageInv /\ [PartsNext]_partVars => StageInv'
  BY <1>1, EachPartSteps
<1> QED
  BY StageBegins, <1>2, PTL DEF PartsSpec, PartsInit

\* Boxes and player never leave the floor, no two boxes come to share a tile
\* nor a box and the player, whichever keys are held in a frame
\* (GameLevel::CanMoveTo), and the stage counts as cleared when, and only when,
\* each of its targets is covered (GameLevel::IsGameCleared).
THEOREM BoxesStayApart == PartsSpec => []BoxesApart
<1>1. StageInv => BoxesApart
  BY DEF StageInv, Apart, BoxesApart
<1> QED
  BY <1>1, StageInvariant, PTL

-----------------------------------------------------------------------------
(* LocalGame: one player in three levels.                                  *)

\* What a level knows of its own player.
KnownVisits == [hp : Game!Health, hasSword : BOOLEAN, boss : BOOLEAN, heart : BOOLEAN,
                triforce : BOOLEAN, request : Game!Levels \cup {"none"}, away : BOOLEAN]

Carried == [hp |-> hero.hp, hasSword |-> hero.hasSword]

GameTyped ==
  /\ Game!TypeOK
  /\ visits \in [Game!PlayLevels -> KnownVisits]
  /\ hero \in [hp : Game!Health, hasSword : BOOLEAN, triforce : BOOLEAN]

\* The level that runs and the one that is asked for agree with the game's
\* state, and with what the level that runs has asked for.
LevelsAgree ==
  /\ IF subLevel = "none" THEN runningLevel = state ELSE subLevel = state
  /\ gamePhase = "begin" /\ runningLevel # "none" => subLevel = "none"
  /\ runningLevel \notin Game!PlayLevels => subLevel \in {"none", "Title", "Overworld"}
  /\ runningLevel \in loaded \ {"SwordCave"} => visits[runningLevel].request = subLevel

\* The hero is with the level that runs, once that has loaded it, and with the
\* game before.
HeroIsKept ==
  /\ loaded \subseteq {runningLevel}
  /\ gamePhase = "play" /\ runningLevel \in Game!PlayLevels => runningLevel \in loaded
  /\ runningLevel \in loaded => Game!SavePlayerState(visits[runningLevel]) = Carried
  /\ runningLevel \in Game!PlayLevels \ loaded => playerState = Carried
  /\ runningLevel \notin Game!PlayLevels /\ subLevel = "Overworld" => playerState = Carried
  /\ \A l \in Game!PlayLevels : visits[l].hasSword => hero.hasSword

\* The dungeon is for the armed, the endings for those who earned them; and the
\* triforce is had in the dungeon only, and left with for the ending only.
AskedForIsEarned ==
  /\ hero.hasSword <=> cave.swordCollected
  /\ "Dungeon1" \in {runningLevel, subLevel} => hero.hasSword
  /\ "GameOver" \in {runningLevel, subLevel} => hero.hp = 0
  /\ "Clear" \in {runningLevel, subLevel} => hero.hp > 0 /\ hero.triforce
  /\ subLevel = "Clear" => runningLevel = "Dungeon1" /\ visits["Dungeon1"].triforce
  /\ \A l \in Game!PlayLevels : visits[l].triforce =>
        /\ l = "Dungeon1" /\ hero.triforce
        /\ \/ /\ runningLevel = "Dungeon1" /\ "Dungeon1" \in loaded
              /\ hero.hp > 0 /\ subLevel \in {"none", "Clear"}
           \/ runningLevel \notin Game!PlayLevels /\ subLevel \in {"none", "Title"}

GameInv == GameTyped /\ LevelsAgree /\ HeroIsKept /\ AskedForIsEarned

\* What a step of a level may make of its visit.
Becomes(v, w, which) ==
  /\ w \in KnownVisits /\ w.hasSword = v.hasSword
  /\ v.hp = 0 => w.hp = 0
  /\ v.triforce => w.triforce /\ (v.hp > 0 => w.hp > 0)
  /\ w.triforce /\ ~v.triforce =>
        which = "Dungeon1" /\ w.hp > 0 /\ v.request = "none" /\ w.request = "none"
  /\ w.request # v.request =>
        /\ w.hp = v.hp /\ w.triforce = v.triforce
        /\ \/ /\ w.request \in Game!PlayLevels \ {which} /\ v.request = "none"
              /\ v.hp > 0 /\ ~v.triforce /\ (w.request = "Dungeon1" => v.hasSword)
           \/ w.request = "GameOver" /\ v.hp = 0 /\ v.request = "none"
           \/ w.request = "Clear" /\ v.triforce

\* In the overworld hits are taken and other levels asked for.
LEMMA OverworldPlayed ==
  ASSUME NEW v \in KnownVisits, NEW w \in Game!Overworld!Hurt(v) \cup Game!Overworld!Ask(v)
  PROVE  Becomes(v, w, "Overworld")
<1>0. MaxHp \in Nat /\ v.hp \in 0 .. MaxHp
  BY PartsAssumption DEF Game!LocalGameAssumption, KnownVisits, Game!Health
<1>1. CASE w \in Game!Overworld!Hurt(v)
  BY <1>0, <1>1 DEF Game!Overworld!Hurt, Becomes, KnownVisits, Game!Health
<1>2. CASE w \in Game!Overworld!Ask(v)
  BY <1>0, <1>2
     DEF Game!Overworld!Ask, Game!Overworld!When, Game!Overworld!NoRequest, Becomes,
         KnownVisits, Game!Health, Game!PlayLevels, Game!Levels
<1> QED
  BY <1>1, <1>2

\* In the dungeon also Aquamentus falls, heart and triforce are taken.
LEMMA DungeonPlayed ==
  ASSUME NEW v \in KnownVisits, NEW w \in Game!Dungeon1!Played(v)
  PROVE  Becomes(v, w, "Dungeon1")
<1>0. MaxHp \in Nat \ {0} /\ v.hp \in 0 .. MaxHp
  BY PartsAssumption DEF Game!LocalGameAssumption, KnownVisits, Game!Health
<1>1. CASE w \in Game!Dungeon1!Hurt(v)
  BY <1>0, <1>1 DEF Game!Dungeon1!Hurt, Becomes, KnownVisits, Game!Health
<1>2. CASE w \in Game!Dungeon1!Ask(v)
  BY <1>0, <1>2
     DEF Game!Dungeon1!Ask, Game!Dungeon1!When, Game!Dungeon1!NoRequest, Becomes,
         KnownVisits, Game!Health, Game!PlayLevels, Game!Levels
<1>3. CASE w \in Game!Dungeon1!DefeatBoss(v)
  BY <1>0, <1>3 DEF Game!Dungeon1!DefeatBoss, Game!Dungeon1!When, Becomes, KnownVisits, Game!Health
<1>4. CASE w \in Game!Dungeon1!Collect(v)
  <2> DEFINE after(a, c) == [v EXCEPT !.heart = a, !.triforce = c,
                                      !.hp = IF a /\ ~v.heart THEN MaxHp ELSE @]
             hearts == {b \in BOOLEAN : v.heart => b}
             triforces == {b \in BOOLEAN : /\ v.boss /\ v.hp > 0 /\ v.request = "none"
                                           /\ v.triforce => b}
  <2>1. Game!Dungeon1!Collect(v) = {after(a, c) : a \in hearts, c \in triforces}
    BY DEF Game!Dungeon1!Collect, Game!Dungeon1!NoRequest
  <2>2. PICK h \in hearts, t \in triforces : w = after(h, t)
    <3> HIDE DEF after, hearts, triforces
    <3> QED
      BY <1>4, <2>1
  <2>3. /\ v.boss /\ v.hp > 0 /\ v.request = "none" /\ (v.triforce => t)
        /\ h \in BOOLEAN /\ t \in BOOLEAN
    OBVIOUS
  <2>4. /\ w.hp = (IF h /\ ~v.heart THEN MaxHp ELSE v.hp) /\ w.triforce = t
        /\ w.hasSword = v.hasSword /\ w.request = v.request
    BY <2>2 DEF KnownVisits
  <2>5. w \in KnownVisits
    <3> DEFINE n == IF h /\ ~v.heart THEN MaxHp ELSE v.hp
    <3>1. n \in Game!Health
      BY <1>0 DEF Game!Health
    <3>2. w = [v EXCEPT !.heart = h, !.triforce = t, !.hp = n]
      BY <2>2
    <3> HIDE DEF n
    <3> QED
      BY <2>3, <3>1, <3>2 DEF KnownVisits
  <2> QED
    BY <1>0, <2>3, <2>4, <2>5 DEF Becomes
<1> QED
  BY <1>1, <1>2, <1>3, <1>4 DEF Game!Dungeon1!Played

\* The game begins with nothing but a request for the title screen.
LEMMA GameBegins == Game!Init => GameInv
<1> SUFFICES ASSUME Game!Init PROVE GameInv
  OBVIOUS
<1>1. MaxHp \in Nat \ {0} /\ MaxHp \in Game!Health
  BY PartsAssumption DEF Game!LocalGameAssumption, Game!Health
<1>2. Game!NewVisits \in [Game!PlayLevels -> KnownVisits]
  BY <1>1 DEF Game!NewVisits, KnownVisits, Game!Overworld!NewVisit, Game!Overworld!NoRequest
<1>3. Game!NewCave.at \in Int \X Int /\ Game!NewCave.swordCollected = FALSE
  BY PartsAssumption DEF Game!LocalGameAssumption, Game!NewCave
<1>4. \A l \in Game!PlayLevels :
         /\ visits[l].hp = MaxHp /\ visits[l].hasSword = FALSE /\ visits[l].triforce = FALSE
  BY DEF Game!Init, Game!NewVisits, Game!Overworld!NewVisit
<1>5. hero \in [hp : Game!Health, hasSword : BOOLEAN, triforce : BOOLEAN] /\ hero.hasSword = FALSE
  BY <1>1 DEF Game!Init, Game!NewHero
<1>6. GameTyped
  <2>1. playerState \in [hp : Game!Health, hasSword : BOOLEAN]
    BY <1>1 DEF Game!Init, Game!Whole
  <2>2. \A l \in Game!PlayLevels : visits[l].hp \in Game!Health /\ visits[l].hasSword \in BOOLEAN
    BY <1>1, <1>4
  <2> QED
    BY <1>2, <1>3, <1>5, <2>1, <2>2 DEF Game!Init, GameTyped, Game!TypeOK, Game!Levels, Game!NoLevel
<1>7. LevelsAgree
  BY DEF Game!Init, LevelsAgree, Game!NoLevel
<1>8. HeroIsKept
  BY <1>4 DEF Game!Init, HeroIsKept, Game!NoLevel, Game!PlayLevels
<1>9. AskedForIsEarned
  BY <1>3, <1>4, <1>5 DEF Game!Init, AskedForIsEarned, Game!NoLevel
<1> QED
  BY <1>6, <1>7, <1>8, <1>9 DEF GameInv

\* A level that begins loads what the game has kept, once.
LEMMA BeginPlayKeeps == ASSUME GameInv, Game!BeginPlay PROVE GameInv'
<1>0. UNCHANGED <<state, runningLevel, subLevel, playerState, cave, hero>>
      /\ gamePhase = "begin" /\ gamePhase' = "play"
  BY DEF Game!BeginPlay
<1>1. CASE runningLevel \notin Game!PlayLevels
  <2>1. UNCHANGED <<spawned, loaded, visits>>
    BY <1>1 DEF Game!BeginPlay
  <2>2. GameTyped'
    BY <1>0, <2>1 DEF GameInv, GameTyped, Game!TypeOK
  <2>3. LevelsAgree' /\ HeroIsKept' /\ AskedForIsEarned'
    BY <1>0, <1>1, <2>1 DEF GameInv, LevelsAgree, HeroIsKept, AskedForIsEarned, Carried
  <2> QED
    BY <2>2, <2>3 DEF GameInv
<1>2. CASE runningLevel \in loaded
  <2>1. runningLevel \in Game!PlayLevels /\ runningLevel \in spawned
    BY <1>2 DEF GameInv, GameTyped, Game!TypeOK
  <2>2. UNCHANGED <<spawned, loaded, visits>>
    BY <1>2, <2>1 DEF Game!BeginPlay, Game!LoadsPlayerState
  <2>3. GameTyped'
    BY <1>0, <2>2 DEF GameInv, GameTyped, Game!TypeOK
  <2>4. LevelsAgree' /\ HeroIsKept' /\ AskedForIsEarned'
    BY <1>0, <1>2, <2>2 DEF GameInv, LevelsAgree, HeroIsKept, AskedForIsEarned, Carried
  <2> QED
    BY <2>3, <2>4 DEF GameInv
<1>3. CASE runningLevel \in Game!PlayLevels \ loaded
  <2> DEFINE v == visits[runningLevel]
             w == Game!Overworld!ReturnWith(v, playerState.hp, playerState.hasSword)
  <2>1. /\ spawned' = spawned \cup {runningLevel} /\ loaded' = loaded \cup {runningLevel}
        /\ visits' = [visits EXCEPT ![runningLevel] = w]
    BY <1>3 DEF Game!BeginPlay, Game!LoadsPlayerState
  <2>2. v \in KnownVisits /\ visits \in [Game!PlayLevels -> KnownVisits]
    BY <1>3 DEF GameInv, GameTyped
  <2>3. playerState = Carried /\ playerState \in [hp : Game!Health, hasSword : BOOLEAN]
        /\ (v.hasSword => hero.hasSword) /\ hero.hasSword \in BOOLEAN
    BY <1>3 DEF GameInv, HeroIsKept, GameTyped, Game!TypeOK
  <2>4. /\ w \in KnownVisits /\ w.hp = hero.hp /\ w.hasSword = hero.hasSword
        /\ w.request = "none" /\ w.triforce = v.triforce
    BY <2>2, <2>3 DEF Game!Overworld!ReturnWith, Game!Overworld!NoRequest, KnownVisits, Carried
  <2> HIDE DEF w
  <2>5. /\ visits' \in [Game!PlayLevels -> KnownVisits] /\ visits'[runningLevel] = w
        /\ \A l \in Game!PlayLevels \ {runningLevel} : visits'[l] = visits[l]
    BY <1>3, <2>1, <2>2, <2>4
  <2>6. GameTyped'
    <3>1. \A l \in Game!PlayLevels : visits'[l].hp \in Game!Health /\ visits'[l].hasSword \in BOOLEAN
      BY <2>5 DEF KnownVisits
    <3> QED
      BY <1>0, <1>3, <2>1, <2>5, <3>1 DEF GameInv, GameTyped, Game!TypeOK
  <2>7. LevelsAgree'
    BY <1>0, <1>3, <2>1, <2>4, <2>5 DEF GameInv, LevelsAgree, GameTyped, Game!TypeOK, HeroIsKept, Game!PlayLevels
  <2>8. HeroIsKept'
    BY <1>0, <1>3, <2>1, <2>3, <2>4, <2>5 DEF GameInv, HeroIsKept, Carried, Game!SavePlayerState
  <2>9. AskedForIsEarned'
    <3>1. ~v.triforce
      BY <1>3 DEF GameInv, AskedForIsEarned, HeroIsKept
    <3> QED
      BY <1>0, <1>3, <2>1, <2>4, <2>5, <3>1 DEF GameInv, AskedForIsEarned
  <2> QED
    BY <2>6, <2>7, <2>8, <2>9 DEF GameInv
<1> QED
  BY <1>1, <1>2, <1>3

\* The game follows a level that asks for another.
LEMMA PlaysKeeps ==
  ASSUME GameInv, NEW which \in {"Overworld", "Dungeon1"}, NEW steps,
         Game!Plays(which, steps),
         \A w \in steps : Becomes(visits[which], w, which)
  PROVE  GameInv'
<1> DEFINE v == visits[which]
<1>1. PICK w \in steps :
         /\ visits' = [visits EXCEPT ![which] = w]
         /\ IF w.request = v.request THEN UNCHANGED <<state, subLevel>>
            ELSE Game!ChangeLevel(w.request)
         /\ Game!BecomesHero(w)
  BY DEF Game!Plays
<1>2. /\ UNCHANGED <<runningLevel, gamePhase, playerState, spawned, loaded, cave>>
      /\ gamePhase = "play" /\ runningLevel = which
  BY DEF Game!Plays, Game!Playing
<1>3. Becomes(v, w, which) /\ w \in KnownVisits
  BY DEF Becomes
<1>4. v \in KnownVisits /\ visits \in [Game!PlayLevels -> KnownVisits] /\ which \in Game!PlayLevels
  BY DEF GameInv, GameTyped, Game!PlayLevels
<1>5. /\ which \in loaded /\ v.request = subLevel
      /\ v.hp = hero.hp /\ v.hasSword = hero.hasSword
  BY <1>2, <1>4 DEF GameInv, HeroIsKept, LevelsAgree, Game!SavePlayerState, Carried
<1>6. /\ visits' \in [Game!PlayLevels -> KnownVisits] /\ visits'[which] = w
      /\ \A l \in Game!PlayLevels \ {which} : visits'[l] = visits[l]
  BY <1>1, <1>3, <1>4
<1>7. /\ hero'.hp = w.hp /\ hero'.hasSword = w.hasSword
      /\ hero'.triforce = (hero.triforce \/ (w.triforce /\ ~v.triforce))
  BY <1>1, <1>2 DEF Game!BecomesHero
<1>8. /\ w.hp \in Game!Health /\ w.hasSword \in BOOLEAN /\ w.triforce \in BOOLEAN
      /\ w.request \in Game!Levels \cup {"none"}
      /\ v.hp \in Game!Health /\ v.hasSword \in BOOLEAN /\ v.triforce \in BOOLEAN
  BY <1>3, <1>4 DEF KnownVisits
<1>9. w.hasSword = v.hasSword
  BY <1>3 DEF Becomes
<1>10. GameTyped'
  <2>1. hero' \in [hp : Game!Health, hasSword : BOOLEAN, triforce : BOOLEAN]
    <3>1. (hero.triforce \/ (w.triforce /\ ~v.triforce)) \in BOOLEAN
      OBVIOUS
    <3> QED
      BY <1>1, <1>2, <1>8, <3>1 DEF Game!BecomesHero
  <2>2. \A l \in Game!PlayLevels : visits'[l].hp \in Game!Health /\ visits'[l].hasSword \in BOOLEAN
    BY <1>6 DEF KnownVisits
  <2>3. state' \in Game!Levels /\ subLevel' \in Game!Levels \cup {Game!NoLevel}
    BY <1>1, <1>5, <1>8 DEF GameInv, GameTyped, Game!TypeOK, Game!ChangeLevel, Game!NoLevel, Becomes
  <2> QED
    BY <1>2, <1>6, <2>1, <2>2, <2>3 DEF GameInv, GameTyped, Game!TypeOK
<1>11. subLevel' = w.request /\ state' = IF subLevel' = "none" THEN which ELSE subLevel'
  <2>1. CASE w.request = v.request
    BY <1>1, <1>2, <1>5, <2>1 DEF GameInv, LevelsAgree
  <2>2. CASE w.request # v.request
    <3>1. w.request # "none" /\ w.request # state
      BY <1>2, <1>3, <1>4, <1>5, <2>2
         DEF Becomes, GameInv, LevelsAgree, AskedForIsEarned, Game!PlayLevels
    <3> QED
      BY <1>1, <2>2, <3>1 DEF Game!ChangeLevel
  <2> QED
    BY <2>1, <2>2
<1>12. LevelsAgree'
  BY <1>2, <1>4, <1>6, <1>11 DEF GameInv, LevelsAgree
<1>13. HeroIsKept'
  <2>1. Game!SavePlayerState(visits'[which]) = Carried'
    BY <1>6, <1>7 DEF Game!SavePlayerState, Carried
  <2> QED
    BY <1>2, <1>4, <1>5, <1>6, <1>7, <1>9, <2>1 DEF GameInv, HeroIsKept
<1>14. AskedForIsEarned'
  <2> HIDE DEF v
  <2>1. hero'.hasSword <=> cave'.swordCollected
    BY <1>2, <1>5, <1>7, <1>9 DEF GameInv, AskedForIsEarned
  <2>2. "Dungeon1" \in {runningLevel', subLevel'} => hero'.hasSword
    BY <1>2, <1>3, <1>5, <1>7, <1>9, <1>11 DEF Becomes, GameInv, AskedForIsEarned
  <2>3. "GameOver" \in {runningLevel', subLevel'} => hero'.hp = 0
    <3>1. CASE w.request = v.request
      BY <1>2, <1>3, <1>5, <1>7, <1>11, <3>1 DEF Becomes, GameInv, AskedForIsEarned
    <3>2. CASE w.request # v.request
      BY <1>2, <1>3, <1>4, <1>5, <1>7, <1>11, <3>2 DEF Becomes, Game!PlayLevels
    <3> QED
      BY <3>1, <3>2
  <2>4. w.triforce => which = "Dungeon1" /\ hero'.triforce /\ w.hp > 0 /\ w.request \in {"none", "Clear"}
    <3>1. CASE v.triforce
      BY <1>2, <1>3, <1>4, <1>5, <1>7, <1>8, <3>1 DEF v, Becomes, GameInv, AskedForIsEarned
    <3>2. CASE ~v.triforce
      BY <1>3, <1>7, <3>2 DEF Becomes
    <3> QED
      BY <3>1, <3>2
  <2>5. subLevel' = "Clear" => w.triforce
    <3>1. CASE w.request = v.request
      BY <1>2, <1>3, <1>5, <1>11, <3>1 DEF v, Becomes, GameInv, AskedForIsEarned
    <3>2. CASE w.request # v.request
      BY <1>3, <1>4, <1>11, <3>2 DEF Becomes, Game!PlayLevels
    <3> QED
      BY <3>1, <3>2
  <2>6. \A l \in Game!PlayLevels \ {which} : ~visits'[l].triforce
    BY <1>2, <1>4, <1>6 DEF GameInv, AskedForIsEarned
  <2> QED
    BY <1>2, <1>5, <1>6, <1>7, <1>11, <2>1, <2>2, <2>3, <2>4, <2>5, <2>6
       DEF AskedForIsEarned, Game!PlayLevels
<1> QED
  BY <1>10, <1>12, <1>13, <1>14 DEF GameInv

\* A new game makes a new hero of whom every level knows nothing yet.
LEMMA SelectLocalplayKeeps == ASSUME GameInv, Game!SelectLocalplay PROVE GameInv'
<1>1. /\ runningLevel = "Title" /\ subLevel = "none" /\ gamePhase = "play" /\ state = "Title"
      /\ UNCHANGED <<runningLevel, gamePhase>>
      /\ playerState' = Game!Whole /\ hero' = Game!NewHero /\ visits' = Game!NewVisits
      /\ spawned' = {} /\ loaded' = {} /\ cave' = Game!NewCave
  BY DEF Game!SelectLocalplay, Game!StartNewGame, Game!Playing, Game!NoLevel, GameInv, LevelsAgree
<1>2. state' = "Overworld" /\ subLevel' = "Overworld"
  BY <1>1 DEF Game!SelectLocalplay, Game!StartNewGame, Game!ChangeLevel
<1>3. MaxHp \in Game!Health
  BY PartsAssumption DEF Game!LocalGameAssumption, Game!Health
<1>4. Game!NewVisits \in [Game!PlayLevels -> KnownVisits]
  BY <1>3 DEF Game!NewVisits, KnownVisits, Game!Overworld!NewVisit, Game!Overworld!NoRequest
<1>5. Game!NewCave.at \in Int \X Int /\ Game!NewCave.swordCollected = FALSE
  BY PartsAssumption DEF Game!LocalGameAssumption, Game!NewCave
<1>6. \A l \in Game!PlayLevels :
         /\ visits'[l].hp = MaxHp /\ visits'[l].hasSword = FALSE /\ visits'[l].triforce = FALSE
  BY <1>1 DEF Game!NewVisits, Game!Overworld!NewVisit
<1>7. /\ hero' \in [hp : Game!Health, hasSword : BOOLEAN, triforce : BOOLEAN]
      /\ hero'.hasSword = FALSE /\ playerState' = Carried'
      /\ playerState' \in [hp : Game!Health, hasSword : BOOLEAN]
  BY <1>1, <1>3 DEF Game!NewHero, Game!Whole, Carried
<1>8. GameTyped'
  <2>1. \A l \in Game!PlayLevels : visits'[l].hp \in Game!Health /\ visits'[l].hasSword \in BOOLEAN
    BY <1>3, <1>6
  <2> QED
    BY <1>1, <1>2, <1>4, <1>5, <1>7, <2>1
       DEF GameInv, GameTyped, Game!TypeOK, Game!Levels, Game!PlayLevels
<1>9. LevelsAgree'
  BY <1>1, <1>2 DEF LevelsAgree
<1>10. HeroIsKept'
  BY <1>1, <1>6, <1>7 DEF HeroIsKept, Game!PlayLevels
<1>11. AskedForIsEarned'
  BY <1>1, <1>2, <1>5, <1>6, <1>7 DEF AskedForIsEarned
<1> QED
  BY <1>8, <1>9, <1>10, <1>11 DEF GameInv

\* The screens a game ends with lead back to the title.
LEMMA LeaveEndScreenKeeps == ASSUME GameInv, Game!LeaveEndScreen PROVE GameInv'
<1>1. /\ runningLevel \in {"GameOver", "Clear"} /\ gamePhase = "play"
      /\ UNCHANGED <<runningLevel, gamePhase, playerState, visits, spawned, loaded, cave, hero>>
  BY DEF Game!LeaveEndScreen, Game!Playing
<1>2. state' = "Title" /\ subLevel' = "Title"
  BY <1>1 DEF Game!LeaveEndScreen, Game!ChangeLevel, GameInv, LevelsAgree, Game!PlayLevels
<1>3. GameTyped'
  BY <1>1, <1>2 DEF GameInv, GameTyped, Game!TypeOK, Game!Levels
<1>4. LevelsAgree'
  BY <1>1, <1>2 DEF GameInv, LevelsAgree, GameTyped, Game!TypeOK, Game!PlayLevels
<1>5. HeroIsKept'
  BY <1>1, <1>2 DEF GameInv, HeroIsKept, Carried
<1>6. AskedForIsEarned'
  BY <1>1, <1>2 DEF GameInv, AskedForIsEarned, Game!PlayLevels
<1> QED
  BY <1>3, <1>4, <1>5, <1>6 DEF GameInv

\* The engine changes levels, and the one that is left saves its player.
LEMMA EndFrameKeeps == ASSUME GameInv, Game!EndFrame PROVE GameInv'
<1>0. /\ gamePhase = "play" /\ gamePhase' = "begin" /\ UNCHANGED <<state, spawned, cave, hero>>
  BY DEF Game!EndFrame
<1>1. CASE subLevel = "none"
  <2>1. UNCHANGED <<runningLevel, subLevel, playerState, visits, loaded>>
    BY <1>1 DEF Game!EndFrame, Game!NoLevel
  <2>2. GameTyped'
    BY <1>0, <2>1 DEF GameInv, GameTyped, Game!TypeOK
  <2>3. LevelsAgree' /\ HeroIsKept' /\ AskedForIsEarned'
    BY <1>0, <1>1, <2>1 DEF GameInv, LevelsAgree, HeroIsKept, AskedForIsEarned, Carried
  <2> QED
    BY <2>2, <2>3 DEF GameInv
<1>2. CASE subLevel # "none" /\ runningLevel \in Game!PlayLevels
  <2> DEFINE v == visits[runningLevel]
             w == [v EXCEPT !.away = TRUE]
  <2>1. runningLevel \in loaded /\ runningLevel \in spawned /\ loaded' = {} /\ loaded \subseteq {runningLevel}
    BY <1>0, <1>2 DEF GameInv, GameTyped, Game!TypeOK, HeroIsKept, Game!EndFrame, Game!NoLevel
  <2>2. /\ runningLevel' = subLevel /\ subLevel' = "none"
        /\ playerState' = Game!SavePlayerState(v)
        /\ visits' = [visits EXCEPT ![runningLevel].away = TRUE]
    BY <1>2, <2>1 DEF Game!EndFrame, Game!NoLevel
  <2>3. v \in KnownVisits /\ visits \in [Game!PlayLevels -> KnownVisits]
    BY <1>2 DEF GameInv, GameTyped
  <2>4. /\ visits' \in [Game!PlayLevels -> KnownVisits]
        /\ \A l \in Game!PlayLevels : /\ visits'[l].triforce = visits[l].triforce
                                      /\ visits'[l].hasSword = visits[l].hasSword
    <3>1. w \in KnownVisits /\ w.triforce = v.triforce /\ w.hasSword = v.hasSword
      BY <2>3 DEF KnownVisits
    <3>2. visits' = [visits EXCEPT ![runningLevel] = w]
      BY <2>2
    <3> HIDE DEF w
    <3> QED
      BY <1>2, <2>3, <3>1, <3>2
  <2>5. playerState' = Carried'
    BY <1>0, <2>1, <2>2 DEF GameInv, HeroIsKept, Carried
  <2>6. GameTyped'
    <3>1. \A l \in Game!PlayLevels : visits'[l].hp \in Game!Health /\ visits'[l].hasSword \in BOOLEAN
      BY <2>4 DEF KnownVisits
    <3>2. playerState' \in [hp : Game!Health, hasSword : BOOLEAN]
      BY <2>2, <2>3 DEF Game!SavePlayerState, KnownVisits
    <3> QED
      BY <1>0, <2>1, <2>2, <2>4, <3>1, <3>2 DEF GameInv, GameTyped, Game!TypeOK, Game!NoLevel
  <2>7. LevelsAgree'
    BY <1>0, <1>2, <2>1, <2>2 DEF GameInv, LevelsAgree
  <2>8. HeroIsKept'
    BY <1>0, <2>1, <2>2, <2>4, <2>5 DEF GameInv, HeroIsKept
  <2>9. AskedForIsEarned'
    BY <1>0, <1>2, <2>1, <2>2, <2>4 DEF GameInv, AskedForIsEarned, Game!PlayLevels
  <2> QED
    BY <2>6, <2>7, <2>8, <2>9 DEF GameInv
<1>3. CASE subLevel # "none" /\ runningLevel \notin Game!PlayLevels
  <2>1. runningLevel \notin spawned /\ loaded = {}
    BY <1>3 DEF GameInv, GameTyped, Game!TypeOK, HeroIsKept
  <2>2. /\ runningLevel' = subLevel /\ subLevel' = "none"
        /\ UNCHANGED <<playerState, loaded, visits>> /\ subLevel \in {"Title", "Overworld"}
    BY <1>3, <2>1 DEF Game!EndFrame, Game!NoLevel, GameInv, LevelsAgree
  <2>3. GameTyped'
    BY <1>0, <2>2 DEF GameInv, GameTyped, Game!TypeOK, Game!NoLevel
  <2>4. LevelsAgree'
    BY <1>0, <1>3, <2>1, <2>2 DEF GameInv, LevelsAgree
  <2>5. HeroIsKept'
    BY <1>0, <1>3, <2>1, <2>2 DEF GameInv, HeroIsKept, Carried, Game!PlayLevels
  <2>6. AskedForIsEarned'
    BY <1>0, <1>3, <2>1, <2>2 DEF GameInv, AskedForIsEarned, Game!PlayLevels
  <2> QED
    BY <2>3, <2>4, <2>5, <2>6 DEF GameInv
<1> QED
  BY <1>1, <1>2, <1>3

\* Whoever comes dead to the cave goes on to the game over screen.
LEMMA CaveDeathKeeps == ASSUME GameInv, Game!CaveDeath PROVE GameInv'
<1>1. /\ runningLevel = "SwordCave" /\ gamePhase = "play" /\ subLevel = "none"
      /\ visits["SwordCave"].hp = 0
      /\ UNCHANGED <<runningLevel, gamePhase, playerState, visits, spawned, loaded, cave, hero>>
  BY DEF Game!CaveDeath, Game!InCave, Game!Playing, Game!NoLevel
<1>2. state' = "GameOver" /\ subLevel' = "GameOver"
  BY <1>1 DEF Game!CaveDeath, Game!ChangeLevel, GameInv, LevelsAgree
<1>3. hero.hp = 0
  BY <1>1 DEF GameInv, HeroIsKept, Game!PlayLevels, Game!SavePlayerState, Carried
<1>4. GameTyped'
  BY <1>1, <1>2 DEF GameInv, GameTyped, Game!TypeOK, Game!Levels
<1>5. LevelsAgree'
  BY <1>1, <1>2 DEF GameInv, LevelsAgree, Game!PlayLevels
<1>6. HeroIsKept'
  BY <1>1, <1>2 DEF GameInv, HeroIsKept, Carried
<1>7. AskedForIsEarned'
  BY <1>1, <1>2, <1>3 DEF GameInv, AskedForIsEarned, Game!PlayLevels
<1> QED
  BY <1>4, <1>5, <1>6, <1>7 DEF GameInv

\* The way out of the cave.
LEMMA ExitCaveKeeps == ASSUME GameInv, Game!ExitCave PROVE GameInv'
<1>1. /\ runningLevel = "SwordCave" /\ gamePhase = "play" /\ subLevel = "none"
      /\ UNCHANGED <<runningLevel, gamePhase, playerState, visits, spawned, loaded, cave, hero>>
  BY DEF Game!ExitCave, Game!InCave, Game!Playing, Game!NoLevel
<1>2. state' = "Overworld" /\ subLevel' = "Overworld"
  BY <1>1 DEF Game!ExitCave, Game!ChangeLevel, GameInv, LevelsAgree
<1>3. GameTyped'
  BY <1>1, <1>2 DEF GameInv, GameTyped, Game!TypeOK, Game!Levels, Game!PlayLevels
<1>4. LevelsAgree'
  BY <1>1, <1>2 DEF GameInv, LevelsAgree, Game!PlayLevels
<1>5. HeroIsKept'
  BY <1>1, <1>2 DEF GameInv, HeroIsKept, Carried, Game!PlayLevels
<1>6. AskedForIsEarned'
  BY <1>1, <1>2 DEF GameInv, AskedForIsEarned, Game!PlayLevels
<1> QED
  BY <1>3, <1>4, <1>5, <1>6 DEF GameInv

\* A walk in the cave, perhaps to the sword, which arms the one hero.
LEMMA CaveStepKeeps == ASSUME GameInv, Game!CaveStep PROVE GameInv'
<1>1. /\ runningLevel = "SwordCave" /\ gamePhase = "play" /\ subLevel = "none"
      /\ UNCHANGED <<state, runningLevel, subLevel, gamePhase, playerState, spawned, loaded>>
  BY DEF Game!CaveStep, Game!InCave, Game!Playing, Game!NoLevel
<1> DEFINE v == visits["SwordCave"]
<1>2. PICK d \in Game!Directions :
         LET to == Game!Plus(cave.at, d)
             found == Game!TryCollectSword(to)
             w == [v EXCEPT !.hasSword = @ \/ found]
         IN /\ cave' = [at |-> to, swordCollected |-> cave.swordCollected \/ found]
            /\ visits' = [visits EXCEPT !["SwordCave"] = w]
            /\ Game!BecomesHero(w)
  BY DEF Game!CaveStep
<1> DEFINE to == Game!Plus(cave.at, d)
           found == Game!TryCollectSword(to)
           w == [v EXCEPT !.hasSword = @ \/ found]
<1>3. /\ cave' = [at |-> to, swordCollected |-> cave.swordCollected \/ found]
      /\ visits' = [visits EXCEPT !["SwordCave"] = w]
      /\ Game!BecomesHero(w)
  BY <1>2
<1>4. found \in BOOLEAN
  BY DEF Game!TryCollectSword, Game!Overlaps, Game!ShareColumns, Game!ShareRows
<1>5. /\ v \in KnownVisits /\ visits \in [Game!PlayLevels -> KnownVisits]
      /\ "SwordCave" \in Game!PlayLevels
  BY DEF GameInv, GameTyped, Game!PlayLevels
<1>6. to \in Int \X Int
  <2>1. cave.at \in Int \X Int
    BY DEF GameInv, GameTyped, Game!TypeOK
  <2>2. d \in Int \X Int
    BY DEF Game!Directions, Game!Up, Game!Down, Game!Left, Game!Right
  <2> QED
    BY <2>1, <2>2 DEF Game!Plus
<1> HIDE DEF found, to
<1>7. /\ w \in KnownVisits /\ w.hp = v.hp /\ w.triforce = v.triforce
      /\ w.hasSword = (v.hasSword \/ found) /\ w.request = v.request
  BY <1>4, <1>5 DEF KnownVisits
<1> HIDE DEF w
<1>8. /\ visits' \in [Game!PlayLevels -> KnownVisits] /\ visits'["SwordCave"] = w
      /\ \A l \in Game!PlayLevels \ {"SwordCave"} : visits'[l] = visits[l]
  BY <1>3, <1>5, <1>7
<1>9. /\ "SwordCave" \in loaded /\ v.hp = hero.hp /\ v.hasSword = hero.hasSword /\ ~v.triforce
      /\ hero.hasSword = cave.swordCollected
  <2>1. hero.hasSword \in BOOLEAN /\ cave.swordCollected \in BOOLEAN
    BY DEF GameInv, GameTyped, Game!TypeOK
  <2> QED
    BY <1>1, <1>5, <2>1 DEF GameInv, HeroIsKept, AskedForIsEarned, Game!SavePlayerState, Carried
<1>10. hero' = [hp |-> w.hp, hasSword |-> w.hasSword, triforce |-> hero.triforce \/ (w.triforce /\ ~v.triforce)]
  BY <1>1, <1>3 DEF Game!BecomesHero
<1>11. /\ hero'.hp = hero.hp /\ hero'.hasSword = cave'.swordCollected
       /\ hero'.triforce = hero.triforce /\ hero'.hasSword \in BOOLEAN
       /\ (hero.hasSword => hero'.hasSword) /\ hero'.hp = w.hp /\ hero'.hasSword = w.hasSword
  <2>1. hero.triforce \in BOOLEAN /\ v.triforce = FALSE /\ hero.hasSword \in BOOLEAN
    BY <1>5, <1>9 DEF GameInv, GameTyped, KnownVisits
  <2>2. (hero.triforce \/ (w.triforce /\ ~v.triforce)) = hero.triforce
    BY <1>7, <2>1
  <2> QED
    BY <1>3, <1>4, <1>7, <1>9, <1>10, <2>1, <2>2
<1>12. GameTyped'
  <2>1. hero' \in [hp : Game!Health, hasSword : BOOLEAN, triforce : BOOLEAN]
    BY <1>7, <1>10, <1>11 DEF GameInv, GameTyped, KnownVisits
  <2>2. \A l \in Game!PlayLevels : visits'[l].hp \in Game!Health /\ visits'[l].hasSword \in BOOLEAN
    BY <1>8 DEF KnownVisits
  <2>3. cave'.at \in Int \X Int /\ cave'.swordCollected \in BOOLEAN
    BY <1>3, <1>6, <1>11
  <2> QED
    BY <1>1, <1>8, <2>1, <2>2, <2>3 DEF GameInv, GameTyped, Game!TypeOK
<1>13. LevelsAgree'
  BY <1>1, <1>8 DEF GameInv, LevelsAgree
<1>14. HeroIsKept'
  <2>1. Game!SavePlayerState(visits'["SwordCave"]) = Carried'
    BY <1>8, <1>11 DEF Game!SavePlayerState, Carried
  <2>2. \A l \in Game!PlayLevels : visits'[l].hasSword => hero'.hasSword
    BY <1>8, <1>11 DEF GameInv, HeroIsKept
  <2> QED
    BY <1>1, <1>5, <1>9, <2>1, <2>2 DEF GameInv, HeroIsKept
<1>15. AskedForIsEarned'
  BY <1>1, <1>7, <1>8, <1>9, <1>11 DEF GameInv, AskedForIsEarned
<1> QED
  BY <1>12, <1>13, <1>14, <1>15 DEF GameInv

\* The inductive invariant of a game: the hero's health and sword travel with
\* the level that runs, or lie with the game while none has loaded them, which
\* needs that no other level keeps what it has loaded.
LEMMA GameInvariant == PartsSpec => []GameInv
<1>1. GameInv /\ [Game!Next]_gameVars => GameInv'
  <2> SUFFICES ASSUME GameInv, [Game!Next]_gameVars PROVE GameInv'
    OBVIOUS
  <2>1. CASE Game!BeginPlay
    BY <2>1, BeginPlayKeeps
  <2>2. CASE Game!EndFrame
    BY <2>2, EndFrameKeeps
  <2>3. CASE Game!SelectLocalplay
    BY <2>3, SelectLocalplayKeeps
  <2>4. CASE Game!LeaveEndScreen
    BY <2>4, LeaveEndScreenKeeps
  <2>5. CASE Game!OverworldStep
    <3>1. visits["Overworld"] \in KnownVisits
      BY DEF GameInv, GameTyped, Game!PlayLevels
    <3> DEFINE steps == Game!Overworld!Hurt(visits["Overworld"])
                          \cup Game!Overworld!Ask(visits["Overworld"])
    <3>2. Game!Plays("Overworld", steps)
      BY <2>5 DEF Game!OverworldStep
    <3>3. \A w \in steps : Becomes(visits["Overworld"], w, "Overworld")
      BY <3>1, OverworldPlayed
    <3> HIDE DEF steps
    <3> QED
      BY <3>2, <3>3, PlaysKeeps
  <2>6. CASE Game!DungeonStep
    <3>1. visits["Dungeon1"] \in KnownVisits
      BY DEF GameInv, GameTyped, Game!PlayLevels
    <3> DEFINE steps == Game!Dungeon1!Played(visits["Dungeon1"])
    <3>2. Game!Plays("Dungeon1", steps)
      BY <2>6 DEF Game!DungeonStep
    <3>3. \A w \in steps : Becomes(visits["Dungeon1"], w, "Dungeon1")
      BY <3>1, DungeonPlayed
    <3> HIDE DEF steps
    <3> QED
      BY <3>2, <3>3, PlaysKeeps
  <2>7. CASE Game!CaveDeath
    BY <2>7, CaveDeathKeeps
  <2>8. CASE Game!ExitCave
    BY <2>8, ExitCaveKeeps
  <2>9. CASE Game!CaveStep
    BY <2>9, CaveStepKeeps
  <2>10. CASE UNCHANGED gameVars
    <3>1. GameTyped'
      BY <2>10 DEF gameVars, GameInv, GameTyped, Game!TypeOK
    <3>2. LevelsAgree' /\ HeroIsKept' /\ AskedForIsEarned'
      BY <2>10 DEF gameVars, GameInv, LevelsAgree, HeroIsKept, Carried, AskedForIsEarned
    <3> QED
      BY <3>1, <3>2 DEF GameInv
  <2> QED
    BY <2>1, <2>2, <2>3, <2>4, <2>5, <2>6, <2>7, <2>8, <2>9, <2>10 DEF Game!Next
<1>2. GameInv /\ [PartsNext]_partVars => GameInv'
  BY <1>1, EachPartSteps
<1> QED
  BY GameBegins, <1>2, PTL DEF PartsSpec, PartsInit

\* Three levels have a player each, and Game carries its state from one to the
\* next (LoadPlayerState, SavePlayerState): whatever cave, whatever health, it
\* is one player, the sword is found once and opens the dungeon, the endings are
\* for those who earned them, and a level asked for runs from the next frame on.
THEOREM ThePlayerIsOne == PartsSpec => []OnePlayer
<1>1. GameInv => OnePlayer
  <2> SUFFICES ASSUME GameInv PROVE OnePlayer
    OBVIOUS
  <2>1. Game!TypeOK
    BY DEF GameInv, GameTyped
  <2>2. Game!OnePlayer
    BY DEF GameInv, HeroIsKept, Game!OnePlayer, Carried
  <2>3. Game!SwordIsKept
    BY DEF GameInv, AskedForIsEarned, Game!SwordIsKept
  <2>4. Game!EndingsAreEarned
    BY DEF GameInv, AskedForIsEarned, Game!EndingsAreEarned
  <2>5. Game!LevelChangesAtTheFramesEnd
    BY DEF GameInv, LevelsAgree, Game!LevelChangesAtTheFramesEnd, Game!NoLevel
  <2> QED
    BY <2>1, <2>2, <2>3, <2>4, <2>5 DEF OnePlayer
<1> QED
  BY <1>1, GameInvariant, PTL

-----------------------------------------------------------------------------
(* NetworkOverworldLevel: the view of a client.                            *)

ViewMessages == {View!EnterMessage} \cup View!Snapshots \cup View!CombatEvents

\* A message tells what was so at the server: a snapshot the actors of its
\* tick, an event a source that was there in its tick; and this client's own
\* player strikes only after it has appeared.
Told(m, tick, world, mine) ==
  /\ m.kind = "Snapshot" => m.tick \in 1 .. tick /\ m.actors = world[m.tick] \cup {Me}
  /\ m.kind = "CombatEvent" =>
        /\ m.tick \in 1 .. tick /\ m.actor \in world[m.tick] \cup {Me}
        /\ m.actor = Me => mine

AllTold(messages, tick, world, mine) ==
  \A i \in DOMAIN messages : Told(messages[i], tick, world, mine)

ViewInv ==
  /\ View!TypeOK /\ View!ViewIsOneTick /\ View!OwnAttacksAreShown
  /\ requested => myPlayer
  /\ AllTold(stream, serverTick, worldAt, myPlayer)
  /\ AllTold(pendingCombatEvents, serverTick, worldAt, myPlayer)
  /\ Told(latestSnapshot, serverTick, worldAt, myPlayer)
  /\ lastAppliedTick <= serverTick

\* A picking of messages by kind.
LEMMA OfKindPicks ==
  ASSUME NEW kind, NEW messages \in Seq(ViewMessages)
  PROVE  /\ View!OfKind(kind, messages) \in Seq(ViewMessages)
         /\ \A n \in DOMAIN View!OfKind(kind, messages) :
               \E i \in DOMAIN messages :
                  /\ View!OfKind(kind, messages)[n] = messages[i]
                  /\ messages[i].kind = kind
<1> DEFINE places == {i \in DOMAIN messages : messages[i].kind = kind}
<1>1. View!OfKind(kind, messages) = Picked(messages, places)
  <2>1. View!OfKind(kind, messages) = View!Picked(messages, places)
    BY DEF View!OfKind
  <2>2. View!Picked(messages, places) = Picked(messages, places)
    BY InstancesPick
  <2> QED
    BY <2>1, <2>2, Zenon
<1>2. /\ Picked(messages, places) \in Seq(ViewMessages)
      /\ \A n \in DOMAIN Picked(messages, places) :
            \E i \in places : Picked(messages, places)[n] = messages[i]
  <2>1. places \subseteq DOMAIN messages
    OBVIOUS
  <2> HIDE DEF places
  <2> QED
    BY <2>1, PickedElements
<1> QED
  BY <1>1, <1>2

\* The combat events of a tick, each in any place.
LEMMA EventsOfATick ==
  ASSUME NEW S, IsFiniteSet(S)
  PROVE  /\ View!SetToSeq(S) \in Seq(S)
         /\ \A i \in DOMAIN View!SetToSeq(S) : View!SetToSeq(S)[i] \in S
<1>1. Cardinality(S) \in Nat /\ ExistsBijection(1 .. Cardinality(S), S)
  BY FS_CardinalityType
<1>2. \E f \in [1 .. Cardinality(S) -> S] : View!IsInjective(f)
  BY <1>1 DEF ExistsBijection, Bijection, Injection, IsInjective, View!IsInjective
<1>3. View!SetToSeq(S) \in [1 .. Cardinality(S) -> S]
  <2> DEFINE F == [1 .. Cardinality(S) -> S]
  <2>0. View!Cardinality(S) = Cardinality(S)
    BY InstancesCount
  <2>1. View!SetToSeq(S) = CHOOSE f \in F : View!IsInjective(f)
    BY <2>0 DEF View!SetToSeq
  <2>2. \E f \in F : View!IsInjective(f)
    BY <1>2
  <2> HIDE DEF F
  <2>3. View!SetToSeq(S) \in F
    BY <2>1, <2>2, Zenon
  <2> QED
    BY <2>3 DEF F
<1> QED
  BY <1>1, <1>3

\* A sequence of messages has the type of its elements.
LEMMA SeqOfElements ==
  ASSUME NEW A, NEW B, NEW seq \in Seq(A), \A i \in DOMAIN seq : seq[i] \in B
  PROVE  seq \in Seq(B)
<1>1. Len(seq) \in Nat /\ DOMAIN seq = 1 .. Len(seq) /\ seq \in [1 .. Len(seq) -> A]
  OBVIOUS
<1>2. seq \in [1 .. Len(seq) -> B]
  BY <1>1
<1> QED
  BY <1>1, <1>2

\* What stands in two sequences stands in the one made of both.
LEMMA InBoth ==
  ASSUME NEW A, NEW s \in Seq(A), NEW t \in Seq(A)
  PROVE  /\ s \o t \in Seq(A) /\ DOMAIN (s \o t) = 1 .. Len(s) + Len(t)
         /\ \A i \in DOMAIN (s \o t) :
               \/ i \in DOMAIN s /\ (s \o t)[i] = s[i]
               \/ i - Len(s) \in DOMAIN t /\ (s \o t)[i] = t[i - Len(s)]
  OBVIOUS

\* What was told once stays true of a longer history.
LEMMA ToldLater ==
  ASSUME NEW m, NEW t \in Nat, NEW u \in Nat, t <= u, NEW w, NEW x,
         \A k \in 1 .. t : x[k] = w[k],
         NEW a \in BOOLEAN, NEW b \in BOOLEAN, a => b, Told(m, t, w, a)
  PROVE  Told(m, u, x, b)
<1>1. 1 .. t \subseteq 1 .. u
  OBVIOUS
<1> QED
  BY <1>1 DEF Told

\* The latest snapshot and the events that a frame finds are told by messages
\* it popped or had before.
LEMMA FramePops ==
  ASSUME ViewInv, NEW n \in 0 .. Len(stream)
  PROVE  LET popped == SubSeq(stream, 1, n)
             rest == SubSeq(stream, n + 1, Len(stream))
         IN /\ rest \in Seq(ViewMessages) /\ AllTold(rest, serverTick, worldAt, myPlayer)
            /\ View!LatestOf(popped) \in {View!NoSnapshot} \cup View!Snapshots
            /\ Told(View!LatestOf(popped), serverTick, worldAt, myPlayer)
            /\ View!PendingAfter(popped) \in Seq(View!CombatEvents)
            /\ AllTold(View!PendingAfter(popped), serverTick, worldAt, myPlayer)
<1> DEFINE popped == SubSeq(stream, 1, n)
           rest == SubSeq(stream, n + 1, Len(stream))
           OK(m) == Told(m, serverTick, worldAt, myPlayer)
<1>1. stream \in Seq(ViewMessages) /\ \A i \in DOMAIN stream : OK(stream[i])
  BY DEF ViewInv, View!TypeOK, ViewMessages, AllTold
<1>2. Len(stream) \in Nat /\ n \in Nat
  BY <1>1
<1> HIDE DEF OK
<1>3. /\ popped \in Seq(ViewMessages) /\ \A i \in DOMAIN popped : OK(popped[i])
      /\ rest \in Seq(ViewMessages) /\ \A i \in DOMAIN rest : OK(rest[i])
  BY <1>1, <1>2
<1> HIDE DEF popped, rest
<1>4. ASSUME NEW kind
      PROVE  LET of == View!OfKind(kind, popped)
             IN /\ of \in Seq(ViewMessages)
                /\ \A i \in DOMAIN of : of[i].kind = kind /\ OK(of[i]) /\ of[i] \in ViewMessages
  BY <1>3, OfKindPicks
<1>5. View!LatestOf(popped) \in {View!NoSnapshot} \cup View!Snapshots /\ OK(View!LatestOf(popped))
  <2> DEFINE of == View!OfKind("Snapshot", popped)
  <2>1. /\ of \in Seq(ViewMessages)
        /\ \A i \in DOMAIN of : of[i].kind = "Snapshot" /\ OK(of[i]) /\ of[i] \in ViewMessages
    BY <1>4
  <2>2. View!LatestOf(popped) = IF of = <<>> THEN latestSnapshot ELSE View!Last(of)
    BY DEF View!LatestOf
  <2>3. CASE of = <<>>
    BY <2>2, <2>3 DEF ViewInv, View!TypeOK, OK
  <2>4. CASE of # <<>>
    <3> HIDE DEF of
    <3>1. Len(of) \in DOMAIN of /\ View!Last(of) = of[Len(of)]
      BY <2>1, <2>4 DEF View!Last
    <3>2. of[Len(of)] \in View!Snapshots
      BY <2>1, <3>1 DEF ViewMessages, View!EnterMessage, View!Snapshots, View!CombatEvents
    <3> QED
      BY <2>1, <2>2, <2>4, <3>1, <3>2
  <2> QED
    BY <2>3, <2>4
<1>6. /\ View!PendingAfter(popped) \in Seq(View!CombatEvents)
      /\ \A i \in DOMAIN View!PendingAfter(popped) : OK(View!PendingAfter(popped)[i])
  <2> DEFINE of == View!OfKind("CombatEvent", popped)
  <2>1. /\ of \in Seq(ViewMessages)
        /\ \A i \in DOMAIN of : of[i].kind = "CombatEvent" /\ OK(of[i]) /\ of[i] \in ViewMessages
    BY <1>4
  <2>2. View!PendingAfter(popped) = pendingCombatEvents \o of
    BY DEF View!PendingAfter
  <2> HIDE DEF of
  <2>3. \A i \in DOMAIN of : of[i] \in View!CombatEvents
    BY <2>1 DEF ViewMessages, View!EnterMessage, View!Snapshots, View!CombatEvents
  <2>4. of \in Seq(View!CombatEvents)
    BY <2>1, <2>3, SeqOfElements
  <2>5. /\ pendingCombatEvents \in Seq(View!CombatEvents)
        /\ \A i \in DOMAIN pendingCombatEvents : OK(pendingCombatEvents[i])
    BY DEF ViewInv, View!TypeOK, AllTold, OK
  <2>6. \A i \in DOMAIN (pendingCombatEvents \o of) : OK((pendingCombatEvents \o of)[i])
    BY <2>1, <2>4, <2>5, InBoth
  <2> QED
    BY <2>2, <2>4, <2>5, <2>6
<1> QED
  BY <1>3, <1>5, <1>6 DEF AllTold, OK, popped, rest

\* The invariant holds when a view begins.
LEMMA ViewBegins == View!Init => ViewInv
<1> SUFFICES ASSUME View!Init PROVE ViewInv
  OBVIOUS
<1>0. MaxTick \in Nat \ {0}
  BY PartsAssumption DEF View!LevelAssumption
<1>1. stream = <<View!EnterMessage>> /\ View!EnterMessage.kind = "Enter"
  BY DEF View!Init, View!EnterMessage
<1>2. View!TypeOK
  <2>1. stream \in Seq({View!EnterMessage} \cup View!Snapshots \cup View!CombatEvents)
    BY <1>1
  <2>2. /\ pendingCombatEvents \in Seq(View!CombatEvents) /\ attacks \in Seq(View!CombatEvents)
        /\ passed \in Seq(View!CombatEvents) /\ worldAt \in Seq(SUBSET Others) /\ Len(worldAt) = 0
    BY DEF View!Init
  <2>3. latestSnapshot \in {View!NoSnapshot} \cup View!Snapshots
    BY DEF View!Init
  <2>4. {attacks, passed} \subseteq Seq(View!CombatEvents) /\ shown \subseteq DOMAIN passed
    BY <2>2 DEF View!Init
  <2>5. /\ serverTick \in 0 .. MaxTick /\ requested \in BOOLEAN /\ lastAppliedTick \in 0 .. MaxTick
        /\ myPlayer \in BOOLEAN /\ remote \subseteq Others /\ serverTick = 0
        /\ level \in {"Title", "NetworkOverworld"}
    <3>1. requested \in BOOLEAN /\ myPlayer \in BOOLEAN
      BY DEF View!Init
    <3>2. /\ serverTick = 0 /\ lastAppliedTick = 0 /\ remote \subseteq Others
          /\ level \in {"Title", "NetworkOverworld"}
      BY DEF View!Init
    <3> QED
      BY <1>0, <3>1, <3>2
  <2> QED
    BY <2>1, <2>2, <2>3, <2>4, <2>5, Zenon DEF View!TypeOK
<1>3. AllTold(stream, serverTick, worldAt, myPlayer)
  BY <1>1 DEF AllTold, Told
<1>4. Told(latestSnapshot, serverTick, worldAt, myPlayer)
  BY DEF View!Init, View!NoSnapshot, Told
<1> QED
  BY <1>2, <1>3, <1>4 DEF ViewInv, View!Init, View!ViewIsOneTick, View!OwnAttacksAreShown, AllTold

\* A tick of the server sends what is so in it.
LEMMA ViewTickKeeps == ASSUME ViewInv, View!Tick PROVE ViewInv'
<1>0. /\ MaxTick \in Nat /\ IsFiniteSet(Others) /\ Me \notin Others
      /\ serverTick \in 0 .. MaxTick /\ serverTick < MaxTick /\ requested \in BOOLEAN
  <2>1. MaxTick \in Nat /\ View!IsFiniteSet(Others) /\ Me \notin Others
    BY PartsAssumption DEF View!LevelAssumption
  <2>2. IsFiniteSet(Others)
    BY <2>1, InstancesCount
  <2>3. serverTick \in 0 .. MaxTick /\ requested \in BOOLEAN
    BY DEF ViewInv, View!TypeOK
  <2>4. serverTick < MaxTick
    BY DEF View!Tick
  <2> QED
    BY <2>1, <2>2, <2>3, <2>4
<1>1. /\ serverTick' = serverTick + 1 /\ requested' = FALSE
      /\ UNCHANGED <<level, latestSnapshot, pendingCombatEvents,
                     lastAppliedTick, myPlayer, remote, passed, shown>>
  BY DEF View!Tick, View!game, View!view
<1> DEFINE strikers(attackers) == attackers \cup IF requested THEN {Me} ELSE {}
           struck(attackers) == {[kind |-> "CombatEvent", tick |-> serverTick', actor |-> a] :
                                    a \in strikers(attackers)}
           told(here) == [kind |-> "Snapshot", tick |-> serverTick', actors |-> here \cup {Me}]
<1>2. PICK here \in SUBSET Others, attackers \in SUBSET Others :
         /\ attackers \subseteq here
         /\ stream' = stream \o Append(View!SetToSeq(struck(attackers)), told(here))
         /\ attacks' = attacks \o View!SetToSeq(struck(attackers))
         /\ worldAt' = Append(worldAt, here)
  BY DEF View!Tick, View!Broadcast
<1> DEFINE striking == strikers(attackers)
           S == struck(attackers)
           events == View!SetToSeq(S)
           snapshot == told(here)
<1>3. IsFiniteSet(striking)
  <2>1. IsFiniteSet(attackers)
    BY <1>0, FS_Subset
  <2>2. IsFiniteSet(attackers \cup {Me})
    BY <2>1, FS_AddElement
  <2> QED
    BY <2>1, <2>2
<1>4. IsFiniteSet(S)
  <2> DEFINE f == [a \in striking |-> [kind |-> "CombatEvent", tick |-> serverTick', actor |-> a]]
  <2>1. f \in Surjection(striking, S)
    <3>1. f \in [striking -> S]
      OBVIOUS
    <3>2. \A e \in S : \E a \in striking : f[a] = e
      OBVIOUS
    <3> QED
      BY <3>1, <3>2 DEF Surjection
  <2> HIDE DEF striking, S, f
  <2> QED
    BY <1>3, <2>1, FS_Surjection
<1>5. Len(worldAt) = serverTick /\ worldAt \in Seq(SUBSET Others)
  BY DEF ViewInv, View!TypeOK
<1>6. /\ worldAt' \in Seq(SUBSET Others) /\ Len(worldAt') = serverTick' /\ serverTick' \in 1 .. MaxTick
      /\ \A k \in 1 .. serverTick : worldAt'[k] = worldAt[k]
      /\ worldAt'[serverTick'] = here
  BY <1>0, <1>1, <1>2, <1>5
<1>7. \A e \in S : e \in View!CombatEvents /\ Told(e, serverTick', worldAt', myPlayer')
  <2>1. ASSUME NEW a \in striking
        PROVE  LET e == [kind |-> "CombatEvent", tick |-> serverTick', actor |-> a]
               IN e \in View!CombatEvents /\ Told(e, serverTick', worldAt', myPlayer')
    <3>1. a \in here \cup {Me} /\ (a = Me => myPlayer)
      BY <1>0, <1>2 DEF ViewInv
    <3> HIDE DEF striking
    <3> QED
      BY <1>0, <1>1, <1>2, <1>6, <3>1 DEF View!CombatEvents, Told
  <2> QED
    BY <2>1
<1>8. snapshot \in View!Snapshots /\ Told(snapshot, serverTick', worldAt', myPlayer')
  BY <1>0, <1>2, <1>6 DEF View!Snapshots, Told
<1>9. events \in Seq(S) /\ \A i \in DOMAIN events : events[i] \in S
  <2> HIDE DEF S
  <2> QED
    BY <1>4, EventsOfATick
<1> HIDE DEF S, snapshot
<1>10. events \in Seq(View!CombatEvents)
  <2>1. \A i \in DOMAIN events : events[i] \in View!CombatEvents
    BY <1>7, <1>9
  <2> HIDE DEF events
  <2> QED
    BY <1>9, <2>1, SeqOfElements
<1> DEFINE sent == Append(events, snapshot)
<1>11. /\ sent \in Seq(ViewMessages)
       /\ \A i \in DOMAIN sent : Told(sent[i], serverTick', worldAt', myPlayer')
  <2>1. \A i \in DOMAIN events : Told(events[i], serverTick', worldAt', myPlayer') /\ events[i] \in ViewMessages
    BY <1>7, <1>9 DEF ViewMessages
  <2>2. snapshot \in ViewMessages
    BY <1>8 DEF ViewMessages
  <2> HIDE DEF events
  <2>3. events \in Seq(ViewMessages)
    BY <1>10, <2>1, SeqOfElements
  <2>4. \A i \in DOMAIN sent : (i \in DOMAIN events /\ sent[i] = events[i]) \/ sent[i] = snapshot
    BY <2>3
  <2> QED
    BY <1>8, <2>1, <2>2, <2>3, <2>4
<1>12. stream' = stream \o sent
  BY <1>2 DEF S, snapshot
<1> HIDE DEF sent
<1>13. stream \in Seq(ViewMessages) /\ myPlayer \in BOOLEAN /\ myPlayer' = myPlayer
  BY <1>1 DEF ViewInv, View!TypeOK, ViewMessages
<1>14. ASSUME NEW m, Told(m, serverTick, worldAt, myPlayer)
       PROVE  Told(m, serverTick', worldAt', myPlayer')
  BY <1>0, <1>1, <1>6, <1>13, <1>14, ToldLater
<1>15. AllTold(stream', serverTick', worldAt', myPlayer') /\ stream' \in Seq(ViewMessages)
  <2>1. \A i \in DOMAIN stream : Told(stream[i], serverTick', worldAt', myPlayer')
    BY <1>14 DEF ViewInv, AllTold
  <2> QED
    BY <1>11, <1>12, <1>13, <2>1, InBoth DEF AllTold
<1>16. AllTold(pendingCombatEvents', serverTick', worldAt', myPlayer')
  <2>1. \A i \in DOMAIN pendingCombatEvents : Told(pendingCombatEvents[i], serverTick', worldAt', myPlayer')
    BY <1>14 DEF ViewInv, AllTold
  <2> QED
    BY <1>1, <2>1 DEF AllTold
<1>17. Told(latestSnapshot', serverTick', worldAt', myPlayer')
  <2>1. Told(latestSnapshot, serverTick', worldAt', myPlayer')
    BY <1>14 DEF ViewInv
  <2> QED
    BY <1>1, <2>1
<1>18. attacks' \in Seq(View!CombatEvents)
  <2>1. attacks' = attacks \o events
    BY <1>2 DEF S
  <2>2. attacks \in Seq(View!CombatEvents)
    BY DEF ViewInv, View!TypeOK
  <2> HIDE DEF events
  <2> QED
    BY <1>10, <2>1, <2>2
<1>19. View!TypeOK'
  <2>1. /\ latestSnapshot' \in {View!NoSnapshot} \cup View!Snapshots
        /\ pendingCombatEvents' \in Seq(View!CombatEvents) /\ level' \in {"Title", "NetworkOverworld"}
        /\ lastAppliedTick' \in 0 .. MaxTick /\ myPlayer' \in BOOLEAN /\ remote' \subseteq Others
        /\ passed' \in Seq(View!CombatEvents) /\ shown' \subseteq DOMAIN passed'
    BY <1>1 DEF ViewInv, View!TypeOK
  <2>2. serverTick' \in 0 .. MaxTick /\ requested' \in BOOLEAN
    <3>1. requested' \in BOOLEAN
      BY <1>1
    <3>2. serverTick' \in 0 .. MaxTick
      BY <1>6, <1>0
    <3> QED
      BY <3>1, <3>2
  <2>3. {attacks', passed'} \subseteq Seq(View!CombatEvents)
    BY <1>18, <2>1
  <2>4. stream' \in Seq({View!EnterMessage} \cup View!Snapshots \cup View!CombatEvents)
    BY <1>15 DEF ViewMessages
  <2> QED
    BY <1>6, <2>1, <2>2, <2>3, <2>4, Zenon DEF View!TypeOK
<1>20. View!ViewIsOneTick' /\ lastAppliedTick' <= serverTick'
  <2>1. lastAppliedTick \in 0 .. serverTick
    BY <1>0 DEF ViewInv, View!TypeOK
  <2>2. lastAppliedTick' = lastAppliedTick /\ remote' = remote
    BY <1>1
  <2>3. lastAppliedTick # 0 => worldAt'[lastAppliedTick] = worldAt[lastAppliedTick]
    BY <1>0, <1>6, <2>1
  <2>4. lastAppliedTick' <= serverTick'
    BY <1>0, <1>1, <2>1, <2>2
  <2>5. remote = IF lastAppliedTick = 0 THEN {} ELSE worldAt[lastAppliedTick]
    BY DEF ViewInv, View!ViewIsOneTick
  <2>6. remote' = IF lastAppliedTick' = 0 THEN {} ELSE worldAt'[lastAppliedTick']
    BY <2>2, <2>3, <2>5
  <2> QED
    BY <2>4, <2>6 DEF View!ViewIsOneTick
<1>21. View!OwnAttacksAreShown'
  BY <1>1 DEF ViewInv, View!OwnAttacksAreShown
<1> QED
  BY <1>1, <1>15, <1>16, <1>17, <1>19, <1>20, <1>21 DEF ViewInv

\* While the client waits for its id the messages are kept for the level.
LEMMA ViewTitleFrameKeeps ==
  ASSUME ViewInv, NEW n \in 0 .. Len(stream), View!TitleFrame(n) PROVE ViewInv'
<1> DEFINE popped == SubSeq(stream, 1, n)
           rest == SubSeq(stream, n + 1, Len(stream))
<1>1. /\ stream' = rest /\ latestSnapshot' = View!LatestOf(popped)
      /\ pendingCombatEvents' = View!PendingAfter(popped)
      /\ level' \in {"Title", "NetworkOverworld"}
      /\ UNCHANGED <<serverTick, worldAt, attacks, requested,
                     lastAppliedTick, myPlayer, remote, passed, shown>>
  BY DEF View!TitleFrame, View!server, View!view
<1>2. /\ rest \in Seq(ViewMessages) /\ AllTold(rest, serverTick, worldAt, myPlayer)
      /\ View!LatestOf(popped) \in {View!NoSnapshot} \cup View!Snapshots
      /\ Told(View!LatestOf(popped), serverTick, worldAt, myPlayer)
      /\ View!PendingAfter(popped) \in Seq(View!CombatEvents)
      /\ AllTold(View!PendingAfter(popped), serverTick, worldAt, myPlayer)
  BY FramePops
<1> HIDE DEF popped, rest
<1>3. View!TypeOK'
  <2>1. /\ serverTick' \in 0 .. MaxTick /\ requested' \in BOOLEAN
        /\ lastAppliedTick' \in 0 .. MaxTick /\ myPlayer' \in BOOLEAN /\ remote' \subseteq Others
        /\ worldAt' \in Seq(SUBSET Others) /\ Len(worldAt') = serverTick'
        /\ {attacks', passed'} \subseteq Seq(View!CombatEvents) /\ shown' \subseteq DOMAIN passed'
    BY <1>1 DEF ViewInv, View!TypeOK
  <2>2. stream' \in Seq({View!EnterMessage} \cup View!Snapshots \cup View!CombatEvents)
    BY <1>1, <1>2 DEF ViewMessages
  <2> QED
    BY <1>1, <1>2, <2>1, <2>2, Zenon DEF View!TypeOK
<1>4. View!ViewIsOneTick' /\ View!OwnAttacksAreShown' /\ lastAppliedTick' <= serverTick'
      /\ (requested' => myPlayer')
  BY <1>1 DEF ViewInv, View!ViewIsOneTick, View!OwnAttacksAreShown
<1>5. /\ AllTold(stream', serverTick', worldAt', myPlayer')
      /\ AllTold(pendingCombatEvents', serverTick', worldAt', myPlayer')
      /\ Told(latestSnapshot', serverTick', worldAt', myPlayer')
  BY <1>1, <1>2
<1> QED
  BY <1>3, <1>4, <1>5 DEF ViewInv

\* What a frame of the level knows when it shows the events it takes.
LEMMA LevelFrameTakes ==
  ASSUME ViewInv, NEW n \in 0 .. Len(stream), View!LevelFrame(n)
  PROVE  LET snapshot == View!LatestOf(SubSeq(stream, 1, n))
             events == View!PendingAfter(SubSeq(stream, 1, n))
         IN /\ snapshot \in {View!NoSnapshot} \cup View!Snapshots
            /\ Told(snapshot, serverTick, worldAt, myPlayer)
            /\ events \in Seq(View!CombatEvents)
            /\ \A j \in DOMAIN events :
                  /\ events[j] \in View!CombatEvents
                  /\ Told(events[j], serverTick, worldAt, myPlayer)
            /\ remote' = View!RemoteAfter(snapshot)
            /\ lastAppliedTick' = snapshot.tick /\ latestSnapshot' = snapshot
            /\ myPlayer' = (myPlayer \/ snapshot # View!NoSnapshot)
            /\ passed' = passed \o events
            /\ shown' = shown \cup {Len(passed) + i :
                                      i \in {j \in DOMAIN events : View!HasSource(events[j], snapshot)}}
<1> DEFINE snapshot == View!LatestOf(SubSeq(stream, 1, n))
           events == View!PendingAfter(SubSeq(stream, 1, n))
<1>1. /\ snapshot \in {View!NoSnapshot} \cup View!Snapshots
      /\ Told(snapshot, serverTick, worldAt, myPlayer)
      /\ events \in Seq(View!CombatEvents) /\ AllTold(events, serverTick, worldAt, myPlayer)
  BY FramePops
<1>2. /\ remote' = View!RemoteAfter(snapshot)
      /\ lastAppliedTick' = snapshot.tick /\ latestSnapshot' = snapshot
      /\ myPlayer' = (myPlayer \/ snapshot # View!NoSnapshot)
      /\ passed' = passed \o events
      /\ shown' = shown \cup {Len(passed) + i :
                                i \in {j \in DOMAIN events : View!HasSource(events[j], snapshot)}}
  BY DEF View!LevelFrame
<1> HIDE DEF snapshot, events
<1>3. \A j \in DOMAIN events : events[j] \in View!CombatEvents /\ Told(events[j], serverTick, worldAt, myPlayer)
  BY <1>1 DEF AllTold
<1> QED
  BY <1>1, <1>2, <1>3 DEF snapshot, events

\* A frame of the level shows the latest snapshot, and what follows from it.
LEMMA ViewLevelFrameKeeps ==
  ASSUME ViewInv, NEW n \in 0 .. Len(stream), View!LevelFrame(n) PROVE ViewInv'
<1> DEFINE snapshot == View!LatestOf(SubSeq(stream, 1, n))
           events == View!PendingAfter(SubSeq(stream, 1, n))
           rest == SubSeq(stream, n + 1, Len(stream))
<1>1. /\ snapshot \in {View!NoSnapshot} \cup View!Snapshots
      /\ Told(snapshot, serverTick, worldAt, myPlayer)
      /\ events \in Seq(View!CombatEvents)
      /\ \A j \in DOMAIN events :
            events[j] \in View!CombatEvents /\ Told(events[j], serverTick, worldAt, myPlayer)
      /\ remote' = View!RemoteAfter(snapshot)
      /\ lastAppliedTick' = snapshot.tick /\ latestSnapshot' = snapshot
      /\ myPlayer' = (myPlayer \/ snapshot # View!NoSnapshot)
      /\ passed' = passed \o events
      /\ shown' = shown \cup {Len(passed) + i :
                                i \in {j \in DOMAIN events : View!HasSource(events[j], snapshot)}}
  BY LevelFrameTakes
<1>2. /\ stream' = rest /\ pendingCombatEvents' = <<>> /\ level' = level
      /\ UNCHANGED <<serverTick, worldAt, attacks>>
      /\ \E attack \in {FALSE} \cup {myPlayer} : requested' = (requested \/ attack)
  BY DEF View!LevelFrame, View!LeftOver, View!server
<1>3. rest \in Seq(ViewMessages) /\ AllTold(rest, serverTick, worldAt, myPlayer)
  BY FramePops
<1> HIDE DEF snapshot, events, rest
<1>4. /\ serverTick \in 0 .. MaxTick /\ MaxTick \in Nat /\ requested \in BOOLEAN /\ myPlayer \in BOOLEAN
      /\ worldAt \in Seq(SUBSET Others) /\ Len(worldAt) = serverTick
      /\ passed \in Seq(View!CombatEvents) /\ shown \subseteq DOMAIN passed
      /\ remote \subseteq Others /\ Me \notin Others /\ (requested => myPlayer)
  BY PartsAssumption DEF View!LevelAssumption, ViewInv, View!TypeOK
<1>5. myPlayer' \in BOOLEAN /\ (myPlayer => myPlayer') /\ requested' \in BOOLEAN /\ (requested' => myPlayer')
  <2>1. (myPlayer \/ snapshot # View!NoSnapshot) \in BOOLEAN
    OBVIOUS
  <2>2. PICK attack \in {FALSE} \cup {myPlayer} : requested' = (requested \/ attack)
    BY <1>2
  <2>3. requested' \in BOOLEAN /\ (requested' => myPlayer)
    <3>1. CASE attack = FALSE
      BY <1>4, <2>2, <3>1
    <3>2. CASE attack = myPlayer
      BY <1>4, <2>2, <3>2
    <3> QED
      BY <2>2, <3>1, <3>2
  <2>4. myPlayer' \in BOOLEAN /\ (myPlayer => myPlayer')
    BY <1>1, <1>4, <2>1
  <2> QED
    BY <2>3, <2>4
<1>6. ASSUME NEW m, Told(m, serverTick, worldAt, myPlayer)
      PROVE  Told(m, serverTick', worldAt', myPlayer')
  BY <1>2, <1>4, <1>5, <1>6, ToldLater
<1>7. /\ AllTold(stream', serverTick', worldAt', myPlayer')
      /\ AllTold(pendingCombatEvents', serverTick', worldAt', myPlayer')
      /\ Told(latestSnapshot', serverTick', worldAt', myPlayer')
  <2>1. \A i \in DOMAIN rest : Told(rest[i], serverTick', worldAt', myPlayer')
    BY <1>3, <1>6 DEF AllTold
  <2>2. Told(snapshot, serverTick', worldAt', myPlayer')
    BY <1>1, <1>6
  <2>3. DOMAIN pendingCombatEvents' = {}
    BY <1>2
  <2> QED
    BY <1>1, <1>2, <2>1, <2>2, <2>3 DEF AllTold
<1>8. lastAppliedTick' \in 0 .. serverTick
  <2>1. CASE snapshot = View!NoSnapshot
    BY <1>1, <1>4, <2>1 DEF View!NoSnapshot
  <2>2. CASE snapshot \in View!Snapshots
    BY <1>1, <1>4, <2>2 DEF View!Snapshots, Told
  <2> QED
    BY <1>1, <2>1, <2>2
<1>9. /\ remote' = IF lastAppliedTick' = 0 THEN {} ELSE worldAt[lastAppliedTick']
      /\ remote' \subseteq Others
  <2>1. CASE snapshot.tick = lastAppliedTick
    BY <1>1, <1>4, <2>1 DEF View!RemoteAfter, ViewInv, View!ViewIsOneTick
  <2>2. CASE snapshot.tick # lastAppliedTick /\ snapshot = View!NoSnapshot
    BY <1>1, <1>4, <2>2 DEF View!RemoteAfter, View!NoSnapshot
  <2>3. CASE snapshot.tick # lastAppliedTick /\ snapshot \in View!Snapshots
    <3>1. /\ snapshot.tick \in 1 .. serverTick /\ snapshot.actors = worldAt[snapshot.tick] \cup {Me}
      BY <1>1, <2>3 DEF View!Snapshots, Told
    <3>2. worldAt[snapshot.tick] \subseteq Others
      BY <1>4, <3>1
    <3>3. remote' = worldAt[snapshot.tick]
      BY <1>1, <1>4, <2>3, <3>1, <3>2 DEF View!RemoteAfter
    <3>4. snapshot.tick # 0
      BY <1>4, <3>1
    <3> QED
      BY <1>1, <3>2, <3>3, <3>4
  <2> QED
    BY <1>1, <2>1, <2>2, <2>3
<1>10. /\ passed' \in Seq(View!CombatEvents) /\ DOMAIN passed' = 1 .. Len(passed) + Len(events)
       /\ \A i \in DOMAIN passed' :
             \/ i \in DOMAIN passed /\ passed'[i] = passed[i]
             \/ i - Len(passed) \in DOMAIN events /\ passed'[i] = events[i - Len(passed)]
  BY <1>1, <1>4, InBoth
<1>11. shown' \subseteq DOMAIN passed'
  <2>1. DOMAIN passed \subseteq DOMAIN passed'
    BY <1>1, <1>4, <1>10
  <2>2. \A j \in DOMAIN events : Len(passed) + j \in DOMAIN passed'
    BY <1>1, <1>4, <1>10
  <2> QED
    BY <1>1, <1>4, <2>1, <2>2
<1>12. View!OwnAttacksAreShown'
  <2>1. ASSUME NEW i \in DOMAIN passed', passed'[i].actor = Me PROVE i \in shown'
    <3>1. CASE i \in DOMAIN passed /\ passed'[i] = passed[i]
      BY <1>1, <2>1, <3>1 DEF ViewInv, View!OwnAttacksAreShown
    <3>2. CASE i - Len(passed) \in DOMAIN events /\ passed'[i] = events[i - Len(passed)]
      <4> DEFINE j == i - Len(passed)
      <4>1. j \in DOMAIN events /\ events[j].actor = Me
        BY <2>1, <3>2
      <4>2. myPlayer
        BY <1>1, <4>1 DEF Told, View!CombatEvents
      <4>3. View!HasSource(events[j], snapshot)
        BY <4>1, <4>2 DEF View!HasSource
      <4>4. Len(passed) + j = i
        BY <1>4, <1>10
      <4> HIDE DEF j
      <4> QED
        BY <1>1, <4>1, <4>3, <4>4
    <3> QED
      BY <1>10, <3>1, <3>2
  <2> QED
    BY <2>1 DEF View!OwnAttacksAreShown
<1>13. View!TypeOK'
  <2>1. /\ serverTick' \in 0 .. MaxTick /\ level' \in {"Title", "NetworkOverworld"}
        /\ worldAt' \in Seq(SUBSET Others) /\ Len(worldAt') = serverTick'
        /\ attacks' \in Seq(View!CombatEvents)
    BY <1>2 DEF ViewInv, View!TypeOK
  <2>2. lastAppliedTick' \in 0 .. MaxTick
    BY <1>4, <1>8
  <2>3. {attacks', passed'} \subseteq Seq(View!CombatEvents)
    BY <1>10, <2>1
  <2>4. stream' \in Seq({View!EnterMessage} \cup View!Snapshots \cup View!CombatEvents)
    BY <1>2, <1>3 DEF ViewMessages
  <2>5. pendingCombatEvents' \in Seq(View!CombatEvents)
    BY <1>2
  <2>6. latestSnapshot' \in {View!NoSnapshot} \cup View!Snapshots
    BY <1>1
  <2> QED
    BY <1>5, <1>9, <1>11, <2>1, <2>2, <2>3, <2>4, <2>5, <2>6, Zenon DEF View!TypeOK
<1>14. View!ViewIsOneTick' /\ lastAppliedTick' <= serverTick'
  BY <1>2, <1>4, <1>8, <1>9 DEF View!ViewIsOneTick
<1> QED
  BY <1>5, <1>7, <1>12, <1>13, <1>14 DEF ViewInv

\* The inductive invariant of the view: whatever is on its way, waits or is
\* shown was so at the server.
LEMMA ViewInvariant == PartsSpec => []ViewInv
<1>1. ViewInv /\ [View!Next]_viewVars => ViewInv'
  <2> SUFFICES ASSUME ViewInv, [View!Next]_viewVars PROVE ViewInv'
    OBVIOUS
  <2>1. CASE View!Tick
    BY <2>1, ViewTickKeeps
  <2>2. CASE \E n \in 0 .. Len(stream) : View!TitleFrame(n)
    BY <2>2, ViewTitleFrameKeeps
  <2>3. CASE \E n \in 0 .. Len(stream) : View!LevelFrame(n)
    BY <2>3, ViewLevelFrameKeeps
  <2>4. CASE UNCHANGED viewVars
    <3>1. View!TypeOK'
      BY <2>4 DEF viewVars, ViewInv, View!TypeOK
    <3> QED
      BY <2>4, <3>1 DEF viewVars, ViewInv, View!ViewIsOneTick, View!OwnAttacksAreShown, AllTold
  <2> QED
    BY <2>1, <2>2, <2>3, <2>4 DEF View!Next
<1>2. ViewInv /\ [PartsNext]_partVars => ViewInv'
  BY <1>1, EachPartSteps
<1> QED
  BY ViewBegins, <1>2, PTL DEF PartsSpec, PartsInit

\* However many messages a frame finds and however many snapshots it skips
\* (UpdateSnapshot applies the latest only), the actors of the view are exactly
\* those of one tick of the server, and each attack of the client's own player
\* is shown.
THEOREM TheViewIsOneTick == PartsSpec => []ViewIsOneTick
<1>1. ViewInv => ViewIsOneTick
  BY DEF ViewInv, ViewIsOneTick
<1> QED
  BY <1>1, ViewInvariant, PTL

\* An attack that comes with the snapshot of its own tick finds its actor:
\* events are looked at after the snapshot (ConsumeCombatEvents), in which
\* whoever attacked is.
THEOREM EachAttackOfTheViewIsShown == PartsSpec => AttacksOfTheViewAreShown
<1> DEFINE Shown == \A i \in Len(passed) + 1 .. Len(passed') :
                      passed'[i].tick = lastAppliedTick' /\ lastAppliedTick' # lastAppliedTick =>
                        i \in shown'
<1>1. ASSUME ViewInv, NEW n \in 0 .. Len(stream), View!LevelFrame(n)
      PROVE  Shown
  <2> DEFINE snapshot == View!LatestOf(SubSeq(stream, 1, n))
             events == View!PendingAfter(SubSeq(stream, 1, n))
  <2>1. /\ snapshot \in {View!NoSnapshot} \cup View!Snapshots
        /\ Told(snapshot, serverTick, worldAt, myPlayer)
        /\ events \in Seq(View!CombatEvents)
        /\ \A j \in DOMAIN events :
              events[j] \in View!CombatEvents /\ Told(events[j], serverTick, worldAt, myPlayer)
        /\ lastAppliedTick' = snapshot.tick /\ passed' = passed \o events
        /\ shown' = shown \cup {Len(passed) + i :
                                  i \in {j \in DOMAIN events : View!HasSource(events[j], snapshot)}}
    BY <1>1, LevelFrameTakes
  <2> HIDE DEF snapshot, events
  <2>2. serverTick \in Nat /\ passed \in Seq(View!CombatEvents)
    BY <1>1, PartsAssumption DEF View!LevelAssumption, ViewInv, View!TypeOK
  <2>3. ASSUME NEW i \in Len(passed) + 1 .. Len(passed'),
               passed'[i].tick = lastAppliedTick', lastAppliedTick' # lastAppliedTick
        PROVE  i \in shown'
    <3> DEFINE j == i - Len(passed)
    <3>1. j \in DOMAIN events /\ passed'[i] = events[j] /\ Len(passed) + j = i
      BY <2>1, <2>2, InBoth
    <3> HIDE DEF j
    <3> DEFINE e == events[j]
    <3>2. /\ e.kind = "CombatEvent" /\ e.tick \in 1 .. serverTick
          /\ e.actor \in worldAt[e.tick] \cup {Me} /\ (e.actor = Me => myPlayer)
          /\ e.tick = snapshot.tick /\ snapshot.tick # lastAppliedTick
      BY <2>1, <2>3, <3>1 DEF Told, View!CombatEvents
    <3> HIDE DEF e
    <3>3. snapshot \in View!Snapshots
      BY <2>1, <2>2, <3>2 DEF View!NoSnapshot
    <3>4. snapshot.actors = worldAt[e.tick] \cup {Me}
      BY <2>1, <3>2, <3>3 DEF Told, View!Snapshots
    <3>5. View!HasSource(e, snapshot)
      BY <3>2, <3>4 DEF View!HasSource, View!RemoteAfter
    <3> QED
      BY <2>1, <3>1, <3>5 DEF e
  <2> QED
    BY <2>3
<1>2. ViewInv /\ [PartsNext]_partVars => [Shown]_(View!vars)
  <2> SUFFICES ASSUME ViewInv, [PartsNext]_partVars PROVE [Shown]_(View!vars)
    OBVIOUS
  <2>1. [View!Next]_viewVars
    BY EachPartSteps
  <2>2. passed \in Seq(View!CombatEvents)
    BY DEF ViewInv, View!TypeOK
  <2>3. CASE passed' = passed
    BY <2>2, <2>3
  <2>4. CASE \E n \in 0 .. Len(stream) : View!LevelFrame(n)
    BY <1>1, <2>4
  <2> QED
    BY <2>1, <2>3, <2>4 DEF View!Next, View!Tick, View!TitleFrame, View!view, viewVars
<1> QED
  BY <1>2, ViewInvariant, PTL DEF PartsSpec, AttacksOfTheViewAreShown,
     View!AttacksOfTheViewAreShown

-----------------------------------------------------------------------------
(* Sound: whose each voice is.                                             *)

\* The data of the file at a path is within the file.
WholeData(asked) ==
  LET file == Files[asked]  data == Player!ParseWavChunk(file, "data")
  IN Player!DataOffset(file)[data] + file.chunks[data].size <= file.size

\* Each voice is in the list of the effects, once, or the music's, and plays
\* what the cache holds.
Voiced(active, background, music, voices, cache) ==
  /\ active \in Seq(Voices)
  /\ background \in Voices \cup {NoVoice} /\ music \in Paths \cup {NoMusic}
  /\ voices \in [DOMAIN voices -> [path : Paths, queued : BOOLEAN]]
  /\ DOMAIN voices = {active[i] : i \in 1 .. Len(active)} \cup ({background} \ {NoVoice})
  /\ background \notin {active[i] : i \in 1 .. Len(active)}
  /\ \A i, j \in 1 .. Len(active) : active[i] = active[j] => i = j
  /\ (background = NoVoice) <=> (music = NoMusic)
  /\ background # NoVoice => voices[background].path = music
  /\ \A v \in DOMAIN voices : voices[v].path \in cache

\* The inductive invariant of Sound.
SoundInv ==
  /\ Voiced(activeOneShotVoices, backgroundVoice, currentMusic, live, soundCache)
  /\ \A asked \in soundCache : WholeData(asked)
  /\ comByUs \in BOOLEAN /\ comHeld = IF comByUs THEN 1 ELSE 0
  /\ xaudio2 \in BOOLEAN /\ mastering = xaudio2
  /\ DOMAIN live # {} => xaudio2
  /\ soundPhase # "alive" => ~comByUs /\ ~xaudio2

\* What the parser takes has a data chunk, which the walk along the chunks
\* found inside the file.
LEMMA ParsedIsWhole ==
  ASSUME NEW asked \in Paths, Player!ParseWavData(Files[asked])
  PROVE  WholeData(asked)
<1> DEFINE file == Files[asked]
           found == {i \in 1 .. Len(file.chunks) :
                       /\ file.chunks[i].name = "data"
                       /\ \A j \in 1 .. i : Player!Inside(file, j)}
<1>1. Len(file.chunks) \in Nat
  BY PartsAssumption DEF Player!SoundAssumption
<1>2. Player!ParseWavChunk(file, "data") # 0
  BY DEF Player!ParseWavData
<1>3. Player!ParseWavChunk(file, "data") =
        IF found = {} THEN 0 ELSE CHOOSE i \in found : \A j \in found : i <= j
  BY DEF Player!ParseWavChunk
<1>4. found # {} /\ found \subseteq Nat
  BY <1>1, <1>2, <1>3
<1>5. \E i \in found : \A j \in found : i <= j
  <2> HIDE DEF found
  <2> QED
    BY <1>4, LeastElement
<1>6. Player!ParseWavChunk(file, "data") \in found
  <2> HIDE DEF found
  <2> QED
    BY <1>3, <1>4, <1>5
<1>7. ASSUME NEW i \in found PROVE Player!Inside(file, i)
  BY <1>1
<1>8. Player!Inside(file, Player!ParseWavChunk(file, "data"))
  <2> HIDE DEF found
  <2> QED
    BY <1>6, <1>7
<1> QED
  BY <1>8 DEF Player!Inside, WholeData

\* What a request may add to the cache is whole.
LEMMA LoadedIsWhole ==
  ASSUME SoundInv, NEW asked \in Paths, soundCache' \in Player!LoadSoundEffect(asked)
  PROVE  soundCache \subseteq soundCache' /\ \A p \in soundCache' : WholeData(p)
<1>1. CASE soundCache' = soundCache
  BY <1>1 DEF SoundInv
<1>2. CASE Player!ParseWavData(Files[asked]) /\ soundCache' = soundCache \cup {asked}
  BY <1>2, ParsedIsWhole DEF SoundInv
<1> QED
  BY <1>1, <1>2 DEF Player!LoadSoundEffect

\* A cache that grows holds what it held.
LEMMA VoicedLater ==
  ASSUME NEW active, NEW background, NEW music, NEW voices, NEW cache, NEW later,
         Voiced(active, background, music, voices, cache), cache \subseteq later
  PROVE  Voiced(active, background, music, voices, later)
BY DEF Voiced

\* What stands at some places of a sequence in which nothing stands
\* twice does not either.
LEMMA PickedOnce ==
  ASSUME NEW S, NEW seq \in Seq(S), NEW places, places \subseteq DOMAIN seq,
         \A i, j \in 1 .. Len(seq) : seq[i] = seq[j] => i = j
  PROVE  \A m, n \in 1 .. Len(Picked(seq, places)) :
            Picked(seq, places)[m] = Picked(seq, places)[n] => m = n
<1>1. /\ Picked(seq, places) \in Seq(S)
      /\ IsFiniteSet(places) /\ Len(Picked(seq, places)) = Cardinality(places)
      /\ \A n \in DOMAIN Picked(seq, places) : \E i \in places : Picked(seq, places)[n] = seq[i]
      /\ \A i \in places : \E n \in DOMAIN Picked(seq, places) : Picked(seq, places)[n] = seq[i]
  BY PickedElements
<1>2. places \subseteq Nat /\ DOMAIN seq = 1 .. Len(seq)
  OBVIOUS
<1>3. PICK f \in [1 .. Cardinality(places) -> places] : Lists(f, seq, places)
  BY <1>1, <1>2, PickedPlaces
<1>4. DOMAIN Picked(seq, places) = 1 .. Len(Picked(seq, places))
  BY <1>1
<1>5. ASSUME NEW m \in 1 .. Len(Picked(seq, places)), NEW n \in 1 .. Len(Picked(seq, places)),
             Picked(seq, places)[m] = Picked(seq, places)[n]
      PROVE  m = n
  <2>1. seq[f[m]] = seq[f[n]] /\ f[m] \in places /\ f[n] \in places
    <3>1. m \in 1 .. Cardinality(places) /\ n \in 1 .. Cardinality(places)
      BY <1>1
    <3>2. f[m] \in places /\ f[n] \in places
      BY <1>3, <3>1
    <3>3. Picked(seq, places) = [k \in 1 .. Cardinality(places) |-> seq[f[k]]]
      BY <1>3 DEF Lists
    <3>4. Picked(seq, places)[m] = seq[f[m]] /\ Picked(seq, places)[n] = seq[f[n]]
      BY <3>1, <3>3
    <3> QED
      BY <1>5, <3>2, <3>4
  <2>2. f[m] = f[n]
    BY <1>2, <2>1
  <2> QED
    BY <1>1, <1>3, <2>2 DEF Lists
<1> QED
  BY <1>5

\* Clean-up takes the voices that have nothing queued from the list and from
\* XAudio2, and no other.
LEMMA CleanupVoiced ==
  ASSUME Voiced(activeOneShotVoices, backgroundVoice, currentMusic, live, soundCache)
  PROVE  LET kept == Player!CleanupStoppedVoices
         IN /\ Voiced(kept.active, backgroundVoice, currentMusic, kept.voices, soundCache)
            /\ \A v \in DOMAIN live : live[v].queued \/ v = backgroundVoice => v \in DOMAIN kept.voices
<1> DEFINE active == activeOneShotVoices
           stopped == Player!Stopped
           places == {i \in DOMAIN active : active[i] \notin stopped}
           listed == {active[i] : i \in 1 .. Len(active)}
           kept == Player!CleanupStoppedVoices
<1>1. /\ active \in Seq(Voices) /\ DOMAIN active = 1 .. Len(active) /\ Len(active) \in Nat
      /\ live \in [DOMAIN live -> [path : Paths, queued : BOOLEAN]]
      /\ DOMAIN live = listed \cup ({backgroundVoice} \ {NoVoice})
      /\ backgroundVoice \notin listed
      /\ \A i, j \in 1 .. Len(active) : active[i] = active[j] => i = j
  BY DEF Voiced
<1>2. /\ stopped \subseteq listed
      /\ \A v \in listed : v \in stopped <=> ~live[v].queued
  BY DEF Player!Stopped, Player!Listed
<1>3. /\ kept.voices = [v \in DOMAIN live \ stopped |-> live[v]]
      /\ kept.active = Picked(active, places)
  BY InstancesPick DEF Player!CleanupStoppedVoices, Player!Without
<1> HIDE DEF stopped, kept
<1> DEFINE left == {kept.active[i] : i \in 1 .. Len(kept.active)}
<1>6. kept.active \in Seq(Voices) /\ Len(kept.active) \in Nat
  <2>1. places \subseteq DOMAIN active
    OBVIOUS
  <2> HIDE DEF places
  <2> QED
    BY <1>1, <1>3, <2>1, PickedElements
<1>8. left = listed \ stopped
  <2>1. /\ \A n \in DOMAIN kept.active : \E i \in places : kept.active[n] = active[i]
        /\ \A i \in places : \E n \in DOMAIN kept.active : kept.active[n] = active[i]
    <3>1. places \subseteq DOMAIN active
      OBVIOUS
    <3> HIDE DEF places, active
    <3> QED
      BY <1>1, <1>3, <3>1, PickedElements
  <2>2. DOMAIN kept.active = 1 .. Len(kept.active)
    BY <1>6
  <2>3. ASSUME NEW n \in 1 .. Len(kept.active) PROVE kept.active[n] \in listed \ stopped
    BY <1>1, <2>1, <2>2
  <2>4. ASSUME NEW i \in 1 .. Len(active), active[i] \notin stopped PROVE active[i] \in left
    <3>1. i \in places
      BY <1>1, <2>4
    <3> QED
      BY <2>1, <2>2, <3>1
  <2> QED
    BY <2>3, <2>4
<1>9. \A i, j \in 1 .. Len(kept.active) : kept.active[i] = kept.active[j] => i = j
  <2>1. places \subseteq DOMAIN active
    OBVIOUS
  <2> HIDE DEF places
  <2> QED
    BY <1>1, <1>3, <2>1, PickedOnce
<1>10. DOMAIN kept.voices = left \cup ({backgroundVoice} \ {NoVoice}) /\ backgroundVoice \notin left
  <2>1. DOMAIN kept.voices = DOMAIN live \ stopped
    BY <1>3
  <2>2. backgroundVoice \notin stopped
    BY <1>1, <1>2
  <2> HIDE DEF listed, left
  <2> QED
    BY <1>1, <1>8, <2>1, <2>2
<1>11. /\ \A v \in DOMAIN kept.voices : v \in DOMAIN live /\ kept.voices[v] = live[v]
       /\ kept.voices \in [DOMAIN kept.voices -> [path : Paths, queued : BOOLEAN]]
  BY <1>1, <1>3
<1>12. \A v \in DOMAIN live : live[v].queued \/ v = backgroundVoice => v \in DOMAIN kept.voices
  BY <1>1, <1>2, <1>3
<1>13. Voiced(kept.active, backgroundVoice, currentMusic, kept.voices, soundCache)
  <2>1. backgroundVoice # NoVoice => kept.voices[backgroundVoice].path = currentMusic
    BY <1>10, <1>11 DEF Voiced
  <2>2. \A v \in DOMAIN kept.voices : kept.voices[v].path \in soundCache
    BY <1>11 DEF Voiced
  <2> QED
    BY <1>6, <1>9, <1>10, <1>11, <2>1, <2>2 DEF Voiced
<1> QED
  BY <1>12, <1>13 DEF kept

\* A voice made for an effect goes to the end of the list.
LEMMA EffectVoiced ==
  ASSUME NEW active, NEW background, NEW music, NEW voices, NEW cache,
         Voiced(active, background, music, voices, cache),
         NEW v \in Voices \ DOMAIN voices, NEW asked \in cache \cap Paths
  PROVE  Voiced(Append(active, v), background, music, Player!Create(voices, v, asked), cache)
<1> DEFINE listed == {active[i] : i \in 1 .. Len(active)}
           longer == Append(active, v)
           more == Player!Create(voices, v, asked)
<1>1. /\ active \in Seq(Voices) /\ Len(active) \in Nat /\ longer \in Seq(Voices)
      /\ Len(longer) = Len(active) + 1 /\ longer[Len(active) + 1] = v
      /\ \A i \in 1 .. Len(active) : longer[i] = active[i]
  BY DEF Voiced
<1>2. /\ DOMAIN more = DOMAIN voices \cup {v}
      /\ more[v] = [path |-> asked, queued |-> TRUE]
      /\ \A u \in DOMAIN voices : more[u] = voices[u]
      /\ more = [u \in DOMAIN voices \cup {v} |-> IF u = v THEN [path |-> asked, queued |-> TRUE] ELSE voices[u]]
  BY DEF Player!Create
<1>3. {longer[i] : i \in 1 .. Len(longer)} = listed \cup {v}
  BY <1>1
<1>4. NoVoice \notin Voices
  BY PartsAssumption DEF Player!SoundAssumption
<1>5. more \in [DOMAIN more -> [path : Paths, queued : BOOLEAN]]
  BY <1>2 DEF Voiced
<1>6. \A i, j \in 1 .. Len(longer) : longer[i] = longer[j] => i = j
  BY <1>1 DEF Voiced
<1> HIDE DEF longer, more
<1>7. /\ DOMAIN more = {longer[i] : i \in 1 .. Len(longer)} \cup ({background} \ {NoVoice})
      /\ background \notin {longer[i] : i \in 1 .. Len(longer)}
  BY <1>2, <1>3, <1>4 DEF Voiced
<1>8. /\ background # NoVoice => more[background].path = music
      /\ \A u \in DOMAIN more : more[u].path \in cache
  BY <1>2 DEF Voiced
<1>9. Voiced(longer, background, music, more, cache)
  BY <1>1, <1>5, <1>6, <1>7, <1>8 DEF Voiced
<1> QED
  BY <1>9 DEF longer, more

\* Without its voice the music is nothing.
LEMMA MusicStops ==
  ASSUME Voiced(activeOneShotVoices, backgroundVoice, currentMusic, live, soundCache)
  PROVE  /\ Voiced(activeOneShotVoices, NoVoice, NoMusic, Player!Without({backgroundVoice}), soundCache)
         /\ DOMAIN Player!Without({backgroundVoice}) = DOMAIN live \ {backgroundVoice}
<1> DEFINE rest == Player!Without({backgroundVoice})
           listed == {activeOneShotVoices[i] : i \in 1 .. Len(activeOneShotVoices)}
<1>1. rest = [v \in DOMAIN live \ {backgroundVoice} |-> live[v]]
  BY DEF Player!Without
<1>2. NoVoice \notin Voices /\ listed \subseteq Voices
  BY PartsAssumption DEF Player!SoundAssumption, Voiced
<1> HIDE DEF rest
<1>3. /\ DOMAIN rest = listed /\ NoVoice \notin listed
      /\ rest \in [DOMAIN rest -> [path : Paths, queued : BOOLEAN]]
      /\ \A v \in DOMAIN rest : rest[v].path \in soundCache
  BY <1>1, <1>2 DEF Voiced
<1>4. Voiced(activeOneShotVoices, NoVoice, NoMusic, rest, soundCache)
  BY <1>3 DEF Voiced
<1> QED
  BY <1>1, <1>4 DEF rest

\* The voice made for the music is named.
LEMMA MusicVoiced ==
  ASSUME NEW active, NEW voices, NEW cache,
         Voiced(active, NoVoice, NoMusic, voices, cache),
         NEW v \in Voices \ DOMAIN voices, NEW asked \in cache \cap Paths
  PROVE  Voiced(active, v, asked, Player!Create(voices, v, asked), cache)
<1> DEFINE more == Player!Create(voices, v, asked)
<1>1. /\ DOMAIN more = DOMAIN voices \cup {v}
      /\ more[v] = [path |-> asked, queued |-> TRUE]
      /\ \A u \in DOMAIN voices : more[u] = voices[u]
      /\ more = [u \in DOMAIN voices \cup {v} |-> IF u = v THEN [path |-> asked, queued |-> TRUE] ELSE voices[u]]
  BY DEF Player!Create
<1>2. NoVoice \notin Voices /\ NoMusic \notin Paths
  BY PartsAssumption DEF Player!SoundAssumption
<1>3. more \in [DOMAIN more -> [path : Paths, queued : BOOLEAN]]
  BY <1>1 DEF Voiced
<1> HIDE DEF more
<1>4. \A u \in DOMAIN more : more[u].path \in cache
  BY <1>1 DEF Voiced
<1>5. Voiced(active, v, asked, more, cache)
  BY <1>1, <1>2, <1>3, <1>4 DEF Voiced
<1> QED
  BY <1>5 DEF more

\* A sound effect is asked for: whichever call fails, what is queued is left to
\* play.
LEMMA PlayOneShotKeeps ==
  ASSUME SoundInv, NEW asked \in Paths, Player!PlayOneShot(asked)
  PROVE  /\ SoundInv'
         /\ \A v \in DOMAIN live : live[v].queued \/ v = backgroundVoice => v \in DOMAIN live'
<1> DEFINE kept == Player!CleanupStoppedVoices
           Keeps == \A v \in DOMAIN live : live[v].queued \/ v = backgroundVoice => v \in DOMAIN live'
           VoicedNext == Voiced(activeOneShotVoices', backgroundVoice', currentMusic', live', soundCache')
<1>1. /\ soundPhase = "alive" /\ xaudio2 /\ soundCache' \in Player!LoadSoundEffect(asked)
      /\ UNCHANGED <<soundPhase, comHeld, comByUs, xaudio2, mastering, backgroundVoice, currentMusic>>
  BY DEF Player!PlayOneShot, Player!device
<1>2. soundCache \subseteq soundCache' /\ \A p \in soundCache' : WholeData(p)
  BY <1>1, LoadedIsWhole
<1>3. /\ Voiced(kept.active, backgroundVoice, currentMusic, kept.voices, soundCache)
      /\ \A v \in DOMAIN live : live[v].queued \/ v = backgroundVoice => v \in DOMAIN kept.voices
  BY CleanupVoiced DEF SoundInv
<1> HIDE DEF kept
<1>4. Voiced(kept.active, backgroundVoice, currentMusic, kept.voices, soundCache')
  BY <1>2, <1>3, VoicedLater
<1>5. CASE asked \notin soundCache'
  <2>1. UNCHANGED <<activeOneShotVoices, live>>
    BY <1>5 DEF Player!PlayOneShot
  <2>2. Voiced(activeOneShotVoices, backgroundVoice, currentMusic, live, soundCache')
    BY <1>2, VoicedLater DEF SoundInv
  <2> QED
    BY <1>1, <1>2, <2>1, <2>2 DEF SoundInv
<1>6. CASE asked \in soundCache' /\ live' = kept.voices /\ activeOneShotVoices' = kept.active
  BY <1>1, <1>2, <1>3, <1>4, <1>6 DEF SoundInv
<1>7. CASE /\ asked \in soundCache'
           /\ \E v \in Voices \ DOMAIN kept.voices :
                 \/ /\ live' = Player!Create(kept.voices, v, asked)
                    /\ activeOneShotVoices' = Append(kept.active, v)
                 \/ /\ live' = Player!Failed(kept.voices, v, asked)
                    /\ activeOneShotVoices' = kept.active
  <2>1. PICK v \in Voices \ DOMAIN kept.voices :
           \/ /\ live' = Player!Create(kept.voices, v, asked)
              /\ activeOneShotVoices' = Append(kept.active, v)
           \/ /\ live' = Player!Failed(kept.voices, v, asked)
              /\ activeOneShotVoices' = kept.active
    BY <1>7
  <2>2. CASE live' = Player!Create(kept.voices, v, asked) /\ activeOneShotVoices' = Append(kept.active, v)
    <3>1. VoicedNext
      BY <1>1, <1>4, <1>7, <2>2, EffectVoiced
    <3>2. DOMAIN kept.voices \subseteq DOMAIN live'
      BY <2>2 DEF Player!Create
    <3> QED
      BY <1>1, <1>2, <1>3, <3>1, <3>2 DEF SoundInv
  <2>3. CASE live' = Player!Failed(kept.voices, v, asked) /\ activeOneShotVoices' = kept.active
    BY <1>1, <1>2, <1>3, <1>4, <2>3 DEF SoundInv, Player!Failed
  <2> QED
    BY <2>1, <2>2, <2>3
<1> QED
  BY <1>5, <1>6, <1>7 DEF Player!PlayOneShot, kept

\* Music is asked for: whichever call fails, there is one voice for it or none.
LEMMA PlayBackgroundMusicKeeps ==
  ASSUME SoundInv, NEW asked \in Paths, Player!PlayBackgroundMusic(asked)
  PROVE  /\ SoundInv'
         /\ \A v \in DOMAIN live : v # backgroundVoice => v \in DOMAIN live'
<1> DEFINE rest == Player!Without({backgroundVoice})
           VoicedNext == Voiced(activeOneShotVoices', backgroundVoice', currentMusic', live', soundCache')
<1>1. /\ soundPhase = "alive" /\ xaudio2 /\ soundCache' \in Player!LoadSoundEffect(asked)
      /\ UNCHANGED <<soundPhase, comHeld, comByUs, xaudio2, mastering, activeOneShotVoices>>
  BY DEF Player!PlayBackgroundMusic, Player!device
<1>2. soundCache \subseteq soundCache' /\ \A p \in soundCache' : WholeData(p)
  BY <1>1, LoadedIsWhole
<1>3. /\ Voiced(activeOneShotVoices, NoVoice, NoMusic, rest, soundCache)
      /\ DOMAIN rest = DOMAIN live \ {backgroundVoice}
  BY MusicStops DEF SoundInv
<1> HIDE DEF rest
<1>4. Voiced(activeOneShotVoices, NoVoice, NoMusic, rest, soundCache')
  BY <1>2, <1>3, VoicedLater
<1>5. CASE asked \notin soundCache'
  <2>1. UNCHANGED <<backgroundVoice, currentMusic, live>>
    BY <1>5 DEF Player!PlayBackgroundMusic
  <2>2. Voiced(activeOneShotVoices, backgroundVoice, currentMusic, live, soundCache')
    BY <1>2, VoicedLater DEF SoundInv
  <2> QED
    BY <1>1, <1>2, <2>1, <2>2 DEF SoundInv
<1>6. CASE live' = rest /\ backgroundVoice' = NoVoice /\ currentMusic' = NoMusic
  BY <1>1, <1>2, <1>3, <1>4, <1>6 DEF SoundInv
<1>7. CASE /\ asked \in soundCache'
           /\ \E v \in Voices \ DOMAIN rest :
                 \/ /\ live' = Player!Create(rest, v, asked)
                    /\ backgroundVoice' = v /\ currentMusic' = asked
                 \/ /\ live' = Player!Failed(rest, v, asked)
                    /\ backgroundVoice' = NoVoice /\ currentMusic' = NoMusic
  <2>1. PICK v \in Voices \ DOMAIN rest :
           \/ /\ live' = Player!Create(rest, v, asked)
              /\ backgroundVoice' = v /\ currentMusic' = asked
           \/ /\ live' = Player!Failed(rest, v, asked)
              /\ backgroundVoice' = NoVoice /\ currentMusic' = NoMusic
    BY <1>7
  <2>2. CASE live' = Player!Create(rest, v, asked) /\ backgroundVoice' = v /\ currentMusic' = asked
    <3>1. VoicedNext
      BY <1>1, <1>4, <1>7, <2>2, MusicVoiced
    <3>2. DOMAIN rest \subseteq DOMAIN live'
      BY <2>2 DEF Player!Create
    <3> QED
      BY <1>1, <1>2, <1>3, <3>1, <3>2 DEF SoundInv
  <2>3. CASE live' = Player!Failed(rest, v, asked) /\ backgroundVoice' = NoVoice /\ currentMusic' = NoMusic
    BY <1>1, <1>2, <1>3, <1>4, <2>3 DEF SoundInv, Player!Failed
  <2> QED
    BY <2>1, <2>2, <2>3
<1> QED
  BY <1>5, <1>6, <1>7 DEF Player!PlayBackgroundMusic, rest

\* With the object every voice goes, and what it held of COM.
LEMMA DestructKeeps ==
  ASSUME SoundInv, Player!Destruct PROVE SoundInv'
<1>1. /\ live' = Player!Without(Player!Listed(activeOneShotVoices) \cup {backgroundVoice})
      /\ backgroundVoice' = NoVoice /\ currentMusic' = NoMusic /\ activeOneShotVoices' = <<>>
      /\ mastering' = FALSE /\ xaudio2' = FALSE /\ comByUs' = FALSE /\ soundCache' = {}
      /\ comHeld' = IF comByUs THEN comHeld - 1 ELSE comHeld
  BY DEF Player!Destruct
<1>2. DOMAIN live' = {}
  BY <1>1 DEF Player!Without, Player!Listed, SoundInv, Voiced
<1>3. live' \in [DOMAIN live' -> [path : Paths, queued : BOOLEAN]]
  BY <1>1, <1>2 DEF Player!Without
<1>4. comHeld' = 0
  BY <1>1 DEF SoundInv
<1>5. Voiced(activeOneShotVoices', backgroundVoice', currentMusic', live', soundCache')
  <2>1. <<>> \in Seq(Voices) /\ {(<<>>)[i] : i \in 1 .. Len(<<>>)} = {}
    OBVIOUS
  <2>2. {activeOneShotVoices'[i] : i \in 1 .. Len(activeOneShotVoices')} = {}
    BY <1>1, <2>1
  <2>3. {backgroundVoice'} \ {NoVoice} = {}
    BY <1>1
  <2>4. \A i, j \in 1 .. Len(activeOneShotVoices') :
           activeOneShotVoices'[i] = activeOneShotVoices'[j] => i = j
    BY <1>1
  <2> QED
    BY <1>1, <1>2, <1>3, <2>1, <2>2, <2>3, <2>4 DEF Voiced
<1> QED
  BY <1>1, <1>2, <1>4, <1>5 DEF SoundInv

\* The inductive invariant holds along every behaviour.
LEMMA SoundInvariant == PartsSpec => []SoundInv
<1>1. PartsInit => SoundInv
  <2> SUFFICES ASSUME PartsInit PROVE SoundInv
    OBVIOUS
  <2>1. /\ soundPhase = "unborn" /\ comHeld = 0 /\ comByUs = FALSE
        /\ xaudio2 = FALSE /\ mastering = FALSE /\ soundCache = {}
        /\ activeOneShotVoices = <<>> /\ backgroundVoice = NoVoice
        /\ currentMusic = NoMusic /\ live = <<>>
    BY DEF PartsInit, Player!Init
  <2>2. /\ <<>> \in Seq(Voices) /\ {(<<>>)[i] : i \in 1 .. Len(<<>>)} = {}
        /\ DOMAIN live = {} /\ live \in [DOMAIN live -> [path : Paths, queued : BOOLEAN]]
    BY <2>1
  <2>3. Voiced(activeOneShotVoices, backgroundVoice, currentMusic, live, soundCache)
    BY <2>1, <2>2 DEF Voiced
  <2> QED
    BY <2>1, <2>2, <2>3 DEF SoundInv
<1>2. SoundInv /\ [PartsNext]_partVars => SoundInv'
  <2> SUFFICES ASSUME SoundInv, [PartsNext]_partVars PROVE SoundInv'
    OBVIOUS
  <2>1. [Player!Next]_soundVars
    BY EachPartSteps
  <2>2. CASE Player!Construct
    <3>1. /\ UNCHANGED <<soundCache, activeOneShotVoices, backgroundVoice, currentMusic, live>>
          /\ soundPhase = "unborn" /\ soundPhase' = "alive"
      BY <2>2 DEF Player!Construct
    <3>2. PICK com \in {"initialized", "changed mode", "failed"}, engine \in BOOLEAN, voice \in BOOLEAN :
             /\ comByUs' = (com = "initialized")
             /\ comHeld' = IF com = "initialized" THEN 1 ELSE 0
             /\ xaudio2' = (com # "failed" /\ engine /\ voice)
             /\ mastering' = xaudio2'
      BY <2>2 DEF Player!Construct
    <3>3. comByUs' \in BOOLEAN /\ comHeld' = IF comByUs' THEN 1 ELSE 0
      BY <3>2
    <3>4. xaudio2' \in BOOLEAN /\ mastering' = xaudio2'
      BY <3>2
    <3>5. DOMAIN live = {}
      BY <3>1 DEF SoundInv
    <3> QED
      BY <3>1, <3>3, <3>4, <3>5 DEF SoundInv
  <2>3. CASE Player!Destruct
    BY <2>3, DestructKeeps
  <2>4. CASE Player!BuffersEnd
    <3>1. UNCHANGED <<soundPhase, comHeld, comByUs, xaudio2, mastering, soundCache,
                      activeOneShotVoices, backgroundVoice, currentMusic>>
      BY <2>4 DEF Player!BuffersEnd, Player!device
    <3>2. PICK v \in DOMAIN live : live' = [live EXCEPT ![v].queued = FALSE]
      BY <2>4 DEF Player!BuffersEnd
    <3>3. live \in [DOMAIN live -> [path : Paths, queued : BOOLEAN]]
      BY DEF SoundInv, Voiced
    <3>4. /\ DOMAIN live' = DOMAIN live /\ \A u \in DOMAIN live : live'[u].path = live[u].path
          /\ live' \in [DOMAIN live' -> [path : Paths, queued : BOOLEAN]]
      BY <3>2, <3>3
    <3>5. backgroundVoice # NoVoice => backgroundVoice \in DOMAIN live
      BY DEF SoundInv, Voiced
    <3>6. Voiced(activeOneShotVoices', backgroundVoice', currentMusic', live', soundCache')
      BY <3>1, <3>4, <3>5 DEF SoundInv, Voiced
    <3> QED
      BY <3>1, <3>4, <3>6 DEF SoundInv
  <2>5. CASE Player!StopBackgroundMusic
    <3>1. /\ live' = Player!Without({backgroundVoice}) /\ backgroundVoice' = NoVoice
          /\ currentMusic' = NoMusic
          /\ UNCHANGED <<soundPhase, comHeld, comByUs, xaudio2, mastering, soundCache, activeOneShotVoices>>
      BY <2>5 DEF Player!StopBackgroundMusic, Player!device
    <3>2. /\ Voiced(activeOneShotVoices, NoVoice, NoMusic, Player!Without({backgroundVoice}), soundCache)
          /\ DOMAIN Player!Without({backgroundVoice}) = DOMAIN live \ {backgroundVoice}
      BY MusicStops DEF SoundInv
    <3> QED
      BY <3>1, <3>2 DEF SoundInv
  <2>6. CASE \E asked \in Paths : Player!PlayOneShot(asked) \/ Player!PlayBackgroundMusic(asked)
    BY <2>6, PlayOneShotKeeps, PlayBackgroundMusicKeeps
  <2>7. CASE UNCHANGED soundVars
    BY <2>7 DEF soundVars, SoundInv
  <2> QED
    BY <2>1, <2>2, <2>3, <2>4, <2>5, <2>6, <2>7 DEF Player!Next
<1> QED
  BY <1>1, <1>2, PTL DEF PartsSpec

\* No voice is lost: each that lives is in the list of the effects, once, or
\* the music's, whichever call of XAudio2 has failed (PlayOneShot,
\* PlayBackgroundMusic); with the object everything is given back.  And none is
\* cut short: the effects' voices are destroyed when nothing is queued
\* (CleanupStoppedVoices), or with the object.
THEOREM EachVoiceIsOwned == PartsSpec => VoicesAreOwned
<1>1. SoundInv => Player!VoicesAreOwned
  <2> SUFFICES ASSUME SoundInv PROVE Player!VoicesAreOwned
    OBVIOUS
  <2>1. Voiced(activeOneShotVoices, backgroundVoice, currentMusic, live, soundCache)
    BY DEF SoundInv
  <2>2. \A asked \in soundCache : WholeData(asked)
    BY DEF SoundInv
  <2>3. /\ DOMAIN live # {} => xaudio2 /\ mastering
        /\ soundPhase # "alive" => comHeld = 0 /\ ~xaudio2 /\ DOMAIN live = {}
    BY DEF SoundInv
  <2> QED
    BY <2>1, <2>2, <2>3 DEF Player!VoicesAreOwned, Player!Listed, Voiced, WholeData
<1> DEFINE PlayOut == \A v \in DOMAIN live :
              live[v].queued /\ v # backgroundVoice /\ soundPhase' = "alive" => v \in DOMAIN live'
<1>2. SoundInv /\ [PartsNext]_partVars => [PlayOut]_(Player!vars)
  <2> SUFFICES ASSUME SoundInv, [PartsNext]_partVars PROVE PlayOut
    OBVIOUS
  <2>1. [Player!Next]_soundVars
    BY EachPartSteps
  <2>2. CASE live' = live
    BY <2>2
  <2>3. CASE Player!Destruct
    BY <2>3 DEF Player!Destruct
  <2>4. CASE Player!BuffersEnd
    BY <2>4 DEF Player!BuffersEnd
  <2>5. CASE Player!StopBackgroundMusic
    BY <2>5, MusicStops DEF Player!StopBackgroundMusic, SoundInv
  <2>6. CASE \E asked \in Paths : Player!PlayOneShot(asked) \/ Player!PlayBackgroundMusic(asked)
    BY <2>6, PlayOneShotKeeps, PlayBackgroundMusicKeeps
  <2> QED
    BY <2>1, <2>2, <2>3, <2>4, <2>5, <2>6 DEF Player!Next, Player!Construct, soundVars
<1> QED
  BY <1>1, <1>2, SoundInvariant, PTL DEF PartsSpec, VoicesAreOwned, Player!SoundsPlayOut

-----------------------------------------------------------------------------
(* ShootingGame: the ship.                                                 *)

PartClasses == {"PlayerGun", "PlayerEngineEffect"}
ShipClasses == {"Player"} \cup PartClasses

ActorRecords ==
  [class : ShipClasses \cup {"EnemySpawner", "GameManager", "Enemy", "PlayerBullet",
                             "EnemyBullet", "DestroyEffect"},
   parent : {"nobody", "Player"}, began : BOOLEAN, expired : BOOLEAN]

PlayersOf(list) == {i \in DOMAIN list : list[i].class = "Player"}
PartsOf(list) == {i \in DOMAIN list : list[i].class \in PartClasses}

\* The ship within a list of actors: one player at most; its parts, and no one
\* else, are attached to it, there are three of them once it has begun, and they
\* are active with it.
ShipOf(list) ==
  /\ \A i, j \in PlayersOf(list) : i = j
  /\ \A i \in DOMAIN list : (list[i].parent = "Player") <=> (list[i].class \in PartClasses)
  /\ \A i \in PlayersOf(list) :
        Cardinality(PartsOf(list)) = IF list[i].began THEN 3 ELSE 0
  /\ \A p \in PartsOf(list) :
        ~list[p].expired <=> \E i \in PlayersOf(list) : ~list[i].expired

\* The inductive invariant of ShootingGame.
ShootInv ==
  /\ actors \in Seq(ActorRecords) /\ addRequestedActors \in Seq(ActorRecords)
  /\ ShipOf(actors \o addRequestedActors)
  /\ phase \in {"begin", "tick", "collide", "stopped"}
  /\ next \in 1 .. Len(actors) + 1 /\ (phase # "tick" => next = 1)
  /\ pairs \subseteq (DOMAIN actors) \X (DOMAIN actors)
  /\ score \in Nat /\ gameOver \in BOOLEAN /\ programQuit \in BOOLEAN
  /\ clock \in 0 .. GameOverFrames
  /\ phase \in {"begin", "tick"} => clock < GameOverFrames
  /\ phase = "collide" => clock < GameOverFrames \/ programQuit

\* The same actors in the same places, the ship's as they were.
SameShip(old, new) ==
  /\ Len(new) = Len(old)
  /\ \A i \in DOMAIN old :
        /\ new[i].class = old[i].class /\ new[i].parent = old[i].parent
        /\ old[i].class = "Player" => new[i].began = old[i].began
        /\ old[i].class \in ShipClasses => new[i].expired = old[i].expired

\* None or some have been added at the end, nothing of the ship.
OthersJoin(old, new) ==
  /\ Len(old) <= Len(new)
  /\ \A i \in DOMAIN old : new[i] = old[i]
  /\ \A i \in DOMAIN new \ DOMAIN old :
        new[i].class \notin ShipClasses /\ new[i].parent = "nobody"

\* One sequence after another.
LEMMA AfterAnother ==
  ASSUME NEW S, NEW s \in Seq(S), NEW t \in Seq(S)
  PROVE  /\ s \o t \in Seq(S) /\ Len(s \o t) = Len(s) + Len(t)
         /\ DOMAIN (s \o t) = 1 .. Len(s) + Len(t)
         /\ DOMAIN s = 1 .. Len(s) /\ DOMAIN t = 1 .. Len(t) /\ Len(s) \in Nat /\ Len(t) \in Nat
         /\ \A i \in 1 .. Len(s) : (s \o t)[i] = s[i]
         /\ \A i \in Len(s) + 1 .. Len(s) + Len(t) : (s \o t)[i] = t[i - Len(s)]
OBVIOUS

\* What happens to others is nothing to the ship.
LEMMA SteadyShip ==
  ASSUME NEW old \in Seq(ActorRecords), NEW new \in Seq(ActorRecords), ShipOf(old),
         Len(old) <= Len(new),
         \A i \in DOMAIN old :
            /\ new[i].class = old[i].class /\ new[i].parent = old[i].parent
            /\ old[i].class = "Player" => new[i].began = old[i].began
            /\ old[i].class \in ShipClasses => new[i].expired = old[i].expired,
         \A i \in DOMAIN new \ DOMAIN old :
            new[i].class \notin ShipClasses /\ new[i].parent = "nobody"
  PROVE  ShipOf(new)
<1>1. DOMAIN old \subseteq DOMAIN new
  OBVIOUS
<1>2. PlayersOf(new) = PlayersOf(old) /\ PartsOf(new) = PartsOf(old)
  BY <1>1 DEF PlayersOf, PartsOf, ShipClasses
<1>3. /\ \A i \in PlayersOf(old) : new[i].began = old[i].began
      /\ \A i \in PlayersOf(old) \cup PartsOf(old) : new[i].expired = old[i].expired
  BY DEF PlayersOf, PartsOf, ShipClasses
<1>4. \A i \in DOMAIN new : (new[i].parent = "Player") <=> (new[i].class \in PartClasses)
  <2>1. \A i \in DOMAIN old : (old[i].parent = "Player") <=> (old[i].class \in PartClasses)
    BY DEF ShipOf
  <2> QED
    BY <1>1, <2>1 DEF ShipClasses
<1>5. \A i \in PlayersOf(old) :
         Cardinality(PartsOf(old)) = IF new[i].began THEN 3 ELSE 0
  BY <1>3 DEF ShipOf
<1>6. \A p \in PartsOf(old) :
         ~new[p].expired <=> \E i \in PlayersOf(old) : ~new[i].expired
  BY <1>3 DEF ShipOf
<1> QED
  BY <1>2, <1>4, <1>5, <1>6 DEF ShipOf

\* Where the actors of two lists are, one after the other.
LEMMA SteadyLists ==
  ASSUME NEW a \in Seq(ActorRecords), NEW w \in Seq(ActorRecords), ShipOf(a \o w),
         NEW b \in Seq(ActorRecords), NEW v \in Seq(ActorRecords),
         SameShip(a, b), OthersJoin(w, v)
  PROVE  ShipOf(b \o v)
<1> DEFINE old == a \o w
           new == b \o v
<1>1. Len(b) = Len(a) /\ Len(w) <= Len(v)
  BY DEF SameShip, OthersJoin
<1>2. /\ old \in Seq(ActorRecords) /\ Len(old) = Len(a) + Len(w)
      /\ DOMAIN old = 1 .. Len(a) + Len(w) /\ DOMAIN a = 1 .. Len(a)
      /\ DOMAIN w = 1 .. Len(w) /\ Len(a) \in Nat /\ Len(w) \in Nat
      /\ \A i \in 1 .. Len(a) : old[i] = a[i]
      /\ \A i \in Len(a) + 1 .. Len(a) + Len(w) : old[i] = w[i - Len(a)]
  BY AfterAnother
<1>3. /\ new \in Seq(ActorRecords) /\ Len(new) = Len(b) + Len(v)
      /\ DOMAIN new = 1 .. Len(b) + Len(v) /\ DOMAIN v = 1 .. Len(v) /\ Len(v) \in Nat
      /\ \A i \in 1 .. Len(b) : new[i] = b[i]
      /\ \A i \in Len(b) + 1 .. Len(b) + Len(v) : new[i] = v[i - Len(b)]
  BY AfterAnother
<1> HIDE DEF old, new
<1>4. ASSUME NEW i \in DOMAIN old
      PROVE  /\ new[i].class = old[i].class /\ new[i].parent = old[i].parent
             /\ old[i].class = "Player" => new[i].began = old[i].began
             /\ old[i].class \in ShipClasses => new[i].expired = old[i].expired
  <2>1. CASE i \in DOMAIN a
    BY <1>1, <1>2, <1>3, <2>1 DEF SameShip
  <2>2. CASE i - Len(a) \in DOMAIN w /\ i \in Len(a) + 1 .. Len(a) + Len(w)
    <3>1. new[i] = old[i]
      BY <1>1, <1>2, <1>3, <2>2 DEF OthersJoin
    <3> QED
      BY <3>1
  <2> QED
    BY <1>2, <2>1, <2>2
<1>5. ASSUME NEW i \in DOMAIN new \ DOMAIN old
      PROVE  new[i].class \notin ShipClasses /\ new[i].parent = "nobody"
  <2>1. /\ i \in Len(b) + 1 .. Len(b) + Len(v)
        /\ i - Len(b) \in DOMAIN v \ DOMAIN w
    BY <1>1, <1>2, <1>3
  <2> QED
    BY <1>3, <2>1 DEF OthersJoin
<1>6. ShipOf(old) /\ Len(old) <= Len(new)
  BY <1>1, <1>2, <1>3 DEF old
<1>7. ShipOf(new)
  BY <1>2, <1>3, <1>4, <1>5, <1>6, SteadyShip
<1> QED
  BY <1>7 DEF new

\* Destroy only makes actors expire.
LEMMA DestroyExpires ==
  ASSUME NEW list \in Seq(ActorRecords), NEW class, NEW hit
  PROVE  LET new == Shooting!Destroy(list, class, hit)
         IN /\ new \in Seq(ActorRecords) /\ Len(new) = Len(list)
            /\ \A i \in DOMAIN list :
                  /\ new[i].class = list[i].class /\ new[i].parent = list[i].parent
                  /\ new[i].began = list[i].began
                  /\ new[i].expired <=> (list[i].expired \/ i \in hit \/ list[i].parent = class)
<1> DEFINE new == Shooting!Destroy(list, class, hit)
<1>1. new = [i \in DOMAIN list |->
               [list[i] EXCEPT !.expired = list[i].expired \/ i \in hit \/ list[i].parent = class]]
  BY DEF Shooting!Destroy
<1>2. ASSUME NEW i \in DOMAIN list
      PROVE  /\ new[i] \in ActorRecords
             /\ new[i].class = list[i].class /\ new[i].parent = list[i].parent
             /\ new[i].began = list[i].began
             /\ new[i].expired <=> (list[i].expired \/ i \in hit \/ list[i].parent = class)
  <2>1. list[i] \in ActorRecords
    OBVIOUS
  <2>2. new[i] = [list[i] EXCEPT !.expired = list[i].expired \/ i \in hit \/ list[i].parent = class]
    BY <1>1
  <2> DEFINE e == list[i].expired \/ i \in hit \/ list[i].parent = class
  <2>3. e \in BOOLEAN /\ new[i] = [list[i] EXCEPT !.expired = e]
    BY <2>1, <2>2 DEF ActorRecords
  <2> HIDE DEF e, new
  <2>4. /\ new[i] \in ActorRecords /\ new[i].expired = e
        /\ new[i].class = list[i].class /\ new[i].parent = list[i].parent
        /\ new[i].began = list[i].began
    BY <2>1, <2>3 DEF ActorRecords
  <2> QED
    BY <2>4 DEF e
<1>3. /\ new = [i \in DOMAIN list |-> new[i]]
      /\ DOMAIN list = 1 .. Len(list) /\ Len(list) \in Nat
  BY <1>1
<1> HIDE DEF new
<1>4. new \in [1 .. Len(list) -> ActorRecords]
  BY <1>2, <1>3
<1>5. new \in Seq(ActorRecords) /\ Len(new) = Len(list)
  BY <1>3, <1>4
<1> QED
  BY <1>2, <1>5 DEF new

\* An actor that is asked for has neither begun nor expired.
LEMMA NewActors ==
  ASSUME NEW class \in {"Player", "PlayerGun", "PlayerEngineEffect", "EnemySpawner",
                        "GameManager", "Enemy", "PlayerBullet", "EnemyBullet", "DestroyEffect"},
         NEW parent \in {"nobody", "Player"}
  PROVE  /\ Shooting!NewActor(class, parent) \in ActorRecords
         /\ Shooting!NewActor(class, parent).class = class
         /\ Shooting!NewActor(class, parent).parent = parent
         /\ Shooting!NewActor(class, parent).expired = FALSE
BY DEF Shooting!NewActor, ActorRecords, ShipClasses, PartClasses

\* A spawn of something that is not of the ship.
LEMMA SpawnJoins ==
  ASSUME NEW w \in Seq(ActorRecords),
         NEW class \in {"Enemy", "PlayerBullet", "EnemyBullet", "DestroyEffect"}
  PROVE  /\ Append(w, Shooting!NewActor(class, Shooting!NoParent)) \in Seq(ActorRecords)
         /\ OthersJoin(w, Append(w, Shooting!NewActor(class, Shooting!NoParent)))
<1> DEFINE x == Shooting!NewActor(class, Shooting!NoParent)
<1>1. x \in ActorRecords /\ x.class = class /\ x.parent = "nobody"
  BY NewActors DEF Shooting!NoParent
<1> HIDE DEF x
<1>2. class \notin ShipClasses
  BY DEF ShipClasses, PartClasses
<1>3. Append(w, x) \in Seq(ActorRecords) /\ OthersJoin(w, Append(w, x))
  BY <1>1, <1>2 DEF OthersJoin
<1> QED
  BY <1>3 DEF x

\* Whatever hits actors that are not of the ship leaves the ship.
LEMMA DestroyOthers ==
  ASSUME NEW list \in Seq(ActorRecords), NEW class, class # "Player", class # "nobody", NEW hit,
         \A i \in hit : i \in DOMAIN list => list[i].class \notin ShipClasses
  PROVE  /\ Shooting!Destroy(list, class, hit) \in Seq(ActorRecords)
         /\ SameShip(list, Shooting!Destroy(list, class, hit))
<1> DEFINE new == Shooting!Destroy(list, class, hit)
<1>1. /\ new \in Seq(ActorRecords) /\ Len(new) = Len(list)
      /\ \A i \in DOMAIN list :
            /\ new[i].class = list[i].class /\ new[i].parent = list[i].parent
            /\ new[i].began = list[i].began
            /\ new[i].expired <=> (list[i].expired \/ i \in hit \/ list[i].parent = class)
  BY DestroyExpires
<1> HIDE DEF new
<1>2. ASSUME NEW i \in DOMAIN list, list[i].class \in ShipClasses
      PROVE  new[i].expired = list[i].expired
  <2>1. list[i] \in ActorRecords /\ new[i] \in ActorRecords
    BY <1>1
  <2>2. new[i].expired <=> list[i].expired
    BY <1>1, <1>2, <2>1 DEF ActorRecords
  <2>3. new[i].expired \in BOOLEAN /\ list[i].expired \in BOOLEAN
    BY <2>1 DEF ActorRecords
  <2> QED
    BY <2>2, <2>3
<1>3. SameShip(list, new)
  BY <1>1, <1>2 DEF SameShip
<1> QED
  BY <1>1, <1>3 DEF new

\* g takes each place of what is left of two lists to the place it comes from.
ComesFrom(g, a, w, pa, pw, left) ==
  /\ \A m, n \in DOMAIN left : g[m] = g[n] => m = n
  /\ \A n \in DOMAIN left :
        /\ left[n] = (a \o w)[g[n]]
        /\ g[n] \in pa \/ g[n] - Len(a) \in pw
  /\ \A i \in DOMAIN (a \o w) :
        i \in pa \/ i - Len(a) \in pw => \E n \in DOMAIN left : g[n] = i

\* What stays of two lists, in their order: places of the one after the other.
LEMMA BothPicked ==
  ASSUME NEW S, NEW a \in Seq(S), NEW w \in Seq(S),
         NEW pa, pa \subseteq DOMAIN a, NEW pw, pw \subseteq DOMAIN w
  PROVE  LET left == Picked(a, pa) \o Picked(w, pw)
         IN /\ left \in Seq(S)
            /\ \E g \in [DOMAIN left -> DOMAIN (a \o w)] : ComesFrom(g, a, w, pa, pw, left)
<1> DEFINE A == Picked(a, pa)
           W == Picked(w, pw)
           left == A \o W
           M == Cardinality(pa)
           N == Cardinality(pw)
<1>1. /\ A \in Seq(S) /\ IsFiniteSet(pa) /\ Len(A) = M
      /\ W \in Seq(S) /\ IsFiniteSet(pw) /\ Len(W) = N
  BY PickedElements
<1>2. M \in Nat /\ N \in Nat /\ pa \subseteq Nat /\ pw \subseteq Nat
      /\ DOMAIN a = 1 .. Len(a) /\ DOMAIN w = 1 .. Len(w) /\ Len(a) \in Nat /\ Len(w) \in Nat
  BY <1>1, FS_CardinalityType
<1>3. PICK f \in [1 .. M -> pa] : Lists(f, a, pa)
  BY <1>1, <1>2, PickedPlaces
<1>4. PICK h \in [1 .. N -> pw] : Lists(h, w, pw)
  BY <1>1, <1>2, PickedPlaces
<1>5. /\ \A m, n \in 1 .. M : f[m] = f[n] => m = n
      /\ \A i \in pa : \E n \in 1 .. M : f[n] = i
      /\ \A n \in 1 .. M : A[n] = a[f[n]]
  BY <1>3 DEF Lists
<1>6. /\ \A m, n \in 1 .. N : h[m] = h[n] => m = n
      /\ \A i \in pw : \E n \in 1 .. N : h[n] = i
      /\ \A n \in 1 .. N : W[n] = w[h[n]]
  BY <1>4 DEF Lists
<1> HIDE DEF A, W, M, N
<1>7. /\ left \in Seq(S) /\ DOMAIN left = 1 .. M + N
      /\ \A n \in 1 .. M : left[n] = A[n]
      /\ \A n \in M + 1 .. M + N : left[n] = W[n - M]
      /\ DOMAIN (a \o w) = 1 .. Len(a) + Len(w)
      /\ \A i \in 1 .. Len(a) : (a \o w)[i] = a[i]
      /\ \A i \in Len(a) + 1 .. Len(a) + Len(w) : (a \o w)[i] = w[i - Len(a)]
  <2>1. /\ left \in Seq(S) /\ DOMAIN left = 1 .. Len(A) + Len(W)
        /\ \A n \in 1 .. Len(A) : left[n] = A[n]
        /\ \A n \in Len(A) + 1 .. Len(A) + Len(W) : left[n] = W[n - Len(A)]
    BY <1>1, AfterAnother
  <2>2. /\ DOMAIN (a \o w) = 1 .. Len(a) + Len(w)
        /\ \A i \in 1 .. Len(a) : (a \o w)[i] = a[i]
        /\ \A i \in Len(a) + 1 .. Len(a) + Len(w) : (a \o w)[i] = w[i - Len(a)]
    BY AfterAnother
  <2> QED
    BY <1>1, <2>1, <2>2
<1> DEFINE g == [n \in 1 .. M + N |-> IF n <= M THEN f[n] ELSE Len(a) + h[n - M]]
           both == a \o w
<1> HIDE DEF left, both
<1>8. /\ \A n \in 1 .. M : g[n] = f[n] /\ f[n] \in pa /\ f[n] \in 1 .. Len(a)
      /\ \A n \in M + 1 .. M + N : g[n] = Len(a) + h[n - M] /\ h[n - M] \in pw
                                      /\ h[n - M] \in 1 .. Len(w) /\ n - M \in 1 .. N
  BY <1>2
<1>9. g \in [1 .. M + N -> 1 .. Len(a) + Len(w)]
  BY <1>2, <1>8
<1> HIDE DEF g
<1>10. ASSUME NEW m \in 1 .. M + N, NEW n \in 1 .. M + N, g[m] = g[n]
       PROVE  m = n
  <2>1. CASE m \in 1 .. M /\ n \in 1 .. M
    BY <1>5, <1>8, <1>10, <2>1
  <2>2. CASE m \in M + 1 .. M + N /\ n \in M + 1 .. M + N
    <3>1. h[m - M] = h[n - M]
      BY <1>2, <1>8, <1>10, <2>2
    <3>2. m - M = n - M
      BY <1>6, <1>8, <2>2, <3>1
    <3> QED
      BY <1>2, <2>2, <3>2
  <2>3. CASE m \in 1 .. M /\ n \in M + 1 .. M + N
    BY <1>2, <1>8, <1>10, <2>3
  <2>4. CASE m \in M + 1 .. M + N /\ n \in 1 .. M
    BY <1>2, <1>8, <1>10, <2>4
  <2> QED
    BY <1>2, <2>1, <2>2, <2>3, <2>4
<1>11. ASSUME NEW n \in 1 .. M + N
       PROVE  left[n] = both[g[n]] /\ (g[n] \in pa \/ g[n] - Len(a) \in pw)
  <2>1. CASE n \in 1 .. M
    BY <1>2, <1>5, <1>7, <1>8, <2>1 DEF both
  <2>2. CASE n \in M + 1 .. M + N
    <3>1. g[n] \in Len(a) + 1 .. Len(a) + Len(w) /\ g[n] - Len(a) = h[n - M]
      BY <1>2, <1>8, <2>2
    <3>2. left[n] = w[h[n - M]]
      BY <1>6, <1>7, <1>8, <2>2
    <3>3. both[g[n]] = w[h[n - M]]
      BY <1>7, <3>1 DEF both
    <3> QED
      BY <1>8, <2>2, <3>1, <3>2, <3>3
  <2> QED
    BY <1>2, <2>1, <2>2
<1>12. ASSUME NEW i \in 1 .. Len(a) + Len(w), i \in pa \/ i - Len(a) \in pw
       PROVE  \E n \in 1 .. M + N : g[n] = i
  <2>1. CASE i \in pa
    <3>1. PICK n \in 1 .. M : f[n] = i
      BY <1>5, <2>1
    <3> QED
      BY <1>2, <1>8, <3>1, SMTT(30)
  <2>2. CASE i - Len(a) \in pw
    <3>1. PICK n \in 1 .. N : h[n] = i - Len(a)
      BY <1>6, <2>2
    <3>2. M + n \in M + 1 .. M + N /\ (M + n) - M = n /\ M + n \in 1 .. M + N
      BY <1>2
    <3>3. g[M + n] = i
      BY <1>2, <1>8, <3>1, <3>2
    <3> QED
      BY <3>2, <3>3
  <2> QED
    BY <1>12, <2>1, <2>2
<1>13. left \in Seq(S) /\ DOMAIN left = 1 .. M + N /\ DOMAIN both = 1 .. Len(a) + Len(w)
  BY <1>7 DEF both
<1>14. /\ g \in [DOMAIN left -> DOMAIN both]
       /\ \A m, n \in DOMAIN left : g[m] = g[n] => m = n
       /\ \A n \in DOMAIN left :
             /\ left[n] = both[g[n]]
             /\ g[n] \in pa \/ g[n] - Len(a) \in pw
       /\ \A i \in DOMAIN both :
             i \in pa \/ i - Len(a) \in pw => \E n \in DOMAIN left : g[n] = i
  BY <1>9, <1>10, <1>11, <1>12, <1>13, Zenon
<1>15. ComesFrom(g, a, w, pa, pw, left)
  BY <1>14, Zenon DEF ComesFrom, both
<1> QED
  BY <1>13, <1>14, <1>15 DEF left, both, A, W

\* The ship is built: the player has begun, its three parts are asked for.
LEMMA ShipIsBuilt ==
  ASSUME NEW old \in Seq(ActorRecords), NEW new \in Seq(ActorRecords), ShipOf(old),
         Len(new) = Len(old) + 3,
         \A i \in DOMAIN old :
            /\ new[i].class = old[i].class /\ new[i].parent = old[i].parent
            /\ new[i].expired = old[i].expired,
         \A i \in Len(old) + 1 .. Len(old) + 3 :
            /\ new[i].class \in PartClasses /\ new[i].parent = "Player"
            /\ ~new[i].expired,
         NEW k \in PlayersOf(old), ~old[k].began, ~old[k].expired, new[k].began
  PROVE  ShipOf(new)
<1>1. /\ DOMAIN old = 1 .. Len(old) /\ Len(old) \in Nat
      /\ DOMAIN new = (1 .. Len(old)) \cup (Len(old) + 1 .. Len(old) + 3)
  OBVIOUS
<1>2. PartsOf(old) = {}
  <2>1. PartsOf(old) \subseteq 1 .. Len(old) /\ IsFiniteSet(1 .. Len(old))
    BY <1>1, FS_Interval DEF PartsOf
  <2>2. IsFiniteSet(PartsOf(old))
    BY <2>1, FS_Subset
  <2>3. Cardinality(PartsOf(old)) = 0
    BY DEF ShipOf
  <2> QED
    BY <2>2, <2>3, FS_EmptySet
<1>3. \A i \in DOMAIN old : old[i].class \notin PartClasses
  BY <1>2 DEF PartsOf
<1>4. PlayersOf(new) = {k}
  <2>1. PlayersOf(old) = {k}
    BY DEF ShipOf
  <2>2. \A i \in Len(old) + 1 .. Len(old) + 3 : new[i].class # "Player"
    BY DEF PartClasses
  <2> QED
    BY <1>1, <2>1, <2>2 DEF PlayersOf
<1>5. PartsOf(new) = Len(old) + 1 .. Len(old) + 3
  BY <1>1, <1>3 DEF PartsOf
<1>6. Cardinality(Len(old) + 1 .. Len(old) + 3) = 3
  BY <1>1, FS_Interval
<1>7. \A i \in DOMAIN new : (new[i].parent = "Player") <=> (new[i].class \in PartClasses)
  <2>1. \A i \in DOMAIN old : (old[i].parent = "Player") <=> (old[i].class \in PartClasses)
    BY DEF ShipOf
  <2> QED
    BY <1>1, <2>1
<1>8. k \in DOMAIN old /\ ~new[k].expired
  BY DEF PlayersOf
<1>9. \A i, j \in PlayersOf(new) : i = j
  BY <1>4
<1>10. \A i \in PlayersOf(new) :
         Cardinality(PartsOf(new)) = IF new[i].began THEN 3 ELSE 0
  BY <1>4, <1>5, <1>6
<1>11. \A p \in PartsOf(new) :
         ~new[p].expired <=> \E i \in PlayersOf(new) : ~new[i].expired
  BY <1>4, <1>5, <1>8
<1> QED
  BY <1>7, <1>9, <1>10, <1>11 DEF ShipOf

\* The ship goes down: the player has expired, and whoever is attached to it.
LEMMA ShipGoesDown ==
  ASSUME NEW old \in Seq(ActorRecords), NEW new \in Seq(ActorRecords), ShipOf(old),
         Len(new) = Len(old),
         \A i \in DOMAIN old :
            /\ new[i].class = old[i].class /\ new[i].parent = old[i].parent
            /\ new[i].began = old[i].began
            /\ old[i].parent = "Player" => new[i].expired,
         NEW k \in PlayersOf(old), new[k].expired
  PROVE  ShipOf(new)
<1>1. DOMAIN new = DOMAIN old
  OBVIOUS
<1>2. PlayersOf(new) = PlayersOf(old) /\ PartsOf(new) = PartsOf(old)
  BY <1>1 DEF PlayersOf, PartsOf
<1>3. PlayersOf(old) = {k}
  BY DEF ShipOf
<1>4. \A p \in PartsOf(old) : new[p].expired
  BY DEF ShipOf, PartsOf
<1>5. \A i \in DOMAIN new : (new[i].parent = "Player") <=> (new[i].class \in PartClasses)
  BY <1>1 DEF ShipOf
<1>6. \A i \in PlayersOf(old) :
         Cardinality(PartsOf(old)) = IF new[i].began THEN 3 ELSE 0
  <2>1. k \in DOMAIN old /\ new[k].began = old[k].began
    BY DEF PlayersOf
  <2> QED
    BY <1>3, <2>1 DEF ShipOf
<1>7. \A p \in PartsOf(new) :
         ~new[p].expired <=> \E i \in PlayersOf(new) : ~new[i].expired
  BY <1>2, <1>3, <1>4
<1>8. \A i, j \in PlayersOf(new) : i = j
  BY <1>2, <1>3
<1> QED
  BY <1>2, <1>5, <1>6, <1>7, <1>8 DEF ShipOf

\* The ship is taken from the list whole, or stays whole.
LEMMA ShipIsPicked ==
  ASSUME NEW list \in Seq(ActorRecords), NEW left \in Seq(ActorRecords), ShipOf(list),
         NEW g \in [DOMAIN left -> DOMAIN list],
         \A m, n \in DOMAIN left : g[m] = g[n] => m = n,
         \A n \in DOMAIN left : left[n] = list[g[n]] /\ ~list[g[n]].expired,
         \A i \in DOMAIN list : ~list[i].expired => \E n \in DOMAIN left : g[n] = i
  PROVE  ShipOf(left)
<1>1. /\ \A n \in PlayersOf(left) : g[n] \in PlayersOf(list)
      /\ \A n \in PartsOf(left) : g[n] \in PartsOf(list)
  BY DEF PlayersOf, PartsOf
<1>2. \A m, n \in PlayersOf(left) : m = n
  <2>1. \A i, j \in PlayersOf(list) : i = j
    BY DEF ShipOf
  <2>2. PlayersOf(left) \subseteq DOMAIN left
    BY DEF PlayersOf
  <2> QED
    BY <1>1, <2>1, <2>2
<1>3. \A n \in DOMAIN left : (left[n].parent = "Player") <=> (left[n].class \in PartClasses)
  BY DEF ShipOf
<1>4. ASSUME NEW n \in PlayersOf(left)
      PROVE  Cardinality(PartsOf(left)) = IF left[n].began THEN 3 ELSE 0
  <2> DEFINE f == [p \in PartsOf(left) |-> g[p]]
  <2>1. g[n] \in PlayersOf(list) /\ left[n] = list[g[n]] /\ ~list[g[n]].expired
    BY <1>1 DEF PlayersOf
  <2>2. \A p \in PartsOf(list) : p \in DOMAIN list /\ ~list[p].expired
    BY <2>1 DEF ShipOf, PartsOf
  <2>3. f \in [PartsOf(left) -> PartsOf(list)]
    BY <1>1
  <2>4. \A m, p \in PartsOf(left) : f[m] = f[p] => m = p
    BY DEF PartsOf
  <2>5. ASSUME NEW i \in PartsOf(list) PROVE \E p \in PartsOf(left) : f[p] = i
    <3>1. PICK p \in DOMAIN left : g[p] = i
      BY <2>2
    <3>2. p \in PartsOf(left)
      BY <3>1 DEF PartsOf
    <3> QED
      BY <3>1, <3>2
  <2> HIDE DEF f
  <2>6. f \in Injection(PartsOf(left), PartsOf(list))
    BY <2>3, <2>4 DEF Injection, IsInjective
  <2>7. f \in Surjection(PartsOf(left), PartsOf(list))
    BY <2>3, <2>5 DEF Surjection
  <2>8. IsFiniteSet(PartsOf(list))
    <3>1. PartsOf(list) \subseteq 1 .. Len(list) /\ Len(list) \in Nat
      BY DEF PartsOf
    <3>2. IsFiniteSet(1 .. Len(list))
      BY <3>1, FS_Interval
    <3> QED
      BY <3>1, <3>2, FS_Subset
  <2>9. Cardinality(PartsOf(left)) = Cardinality(PartsOf(list))
    BY <2>6, <2>7, <2>8, FS_Injection
  <2> QED
    BY <2>1, <2>9 DEF ShipOf
<1>5. ASSUME NEW p \in PartsOf(left)
      PROVE  ~left[p].expired <=> \E n \in PlayersOf(left) : ~left[n].expired
  <2>1. g[p] \in PartsOf(list) /\ left[p] = list[g[p]] /\ ~list[g[p]].expired
    BY <1>1 DEF PartsOf
  <2>2. PICK i \in PlayersOf(list) : ~list[i].expired
    BY <2>1 DEF ShipOf
  <2>3. PICK n \in DOMAIN left : g[n] = i
    BY <2>2 DEF PlayersOf
  <2>4. n \in PlayersOf(left) /\ ~left[n].expired
    BY <2>2, <2>3 DEF PlayersOf
  <2> QED
    BY <2>1, <2>4
<1> QED
  BY <1>2, <1>3, <1>4, <1>5 DEF ShipOf

\* Sequences of actors, changed in no way that touches the ship.
LEMMA NothingJoins ==
  ASSUME NEW w \in Seq(ActorRecords) PROVE SameShip(w, w) /\ OthersJoin(w, w)
BY DEF SameShip, OthersJoin

\* A tick of an actor that leaves the ship as it is.
LEMMA TickKeeps ==
  ASSUME ShootInv, phase = "tick", phase' = phase, pairs' = pairs, score' = score,
         gameOver' = gameOver, clock' = clock, programQuit' \in BOOLEAN,
         next' \in 1 .. Len(actors) + 1,
         actors' \in Seq(ActorRecords), SameShip(actors, actors'),
         addRequestedActors' \in Seq(ActorRecords),
         OthersJoin(addRequestedActors, addRequestedActors')
  PROVE  ShootInv'
<1>1. ShipOf(actors' \o addRequestedActors')
  BY SteadyLists DEF ShootInv
<1>2. DOMAIN actors' = DOMAIN actors /\ Len(actors') = Len(actors)
  BY DEF ShootInv, SameShip
<1>3. /\ pairs' \subseteq (DOMAIN actors') \X (DOMAIN actors')
      /\ next' \in 1 .. Len(actors') + 1
  BY <1>2 DEF ShootInv
<1>4. /\ score' \in Nat /\ gameOver' \in BOOLEAN /\ clock' \in 0 .. GameOverFrames
      /\ clock' < GameOverFrames
  BY DEF ShootInv
<1> QED
  BY <1>1, <1>3, <1>4 DEF ShootInv

\* Who ticks is in the list, and active.
LEMMA WhoTicks ==
  ASSUME ShootInv, NEW classes, Shooting!Ticks(classes)
  PROVE  /\ Shooting!TickingActor \in DOMAIN actors
         /\ actors[Shooting!TickingActor].class \in classes
         /\ next' = Shooting!TickingActor + 1 /\ next' \in 1 .. Len(actors) + 1
         /\ phase = "tick" /\ phase' = phase /\ pairs' = pairs /\ score' = score
         /\ gameOver' = gameOver /\ clock' = clock
<1> DEFINE still == Shooting!StillToTick(Shooting!Idle)
<1>1. still # {} /\ actors[Shooting!TickingActor].class \in classes
      /\ next' = Shooting!TickingActor + 1
      /\ phase = "tick" /\ phase' = phase /\ pairs' = pairs /\ score' = score
      /\ gameOver' = gameOver /\ clock' = clock
  BY DEF Shooting!Ticks
<1>2. still \subseteq DOMAIN actors
  BY DEF Shooting!StillToTick, Shooting!ActiveActors, Shooting!Active
<1>3. DOMAIN actors = 1 .. Len(actors) /\ Len(actors) \in Nat
  BY DEF ShootInv
<1>4. Shooting!TickingActor = CHOOSE i \in still : \A j \in still : i <= j
  BY DEF Shooting!TickingActor, Shooting!Ticking
<1> HIDE DEF still
<1>5. \E i \in still : \A j \in still : i <= j
  BY <1>1, <1>2, <1>3, LeastElement
<1>6. Shooting!TickingActor \in still
  BY <1>4, <1>5
<1> QED
  BY <1>1, <1>2, <1>3, <1>6

\* The space bar: a bullet from each gun.
LEMMA PlayerTickKeeps ==
  ASSUME ShootInv, Shooting!PlayerTick PROVE ShootInv'
<1> DEFINE guns == {i \in Shooting!OfClass("PlayerGun") : Shooting!IsActive(Shooting!All[i])}
           n == Shooting!Cardinality(guns)
           news == [i \in 1 .. n |-> Shooting!NewActor("PlayerBullet", Shooting!NoParent)]
<1>1. Shooting!Ticks({"Player"}) /\ actors' = actors
  BY DEF Shooting!PlayerTick
<1>2. /\ next' \in 1 .. Len(actors) + 1
      /\ phase = "tick" /\ phase' = phase /\ pairs' = pairs /\ score' = score
      /\ gameOver' = gameOver /\ clock' = clock
  BY <1>1, WhoTicks
<1>3. /\ actors \in Seq(ActorRecords) /\ addRequestedActors \in Seq(ActorRecords)
      /\ programQuit \in BOOLEAN
  BY DEF ShootInv
<1>4. SameShip(actors, actors)
  BY <1>3, NothingJoins
<1>5. CASE programQuit' \in {programQuit, TRUE} /\ UNCHANGED addRequestedActors
  <2>1. OthersJoin(addRequestedActors, addRequestedActors) /\ programQuit' \in BOOLEAN
    BY <1>3, <1>5, NothingJoins
  <2> QED
    BY <1>1, <1>2, <1>3, <1>4, <1>5, <2>1, TickKeeps
<1>6. CASE addRequestedActors' = addRequestedActors \o news /\ UNCHANGED programQuit
  <2>1. n \in Nat
    <3>1. /\ DOMAIN (actors \o addRequestedActors) = 1 .. Len(actors) + Len(addRequestedActors)
          /\ Len(actors) + Len(addRequestedActors) \in Nat
      BY <1>3, AfterAnother
    <3>2. IsFiniteSet(guns)
      <4>2. guns \subseteq 1 .. Len(actors) + Len(addRequestedActors)
        BY <3>1 DEF Shooting!OfClass, Shooting!All
      <4> HIDE DEF guns
      <4>1. IsFiniteSet(1 .. Len(actors) + Len(addRequestedActors))
        BY <3>1, FS_Interval
      <4> QED
        BY <4>1, <4>2, FS_Subset
    <3> QED
      BY <3>2, FS_CardinalityType, InstancesCount
  <2> DEFINE x == Shooting!NewActor("PlayerBullet", Shooting!NoParent)
  <2>2. x \in ActorRecords /\ x.class \notin ShipClasses /\ x.parent = "nobody"
    BY NewActors DEF Shooting!NoParent, ShipClasses, PartClasses
  <2> HIDE DEF n, x
  <2>3. /\ [i \in 1 .. n |-> x] \in Seq(ActorRecords) /\ Len([i \in 1 .. n |-> x]) = n
        /\ \A i \in 1 .. n : [j \in 1 .. n |-> x][i] = x
    BY <2>1, <2>2
  <2> DEFINE more == [i \in 1 .. n |-> x]
  <2> HIDE DEF more
  <2>4. OthersJoin(addRequestedActors, addRequestedActors \o more)
    <3>1. /\ Len(addRequestedActors \o more) = Len(addRequestedActors) + Len(more)
          /\ DOMAIN (addRequestedActors \o more) = 1 .. Len(addRequestedActors) + Len(more)
          /\ DOMAIN addRequestedActors = 1 .. Len(addRequestedActors)
          /\ Len(addRequestedActors) \in Nat /\ Len(more) \in Nat
          /\ \A i \in 1 .. Len(addRequestedActors) :
                (addRequestedActors \o more)[i] = addRequestedActors[i]
          /\ \A i \in Len(addRequestedActors) + 1 .. Len(addRequestedActors) + Len(more) :
                (addRequestedActors \o more)[i] = more[i - Len(addRequestedActors)]
      <4>1. more \in Seq(ActorRecords)
        BY <2>3 DEF more
      <4> QED
        BY <1>3, <4>1, AfterAnother
    <3>2. \A i \in 1 .. Len(more) : more[i] = x
      BY <2>3 DEF more
    <3>3. \A i \in Len(addRequestedActors) + 1 .. Len(addRequestedActors) + Len(more) :
             i - Len(addRequestedActors) \in 1 .. Len(more)
      BY <3>1
    <3> QED
      BY <2>2, <3>1, <3>2, <3>3 DEF OthersJoin
  <2>5. addRequestedActors' = addRequestedActors \o more
    BY <1>6 DEF more, x, n
  <2>6. addRequestedActors \o more \in Seq(ActorRecords)
    BY <1>3, <2>3 DEF more
  <2> QED
    BY <1>1, <1>2, <1>3, <1>4, <1>6, <2>4, <2>5, <2>6, TickKeeps
<1> QED
  BY <1>5, <1>6 DEF Shooting!PlayerTick

\* The others tick: they spawn, leave and end, and are not of the ship.
LEMMA OthersTickKeeps ==
  ASSUME ShootInv,
         Shooting!EnemySpawnerTick \/ Shooting!EnemyTick \/ Shooting!PassingTick
  PROVE  ShootInv'
<1> DEFINE w == addRequestedActors
           k == Shooting!TickingActor
<1>1. /\ actors \in Seq(ActorRecords) /\ w \in Seq(ActorRecords) /\ programQuit \in BOOLEAN
      /\ SameShip(actors, actors) /\ OthersJoin(w, w)
  BY NothingJoins DEF ShootInv
<1>2. ASSUME NEW class \in {"Enemy", "EnemyBullet"}, Shooting!SpawnActor(class, Shooting!NoParent)
      PROVE  w' \in Seq(ActorRecords) /\ OthersJoin(w, w')
  BY <1>1, <1>2, SpawnJoins DEF Shooting!SpawnActor
<1>3. ASSUME NEW class \in {"Enemy", "PlayerBullet", "EnemyBullet", "DestroyEffect"},
             k \in DOMAIN actors, actors[k].class = class,
             actors' = Shooting!Destroy(actors, class, {k})
      PROVE  actors' \in Seq(ActorRecords) /\ SameShip(actors, actors')
  <2>1. class \notin ShipClasses /\ class # "Player" /\ class # "nobody"
    BY DEF ShipClasses, PartClasses
  <2> HIDE DEF k
  <2>2. \A i \in {k} : i \in DOMAIN actors => actors[i].class \notin ShipClasses
    BY <1>3, <2>1
  <2> QED
    BY <1>1, <1>3, <2>1, <2>2, DestroyOthers
<1>4. CASE Shooting!EnemySpawnerTick
  <2>1. /\ Shooting!Ticks({"EnemySpawner"}) /\ actors' = actors /\ programQuit' = programQuit
        /\ w' = w \/ Shooting!SpawnActor("Enemy", Shooting!NoParent)
    BY <1>4 DEF Shooting!EnemySpawnerTick
  <2>2. w' \in Seq(ActorRecords) /\ OthersJoin(w, w')
    BY <1>1, <1>2, <2>1
  <2> QED
    BY <1>1, <2>1, <2>2, WhoTicks, TickKeeps
<1>5. CASE Shooting!EnemyTick
  <2>1. /\ Shooting!Ticks({"Enemy"}) /\ programQuit' = programQuit
        /\ \/ UNCHANGED <<actors, addRequestedActors>>
           \/ actors' = Shooting!Destroy(actors, "Enemy", {k}) /\ w' = w
           \/ Shooting!SpawnActor("EnemyBullet", Shooting!NoParent) /\ actors' = actors
    BY <1>5 DEF Shooting!EnemyTick
  <2>2. k \in DOMAIN actors /\ actors[k].class = "Enemy"
    BY <2>1, WhoTicks
  <2> HIDE DEF k
  <2>3. actors' \in Seq(ActorRecords) /\ SameShip(actors, actors')
    BY <1>1, <1>3, <2>1, <2>2
  <2>4. w' \in Seq(ActorRecords) /\ OthersJoin(w, w')
    BY <1>1, <1>2, <2>1
  <2> QED
    BY <1>1, <2>1, <2>3, <2>4, WhoTicks, TickKeeps
<1>6. CASE Shooting!PassingTick
  <2>1. /\ Shooting!Ticks({"PlayerBullet", "EnemyBullet", "DestroyEffect"})
        /\ programQuit' = programQuit /\ w' = w
        /\ actors' = actors \/ actors' = Shooting!Destroy(actors, actors[k].class, {k})
    BY <1>6 DEF Shooting!PassingTick
  <2>2. k \in DOMAIN actors /\ actors[k].class \in {"PlayerBullet", "EnemyBullet", "DestroyEffect"}
    BY <2>1, WhoTicks
  <2> HIDE DEF k
  <2>3. actors' \in Seq(ActorRecords) /\ SameShip(actors, actors')
    BY <1>1, <1>3, <2>1, <2>2
  <2> QED
    BY <1>1, <2>1, <2>3, WhoTicks, TickKeeps
<1> QED
  BY <1>4, <1>5, <1>6

\* BeginPlay begins the player, which builds its ship, and then never again.
LEMMA ShipBeginPlayKeeps ==
  ASSUME ShootInv, Shooting!BeginPlay PROVE ShootInv'
<1> DEFINE w == addRequestedActors
           parts == [i \in 1 .. 3 |-> Shooting!NewActor(Shooting!PlayerParts[i], "Player")]
<1>1. /\ phase = "begin" /\ phase' = "tick"
      /\ actors' = [i \in DOMAIN actors |->
                      [actors[i] EXCEPT !.began = actors[i].began \/ i \in Shooting!Beginning]]
      /\ UNCHANGED <<next, pairs, score, gameOver, clock, programQuit>>
  BY DEF Shooting!BeginPlay, Shooting!ActorsBegin, Shooting!gameVars
<1>2. /\ actors \in Seq(ActorRecords) /\ w \in Seq(ActorRecords)
      /\ DOMAIN actors = 1 .. Len(actors) /\ Len(actors) \in Nat
  BY DEF ShootInv
<1>3. ASSUME NEW i \in DOMAIN actors
      PROVE  /\ actors'[i] \in ActorRecords
             /\ actors'[i].class = actors[i].class /\ actors'[i].parent = actors[i].parent
             /\ actors'[i].expired = actors[i].expired
             /\ actors'[i].began <=> (actors[i].began \/ i \in Shooting!Beginning)
  <2> DEFINE b == actors[i].began \/ i \in Shooting!Beginning
  <2>1. actors[i] \in ActorRecords
    BY <1>2
  <2>2. b \in BOOLEAN /\ actors'[i] = [actors[i] EXCEPT !.began = b]
    BY <1>1, <2>1 DEF ActorRecords
  <2> HIDE DEF b
  <2>3. /\ actors'[i] \in ActorRecords /\ actors'[i].began = b
        /\ actors'[i].class = actors[i].class /\ actors'[i].parent = actors[i].parent
        /\ actors'[i].expired = actors[i].expired
    BY <2>1, <2>2 DEF ActorRecords
  <2> QED
    BY <2>3 DEF b
<1>4. actors' \in Seq(ActorRecords) /\ Len(actors') = Len(actors) /\ DOMAIN actors' = DOMAIN actors
  <2>1. actors' = [i \in 1 .. Len(actors) |-> actors'[i]]
    BY <1>1, <1>2
  <2>2. actors' \in [1 .. Len(actors) -> ActorRecords]
    BY <1>2, <1>3, <2>1
  <2> QED
    BY <1>2, <2>2
<1>5. w' \in Seq(ActorRecords) /\ ShipOf(actors' \o w')
  <2>1. CASE \E i \in Shooting!Beginning : actors[i].class = "Player"
    <3>1. PICK k \in Shooting!Beginning : actors[k].class = "Player"
      BY <2>1
    <3>2. k \in DOMAIN actors /\ ~actors[k].expired /\ ~actors[k].began
      BY <3>1 DEF Shooting!Beginning, Shooting!ActiveActors, Shooting!Active, Shooting!IsActive
    <3>3. w' = w \o parts
      BY <2>1 DEF Shooting!BeginPlay, Shooting!PlayerParts
    <3>4. /\ parts \in Seq(ActorRecords) /\ Len(parts) = 3 /\ DOMAIN parts = 1 .. 3
          /\ \A i \in 1 .. 3 :
                parts[i].class \in PartClasses /\ parts[i].parent = "Player" /\ ~parts[i].expired
      <4>1. \A i \in 1 .. 3 : Shooting!PlayerParts[i] \in PartClasses
        BY DEF Shooting!PlayerParts, PartClasses
      <4>2. \A i \in 1 .. 3 :
               /\ parts[i] \in ActorRecords
               /\ parts[i].class \in PartClasses /\ parts[i].parent = "Player"
               /\ ~parts[i].expired
        BY <4>1, NewActors, ZenonT(30) DEF PartClasses
      <4>3. parts = [i \in 1 .. 3 |-> parts[i]]
        OBVIOUS
      <4> HIDE DEF parts
      <4>4. parts \in [1 .. 3 -> ActorRecords]
        BY <4>2, <4>3
      <4> QED
        BY <4>2, <4>4, SMTT(30)
    <3> HIDE DEF parts
    <3> DEFINE old == actors \o w
               new == actors' \o (w \o parts)
    <3>5. /\ w \o parts \in Seq(ActorRecords) /\ Len(w \o parts) = Len(w) + 3 /\ Len(w) \in Nat
          /\ \A i \in 1 .. Len(w) : (w \o parts)[i] = w[i]
          /\ \A i \in Len(w) + 1 .. Len(w) + 3 : (w \o parts)[i] = parts[i - Len(w)]
      <4>1. parts \in Seq(ActorRecords) /\ Len(parts) = 3
        BY <3>4
      <4>2. w \in Seq(ActorRecords)
        BY <1>2
      <4>3. /\ w \o parts \in Seq(ActorRecords) /\ Len(w \o parts) = Len(w) + Len(parts)
            /\ Len(w) \in Nat
            /\ \A i \in 1 .. Len(w) : (w \o parts)[i] = w[i]
            /\ \A i \in Len(w) + 1 .. Len(w) + Len(parts) : (w \o parts)[i] = parts[i - Len(w)]
        BY <4>1, <4>2, AfterAnother, ZenonT(30)
      <4> QED
        BY <4>1, <4>3
    <3>6. /\ old \in Seq(ActorRecords) /\ Len(old) = Len(actors) + Len(w)
          /\ DOMAIN old = 1 .. Len(actors) + Len(w)
          /\ \A i \in 1 .. Len(actors) : old[i] = actors[i]
          /\ \A i \in Len(actors) + 1 .. Len(actors) + Len(w) : old[i] = w[i - Len(actors)]
      BY <1>2, AfterAnother
    <3> DEFINE longer == w \o parts
    <3> HIDE DEF longer
    <3>7. /\ actors' \o longer \in Seq(ActorRecords)
          /\ Len(actors' \o longer) = Len(actors') + Len(longer)
          /\ \A i \in 1 .. Len(actors') : (actors' \o longer)[i] = actors'[i]
          /\ \A i \in Len(actors') + 1 .. Len(actors') + Len(longer) :
                (actors' \o longer)[i] = longer[i - Len(actors')]
      <4>1. longer \in Seq(ActorRecords)
        BY <3>5 DEF longer
      <4>2. actors' \in Seq(ActorRecords)
        BY <1>4
      <4> QED
        BY <4>1, <4>2, AfterAnother
    <3>8. /\ new \in Seq(ActorRecords) /\ Len(new) = Len(old) + 3
          /\ \A i \in 1 .. Len(actors) : new[i] = actors'[i]
          /\ \A i \in Len(actors) + 1 .. Len(actors) + Len(w) + 3 :
                new[i] = (w \o parts)[i - Len(actors)]
      BY <1>2, <1>4, <3>5, <3>6, <3>7, SMTT(30) DEF longer
    <3> HIDE DEF old, new
    <3>9. ASSUME NEW i \in DOMAIN old
          PROVE  /\ new[i].class = old[i].class /\ new[i].parent = old[i].parent
                 /\ new[i].expired = old[i].expired
      <4>1. CASE i \in 1 .. Len(actors)
        BY <1>2, <1>3, <3>6, <3>8, <4>1
      <4>2. CASE i \in Len(actors) + 1 .. Len(actors) + Len(w)
        <5>1. i - Len(actors) \in 1 .. Len(w) /\ i \in Len(actors) + 1 .. Len(actors) + Len(w) + 3
          BY <1>2, <3>5, <4>2
        <5>2. new[i] = old[i]
          BY <3>5, <3>6, <3>8, <4>2, <5>1
        <5> QED
          BY <5>2
      <4> QED
        BY <1>2, <3>5, <3>6, <4>1, <4>2
    <3>10. ASSUME NEW i \in Len(old) + 1 .. Len(old) + 3
           PROVE  new[i].class \in PartClasses /\ new[i].parent = "Player" /\ ~new[i].expired
      <4>1. /\ i \in Len(actors) + 1 .. Len(actors) + Len(w) + 3
            /\ i - Len(actors) \in Len(w) + 1 .. Len(w) + 3
            /\ (i - Len(actors)) - Len(w) \in 1 .. 3
        <5>1. Len(old) = Len(actors) + Len(w) /\ Len(actors) \in Nat /\ Len(w) \in Nat
          BY <1>2, <3>5, <3>6
        <5> QED
          BY <5>1
      <4>2. new[i] = parts[(i - Len(actors)) - Len(w)]
        BY <3>5, <3>8, <4>1
      <4> QED
        BY <3>4, <4>1, <4>2
    <3>11. k \in PlayersOf(old) /\ ~old[k].began /\ ~old[k].expired /\ new[k].began
      <4>1. k \in 1 .. Len(actors) /\ k \in DOMAIN old /\ old[k] = actors[k] /\ new[k] = actors'[k]
        BY <1>2, <3>2, <3>5, <3>6, <3>8
      <4>2. actors'[k].began
        BY <1>3, <3>1, <3>2
      <4> QED
        BY <3>1, <3>2, <4>1, <4>2 DEF PlayersOf
    <3>12. ShipOf(old)
      BY DEF ShootInv, old
    <3>13. ShipOf(new)
      BY <3>6, <3>8, <3>9, <3>10, <3>11, <3>12, ShipIsBuilt
    <3> QED
      BY <3>3, <3>5, <3>13 DEF new
  <2>2. CASE ~ \E i \in Shooting!Beginning : actors[i].class = "Player"
    <3>1. w' = w
      BY <2>2 DEF Shooting!BeginPlay
    <3>2. ASSUME NEW i \in DOMAIN actors, actors[i].class = "Player"
          PROVE  actors'[i].began = actors[i].began
      <4>1. i \notin Shooting!Beginning
        BY <2>2, <3>2
      <4>2. actors'[i].began <=> actors[i].began
        BY <1>3, <4>1
      <4>3. actors'[i].began \in BOOLEAN /\ actors[i].began \in BOOLEAN
        <5>1. actors'[i] \in ActorRecords /\ actors[i] \in ActorRecords
          BY <1>2, <1>3
        <5> QED
          BY <5>1 DEF ActorRecords
      <4> QED
        BY <4>2, <4>3
    <3>3. SameShip(actors, actors')
      BY <1>3, <1>4, <3>2 DEF SameShip
    <3> QED
      BY <1>2, <1>4, <3>1, <3>3, NothingJoins, SteadyLists DEF ShootInv
  <2> QED
    BY <2>1, <2>2
<1> QED
  BY <1>1, <1>4, <1>5 DEF ShootInv

\* The ticks are over: the pairs that overlap are pairs of the list.
LEMMA OverlapsKeep ==
  ASSUME ShootInv, Shooting!LevelTicked \/ Shooting!GameOverTick PROVE ShootInv'
<1>1. Shooting!CollectOverlapping /\ phase = "tick" /\ gameOver' = gameOver
  BY DEF Shooting!LevelTicked, Shooting!GameOverTick
<1>2. PICK overlapping \in SUBSET Shooting!CollidingPairs : Shooting!CollectPairs(overlapping)
  BY <1>1 DEF Shooting!CollectOverlapping
<1>3. /\ phase' = "collide" /\ next' = 1 /\ pairs' = overlapping /\ score' = score
      /\ actors' = actors /\ addRequestedActors' = addRequestedActors
  BY <1>1, <1>2 DEF Shooting!CollectPairs, Shooting!CollectOverlapping
<1>4. Shooting!CollidingPairs \subseteq (DOMAIN actors) \X (DOMAIN actors)
  <2>1. Shooting!ActiveActors \subseteq DOMAIN actors
    BY DEF Shooting!ActiveActors, Shooting!Active
  <2> QED
    BY <2>1 DEF Shooting!CollidingPairs
<1>5. Len(actors) \in Nat /\ next' \in 1 .. Len(actors') + 1
  BY <1>3 DEF ShootInv
<1>6. GameOverFrames \in Nat /\ clock \in 0 .. GameOverFrames /\ clock < GameOverFrames
      /\ programQuit \in BOOLEAN
  BY <1>1, PartsAssumption DEF ShootInv, Shooting!ShootingAssumption
<1>7. /\ clock' \in 0 .. GameOverFrames /\ programQuit' \in BOOLEAN
      /\ clock' < GameOverFrames \/ programQuit'
  <2>1. CASE Shooting!LevelTicked
    BY <1>6, <2>1 DEF Shooting!LevelTicked
  <2>2. CASE Shooting!GameOverTick
    <3>1. clock' = clock + 1 /\ programQuit' = (programQuit \/ clock' >= GameOverFrames)
      BY <2>2 DEF Shooting!GameOverTick, Shooting!GameOverClock
    <3>2. clock' \in 0 .. GameOverFrames
      BY <1>6, <3>1
    <3>3. programQuit' \in BOOLEAN
      BY <3>1
    <3>4. CASE clock' >= GameOverFrames
      BY <3>1, <3>2, <3>3, <3>4
    <3>5. CASE ~(clock' >= GameOverFrames)
      BY <1>6, <3>2, <3>3, <3>5
    <3> QED
      BY <3>4, <3>5
  <2> QED
    BY <2>1, <2>2
<1>8. pairs' \subseteq (DOMAIN actors') \X (DOMAIN actors')
  BY <1>3, <1>4
<1>9. /\ actors' \in Seq(ActorRecords) /\ addRequestedActors' \in Seq(ActorRecords)
      /\ ShipOf(actors' \o addRequestedActors') /\ score' \in Nat /\ gameOver' \in BOOLEAN
  BY <1>1, <1>3 DEF ShootInv
<1> QED
  BY <1>3, <1>5, <1>7, <1>8, <1>9 DEF ShootInv

\* A pair that collides is of two actors that are still active.
LEMMA WhoCollides ==
  ASSUME ShootInv, NEW classes, Shooting!Collides(classes)
  PROVE  LET p == Shooting!FirstPair
         IN /\ p[1] \in DOMAIN actors /\ p[2] \in DOMAIN actors
            /\ ~actors[p[1]].expired /\ ~actors[p[2]].expired
            /\ {actors[p[1]].class, actors[p[2]].class} = classes
            /\ phase = "collide" /\ phase' = phase /\ next' = next
            /\ programQuit' = programQuit
            /\ pairs' \subseteq (DOMAIN actors) \X (DOMAIN actors)
<1>1. /\ Shooting!StillActive(Shooting!FirstPair) /\ Shooting!Classes(Shooting!FirstPair) = classes
      /\ phase = "collide" /\ phase' = phase /\ next' = next
      /\ programQuit' = programQuit
      /\ pairs' = pairs \ {Shooting!FirstPair}
  BY DEF Shooting!Collides
<1> QED
  BY <1>1 DEF ShootInv, Shooting!StillActive, Shooting!Classes, Shooting!ActiveActors,
              Shooting!Active, Shooting!IsActive

\* An enemy is shot.
LEMMA EnemyShotKeeps ==
  ASSUME ShootInv, Shooting!EnemyOnCollision PROVE ShootInv'
<1> DEFINE p == Shooting!FirstPair
           w == addRequestedActors
<1>1. /\ Shooting!Collides(Shooting!Shots)
      /\ actors' = Shooting!Destroy(actors, "Enemy", {p[1], p[2]})
      /\ w' = Append(w, Shooting!NewActor("DestroyEffect", Shooting!NoParent))
      /\ score' = score + 1 /\ gameOver' = gameOver /\ clock' = clock
  BY DEF Shooting!EnemyOnCollision, Shooting!SpawnActor
<1>2. /\ p[1] \in DOMAIN actors /\ p[2] \in DOMAIN actors
      /\ {actors[p[1]].class, actors[p[2]].class} = Shooting!Shots
      /\ phase = "collide" /\ phase' = phase /\ next' = next
      /\ programQuit' = programQuit
      /\ pairs' \subseteq (DOMAIN actors) \X (DOMAIN actors)
  BY <1>1, WhoCollides
<1> HIDE DEF p
<1>3. /\ actors \in Seq(ActorRecords) /\ w \in Seq(ActorRecords) /\ ShipOf(actors \o w)
  BY DEF ShootInv
<1>4. \A i \in {p[1], p[2]} : i \in DOMAIN actors => actors[i].class \notin ShipClasses
  BY <1>2 DEF Shooting!Shots, ShipClasses, PartClasses
<1>5. actors' \in Seq(ActorRecords) /\ SameShip(actors, actors')
  BY <1>1, <1>3, <1>4, DestroyOthers
<1>6. w' \in Seq(ActorRecords) /\ OthersJoin(w, w')
  BY <1>1, <1>3, SpawnJoins
<1>7. ShipOf(actors' \o w')
  BY <1>3, <1>5, <1>6, SteadyLists
<1>8. Len(actors') = Len(actors) /\ DOMAIN actors' = DOMAIN actors
  BY <1>3, <1>5 DEF SameShip
<1>9. score' \in Nat
  BY <1>1 DEF ShootInv
<1> QED
  BY <1>1, <1>2, <1>5, <1>6, <1>7, <1>8, <1>9 DEF ShootInv

\* The player is hit, and the ship goes down: what is attached to it in the list
\* and what still waits.
LEMMA PlayerHitKeeps ==
  ASSUME ShootInv, Shooting!PlayerOnCollision PROVE ShootInv'
<1> DEFINE p == Shooting!FirstPair
           w == addRequestedActors
           hit == {p[1], p[2]}
<1>1. /\ Shooting!Collides(Shooting!Deaths)
      /\ actors' = Shooting!Destroy(actors, "Player", hit)
      /\ w' = Shooting!Destroy(w, "Player", {})
      /\ score' = score /\ gameOver' = TRUE /\ clock' = 0
  BY DEF Shooting!PlayerOnCollision
<1>2. /\ p[1] \in DOMAIN actors /\ p[2] \in DOMAIN actors
      /\ {actors[p[1]].class, actors[p[2]].class} = Shooting!Deaths
      /\ phase = "collide" /\ phase' = phase /\ next' = next
      /\ programQuit' = programQuit
      /\ pairs' \subseteq (DOMAIN actors) \X (DOMAIN actors)
  BY <1>1, WhoCollides
<1> HIDE DEF p
<1>3. PICK k \in hit : k \in DOMAIN actors /\ actors[k].class = "Player"
  BY <1>2 DEF Shooting!Deaths
<1> HIDE DEF hit
<1>4. actors \in Seq(ActorRecords) /\ w \in Seq(ActorRecords)
  BY DEF ShootInv
<1>5. /\ actors' \in Seq(ActorRecords) /\ Len(actors') = Len(actors)
      /\ \A i \in DOMAIN actors :
            /\ actors'[i].class = actors[i].class /\ actors'[i].parent = actors[i].parent
            /\ actors'[i].began = actors[i].began
            /\ actors'[i].expired <=>
                  (actors[i].expired \/ i \in hit \/ actors[i].parent = "Player")
  BY <1>1, <1>4, DestroyExpires
<1>6. /\ w' \in Seq(ActorRecords) /\ Len(w') = Len(w)
      /\ \A i \in DOMAIN w :
            /\ w'[i].class = w[i].class /\ w'[i].parent = w[i].parent
            /\ w'[i].began = w[i].began
            /\ w'[i].expired <=> (w[i].expired \/ i \in {} \/ w[i].parent = "Player")
  BY <1>1, <1>4, DestroyExpires
<1> DEFINE old == actors \o w
           new == actors' \o w'
<1>7. /\ old \in Seq(ActorRecords) /\ Len(old) = Len(actors) + Len(w)
      /\ DOMAIN old = 1 .. Len(actors) + Len(w) /\ DOMAIN actors = 1 .. Len(actors)
      /\ DOMAIN w = 1 .. Len(w) /\ Len(actors) \in Nat /\ Len(w) \in Nat
      /\ \A i \in 1 .. Len(actors) : old[i] = actors[i]
      /\ \A i \in Len(actors) + 1 .. Len(actors) + Len(w) : old[i] = w[i - Len(actors)]
  BY <1>4, AfterAnother
<1>8. /\ new \in Seq(ActorRecords) /\ Len(new) = Len(actors') + Len(w')
      /\ \A i \in 1 .. Len(actors') : new[i] = actors'[i]
      /\ \A i \in Len(actors') + 1 .. Len(actors') + Len(w') : new[i] = w'[i - Len(actors')]
  <2>1. actors' \in Seq(ActorRecords) /\ w' \in Seq(ActorRecords)
    BY <1>5, <1>6
  <2> QED
    BY <2>1, AfterAnother
<1> HIDE DEF old, new
<1>9. ASSUME NEW i \in DOMAIN old
      PROVE  /\ new[i].class = old[i].class /\ new[i].parent = old[i].parent
             /\ new[i].began = old[i].began
             /\ old[i].parent = "Player" => new[i].expired
  <2>1. CASE i \in 1 .. Len(actors)
    BY <1>5, <1>7, <1>8, <2>1
  <2>2. CASE i \in Len(actors) + 1 .. Len(actors) + Len(w)
    <3>1. i - Len(actors) \in DOMAIN w
      BY <1>7, <2>2
    <3>2. old[i] = w[i - Len(actors)] /\ new[i] = w'[i - Len(actors)]
      BY <1>5, <1>6, <1>7, <1>8, <2>2
    <3> QED
      BY <1>6, <3>1, <3>2
  <2> QED
    BY <1>7, <2>1, <2>2
<1>10. k \in PlayersOf(old) /\ new[k].expired
  <2>1. k \in 1 .. Len(actors) /\ k \in DOMAIN old
    BY <1>3, <1>7
  <2>2. old[k] = actors[k] /\ new[k] = actors'[k]
    BY <1>5, <1>7, <1>8, <2>1
  <2>3. actors'[k].expired
    BY <1>3, <1>5
  <2> QED
    BY <1>3, <2>1, <2>2, <2>3 DEF PlayersOf
<1>11. ShipOf(old)
  BY DEF ShootInv, old
<1>12. Len(new) = Len(old)
  BY <1>5, <1>6, <1>7, <1>8
<1>13. ShipOf(new)
  BY <1>7, <1>8, <1>9, <1>10, <1>11, <1>12, ShipGoesDown
<1>14. DOMAIN actors' = DOMAIN actors
  BY <1>4, <1>5
<1>15. clock' \in 0 .. GameOverFrames /\ clock' < GameOverFrames
  BY <1>1, PartsAssumption DEF Shooting!ShootingAssumption
<1> QED
  BY <1>1, <1>2, <1>5, <1>6, <1>13, <1>14, <1>15 DEF ShootInv, new

\* The frame ends: whoever has expired is gone, whoever was asked for is there.
LEMMA ShipEndFrameKeeps ==
  ASSUME ShootInv, Shooting!EndFrame PROVE ShootInv'
<1> DEFINE w == addRequestedActors
           pa == Shooting!Active(actors)
           pw == Shooting!Active(w)
           left == Picked(actors, pa) \o Picked(w, pw)
           both == actors \o w
<1>1. /\ phase = "collide" /\ pairs = {} /\ w' = <<>> /\ next' = next /\ pairs' = pairs
      /\ actors' = left /\ phase' = IF programQuit THEN "stopped" ELSE "begin"
      /\ UNCHANGED <<score, gameOver, clock, programQuit>>
  BY InstancesPick DEF Shooting!EndFrame, Shooting!ProcessRequestedActors, Shooting!ActiveActors,
                       Shooting!gameVars
<1>2. /\ actors \in Seq(ActorRecords) /\ w \in Seq(ActorRecords) /\ ShipOf(both)
  BY DEF ShootInv
<1>3. /\ pa \subseteq DOMAIN actors /\ pw \subseteq DOMAIN w
      /\ \A i \in DOMAIN actors : i \in pa <=> ~actors[i].expired
      /\ \A i \in DOMAIN w : i \in pw <=> ~w[i].expired
  BY DEF Shooting!Active, Shooting!IsActive
<1> HIDE DEF pa, pw
<1>4. left \in Seq(ActorRecords)
  BY <1>2, <1>3, BothPicked
<1>5. PICK g \in [DOMAIN left -> DOMAIN both] : ComesFrom(g, actors, w, pa, pw, left)
  BY <1>2, <1>3, BothPicked
<1>6. /\ both \in Seq(ActorRecords)
      /\ DOMAIN both = 1 .. Len(actors) + Len(w) /\ DOMAIN actors = 1 .. Len(actors)
      /\ DOMAIN w = 1 .. Len(w) /\ Len(actors) \in Nat /\ Len(w) \in Nat
      /\ \A i \in 1 .. Len(actors) : both[i] = actors[i]
      /\ \A i \in Len(actors) + 1 .. Len(actors) + Len(w) : both[i] = w[i - Len(actors)]
  BY <1>2, AfterAnother
<1> HIDE DEF left, both
<1>7. ASSUME NEW i \in DOMAIN both
      PROVE  (i \in pa \/ i - Len(actors) \in pw) <=> ~both[i].expired
  <2>1. CASE i \in 1 .. Len(actors)
    <3>1. i - Len(actors) \notin DOMAIN w /\ both[i] = actors[i]
      BY <1>6, <2>1
    <3> QED
      BY <1>3, <1>6, <2>1, <3>1
  <2>2. CASE i \in Len(actors) + 1 .. Len(actors) + Len(w)
    <3>1. i \notin DOMAIN actors /\ i - Len(actors) \in DOMAIN w /\ both[i] = w[i - Len(actors)]
      BY <1>6, <2>2
    <3> QED
      BY <1>3, <3>1
  <2> QED
    BY <1>6, <2>1, <2>2
<1>8. ShipOf(left)
  <2>1. \A m, n \in DOMAIN left : g[m] = g[n] => m = n
    BY <1>5 DEF ComesFrom
  <2>2. \A n \in DOMAIN left : left[n] = both[g[n]] /\ ~both[g[n]].expired
    <3>1. \A n \in DOMAIN left :
             left[n] = both[g[n]] /\ (g[n] \in pa \/ g[n] - Len(actors) \in pw)
      BY <1>5 DEF ComesFrom, both
    <3>2. \A n \in DOMAIN left : g[n] \in DOMAIN both
      BY <1>5
    <3>3. ASSUME NEW n \in DOMAIN left PROVE ~both[g[n]].expired
      BY <1>7, <3>1, <3>2
    <3> QED
      BY <3>1, <3>3
  <2>3. \A i \in DOMAIN both : ~both[i].expired => \E n \in DOMAIN left : g[n] = i
    <3>1. \A i \in DOMAIN both :
             i \in pa \/ i - Len(actors) \in pw => \E n \in DOMAIN left : g[n] = i
      BY <1>5 DEF ComesFrom, both
    <3> QED
      BY <1>7, <3>1
  <2>4. both \in Seq(ActorRecords) /\ ShipOf(both) /\ g \in [DOMAIN left -> DOMAIN both]
    BY <1>2, <1>5, <1>6
  <2> QED
    BY <1>4, <2>1, <2>2, <2>3, <2>4, ShipIsPicked
<1>9. actors' \o w' = actors' /\ w' \in Seq(ActorRecords) /\ actors' \in Seq(ActorRecords)
  BY <1>1, <1>4
<1>10. next' = 1 /\ Len(actors') \in Nat /\ next' \in 1 .. Len(actors') + 1
  BY <1>1, <1>9 DEF ShootInv
<1>11. /\ phase' \in {"begin", "stopped"}
       /\ phase' = "begin" => clock' < GameOverFrames
       /\ clock' \in 0 .. GameOverFrames
       /\ score' \in Nat /\ gameOver' \in BOOLEAN /\ programQuit' \in BOOLEAN
  BY <1>1 DEF ShootInv
<1> QED
  BY <1>1, <1>8, <1>9, <1>10, <1>11 DEF ShootInv

\* The inductive invariant holds along every behaviour.
LEMMA ShootInvariant == PartsSpec => []ShootInv
<1>1. PartsInit => ShootInv
  <2> SUFFICES ASSUME PartsInit PROVE ShootInv
    OBVIOUS
  <2> DEFINE first == [i \in 1 .. 3 |->
               Shooting!NewActor(<<"Player", "EnemySpawner", "GameManager">>[i], Shooting!NoParent)]
  <2>1. /\ actors = <<>> /\ addRequestedActors = first
        /\ phase = "begin" /\ next = 1 /\ pairs = {}
        /\ score = 0 /\ gameOver = FALSE /\ clock = 0 /\ programQuit = FALSE
    BY DEF PartsInit, Shooting!Init
  <2>2. \A i \in 1 .. 3 :
           /\ first[i] \in ActorRecords /\ first[i].began = FALSE /\ first[i].expired = FALSE
           /\ first[i].parent = "nobody" /\ first[i].class \notin PartClasses
           /\ first[i].class = "Player" => i = 1
    <3>1. ASSUME NEW i \in 1 .. 3
          PROVE  /\ first[i] \in ActorRecords /\ first[i].began = FALSE /\ first[i].expired = FALSE
                 /\ first[i].parent = "nobody" /\ first[i].class \notin PartClasses
                 /\ first[i].class = "Player" => i = 1
      <4>1. i = 1 \/ i = 2 \/ i = 3
        OBVIOUS
      <4> QED
        BY <4>1 DEF Shooting!NewActor, Shooting!NoParent, ActorRecords, ShipClasses, PartClasses
    <3> QED
      BY <3>1
  <2>3. first \in [1 .. 3 -> ActorRecords]
    <3>1. first = [i \in 1 .. 3 |-> first[i]]
      OBVIOUS
    <3> HIDE DEF first
    <3> QED
      BY <2>2, <3>1
  <2> HIDE DEF first
  <2>4. first \in Seq(ActorRecords) /\ DOMAIN first = 1 .. 3 /\ <<>> \o first = first
    <3>1. DOMAIN first = 1 .. 3
      BY <2>3
    <3>2. first \in Seq(ActorRecords)
      <4> DEFINE n == 3
      <4>1. n \in Nat /\ first \in [1 .. n -> ActorRecords]
        BY <2>3
      <4> HIDE DEF n
      <4> QED
        BY <4>1
    <3>3. <<>> \o first = first
      BY <3>2
    <3> QED
      BY <3>1, <3>2, <3>3
  <2>5. ShipOf(first)
    <3>1. PartsOf(first) = {} /\ PlayersOf(first) \subseteq {1}
      BY <2>2, <2>4 DEF PartsOf, PlayersOf
    <3>2. Cardinality({}) = 0
      BY FS_EmptySet
    <3> QED
      BY <2>2, <2>4, <3>1, <3>2 DEF ShipOf
  <2>6. GameOverFrames \in Nat \ {0}
    BY PartsAssumption DEF Shooting!ShootingAssumption
  <2>7. actors \in Seq(ActorRecords) /\ Len(actors) = 0
    BY <2>1
  <2> QED
    <3>1. ShipOf(actors \o addRequestedActors)
      BY <2>1, <2>4, <2>5
    <3>2. next \in 1 .. Len(actors) + 1 /\ pairs \subseteq (DOMAIN actors) \X (DOMAIN actors)
      BY <2>1, <2>7
    <3>3. clock \in 0 .. GameOverFrames /\ clock < GameOverFrames
      BY <2>1, <2>6
    <3> QED
      BY <2>1, <2>4, <2>7, <3>1, <3>2, <3>3 DEF ShootInv
<1>2. ShootInv /\ [PartsNext]_partVars => ShootInv'
  <2> SUFFICES ASSUME ShootInv, [PartsNext]_partVars PROVE ShootInv'
    OBVIOUS
  <2>1. [Shooting!Next]_shootingVars
    BY EachPartSteps
  <2>2. CASE Shooting!PassPair /\ UNCHANGED Shooting!gameVars
    BY <2>2 DEF Shooting!PassPair, Shooting!gameVars, ShootInv
  <2>3. CASE UNCHANGED shootingVars
    BY <2>3 DEF shootingVars, ShootInv
  <2>4. CASE Shooting!BeginPlay
    BY <2>4, ShipBeginPlayKeeps
  <2>5. CASE Shooting!PlayerTick
    BY <2>5, PlayerTickKeeps
  <2>6. CASE Shooting!EnemySpawnerTick \/ Shooting!EnemyTick \/ Shooting!PassingTick
    BY <2>6, OthersTickKeeps
  <2>7. CASE Shooting!LevelTicked \/ Shooting!GameOverTick
    BY <2>7, OverlapsKeep
  <2>8. CASE Shooting!EnemyOnCollision
    BY <2>8, EnemyShotKeeps
  <2>9. CASE Shooting!PlayerOnCollision
    BY <2>9, PlayerHitKeeps
  <2>10. CASE Shooting!EndFrame
    BY <2>10, ShipEndFrameKeeps
  <2> QED
    BY <2>1, <2>2, <2>3, <2>4, <2>5, <2>6, <2>7, <2>8, <2>9, <2>10
       DEF Shooting!Next, Shooting!Engine
<1> QED
  BY <1>1, <1>2, PTL DEF PartsSpec

\* The ship is built once and goes down whole: its two guns and its flame are
\* asked for when the player begins (Player::BeginPlay), never again, and none
\* outlives it (Actor::Destroy), in the list or still waiting.
THEOREM TheShipIsOne == PartsSpec => []ShipIsOne
<1>1. ShootInv => ShipIsOne
  <2> SUFFICES ASSUME ShootInv PROVE ShipIsOne
    OBVIOUS
  <2> DEFINE all == actors \o addRequestedActors
  <2>1. all \in Seq(ActorRecords) /\ ShipOf(all)
    BY DEF ShootInv
  <2>2. Shooting!All = all
    BY DEF Shooting!All
  <2> HIDE DEF all
  <2>3. Shooting!TypeOK
    <3>1. \A i \in DOMAIN all : all[i] \in ActorRecords
      BY <2>1
    <3>2. /\ phase \in {"begin", "tick", "collide", "stopped"}
          /\ next \in 1 .. Len(actors) + 1
          /\ pairs \subseteq (DOMAIN actors) \X (DOMAIN actors)
          /\ score \in Nat /\ clock \in 0 .. GameOverFrames
          /\ gameOver \in BOOLEAN /\ programQuit \in BOOLEAN
      BY DEF ShootInv
    <3>3. ActorRecords = [class : {"Player", "EnemySpawner", "GameManager", "Enemy",
                                   "PlayerGun", "PlayerEngineEffect", "PlayerBullet",
                                   "EnemyBullet", "DestroyEffect"},
                          parent : {Shooting!NoParent, "Player"},
                          began : BOOLEAN, expired : BOOLEAN]
      BY DEF ActorRecords, ShipClasses, PartClasses, Shooting!NoParent
    <3> QED
      BY <2>2, <3>1, <3>2, <3>3, Zenon DEF Shooting!TypeOK
  <2>4. /\ Shooting!OfClass("Player") = PlayersOf(all)
        /\ Shooting!OfClass("PlayerGun") \cup Shooting!OfClass("PlayerEngineEffect") = PartsOf(all)
    BY <2>2 DEF Shooting!OfClass, PlayersOf, PartsOf, PartClasses
  <2>5. Shooting!Cardinality(PartsOf(all)) = Cardinality(PartsOf(all))
    BY InstancesCount
  <2>6. Shooting!ShipIsOne
    <3>1. \A i \in PlayersOf(all) :
             Shooting!Cardinality(PartsOf(all)) = IF all[i].began THEN 3 ELSE 0
      BY <2>1, <2>5 DEF ShipOf
    <3>2. \A p \in PartsOf(all) :
             Shooting!IsActive(all[p]) <=> \E i \in PlayersOf(all) : Shooting!IsActive(all[i])
      BY <2>1 DEF ShipOf, Shooting!IsActive
    <3> QED
      BY <2>2, <2>4, <3>1, <3>2, Zenon DEF Shooting!ShipIsOne
  <2> QED
    BY <2>3, <2>6 DEF ShipIsOne
<1> QED
  BY <1>1, ShootInvariant, PTL

\* A point is one enemy and one bullet, both active before and neither after:
\* whichever pairs overlap in a frame, the second walk of ProcessCollision passes
\* over those with an actor that an earlier pair has destroyed.
THEOREM PointsAreEarned == PartsSpec => EachPointIsOneHit
<1> DEFINE OneHit == score' # score =>
              LET hit == {i \in Shooting!ActiveActors : ~Shooting!IsActive(actors'[i])}
              IN /\ score' = score + 1
                 /\ Shooting!Cardinality(hit) = 2
                 /\ {actors[i].class : i \in hit} = Shooting!Shots
<1>1. ASSUME ShootInv, Shooting!EnemyOnCollision PROVE OneHit
  <2> DEFINE p == Shooting!FirstPair
             hit == {i \in Shooting!ActiveActors : ~Shooting!IsActive(actors'[i])}
  <2>1. /\ Shooting!Collides(Shooting!Shots)
        /\ actors' = Shooting!Destroy(actors, "Enemy", {p[1], p[2]})
        /\ score' = score + 1
    BY <1>1 DEF Shooting!EnemyOnCollision
  <2>2. /\ p[1] \in DOMAIN actors /\ p[2] \in DOMAIN actors
        /\ ~actors[p[1]].expired /\ ~actors[p[2]].expired
        /\ {actors[p[1]].class, actors[p[2]].class} = Shooting!Shots
    BY <1>1, <2>1, WhoCollides
  <2> HIDE DEF p
  <2>3. actors \in Seq(ActorRecords)
    BY <1>1 DEF ShootInv
  <2>4. \A i \in DOMAIN actors :
           actors'[i].expired <=> (actors[i].expired \/ i \in {p[1], p[2]} \/ actors[i].parent = "Enemy")
    BY <2>1, <2>3, DestroyExpires
  <2>5. \A i \in DOMAIN actors : actors[i].parent # "Enemy"
    <3>1. \A i \in DOMAIN actors : actors[i] \in ActorRecords
      BY <2>3
    <3>2. \A x \in ActorRecords : x.parent # "Enemy"
      BY DEF ActorRecords
    <3> QED
      BY <3>1, <3>2
  <2>6. hit = {p[1], p[2]}
    BY <2>2, <2>4, <2>5 DEF Shooting!ActiveActors, Shooting!Active, Shooting!IsActive
  <2> HIDE DEF hit
  <2>7. p[1] # p[2]
    BY <2>2 DEF Shooting!Shots
  <2>8. Shooting!Cardinality({p[1], p[2]}) = 2
    <3>1. IsFiniteSet({p[1]}) /\ Cardinality({p[1]}) = 1
      BY FS_Singleton
    <3>2. Cardinality({p[1]} \cup {p[2]}) = 2
      BY <2>7, <3>1, FS_AddElement
    <3>3. {p[1]} \cup {p[2]} = {p[1], p[2]}
      OBVIOUS
    <3> QED
      BY <3>2, <3>3, InstancesCount
  <2>9. {actors[i].class : i \in {p[1], p[2]}} = {actors[p[1]].class, actors[p[2]].class}
    OBVIOUS
  <2>10. Shooting!Cardinality(hit) = 2 /\ {actors[i].class : i \in hit} = Shooting!Shots
    BY <2>2, <2>6, <2>8, <2>9
  <2> QED
    BY <2>1, <2>10 DEF hit
<1>2. ShootInv /\ [PartsNext]_partVars => [OneHit]_(Shooting!vars)
  <2> SUFFICES ASSUME ShootInv, [PartsNext]_partVars PROVE OneHit
    OBVIOUS
  <2>1. [Shooting!Next]_shootingVars
    BY EachPartSteps
  <2>2. CASE score' = score
    BY <2>2
  <2>3. CASE Shooting!EnemyOnCollision
    BY <1>1, <2>3
  <2>4. CASE Shooting!BeginPlay \/ Shooting!EndFrame
    BY <2>2, <2>4 DEF Shooting!BeginPlay, Shooting!EndFrame, Shooting!gameVars
  <2>5. CASE Shooting!PlayerTick \/ Shooting!EnemySpawnerTick \/ Shooting!EnemyTick \/ Shooting!PassingTick
    BY <2>2, <2>5 DEF Shooting!PlayerTick, Shooting!EnemySpawnerTick, Shooting!EnemyTick,
                      Shooting!PassingTick, Shooting!Ticks
  <2>6. CASE Shooting!LevelTicked \/ Shooting!GameOverTick \/ Shooting!PlayerOnCollision
    BY <2>2, <2>6 DEF Shooting!LevelTicked, Shooting!GameOverTick, Shooting!PlayerOnCollision,
                      Shooting!CollectOverlapping
  <2>7. CASE Shooting!PassPair /\ UNCHANGED Shooting!gameVars
    BY <2>2, <2>7 DEF Shooting!gameVars
  <2> QED
    BY <2>1, <2>2, <2>3, <2>4, <2>5, <2>6, <2>7 DEF Shooting!Next, Shooting!Engine, shootingVars
<1> QED
  BY <1>2, ShootInvariant, PTL DEF PartsSpec, EachPointIsOneHit, Shooting!EachPointIsOneHit

-----------------------------------------------------------------------------
(* RoomPathfinder: a shortest path is found, or there is none.             *)

\* A tile whose node waits in the queue at the tile's own cost.
Queued(tile) == [tile |-> tile, g |-> gCosts[tile]] \in pq

\* A tile that has been expanded at its cost: no tile around it costs more than
\* a step from it.
Expanded(tile) ==
  /\ tile # goal
  /\ \A t \in walkable :
        Search!ManhattanDistance(t, tile) = 1 => gCosts[t] <= gCosts[tile] + 1

\* What a search has found out so far: each tile that was reached has a parent
\* beside it that is nearer to the start, and waits or has been expanded.
Explored ==
  /\ {start, goal} \subseteq walkable /\ path = <<>>
  /\ gCosts \in [Search!Tiles -> 0 .. Search!Unreached] /\ gCosts[start] = 0
  /\ pq \subseteq [tile : walkable, g : 0 .. Search!Unreached - 1]
  /\ \A n \in pq : gCosts[n.tile] <= n.g
  /\ \A t \in Search!Tiles \ {start} : gCosts[t] < Search!Unreached =>
        /\ t \in walkable /\ parents[t] \in walkable
        /\ Search!ManhattanDistance(parents[t], t) = 1 /\ gCosts[parents[t]] < gCosts[t]
  /\ \A t \in Search!Tiles : gCosts[t] < Search!Unreached => Queued(t) \/ Expanded(t)

\* The inductive invariant of RoomPathfinder.
SearchInv ==
  /\ walkable \subseteq Search!Tiles /\ goal \in Search!Tiles /\ searching \in BOOLEAN
  /\ searching => Explored
  /\ Search!PathIsShortest

\* Distances between tiles.
LEMMA Distances ==
  ASSUME NEW s \in Search!Tiles, NEW t \in Search!Tiles, NEW u \in Search!Tiles
  PROVE  /\ Search!ManhattanDistance(s, t) \in Nat
         /\ Search!ManhattanDistance(s, t) = Search!ManhattanDistance(t, s)
         /\ Search!ManhattanDistance(s, s) = 0
         /\ Search!ManhattanDistance(s, t) = 1 =>
              Search!ManhattanDistance(s, u) <= Search!ManhattanDistance(t, u) + 1
<1>1. /\ s[1] \in Int /\ s[2] \in Int /\ t[1] \in Int /\ t[2] \in Int
      /\ u[1] \in Int /\ u[2] \in Int
  BY DEF Search!Tiles
<1> DEFINE A(n) == IF n < 0 THEN -n ELSE n
<1>2. \A n \in Int : Search!Abs(n) = A(n)
  BY DEF Search!Abs
<1>3. /\ Search!ManhattanDistance(s, t) = A(s[1] - t[1]) + A(s[2] - t[2])
      /\ Search!ManhattanDistance(t, s) = A(t[1] - s[1]) + A(t[2] - s[2])
      /\ Search!ManhattanDistance(s, s) = A(s[1] - s[1]) + A(s[2] - s[2])
      /\ Search!ManhattanDistance(s, u) = A(s[1] - u[1]) + A(s[2] - u[2])
      /\ Search!ManhattanDistance(t, u) = A(t[1] - u[1]) + A(t[2] - u[2])
  BY <1>1, <1>2 DEF Search!ManhattanDistance
<1>4. ASSUME NEW a \in Int, NEW b \in Int, NEW c \in Int
      PROVE  /\ A(a - b) \in Nat /\ A(a - b) = A(b - a) /\ A(a - a) = 0
             /\ A(a - c) <= A(b - c) + A(a - b)
  OBVIOUS
<1> HIDE DEF A
<1>5. /\ A(s[1] - t[1]) \in Nat /\ A(s[2] - t[2]) \in Nat
      /\ A(s[1] - t[1]) = A(t[1] - s[1]) /\ A(s[2] - t[2]) = A(t[2] - s[2])
      /\ A(s[1] - s[1]) = 0 /\ A(s[2] - s[2]) = 0
      /\ A(s[1] - u[1]) \in Nat /\ A(s[2] - u[2]) \in Nat
      /\ A(t[1] - u[1]) \in Nat /\ A(t[2] - u[2]) \in Nat
      /\ A(s[1] - u[1]) <= A(t[1] - u[1]) + A(s[1] - t[1])
      /\ A(s[2] - u[2]) <= A(t[2] - u[2]) + A(s[2] - t[2])
  BY <1>1, <1>4
<1> QED
  BY <1>3, <1>5

\* The number of tiles.
LEMMA CountOfTiles ==
  /\ Search!Unreached \in Nat /\ IsFiniteSet(Search!Tiles)
  /\ Cardinality(Search!Tiles) = Search!Unreached
<1>1. Width \in Nat /\ Height \in Nat
  BY PartsAssumption DEF Search!SearchAssumption
<1>2. ASSUME NEW n \in Nat PROVE IsFiniteSet(0 .. n - 1) /\ Cardinality(0 .. n - 1) = n
  <2>1. 0 \in Int /\ n - 1 \in Int
    OBVIOUS
  <2>2. /\ IsFiniteSet(0 .. n - 1)
        /\ Cardinality(0 .. n - 1) = IF 0 > n - 1 THEN 0 ELSE (n - 1) - 0 + 1
    BY <2>1, FS_Interval, Zenon
  <2> QED
    BY <2>2
<1> DEFINE columns == 0 .. Width - 1
           rows == 0 .. Height - 1
<1>3. /\ IsFiniteSet(columns) /\ Cardinality(columns) = Width
      /\ IsFiniteSet(rows) /\ Cardinality(rows) = Height
  BY <1>1, <1>2
<1>4. Search!Tiles = columns \X rows
  BY DEF Search!Tiles
<1> HIDE DEF columns, rows
<1>5. /\ IsFiniteSet(columns \X rows)
      /\ Cardinality(columns \X rows) = Cardinality(columns) * Cardinality(rows)
  BY <1>3, FS_Product, Zenon
<1> QED
  BY <1>1, <1>3, <1>4, <1>5 DEF Search!Unreached

\* Tiles are told apart by their index.
LEMMA IndexTellsTiles ==
  ASSUME NEW s \in Search!Tiles, NEW t \in Search!Tiles, Search!ToIndex(s) = Search!ToIndex(t)
  PROVE  s = t
<1>1. Width \in Nat
  BY PartsAssumption DEF Search!SearchAssumption
<1>2. /\ s[1] \in 0 .. Width - 1 /\ t[1] \in 0 .. Width - 1 /\ s[2] \in Nat /\ t[2] \in Nat
      /\ s = <<s[1], s[2]>> /\ t = <<t[1], t[2]>>
  BY PartsAssumption DEF Search!Tiles, Search!SearchAssumption
<1>3. s[2] * Width + s[1] = t[2] * Width + t[1]
  BY DEF Search!ToIndex
<1>4. ASSUME NEW a \in Nat, NEW b \in Nat, NEW x \in 0 .. Width - 1, NEW y \in 0 .. Width - 1,
             a < b
      PROVE  a * Width + x # b * Width + y
  <2>1. PICK d \in Nat : b = a + 1 + d
    <3>1. b - a - 1 \in Nat /\ b = a + 1 + (b - a - 1)
      BY <1>4
    <3> QED
      BY <3>1
  <2>2. b * Width = a * Width + Width + d * Width
    BY <1>1, <2>1
  <2>3. a * Width \in Nat /\ d * Width \in Nat
    BY <1>1
  <2> QED
    BY <1>1, <2>2, <2>3
<1>5. s[2] = t[2]
  <2>1. ~(s[2] < t[2])
    BY <1>2, <1>3, <1>4
  <2>2. ~(t[2] < s[2])
    BY <1>2, <1>3, <1>4
  <2> QED
    BY <1>2, <2>1, <2>2
<1>6. s[1] = t[1]
  <2>1. s[2] * Width \in Nat
    BY <1>1, <1>2
  <2> QED
    BY <1>2, <1>3, <1>5, <2>1
<1> QED
  BY <1>2, <1>5, <1>6

\* A queue that is not empty has a top, which no node's estimate is below.
Estimate(node) == node.g + Search!ManhattanDistance(node.tile, goal)

LEMMA TopIsLeast ==
  ASSUME pq \subseteq [tile : Search!Tiles, g : Nat], pq # {}, goal \in Search!Tiles
  PROVE  Search!Top \in pq /\ \A n \in pq : Estimate(Search!Top) <= Estimate(n)
<1> DEFINE H(n) == Search!ManhattanDistance(n.tile, goal)
           I(n) == Search!ToIndex(n.tile)
<1>1. \A n \in pq : /\ n.tile \in Search!Tiles /\ n.g \in Nat
                    /\ n = [tile |-> n.tile, g |-> n.g]
  OBVIOUS
<1>2. \A n \in pq : H(n) \in Nat /\ I(n) \in Nat /\ Estimate(n) = n.g + H(n) /\ Estimate(n) \in Nat
  <2> SUFFICES ASSUME NEW n \in pq
               PROVE  H(n) \in Nat /\ I(n) \in Nat /\ Estimate(n) = n.g + H(n) /\ Estimate(n) \in Nat
    OBVIOUS
  <2>1. n.tile \in Search!Tiles /\ n.g \in Nat
    BY <1>1
  <2>2. H(n) \in Nat
    BY <2>1, Distances
  <2>3. n.tile[1] \in Nat /\ n.tile[2] \in Nat /\ Width \in Nat
    BY <2>1, PartsAssumption DEF Search!Tiles, Search!SearchAssumption
  <2>4. n.tile[2] * Width \in Nat
    BY <2>3
  <2>5. I(n) \in Nat
    BY <2>3, <2>4 DEF Search!ToIndex
  <2> QED
    BY <2>1, <2>2, <2>5 DEF Estimate
<1>3. \A n \in pq : Search!Order(n) = <<Estimate(n), H(n), I(n)>>
  BY DEF Search!Order, Estimate
<1> HIDE DEF H, I
<1>4. PICK f \in {Estimate(n) : n \in pq} : \A e \in {Estimate(n) : n \in pq} : f <= e
  <2>1. {Estimate(n) : n \in pq} \subseteq Nat /\ {Estimate(n) : n \in pq} # {}
    BY <1>2
  <2> QED
    BY <2>1, LeastElement
<1> DEFINE cheap == {n \in pq : Estimate(n) = f}
<1>5. PICK h \in {H(n) : n \in cheap} : \A e \in {H(n) : n \in cheap} : h <= e
  <2>1. {H(n) : n \in cheap} \subseteq Nat /\ {H(n) : n \in cheap} # {}
    BY <1>2, <1>4
  <2> QED
    BY <2>1, LeastElement
<1> DEFINE near == {n \in cheap : H(n) = h}
<1>6. PICK i \in {I(n) : n \in near} : \A e \in {I(n) : n \in near} : i <= e
  <2>1. {I(n) : n \in near} \subseteq Nat /\ {I(n) : n \in near} # {}
    BY <1>2, <1>5
  <2> QED
    BY <2>1, LeastElement
<1>7. PICK n \in near : I(n) = i
  BY <1>6
<1>8. ASSUME NEW m \in pq \ {n} PROVE Search!Precedes(Search!Order(n), Search!Order(m))
  <2> DEFINE a == Search!Order(n)
             b == Search!Order(m)
  <2>1. n \in pq /\ Estimate(n) = f /\ H(n) = h
    BY <1>7
  <2>2. a = <<f, h, i>> /\ b = <<Estimate(m), H(m), I(m)>>
    BY <1>3, <1>7, <2>1
  <2>3. /\ f \in Nat /\ h \in Nat /\ i \in Nat
        /\ Estimate(m) \in Nat /\ H(m) \in Nat /\ I(m) \in Nat
    BY <1>2, <1>7, <2>1
  <2>4. f <= Estimate(m)
    BY <1>4
  <2>5. Estimate(m) = f => h <= H(m)
    BY <1>5
  <2>6. Estimate(m) = f /\ H(m) = h => i <= I(m)
    BY <1>6
  <2>7. ~(Estimate(m) = f /\ H(m) = h /\ I(m) = i)
    <3> SUFFICES ASSUME Estimate(m) = f, H(m) = h, I(m) = i PROVE FALSE
      OBVIOUS
    <3>1. m.tile \in Search!Tiles /\ n.tile \in Search!Tiles /\ m.g \in Nat /\ n.g \in Nat
      BY <1>1, <2>1
    <3>2. m.tile = n.tile
      BY <1>7, <3>1, IndexTellsTiles DEF I
    <3>3. m.g = n.g
      BY <1>2, <2>1, <2>3, <3>1
    <3> QED
      BY <1>1, <2>1, <3>2, <3>3
  <2> HIDE DEF a, b
  <2>8. CASE f < Estimate(m)
    <3>1. 1 \in 1 .. 3 /\ a[1] < b[1] /\ \A j \in 1 .. 1 - 1 : a[j] = b[j]
      BY <2>2, <2>8
    <3> QED
      BY <3>1 DEF Search!Precedes, a, b
  <2>9. CASE f = Estimate(m) /\ h < H(m)
    <3>1. 2 \in 1 .. 3 /\ a[2] < b[2] /\ \A j \in 1 .. 2 - 1 : a[j] = b[j]
      BY <2>2, <2>9
    <3> QED
      BY <3>1 DEF Search!Precedes, a, b
  <2>10. CASE f = Estimate(m) /\ h = H(m) /\ i < I(m)
    <3>1. 3 \in 1 .. 3 /\ a[3] < b[3] /\ \A j \in 1 .. 3 - 1 : a[j] = b[j]
      BY <2>2, <2>10
    <3> QED
      BY <3>1 DEF Search!Precedes, a, b
  <2> QED
    BY <2>3, <2>4, <2>5, <2>6, <2>7, <2>8, <2>9, <2>10
<1>9. /\ Search!Top \in pq
      /\ \A m \in pq \ {Search!Top} :
            Search!Precedes(Search!Order(Search!Top), Search!Order(m))
  <2>1. n \in pq
    BY <1>7
  <2> QED
    BY <1>8, <2>1 DEF Search!Top
<1>10. ASSUME NEW m \in pq PROVE Estimate(Search!Top) <= Estimate(m)
  <2> DEFINE a == Search!Order(Search!Top)
             b == Search!Order(m)
  <2>1. a[1] = Estimate(Search!Top) /\ b[1] = Estimate(m)
    BY <1>3, <1>9
  <2>2. Estimate(Search!Top) \in Nat /\ Estimate(m) \in Nat
    BY <1>2, <1>9
  <2>3. CASE m = Search!Top
    BY <2>2, <2>3
  <2>4. CASE m # Search!Top
    <3>1. PICK k \in 1 .. 3 : a[k] < b[k] /\ \A j \in 1 .. k - 1 : a[j] = b[j]
      BY <1>9, <2>4 DEF Search!Precedes
    <3> HIDE DEF a, b
    <3>2. CASE k = 1
      BY <2>1, <2>2, <3>1, <3>2
    <3>3. CASE k # 1
      <4>1. 1 \in 1 .. k - 1
        BY <3>1, <3>3
      <4> QED
        BY <2>1, <2>2, <3>1, <4>1
    <3> QED
      BY <3>2, <3>3
  <2> QED
    BY <2>3, <2>4
<1> QED
  BY <1>9, <1>10

\* What a walk can reach, step by step.
Around(near) ==
  near \cup {t \in walkable : \E s \in near : Search!ManhattanDistance(s, t) = 1}

Reaches(r, n) ==
  r = [k \in 0 .. n |-> IF k = 0 THEN {start} \cap walkable ELSE Around(r[k - 1])]

LEMMA ReachesExists == \A n \in Nat : \E r : Reaches(r, n)
<1> DEFINE T == {n \in Nat : ~\E r : Reaches(r, n)}
<1> SUFFICES T = {}
  OBVIOUS
<1>1. SUFFICES ASSUME T # {} PROVE FALSE
  OBVIOUS
<1>2. PICK n \in T : \A m \in T : n <= m
  <2>1. T \subseteq Nat
    OBVIOUS
  <2> HIDE DEF T
  <2> QED
    BY <1>1, <2>1, LeastElement
<1>3. n \in Nat /\ ~\E r : Reaches(r, n)
  BY <1>2
<1>4. CASE n = 0
  <2> DEFINE r == [k \in 0 .. 0 |-> {start} \cap walkable]
  <2>1. Reaches(r, 0)
    <3>1. [k \in 0 .. 0 |-> IF k = 0 THEN {start} \cap walkable ELSE Around(r[k - 1])] = r
      OBVIOUS
    <3> QED
      BY <3>1 DEF Reaches
  <2> QED
    BY <1>3, <1>4, <2>1
<1>5. CASE n # 0
  <2>1. n - 1 \in Nat /\ n - 1 \notin T
    BY <1>2, <1>3, <1>5
  <2>2. PICK q : Reaches(q, n - 1)
    BY <2>1
  <2> DEFINE r == [k \in 0 .. n |-> IF k = n THEN Around(q[n - 1]) ELSE q[k]]
  <2>3. ASSUME NEW k \in 0 .. n
        PROVE  r[k] = IF k = 0 THEN {start} \cap walkable ELSE Around(r[k - 1])
    <3>1. CASE k = n
      <4>1. r[k - 1] = q[n - 1]
        BY <1>3, <1>5, <3>1
      <4> QED
        BY <1>5, <3>1, <4>1
    <3>2. CASE k # n
      <4>1. k \in 0 .. n - 1
        BY <1>3, <3>2
      <4>2. q[k] = IF k = 0 THEN {start} \cap walkable ELSE Around(q[k - 1])
        BY <2>2, <4>1 DEF Reaches
      <4>3. k # 0 => r[k - 1] = q[k - 1]
        BY <1>3, <4>1
      <4> QED
        BY <3>2, <4>2, <4>3
    <3> QED
      BY <3>1, <3>2
  <2>4. r = [k \in 0 .. n |-> r[k]]
    OBVIOUS
  <2> HIDE DEF r
  <2>5. Reaches(r, n)
    BY <2>3, <2>4 DEF Reaches
  <2> QED
    BY <1>3, <2>5
<1> QED
  BY <1>4, <1>5

LEMMA ReachesAgree ==
  ASSUME NEW m \in Nat, NEW n \in Nat, m <= n, NEW q, Reaches(q, m), NEW r, Reaches(r, n)
  PROVE  \A k \in 0 .. m : q[k] = r[k]
<1> DEFINE T == {k \in 0 .. m : q[k] # r[k]}
<1>1. SUFFICES ASSUME T # {} PROVE FALSE
  OBVIOUS
<1>2. PICK k \in T : \A j \in T : k <= j
  <2>1. T \subseteq Nat
    OBVIOUS
  <2> HIDE DEF T
  <2> QED
    BY <1>1, <2>1, LeastElement
<1>3. /\ k \in 0 .. m /\ k \in 0 .. n
      /\ q[k] # r[k]
  BY <1>2
<1>4. /\ q[k] = IF k = 0 THEN {start} \cap walkable ELSE Around(q[k - 1])
      /\ r[k] = IF k = 0 THEN {start} \cap walkable ELSE Around(r[k - 1])
  BY <1>3 DEF Reaches
<1>5. k # 0 => q[k - 1] = r[k - 1]
  BY <1>2, <1>3
<1> QED
  BY <1>3, <1>4, <1>5

LEMMA ReachSteps ==
  /\ Search!Reach(0) = {start} \cap walkable
  /\ \A n \in Nat : Search!Reach(n + 1) = Around(Search!Reach(n))
<1>1. ASSUME NEW n \in Nat
      PROVE  \E r : Reaches(r, n) /\ Search!Reach(n) = r[n]
  <2> DEFINE r == CHOOSE r : Reaches(r, n)
  <2>1. Reaches(r, n)
    BY ReachesExists
  <2>2. Search!Reach(n) = r[n]
    BY DEF Search!Reach, Reaches, Around
  <2> QED
    BY <2>1, <2>2
<1>2. Search!Reach(0) = {start} \cap walkable
  <2>1. PICK r : Reaches(r, 0) /\ Search!Reach(0) = r[0]
    BY <1>1
  <2> QED
    BY <2>1 DEF Reaches
<1>3. ASSUME NEW n \in Nat
      PROVE  Search!Reach(n + 1) = Around(Search!Reach(n))
  <2>1. PICK q : Reaches(q, n) /\ Search!Reach(n) = q[n]
    BY <1>1
  <2>2. PICK r : Reaches(r, n + 1) /\ Search!Reach(n + 1) = r[n + 1]
    BY <1>1
  <2>3. q[n] = r[n]
    BY <2>1, <2>2, ReachesAgree
  <2>4. r[n + 1] = Around(r[(n + 1) - 1])
    <3>1. n + 1 \in 0 .. n + 1 /\ n + 1 # 0
      OBVIOUS
    <3> QED
      BY <2>2, <3>1 DEF Reaches
  <2> QED
    BY <2>1, <2>2, <2>3, <2>4
<1> QED
  BY <1>2, <1>3

\* Longer walks reach more, of what is walkable only.
LEMMA ReachGrows ==
  /\ \A n \in Nat : Search!Reach(n) \subseteq walkable
  /\ \A m, n \in Nat : m <= n => Search!Reach(m) \subseteq Search!Reach(n)
<1>1. ASSUME NEW m \in Nat, NEW n \in Nat, m <= n
      PROVE  Search!Reach(m) \subseteq Search!Reach(n)
  <2> DEFINE T == {k \in Nat : m <= k /\ ~(Search!Reach(m) \subseteq Search!Reach(k))}
  <2>1. SUFFICES ASSUME T # {} PROVE FALSE
    BY <1>1
  <2>2. PICK k \in T : \A j \in T : k <= j
    <3>1. T \subseteq Nat
      OBVIOUS
    <3> HIDE DEF T
    <3> QED
      BY <2>1, <3>1, LeastElement
  <2>3. k \in Nat /\ m <= k /\ ~(Search!Reach(m) \subseteq Search!Reach(k))
    BY <2>2
  <2>4. k # m
    BY <2>3
  <2>5. k - 1 \in Nat /\ m <= k - 1 /\ k - 1 \notin T
    BY <2>2, <2>3, <2>4
  <2>6. Search!Reach(m) \subseteq Search!Reach(k - 1)
    BY <2>5
  <2>7. Search!Reach((k - 1) + 1) = Around(Search!Reach(k - 1))
    BY <2>5, ReachSteps
  <2> QED
    BY <2>3, <2>6, <2>7 DEF Around
<1>2. ASSUME NEW n \in Nat PROVE Search!Reach(n) \subseteq walkable
  <2> DEFINE T == {k \in Nat : ~(Search!Reach(k) \subseteq walkable)}
  <2>1. SUFFICES ASSUME T # {} PROVE FALSE
    OBVIOUS
  <2>2. PICK k \in T : \A j \in T : k <= j
    <3>1. T \subseteq Nat
      OBVIOUS
    <3> HIDE DEF T
    <3> QED
      BY <2>1, <3>1, LeastElement
  <2>3. k \in Nat /\ ~(Search!Reach(k) \subseteq walkable)
    BY <2>2
  <2>4. k # 0
    BY <2>3, ReachSteps
  <2>5. k - 1 \in Nat /\ k - 1 \notin T
    BY <2>2, <2>3, <2>4
  <2>6. Search!Reach(k - 1) \subseteq walkable
    BY <2>5
  <2>7. Search!Reach((k - 1) + 1) = Around(Search!Reach(k - 1))
    BY <2>5, ReachSteps
  <2> QED
    BY <2>3, <2>6, <2>7 DEF Around
<1> QED
  BY <1>1, <1>2

\* As long as another step reaches more there are as many tiles as steps: all
\* that can be reached is reached in one step fewer than there are tiles.
LEMMA ReachEnds ==
  ASSUME walkable \subseteq Search!Tiles, start \in walkable
  PROVE  /\ Search!Unreached \in Nat \ {0}
         /\ Search!Reach(Search!Unreached) = Search!Reach(Search!Unreached - 1)
<1> DEFINE Size(n) == Cardinality(Search!Reach(n))
           More(n) == Search!Reach(n + 1) # Search!Reach(n)
<1>1. \A n \in Nat : /\ IsFiniteSet(Search!Reach(n)) /\ Size(n) \in Nat
                     /\ Size(n) <= Search!Unreached
  <2> SUFFICES ASSUME NEW n \in Nat
               PROVE  /\ IsFiniteSet(Search!Reach(n)) /\ Size(n) \in Nat
                      /\ Size(n) <= Search!Unreached
    OBVIOUS
  <2>1. Search!Reach(n) \subseteq Search!Tiles
    BY ReachGrows
  <2>2. IsFiniteSet(Search!Reach(n)) /\ Size(n) <= Search!Unreached
    BY <2>1, CountOfTiles, FS_Subset
  <2> QED
    BY <2>2, FS_CardinalityType
<1>2. ASSUME NEW n \in Nat, More(n) PROVE Size(n) + 1 <= Size(n + 1)
  <2>1. Search!Reach(n) \subseteq Search!Reach(n + 1)
    BY ReachGrows
  <2>2. Size(n) <= Size(n + 1) /\ Size(n) # Size(n + 1)
    BY <1>1, <1>2, <2>1, FS_Subset
  <2> QED
    BY <1>1, <2>2
<1>3. Size(0) = 1
  <2>1. Search!Reach(0) = {start}
    BY ReachSteps
  <2> QED
    BY <2>1, FS_Singleton
<1>4. ASSUME NEW n \in Nat, More(n + 1) PROVE More(n)
  <2>1. /\ Search!Reach(n + 1) = Around(Search!Reach(n))
        /\ Search!Reach((n + 1) + 1) = Around(Search!Reach(n + 1))
    BY ReachSteps
  <2> QED
    BY <1>4, <2>1
<1> HIDE DEF Size, More
<1>5. ASSUME NEW n \in Nat, More(n) PROVE n + 2 <= Size(n + 1)
  <2> DEFINE T == {k \in Nat : More(k) /\ ~(k + 2 <= Size(k + 1))}
  <2>1. SUFFICES ASSUME T # {} PROVE FALSE
    BY <1>5
  <2>2. PICK k \in T : \A j \in T : k <= j
    <3>1. T \subseteq Nat
      OBVIOUS
    <3> HIDE DEF T
    <3> QED
      BY <2>1, <3>1, LeastElement
  <2>3. k \in Nat /\ More(k) /\ ~(k + 2 <= Size(k + 1))
    BY <2>2
  <2>4. Size(k) + 1 <= Size(k + 1) /\ Size(k) \in Nat /\ Size(k + 1) \in Nat
    BY <1>1, <1>2, <2>3
  <2>5. k # 0
    BY <1>3, <2>3, <2>4
  <2>6. k - 1 \in Nat /\ k - 1 \notin T /\ (k - 1) + 1 = k /\ (k - 1) + 2 = k + 1
    BY <2>2, <2>3, <2>5
  <2>7. More(k - 1)
    BY <1>4, <2>3, <2>6
  <2>8. k + 1 <= Size(k)
    BY <2>6, <2>7
  <2> QED
    BY <2>3, <2>4, <2>8
<1>6. Search!Unreached \in Nat \ {0}
  <2>1. Search!Unreached \in Nat
    BY CountOfTiles
  <2>2. 1 <= Search!Unreached
    BY <1>1, <1>3
  <2> QED
    BY <2>1, <2>2
<1>7. ~More(Search!Unreached - 1)
  <2> DEFINE n == Search!Unreached - 1
  <2>1. n \in Nat /\ n + 1 = Search!Unreached /\ n + 2 = Search!Unreached + 1
    BY <1>6
  <2>2. Size(n + 1) <= Search!Unreached
    BY <1>1, <2>1
  <2>3. More(n) => n + 2 <= Size(n + 1)
    BY <1>5, <2>1
  <2>4. Size(n + 1) \in Nat
    BY <1>1, <2>1
  <2> HIDE DEF n
  <2>5. ~More(n)
    BY <1>6, <2>1, <2>2, <2>3, <2>4
  <2> QED
    BY <2>5 DEF n
<1>8. (Search!Unreached - 1) + 1 = Search!Unreached
  BY <1>6
<1> QED
  BY <1>6, <1>7, <1>8 DEF More

\* Whatever a walk reaches that no node of the queue promises to be on a cheaper
\* way to the goal has been reached as cheaply.
LEMMA NearIsCheap ==
  ASSUME SearchInv, Explored, NEW bound \in Nat, \A n \in pq : bound <= Estimate(n)
  PROVE  \A n \in Nat : \A t \in Search!Reach(n) :
            n + Search!ManhattanDistance(t, goal) < bound => gCosts[t] <= n
<1> DEFINE H(t) == Search!ManhattanDistance(t, goal)
           Cheap(n) == \A t \in Search!Reach(n) : n + H(t) < bound => gCosts[t] <= n
           T == {n \in Nat : ~Cheap(n)}
<1>1. SUFFICES ASSUME T # {} PROVE FALSE
  OBVIOUS
<1>2. PICK n \in T : \A m \in T : n <= m
  <2>1. T \subseteq Nat
    OBVIOUS
  <2> HIDE DEF T
  <2> QED
    BY <1>1, <2>1, LeastElement
<1>3. n \in Nat /\ ~Cheap(n)
  BY <1>2
<1>4. PICK t \in Search!Reach(n) : n + H(t) < bound /\ ~(gCosts[t] <= n)
  BY <1>3
<1>5. /\ walkable \subseteq Search!Tiles /\ goal \in Search!Tiles
      /\ \A u \in Search!Tiles : gCosts[u] \in 0 .. Search!Unreached
      /\ gCosts[start] = 0 /\ Search!Unreached \in Nat
  BY CountOfTiles DEF SearchInv, Explored
<1>6. n # 0
  <2> SUFFICES ASSUME n = 0 PROVE FALSE
    OBVIOUS
  <2>1. t = start
    BY <1>4, ReachSteps
  <2> QED
    BY <1>4, <1>5, <2>1
<1>7. n - 1 \in Nat /\ Cheap(n - 1) /\ (n - 1) + 1 = n
  BY <1>2, <1>3, <1>6
<1>8. t \in Search!Tiles /\ t \in walkable /\ H(t) \in Nat /\ gCosts[t] \in 0 .. Search!Unreached
  <2>1. t \in walkable
    BY <1>3, <1>4, ReachGrows
  <2>2. t \in Search!Tiles
    BY <1>5, <2>1
  <2> QED
    BY <1>5, <2>1, <2>2, Distances
<1>9. t \notin Search!Reach(n - 1)
  <2> SUFFICES ASSUME t \in Search!Reach(n - 1) PROVE FALSE
    OBVIOUS
  <2>1. (n - 1) + H(t) < bound
    BY <1>3, <1>4, <1>8
  <2>2. gCosts[t] <= n - 1
    BY <1>7, <2>1
  <2> QED
    BY <1>3, <1>4, <1>8, <2>2
<1>10. PICK s \in Search!Reach(n - 1) : Search!ManhattanDistance(s, t) = 1
  BY <1>4, <1>7, <1>9, ReachSteps DEF Around
<1>11. s \in Search!Tiles /\ H(s) \in Nat /\ gCosts[s] \in 0 .. Search!Unreached
  <2>1. s \in walkable
    BY <1>7, <1>10, ReachGrows
  <2> QED
    BY <1>5, <2>1, Distances
<1>12. H(s) <= H(t) + 1 /\ Search!ManhattanDistance(t, s) = 1
  BY <1>5, <1>8, <1>10, <1>11, Distances
<1>13. (n - 1) + H(s) < bound
  BY <1>3, <1>4, <1>8, <1>11, <1>12
<1>14. gCosts[s] <= n - 1
  BY <1>7, <1>13
<1>15. CASE gCosts[s] = Search!Unreached
  BY <1>3, <1>4, <1>5, <1>8, <1>14, <1>15
<1>16. CASE Queued(s)
  <2>1. bound <= gCosts[s] + H(s)
    BY <1>16 DEF Queued, Estimate
  <2> QED
    BY <1>3, <1>11, <1>13, <1>14, <2>1
<1>17. CASE Expanded(s)
  <2>1. gCosts[t] <= gCosts[s] + 1
    BY <1>8, <1>12, <1>17 DEF Expanded
  <2> QED
    BY <1>3, <1>4, <1>8, <1>11, <1>14, <2>1
<1> QED
  BY <1>5, <1>11, <1>15, <1>16, <1>17 DEF Explored

\* The way back along the parents, a tile at a time.
Back(c) ==
  IF c.at = start THEN c ELSE [at |-> parents[c.at], path |-> <<c.at>> \o c.path]

GoesBack(chain, tile, n) ==
  chain = [k \in 0 .. n |-> IF k = 0 THEN [at |-> tile, path |-> <<>>] ELSE Back(chain[k - 1])]

LEMMA GoesBackExists == \A tile : \A n \in Nat : \E chain : GoesBack(chain, tile, n)
<1> SUFFICES ASSUME NEW tile PROVE \A n \in Nat : \E chain : GoesBack(chain, tile, n)
  OBVIOUS
<1> DEFINE T == {n \in Nat : ~\E chain : GoesBack(chain, tile, n)}
<1> SUFFICES T = {}
  OBVIOUS
<1>1. SUFFICES ASSUME T # {} PROVE FALSE
  OBVIOUS
<1>2. PICK n \in T : \A m \in T : n <= m
  <2>1. T \subseteq Nat
    OBVIOUS
  <2> HIDE DEF T
  <2> QED
    BY <1>1, <2>1, LeastElement
<1>3. n \in Nat /\ ~\E chain : GoesBack(chain, tile, n)
  BY <1>2
<1> DEFINE first == [at |-> tile, path |-> <<>>]
<1> HIDE DEF first
<1>4. CASE n = 0
  <2> DEFINE r == [k \in 0 .. 0 |-> first]
  <2>1. GoesBack(r, tile, 0)
    <3>1. [k \in 0 .. 0 |-> IF k = 0 THEN first ELSE Back(r[k - 1])] = r
      OBVIOUS
    <3> QED
      BY <3>1 DEF GoesBack, first
  <2> QED
    BY <1>3, <1>4, <2>1
<1>5. CASE n # 0
  <2>1. n - 1 \in Nat /\ n - 1 \notin T
    BY <1>2, <1>3, <1>5
  <2>2. PICK q : GoesBack(q, tile, n - 1)
    BY <2>1
  <2> DEFINE r == [k \in 0 .. n |-> IF k = n THEN Back(q[n - 1]) ELSE q[k]]
  <2>3. ASSUME NEW k \in 0 .. n
        PROVE  r[k] = IF k = 0 THEN first ELSE Back(r[k - 1])
    <3>1. CASE k = n
      <4>1. r[k - 1] = q[n - 1]
        BY <1>3, <1>5, <3>1
      <4> QED
        BY <1>5, <3>1, <4>1
    <3>2. CASE k # n
      <4>1. k \in 0 .. n - 1
        BY <1>3, <3>2
      <4>2. q[k] = IF k = 0 THEN first ELSE Back(q[k - 1])
        BY <2>2, <4>1 DEF GoesBack, first
      <4>3. k # 0 => r[k - 1] = q[k - 1]
        BY <1>3, <4>1
      <4> QED
        BY <3>2, <4>2, <4>3
    <3> QED
      BY <3>1, <3>2
  <2>4. r = [k \in 0 .. n |-> r[k]]
    OBVIOUS
  <2> HIDE DEF r
  <2>5. GoesBack(r, tile, n)
    BY <2>3, <2>4 DEF GoesBack, first
  <2> QED
    BY <1>3, <2>5
<1> QED
  BY <1>4, <1>5

\* Where the way back from the goal has come to: a walk leads from there to the
\* goal, no longer than what has been saved on the goal's cost.
LeadsToGoal(c) ==
  /\ c.at \in walkable /\ gCosts[c.at] < Search!Unreached /\ c.path \in Seq(walkable)
  /\ gCosts[c.at] + Len(c.path) <= gCosts[goal]
  /\ LET walk == <<c.at>> \o c.path
     IN /\ walk[Len(c.path) + 1] = goal
        /\ \A i \in 1 .. Len(c.path) : Search!ManhattanDistance(walk[i], walk[i + 1]) = 1

LEMMA BackLeads ==
  ASSUME SearchInv, Explored, NEW c, LeadsToGoal(c), c.at # start
  PROVE  LeadsToGoal(Back(c)) /\ gCosts[Back(c).at] < gCosts[c.at]
<1> DEFINE p == parents[c.at]
           walk == <<c.at>> \o c.path
           further == <<p>> \o walk
<1>1. /\ c.at \in walkable /\ c.at \in Search!Tiles /\ c.path \in Seq(walkable)
      /\ gCosts[c.at] < Search!Unreached
  BY DEF LeadsToGoal, SearchInv
<1>2. /\ p \in walkable /\ p \in Search!Tiles
      /\ Search!ManhattanDistance(p, c.at) = 1 /\ gCosts[p] < gCosts[c.at]
  BY <1>1 DEF Explored, SearchInv
<1>3. Back(c).at = p /\ Back(c).path = walk
  BY DEF Back
<1>4. Len(c.path) \in Nat /\ Len(walk) = Len(c.path) + 1 /\ walk \in Seq(walkable)
  BY <1>1
<1>5. /\ further \in Seq(walkable) /\ Len(further) = Len(walk) + 1 /\ further[1] = p
      /\ \A i \in 1 .. Len(walk) : further[i + 1] = walk[i]
  BY <1>2, <1>4
<1>6. walk[1] = c.at
  BY <1>1
<1>7. /\ walk[Len(c.path) + 1] = goal
      /\ \A i \in 1 .. Len(c.path) : Search!ManhattanDistance(walk[i], walk[i + 1]) = 1
      /\ gCosts[c.at] + Len(c.path) <= gCosts[goal]
  BY DEF LeadsToGoal
<1> HIDE DEF walk, further, p
<1>8. further[Len(walk) + 1] = goal
  BY <1>4, <1>5, <1>7
<1>9. ASSUME NEW i \in 1 .. Len(walk)
      PROVE  Search!ManhattanDistance(further[i], further[i + 1]) = 1
  <2>1. CASE i = 1
    <3>1. further[1] = p /\ further[1 + 1] = walk[1]
      BY <1>4, <1>5
    <3> QED
      BY <1>2, <1>6, <2>1, <3>1
  <2>2. CASE i # 1
    <3>1. i - 1 \in 1 .. Len(c.path) /\ (i - 1) + 1 = i /\ i - 1 \in 1 .. Len(walk)
      BY <1>4, <2>2
    <3>2. further[i] = walk[i - 1] /\ further[i + 1] = walk[i]
      BY <1>5, <3>1
    <3>3. Search!ManhattanDistance(walk[i - 1], walk[i]) = 1
      BY <1>7, <3>1
    <3> QED
      BY <3>2, <3>3
  <2> QED
    BY <2>1, <2>2
<1>10. gCosts[p] + Len(walk) <= gCosts[goal] /\ gCosts[p] < Search!Unreached
  <2>1. gCosts[p] \in Nat /\ gCosts[c.at] \in Nat /\ gCosts[goal] \in Nat /\ Search!Unreached \in Nat
    BY <1>1, <1>2, CountOfTiles DEF SearchInv, Explored
  <2> QED
    BY <1>1, <1>2, <1>4, <1>7, <2>1, SMTT(30)
<1>11. LeadsToGoal(Back(c))
  BY <1>2, <1>3, <1>4, <1>8, <1>9, <1>10 DEF LeadsToGoal, further
<1> QED
  BY <1>2, <1>3, <1>11

\* The path that is returned leads from the start to the goal.
LEMMA PathLeads ==
  ASSUME SearchInv, Explored, gCosts[goal] < Search!Unreached
  PROVE  LeadsToGoal([at |-> start, path |-> Search!PathTo(goal)])
<1> DEFINE n == Search!Unreached
           chain == CHOOSE chain : GoesBack(chain, goal, n)
<1>1. n \in Nat
  BY CountOfTiles
<1>2. GoesBack(chain, goal, n)
  BY <1>1, GoesBackExists
<1>3. Search!PathTo(goal) = chain[n].path
  BY DEF Search!PathTo, GoesBack, Back
<1> HIDE DEF chain
<1>4. chain[0] = [at |-> goal, path |-> <<>>]
  BY <1>1, <1>2 DEF GoesBack
<1>5. \A k \in 1 .. n : chain[k] = Back(chain[k - 1])
  BY <1>1, <1>2 DEF GoesBack
<1> DEFINE Along(k) ==
             /\ LeadsToGoal(chain[k]) /\ DOMAIN chain[k] = {"at", "path"}
             /\ chain[k] = [at |-> chain[k].at, path |-> chain[k].path]
             /\ chain[k].at = start \/ gCosts[chain[k].at] + k <= gCosts[goal]
<1>6. Along(0)
  <2>1. goal \in walkable /\ goal \in Search!Tiles /\ gCosts[goal] \in Nat
    BY CountOfTiles DEF SearchInv, Explored
  <2>2. LeadsToGoal([at |-> goal, path |-> <<>>])
    <3>1. /\ <<>> \in Seq(walkable) /\ Len(<<>>) = 0 /\ (<<goal>> \o <<>>)[0 + 1] = goal
          /\ 1 .. 0 = {}
      BY <2>1
    <3> QED
      BY <2>1, <3>1 DEF LeadsToGoal
  <2> QED
    BY <1>4, <2>1, <2>2
<1>7. ASSUME NEW k \in 1 .. n, Along(k - 1) PROVE Along(k)
  <2>1. chain[k] = Back(chain[k - 1])
    BY <1>5
  <2>2. CASE chain[k - 1].at = start
    <3>1. chain[k] = chain[k - 1]
      BY <2>1, <2>2 DEF Back
    <3> QED
      BY <1>7, <2>2, <3>1
  <2>3. CASE chain[k - 1].at # start
    <3>1. LeadsToGoal(chain[k]) /\ gCosts[chain[k].at] < gCosts[chain[k - 1].at]
      BY <1>7, <2>1, <2>3, BackLeads
    <3>2. chain[k] = [at |-> chain[k].at, path |-> chain[k].path]
      BY <2>1, <2>3 DEF Back
    <3>3. /\ gCosts[chain[k].at] \in Nat /\ gCosts[chain[k - 1].at] \in Nat
          /\ gCosts[goal] \in Nat
      <4>1. /\ chain[k].at \in Search!Tiles /\ chain[k - 1].at \in Search!Tiles
            /\ goal \in Search!Tiles
        BY <1>7, <3>1 DEF LeadsToGoal, SearchInv
      <4> QED
        BY <4>1, CountOfTiles DEF Explored
    <3>4. gCosts[chain[k].at] + k <= gCosts[goal]
      BY <1>1, <1>7, <2>3, <3>1, <3>3
    <3>5. DOMAIN chain[k] = {"at", "path"}
      BY <3>2
    <3> QED
      BY <3>1, <3>2, <3>4, <3>5
  <2> QED
    BY <2>2, <2>3
<1> HIDE DEF Along
<1>8. Along(n)
  <2> DEFINE T == {k \in 0 .. n : ~Along(k)}
  <2>1. SUFFICES ASSUME T # {} PROVE FALSE
    BY <1>1
  <2>2. PICK k \in T : \A j \in T : k <= j
    <3>1. T \subseteq Nat
      BY <1>1
    <3> HIDE DEF T
    <3> QED
      BY <2>1, <3>1, LeastElement
  <2>3. k \in 0 .. n /\ ~Along(k)
    BY <2>2
  <2>4. k \in 1 .. n /\ k - 1 \in 0 .. n
    BY <1>1, <1>6, <2>3
  <2>5. Along(k - 1)
    BY <1>1, <2>2, <2>4
  <2> QED
    BY <1>7, <2>3, <2>4, <2>5
<1>9. chain[n].at = start
  <2>1. gCosts[chain[n].at] \in Nat /\ gCosts[goal] \in Nat
    <3>1. chain[n].at \in Search!Tiles /\ goal \in Search!Tiles
      BY <1>8 DEF Along, LeadsToGoal, SearchInv
    <3> QED
      BY <3>1, CountOfTiles DEF Explored
  <2> QED
    BY <1>1, <1>8, <2>1 DEF Along
<1>10. chain[n] = [at |-> start, path |-> chain[n].path] /\ LeadsToGoal(chain[n])
  BY <1>8, <1>9 DEF Along
<1> QED
  BY <1>3, <1>10, Zenon

\* A walk from the start reaches its end.
LEMMA WalksReach ==
  ASSUME NEW way \in Seq(walkable), start \in walkable,
         \A i \in 1 .. Len(way) :
            Search!ManhattanDistance((<<start>> \o way)[i], (<<start>> \o way)[i + 1]) = 1
  PROVE  (<<start>> \o way)[Len(way) + 1] \in Search!Reach(Len(way))
<1> DEFINE walk == <<start>> \o way
<1>1. /\ Len(way) \in Nat /\ walk[1] = start
      /\ \A i \in 1 .. Len(way) : walk[i + 1] = way[i] /\ way[i] \in walkable
  OBVIOUS
<1>2. \A i \in 1 .. Len(way) : Search!ManhattanDistance(walk[i], walk[i + 1]) = 1
  OBVIOUS
<1> HIDE DEF walk
<1> DEFINE T == {k \in 0 .. Len(way) : walk[k + 1] \notin Search!Reach(k)}
<1>3. T = {}
  <2>1. SUFFICES ASSUME T # {} PROVE FALSE
    OBVIOUS
  <2>2. PICK k \in T : \A j \in T : k <= j
    <3>1. T \subseteq Nat
      BY <1>1
    <3> HIDE DEF T
    <3> QED
      BY <2>1, <3>1, LeastElement
  <2>3. k \in 0 .. Len(way) /\ walk[k + 1] \notin Search!Reach(k)
    BY <2>2
  <2>4. k # 0
    BY <1>1, <2>3, ReachSteps
  <2>5. /\ k - 1 \in Nat /\ k - 1 \in 0 .. Len(way) /\ k - 1 \notin T /\ (k - 1) + 1 = k
        /\ k \in 1 .. Len(way)
    BY <1>1, <2>2, <2>3, <2>4
  <2>6. walk[k] \in Search!Reach(k - 1)
    BY <2>5
  <2>7. Search!ManhattanDistance(walk[k], walk[k + 1]) = 1 /\ walk[k + 1] \in walkable
    BY <1>1, <1>2, <2>5
  <2>8. Search!Reach(k) = Around(Search!Reach(k - 1))
    BY <2>5, ReachSteps
  <2> QED
    BY <2>3, <2>6, <2>7, <2>8 DEF Around
<1>4. Len(way) \in 0 .. Len(way)
  BY <1>1
<1>5. walk[Len(way) + 1] \in Search!Reach(Len(way))
  BY <1>3, <1>4
<1> QED
  BY <1>5 DEF walk

\* The goal is taken from the queue at the cost of a shortest way.
LEMMA TakeGoalKeeps == ASSUME SearchInv, Search!TakeGoal PROVE SearchInv'
<1> DEFINE way == Search!PathTo(goal)
           walk == <<start>> \o way
<1>1. /\ Explored /\ searching' = FALSE /\ path' = way
      /\ walkable' = walkable /\ start' = start /\ goal' = goal
      /\ pq # {} /\ Search!Top.g <= gCosts[goal] /\ Search!Top.tile = goal
  BY DEF Search!TakeGoal, SearchInv
<1>2. /\ walkable \subseteq Search!Tiles /\ goal \in Search!Tiles /\ start \in walkable
      /\ gCosts[goal] \in 0 .. Search!Unreached /\ gCosts[start] = 0
      /\ Search!Unreached \in Nat
  BY <1>1, CountOfTiles DEF SearchInv, Explored
<1>3. /\ Search!Top \in pq /\ \A n \in pq : Estimate(Search!Top) <= Estimate(n)
  <2>1. pq \subseteq [tile : Search!Tiles, g : Nat]
    BY <1>1, <1>2 DEF Explored
  <2> QED
    BY <1>1, <1>2, <2>1, TopIsLeast
<1>4. Search!Top.g = gCosts[goal] /\ gCosts[goal] < Search!Unreached
  <2>1. Search!Top.g \in 0 .. Search!Unreached - 1 /\ gCosts[Search!Top.tile] <= Search!Top.g
    BY <1>1, <1>3 DEF Explored
  <2> QED
    BY <1>1, <1>2, <2>1
<1>5. LeadsToGoal([at |-> start, path |-> way])
  BY <1>1, <1>4, PathLeads
<1> HIDE DEF way
<1>6. /\ way \in Seq(walkable) /\ Len(way) \in Nat /\ Len(way) <= gCosts[goal]
      /\ walk[Len(way) + 1] = goal
      /\ \A i \in 1 .. Len(way) : Search!ManhattanDistance(walk[i], walk[i + 1]) = 1
  BY <1>2, <1>5 DEF LeadsToGoal
<1>7. goal \in Search!Reach(Len(way))
  BY <1>2, <1>6, WalksReach
<1>8. goal \in Search!Reach(Search!Unreached)
  <2>1. Len(way) <= Search!Unreached
    BY <1>2, <1>4, <1>6
  <2> QED
    BY <1>2, <1>6, <1>7, <2>1, ReachGrows
<1>9. ASSUME NEW n \in Nat, n < gCosts[goal] PROVE goal \notin Search!Reach(n)
  <2>1. Estimate(Search!Top) = gCosts[goal] /\ Search!ManhattanDistance(goal, goal) = 0
    <3>1. Search!ManhattanDistance(goal, goal) = 0
      BY <1>2, Distances
    <3> QED
      BY <1>1, <1>2, <1>4, <3>1 DEF Estimate
  <2>2. \A m \in pq : gCosts[goal] <= Estimate(m)
    BY <1>3, <2>1
  <2>3. gCosts[goal] \in Nat
    BY <1>2
  <2>4. goal \in Search!Reach(n) => gCosts[goal] <= n
    <3>1. \A t \in Search!Reach(n) :
            n + Search!ManhattanDistance(t, goal) < gCosts[goal] => gCosts[t] <= n
      BY <1>1, <2>2, <2>3, NearIsCheap
    <3> QED
      BY <1>9, <2>1, <3>1
  <2> QED
    BY <1>9, <2>3, <2>4
<1>10. CASE goal = start
  <2>1. Len(way) = 0
    BY <1>2, <1>6, <1>10
  <2>2. way = <<>>
    BY <1>6, <2>1
  <2>3. Search!PathIsShortest'
    BY <1>1, <1>10, <2>2 DEF Search!PathIsShortest
  <2> QED
    BY <1>1, <1>2, <2>3 DEF SearchInv, Search!Tiles
<1>11. CASE goal # start
  <2>1. Len(way) # 0
    <3>1. walk[1] = start
      BY <1>6
    <3> QED
      BY <1>6, <1>11, <3>1
  <2>2. way # <<>> /\ way[Len(way)] = goal
    <3>1. walk[Len(way) + 1] = way[Len(way)]
      BY <1>6, <2>1
    <3> QED
      BY <1>6, <2>1, <3>1
  <2>3. \A i \in 1 .. Len(way) : way[i] \in walkable
    BY <1>6
  <2>4. goal \notin Search!Reach(Len(way) - 1)
    <3>1. Len(way) - 1 \in Nat /\ Len(way) - 1 < gCosts[goal]
      BY <1>2, <1>6, <2>1
    <3> QED
      BY <1>9, <3>1
  <2>5. \A n \in Nat : Search!Reach(n)' = Search!Reach(n)
    BY <1>1 DEF Search!Reach
  <2>6. Search!PathIsShortest'
    BY <1>1, <1>6, <1>8, <1>11, <2>2, <2>3, <2>4
       DEF Search!PathIsShortest, Search!IsWalkable, Search!Reach
  <2> QED
    BY <1>1, <1>2, <2>6 DEF SearchInv, Search!Tiles
<1> QED
  BY <1>10, <1>11

\* When nothing is left to expand the goal is out of reach.
LEMMA GiveUpKeeps == ASSUME SearchInv, Search!GiveUp PROVE SearchInv'
<1>1. /\ Explored /\ pq = {} /\ searching' = FALSE /\ path' = <<>>
      /\ walkable' = walkable /\ start' = start /\ goal' = goal
  BY DEF Search!GiveUp, SearchInv, Explored
<1>2. /\ walkable \subseteq Search!Tiles /\ goal \in Search!Tiles /\ start \in walkable
      /\ gCosts[goal] \in 0 .. Search!Unreached
  BY <1>1 DEF SearchInv, Explored
<1>3. gCosts[goal] = Search!Unreached
  <2>1. ~Queued(goal) /\ ~Expanded(goal)
    BY <1>1 DEF Queued, Expanded
  <2>2. ~(gCosts[goal] < Search!Unreached)
    BY <1>1, <1>2, <2>1 DEF Explored
  <2> QED
    BY <1>2, <2>2, CountOfTiles
<1>4. /\ Search!Unreached \in Nat \ {0}
      /\ Search!Reach(Search!Unreached) = Search!Reach(Search!Unreached - 1)
  BY <1>2, ReachEnds
<1>5. goal \notin Search!Reach(Search!Unreached - 1)
  <2> DEFINE n == Search!Unreached - 1
  <2>1. n \in Nat /\ n < Search!Unreached /\ Search!ManhattanDistance(goal, goal) = 0
    BY <1>2, <1>4, Distances
  <2>2. goal \in Search!Reach(n) => gCosts[goal] <= n
    <3>1. \A m \in pq : Search!Unreached <= Estimate(m)
      BY <1>1
    <3>2. \A t \in Search!Reach(n) :
            n + Search!ManhattanDistance(t, goal) < Search!Unreached => gCosts[t] <= n
      BY <1>1, <1>4, <2>1, <3>1, NearIsCheap
    <3> QED
      BY <2>1, <3>2
  <2> QED
    BY <1>3, <1>4, <2>1, <2>2
<1>6. Search!PathIsShortest'
  BY <1>1, <1>4, <1>5 DEF Search!PathIsShortest, Search!Reach
<1> QED
  BY <1>1, <1>2, <1>6 DEF SearchInv, Search!Tiles

\* A node that is passed over is not one of those that wait at their tile's cost.
LEMMA SkipStaleKeeps == ASSUME SearchInv, Search!SkipStale PROVE SearchInv'
<1>1. /\ Explored /\ searching /\ pq # {} /\ Search!Top.g > gCosts[Search!Top.tile]
      /\ pq' = pq \ {Search!Top}
      /\ UNCHANGED <<walkable, start, goal, gCosts, parents, path, searching>>
  BY DEF Search!SkipStale, SearchInv
<1>2. Search!Top \in pq
  <2>1. pq \subseteq [tile : Search!Tiles, g : Nat] /\ goal \in Search!Tiles
    BY <1>1, CountOfTiles DEF SearchInv, Explored
  <2> QED
    BY <1>1, <2>1, TopIsLeast
<1>3. ASSUME NEW t \in Search!Tiles, Queued(t) PROVE Queued(t)'
  <2>1. [tile |-> t, g |-> gCosts[t]] # Search!Top
    <3>1. gCosts[t] \in Nat /\ Search!Top.g \in Nat
      BY <1>1, <1>2, CountOfTiles DEF Explored
    <3> QED
      BY <1>1, <3>1
  <2> QED
    BY <1>1, <1>3, <2>1 DEF Queued
<1>4. \A t \in Search!Tiles : Expanded(t)' <=> Expanded(t)
  BY <1>1 DEF Expanded, Search!ManhattanDistance, Search!Abs
<1>5. Explored'
  BY <1>1, <1>3, <1>4
     DEF Explored, Search!Tiles, Search!Unreached, Search!ManhattanDistance, Search!Abs
<1>6. Search!PathIsShortest'
  BY <1>1 DEF Search!PathIsShortest
<1> QED
  BY <1>1, <1>5, <1>6 DEF SearchInv, Search!Tiles

\* What a node reaches more cheaply waits at its new cost, and the node's tile has
\* been expanded.
LEMMA ExpandKeeps == ASSUME SearchInv, Search!Expand PROVE SearchInv'
<1> DEFINE top == Search!Top
           reached == Search!Cheaper(top)
<1>1. /\ Explored /\ searching /\ pq # {} /\ top.g <= gCosts[top.tile] /\ top.tile # goal
      /\ gCosts' = [t \in Search!Tiles |-> IF t \in reached THEN top.g + 1 ELSE gCosts[t]]
      /\ parents' = [t \in Search!Tiles |-> IF t \in reached THEN top.tile ELSE parents[t]]
      /\ pq' = (pq \ {top}) \cup {[tile |-> t, g |-> top.g + 1] : t \in reached}
      /\ UNCHANGED <<walkable, start, goal, path, searching>>
  BY DEF Search!Expand, SearchInv
<1>2. /\ pq \subseteq [tile : Search!Tiles, g : Nat] /\ goal \in Search!Tiles
      /\ walkable \subseteq Search!Tiles /\ Search!Unreached \in Nat
      /\ \A t \in Search!Tiles : gCosts[t] \in 0 .. Search!Unreached
      /\ start \in Search!Tiles /\ gCosts[start] = 0
  BY <1>1, CountOfTiles DEF SearchInv, Explored
<1>3. top \in pq
  BY <1>1, <1>2, TopIsLeast
<1>4. /\ top.tile \in walkable /\ top.tile \in Search!Tiles
      /\ top.g \in 0 .. Search!Unreached - 1 /\ top.g = gCosts[top.tile]
      /\ top = [tile |-> top.tile, g |-> top.g]
  <2>1. /\ top \in [tile : walkable, g : 0 .. Search!Unreached - 1]
        /\ gCosts[top.tile] <= top.g
    BY <1>1, <1>3 DEF Explored
  <2> QED
    BY <1>1, <1>2, <2>1
<1>5. \A t \in Search!Tiles :
        t \in reached <=> /\ t \in walkable /\ Search!ManhattanDistance(t, top.tile) = 1
                          /\ top.g + 1 < gCosts[t]
  BY DEF Search!Cheaper, Search!IsWalkable
<1>6. reached \subseteq Search!Tiles
  BY DEF Search!Cheaper
<1> HIDE DEF top, reached
<1>7. top.tile \notin reached /\ start \notin reached
  <2>1. Search!ManhattanDistance(top.tile, top.tile) = 0
    BY <1>4, Distances
  <2> QED
    BY <1>2, <1>4, <1>5, <2>1
<1>8. \A t \in Search!Tiles :
        /\ gCosts'[t] = IF t \in reached THEN top.g + 1 ELSE gCosts[t]
        /\ parents'[t] = IF t \in reached THEN top.tile ELSE parents[t]
        /\ gCosts'[t] \in 0 .. Search!Unreached /\ gCosts'[t] <= gCosts[t]
  BY <1>1, <1>2, <1>4, <1>5
<1>9. /\ Search!Tiles' = Search!Tiles /\ Search!Unreached' = Search!Unreached
      /\ \A s, t : Search!ManhattanDistance(s, t)' = Search!ManhattanDistance(s, t)
  BY DEF Search!Tiles, Search!Unreached, Search!ManhattanDistance, Search!Abs
<1>10. /\ gCosts' \in [Search!Tiles -> 0 .. Search!Unreached] /\ gCosts'[start] = 0
  BY <1>1, <1>2, <1>7, <1>8
<1>11. ASSUME NEW n \in pq'
       PROVE  n \in [tile : walkable, g : 0 .. Search!Unreached - 1] /\ gCosts'[n.tile] <= n.g
  <2>1. CASE n \in pq
    <3>1. n \in [tile : walkable, g : 0 .. Search!Unreached - 1] /\ gCosts[n.tile] <= n.g
      BY <1>1, <2>1 DEF Explored
    <3>2. gCosts'[n.tile] <= gCosts[n.tile] /\ gCosts'[n.tile] \in Nat /\ gCosts[n.tile] \in Nat
      BY <1>2, <1>8, <3>1
    <3> QED
      BY <3>1, <3>2
  <2>2. CASE n \notin pq
    <3>1. PICK t \in reached : n = [tile |-> t, g |-> top.g + 1]
      BY <1>1, <2>2
    <3>2. t \in Search!Tiles /\ t \in walkable /\ gCosts'[t] = top.g + 1 /\ top.g + 1 < gCosts[t]
      BY <1>5, <1>6, <1>8, <3>1
    <3>3. top.g + 1 \in 0 .. Search!Unreached - 1
      BY <1>2, <1>4, <3>2
    <3> QED
      BY <1>4, <3>1, <3>2, <3>3
  <2> QED
    BY <2>1, <2>2
<1>12. ASSUME NEW t \in Search!Tiles \ {start}, gCosts'[t] < Search!Unreached
       PROVE  /\ t \in walkable /\ parents'[t] \in walkable
              /\ Search!ManhattanDistance(parents'[t], t) = 1 /\ gCosts'[parents'[t]] < gCosts'[t]
  <2>1. CASE t \in reached
    <3>1. parents'[t] = top.tile /\ gCosts'[t] = top.g + 1 /\ gCosts'[top.tile] = gCosts[top.tile]
      BY <1>4, <1>7, <1>8, <2>1
    <3>2. t \in walkable /\ Search!ManhattanDistance(top.tile, t) = 1
      BY <1>2, <1>4, <1>5, <2>1, Distances
    <3> QED
      BY <1>4, <3>1, <3>2
  <2>2. CASE t \notin reached
    <3>1. parents'[t] = parents[t] /\ gCosts'[t] = gCosts[t]
      BY <1>8, <2>2
    <3>2. /\ t \in walkable /\ parents[t] \in walkable
          /\ Search!ManhattanDistance(parents[t], t) = 1 /\ gCosts[parents[t]] < gCosts[t]
      BY <1>1, <1>12, <3>1 DEF Explored
    <3>3. /\ gCosts'[parents[t]] <= gCosts[parents[t]] /\ gCosts'[parents[t]] \in Nat
          /\ gCosts[parents[t]] \in Nat /\ gCosts[t] \in Nat
      BY <1>2, <1>8, <3>2
    <3> QED
      BY <3>1, <3>2, <3>3
  <2> QED
    BY <2>1, <2>2
<1>13. ASSUME NEW t \in Search!Tiles, gCosts'[t] < Search!Unreached
       PROVE  Queued(t)' \/ Expanded(t)'
  <2>1. CASE t \in reached
    <3>1. [tile |-> t, g |-> gCosts'[t]] \in pq'
      BY <1>1, <1>8, <2>1
    <3> QED
      BY <3>1 DEF Queued
  <2>2. CASE t \notin reached /\ t = top.tile
    <3>1. ASSUME NEW u \in walkable, Search!ManhattanDistance(u, t) = 1
          PROVE  gCosts'[u] <= gCosts'[t] + 1
      <4>1. u \in Search!Tiles /\ gCosts'[t] = top.g
        BY <1>2, <1>4, <1>8, <2>2
      <4>2. CASE u \in reached
        BY <1>4, <1>8, <4>1, <4>2
      <4>3. CASE u \notin reached
        <5>1. gCosts'[u] = gCosts[u] /\ ~(top.g + 1 < gCosts[u])
          BY <1>5, <1>8, <2>2, <3>1, <4>1, <4>3
        <5>2. gCosts[u] \in Nat /\ top.g \in Nat
          BY <1>2, <1>4, <4>1
        <5> QED
          BY <4>1, <5>1, <5>2
      <4> QED
        BY <4>2, <4>3
    <3>2. t # goal
      BY <1>1, <2>2
    <3>3. walkable' = walkable /\ goal' = goal
      BY <1>1
    <3> QED
      BY <1>9, <3>1, <3>2, <3>3 DEF Expanded
  <2>3. CASE t \notin reached /\ t # top.tile
    <3>1. gCosts'[t] = gCosts[t]
      BY <1>8, <2>3
    <3>2. CASE Queued(t)
      <4>1. [tile |-> t, g |-> gCosts[t]] # top
        BY <1>4, <2>3
      <4>2. [tile |-> t, g |-> gCosts'[t]] \in pq'
        BY <1>1, <3>1, <3>2, <4>1 DEF Queued
      <4> QED
        BY <4>2 DEF Queued
    <3>3. CASE Expanded(t)
      <4>1. ASSUME NEW u \in walkable, Search!ManhattanDistance(u, t) = 1
            PROVE  gCosts'[u] <= gCosts'[t] + 1
        <5>1. gCosts[u] <= gCosts[t] + 1
          BY <3>3, <4>1 DEF Expanded
        <5>2. /\ gCosts'[u] <= gCosts[u] /\ gCosts'[u] \in Nat /\ gCosts[u] \in Nat
              /\ gCosts[t] \in Nat
          BY <1>2, <1>8
        <5> QED
          BY <3>1, <5>1, <5>2
      <4>2. t # goal /\ walkable' = walkable /\ goal' = goal
        BY <1>1, <3>3 DEF Expanded
      <4> QED
        BY <1>9, <4>1, <4>2 DEF Expanded
    <3>4. Queued(t) \/ Expanded(t)
      BY <1>1, <1>13, <3>1 DEF Explored
    <3> QED
      BY <3>2, <3>3, <3>4
  <2> QED
    BY <2>1, <2>2, <2>3
<1>14. pq' \subseteq [tile : walkable, g : 0 .. Search!Unreached - 1]
  BY <1>11
<1>15. {start, goal} \subseteq walkable /\ path = <<>>
  BY <1>1 DEF Explored
<1>16. Explored'
  BY <1>1, <1>9, <1>10, <1>11, <1>12, <1>13, <1>14, <1>15 DEF Explored
<1>17. Search!PathIsShortest'
  BY <1>1 DEF Search!PathIsShortest
<1> QED
  BY <1>1, <1>9, <1>16, <1>17 DEF SearchInv

LEMMA SearchBegins == Search!Init => SearchInv
<1> SUFFICES ASSUME Search!Init PROVE SearchInv
  OBVIOUS
<1>1. /\ walkable \subseteq Search!Tiles /\ goal \in Search!Tiles
      /\ searching = (start \in walkable /\ goal \in walkable)
      /\ pq = {[tile |-> start, g |-> 0]} /\ path = <<>>
      /\ gCosts = [t \in Search!Tiles |-> IF t = start THEN 0 ELSE Search!Unreached]
  BY DEF Search!Init
<1>2. ASSUME searching PROVE Explored
  <2>1. start \in walkable /\ goal \in walkable /\ start \in Search!Tiles
    BY <1>1, <1>2
  <2>2. Search!Unreached \in Nat \ {0}
    BY <1>1, <2>1, ReachEnds
  <2>3. /\ gCosts[start] = 0 /\ \A t \in Search!Tiles \ {start} : gCosts[t] = Search!Unreached
        /\ gCosts \in [Search!Tiles -> 0 .. Search!Unreached]
    BY <1>1, <2>1, <2>2
  <2>4. pq \subseteq [tile : walkable, g : 0 .. Search!Unreached - 1]
    BY <1>1, <2>1, <2>2
  <2>5. \A n \in pq : gCosts[n.tile] <= n.g
    BY <1>1, <2>3
  <2>6. Queued(start)
    BY <1>1, <2>3 DEF Queued
  <2> QED
    BY <1>1, <2>1, <2>2, <2>3, <2>4, <2>5, <2>6 DEF Explored
<1>3. ASSUME ~searching PROVE Search!PathIsShortest
  <2>1. CASE goal \notin walkable
    <3>1. goal \notin Search!Reach(Search!Unreached)
      BY <2>1, ReachGrows, CountOfTiles
    <3> QED
      BY <1>1, <3>1 DEF Search!PathIsShortest
  <2>2. CASE start \notin walkable
    <3> DEFINE T == {n \in Nat : Search!Reach(n) # {}}
    <3>1. T = {}
      <4>1. SUFFICES ASSUME T # {} PROVE FALSE
        OBVIOUS
      <4>2. PICK n \in T : \A m \in T : n <= m
        <5>1. T \subseteq Nat
          OBVIOUS
        <5> HIDE DEF T
        <5> QED
          BY <4>1, <5>1, LeastElement
      <4>3. n \in Nat /\ Search!Reach(n) # {} /\ n # 0
        BY <2>2, <4>2, ReachSteps
      <4>4. n - 1 \in Nat /\ n - 1 \notin T /\ (n - 1) + 1 = n
        BY <4>2, <4>3
      <4>5. Search!Reach(n) = Around({})
        BY <4>4, ReachSteps
      <4> QED
        BY <4>3, <4>5 DEF Around
    <3>2. goal \notin Search!Reach(Search!Unreached)
      BY <3>1, CountOfTiles
    <3> QED
      BY <1>1, <3>2 DEF Search!PathIsShortest
  <2> QED
    BY <1>1, <1>3, <2>1, <2>2
<1>4. searching => Search!PathIsShortest
  BY DEF Search!PathIsShortest
<1>5. searching \in BOOLEAN
  BY <1>1
<1> QED
  BY <1>1, <1>2, <1>3, <1>4, <1>5 DEF SearchInv

LEMMA SearchInvariant == PartsSpec => []SearchInv
<1>1. SearchInv /\ [Search!Next]_searchVars => SearchInv'
  <2> SUFFICES ASSUME SearchInv, [Search!Next]_searchVars PROVE SearchInv'
    OBVIOUS
  <2>1. CASE Search!SkipStale
    BY <2>1, SkipStaleKeeps
  <2>2. CASE Search!TakeGoal
    BY <2>2, TakeGoalKeeps
  <2>3. CASE Search!Expand
    BY <2>3, ExpandKeeps
  <2>4. CASE Search!GiveUp
    BY <2>4, GiveUpKeeps
  <2>5. CASE UNCHANGED searchVars
    BY <2>5, SMTT(60) DEF searchVars, SearchInv, Explored, Queued, Expanded, Search!PathIsShortest,
       Search!Reach, Search!IsWalkable, Search!ManhattanDistance, Search!Abs, Search!Tiles,
       Search!Unreached
  <2> QED
    BY <2>1, <2>2, <2>3, <2>4, <2>5 DEF Search!Next
<1>2. SearchInv /\ [PartsNext]_partVars => SearchInv'
  BY <1>1, EachPartSteps
<1> QED
  BY SearchBegins, <1>2, PTL DEF PartsSpec, PartsInit

\* Where A* takes the goal from its queue, no walk over the room is shorter than
\* the path along the parents; and where it gives up there is none: on every grid,
\* whatever is blocked (RoomPathfinder::FindPath).
THEOREM ThePathIsShortest == PartsSpec => []PathIsShortest
<1>1. SearchInv => PathIsShortest
  BY DEF SearchInv, PathIsShortest
<1> QED
  BY <1>1, SearchInvariant, PTL

-----------------------------------------------------------------------------
(* Codec: numbers and bytes.                                               *)

LEMMA Division ==
  ASSUME NEW c \in Int, NEW w \in Nat \ {0}
  PROVE  /\ c \div w \in Int /\ c % w \in 0 .. w - 1
         /\ c % w = c - (c \div w) * w
         /\ \A q \in Int : q * w <= c /\ c < q * w + w => c \div w = q
<1>1. c \div w \in Int /\ c % w \in 0 .. w - 1
  OBVIOUS
<1>2. c % w = c - (c \div w) * w
  OBVIOUS
<1>3. \A q \in Int : q * w <= c /\ c < q * w + w => c \div w = q
  OBVIOUS
<1> QED
  BY <1>1, <1>2, <1>3

\* What is in its range already stays as it is.
LEMMA SmallIsItself ==
  ASSUME NEW w \in Nat \ {0}, NEW c \in 0 .. w - 1
  PROVE  c % w = c
OBVIOUS

\* Two digits are the number, as far as two digits go.
LEMMA TwoDigits ==
  ASSUME NEW D \in Nat \ {0}, NEW n \in Int
  PROVE  /\ D * D \in Nat \ {0}
         /\ ((n \div D) % D) * D + (n % D) = n % (D * D)
         /\ (n \div D) \div D = n \div (D * D)
<1> DEFINE q == n \div D
           r == n % D
           p == q \div D
           s == q % D
           DD == D * D
<1>1. DD \in Nat /\ DD # 0
  <2>1. D >= 1 /\ D \in Int
    OBVIOUS
  <2> QED
    BY <2>1
<1>2. q \in Int /\ r \in 0 .. D - 1 /\ r = n - q * D
  BY Division
<1>3. p \in Int /\ s \in 0 .. D - 1 /\ s = q - p * D
  <2> HIDE DEF q
  <2> QED
    BY <1>2, Division
<1> HIDE DEF q, r, p, s
<1>4. n = p * DD + s * D + r
  <2>1. q = p * D + s /\ n = q * D + r
    BY <1>2, <1>3
  <2>2. (p * D + s) * D = p * (D * D) + s * D
    BY <1>2, <1>3
  <2> QED
    BY <2>1, <2>2
<1>5. s * D \in Nat /\ s * D <= DD - D
  <2>1. s * D >= 0 /\ (D - 1 - s) * D >= 0
    BY <1>3
  <2>2. (D - 1 - s) * D = DD - D - s * D
    BY <1>3
  <2>3. s * D \in Int
    BY <1>3
  <2> QED
    BY <1>1, <2>1, <2>2, <2>3
<1>6. p * DD \in Int /\ p * DD <= n /\ n < p * DD + DD
  <2>1. p * DD \in Int
    BY <1>1, <1>3
  <2> HIDE DEF DD
  <2> QED
    BY <1>1, <1>2, <1>4, <1>5, <2>1
<1> HIDE DEF DD
<1>7. n \div DD = p /\ n % DD = n - p * DD
  BY <1>1, <1>3, <1>6, Division
<1>8. s * D + r = n % DD
  BY <1>2, <1>4, <1>5, <1>6, <1>7
<1> QED
  BY <1>1, <1>7, <1>8 DEF q, r, p, s, DD

Fields == {1, 2, 4}

LEMMA BaseFacts ==
  /\ Base \in Nat \ {0} /\ Base * Base \in Nat \ {0}
  /\ \A w \in Fields : Codec!Values(w) \in Nat \ {0}
  /\ Codec!Values(1) = Base /\ Codec!Values(2) = Base * Base
  /\ Codec!Values(4) = (Base * Base) * (Base * Base)
<1>1. Base \in Nat /\ MaxPacketSize \in Nat /\ MaxPacketSize < Base * Base
  BY PartsAssumption DEF Codec!CodecAssumption
<1>2. Base # 0
  BY <1>1
<1>3. Base * Base \in Nat \ {0}
  BY <1>1, <1>2, TwoDigits
<1> DEFINE BB == Base * Base
<1>4. BB * BB \in Nat \ {0}
  <2> HIDE DEF BB
  <2>1. BB \in Nat \ {0} => BB * BB \in Nat \ {0}
    BY TwoDigits
  <2> QED
    BY <1>3, <2>1 DEF BB
<1>5. /\ Codec!Values(1) = Base /\ Codec!Values(2) = Base * Base
      /\ Codec!Values(4) = BB * BB
  BY DEF Codec!Values
<1> QED
  BY <1>1, <1>2, <1>3, <1>4, <1>5 DEF Fields

\* Two bytes.
LEMMA WrittenInTwo ==
  ASSUME NEW n \in Int
  PROVE  /\ Codec!WriteU16(n) = <<(n \div Base) % Base, n % Base>>
         /\ (n \div Base) % Base \in Int /\ n % Base \in Int
         /\ Codec!ReadU16((n \div Base) % Base, n % Base) = n % (Base * Base)
<1>1. Base \in Nat \ {0}
  BY BaseFacts
<1>2. n \div Base \in Int /\ n % Base \in Int
  BY <1>1, Division
<1>3. (n \div Base) % Base \in Int
  <2> DEFINE q == n \div Base
  <2> HIDE DEF q
  <2>1. q \in Int => q % Base \in Int
    BY <1>1, Division
  <2> QED
    BY <1>2, <2>1 DEF q
<1>4. ((n \div Base) % Base) * Base + (n % Base) = n % (Base * Base)
  BY <1>1, TwoDigits
<1> QED
  BY <1>2, <1>3, <1>4 DEF Codec!WriteU16, Codec!ReadU16

\* A number is read as it was written, as far as its field holds it
\* (WriteU8 to WriteU32, ReadU8 to ReadU32).
LEMMA WrittenIsRead ==
  ASSUME NEW n \in Int, NEW w \in Fields
  PROVE  /\ Codec!Write(n, w) \in Seq(Int) /\ Len(Codec!Write(n, w)) = w
         /\ Codec!Read(Codec!Write(n, w)) = n % Codec!Values(w)
<1> USE DEF Fields
<1>1. CASE w = 1
  <2>1. n % Base \in Int
    BY BaseFacts, Division
  <2>2. Codec!Write(n, 1) = <<n % Base>>
    BY DEF Codec!Write, Codec!WriteU8
  <2>3. Codec!Read(<<n % Base>>) = n % Base
    BY <2>1 DEF Codec!Read
  <2>4. <<n % Base>> \in Seq(Int) /\ Len(<<n % Base>>) = 1
    BY <2>1
  <2> QED
    BY <1>1, <2>2, <2>3, <2>4, BaseFacts
<1>2. CASE w = 2
  <2> DEFINE a == (n \div Base) % Base
             b == n % Base
  <2>1. /\ Codec!WriteU16(n) = <<a, b>> /\ a \in Int /\ b \in Int
        /\ Codec!ReadU16(a, b) = n % (Base * Base)
    BY WrittenInTwo
  <2> HIDE DEF a, b
  <2>2. Codec!Write(n, 2) = <<a, b>>
    BY <2>1 DEF Codec!Write
  <2>3. Codec!Read(<<a, b>>) = Codec!ReadU16(a, b)
    BY <2>1 DEF Codec!Read
  <2>4. <<a, b>> \in Seq(Int) /\ Len(<<a, b>>) = 2
    BY <2>1
  <2> QED
    BY <1>2, <2>1, <2>2, <2>3, <2>4, BaseFacts
<1>3. CASE w = 4
  <2> DEFINE BB == Base * Base
             h == n \div BB
             a == (h \div Base) % Base
             b == h % Base
             c == (n \div Base) % Base
             d == n % Base
  <2>1. BB \in Nat \ {0} /\ h \in Int
    <3>1. BB \in Nat \ {0}
      BY BaseFacts
    <3> HIDE DEF BB
    <3> QED
      BY <3>1, Division
  <2> HIDE DEF h
  <2>2. /\ Codec!WriteU16(h) = <<a, b>> /\ a \in Int /\ b \in Int
        /\ Codec!ReadU16(a, b) = h % BB
    BY <2>1, WrittenInTwo
  <2>3. /\ Codec!WriteU16(n) = <<c, d>> /\ c \in Int /\ d \in Int
        /\ Codec!ReadU16(c, d) = n % BB
    BY WrittenInTwo
  <2> HIDE DEF a, b, c, d
  <2>4. Codec!Write(n, 4) = <<a, b, c, d>>
    <3>1. <<a, b>> \o <<c, d>> = <<a, b, c, d>>
      <4> DEFINE s == <<a, b>>
                 t == <<c, d>>
                 u == <<a, b, c, d>>
      <4>1. s \in Seq(Int) /\ t \in Seq(Int) /\ u \in Seq(Int)
        BY <2>2, <2>3
      <4>2. Len(s) = 2 /\ Len(t) = 2 /\ Len(u) = 4
        OBVIOUS
      <4>3. s[1] = a /\ s[2] = b /\ t[1] = c /\ t[2] = d
            /\ u[1] = a /\ u[2] = b /\ u[3] = c /\ u[4] = d
        OBVIOUS
      <4> HIDE DEF s, t, u
      <4>4. /\ s \o t \in Seq(Int) /\ Len(s \o t) = 4
            /\ \A i \in 1 .. 4 : (s \o t)[i] = IF i <= 2 THEN s[i] ELSE t[i - 2]
        <5>1. /\ s \o t \in Seq(Int) /\ Len(s \o t) = Len(s) + Len(t)
              /\ \A i \in 1 .. Len(s) + Len(t) :
                    (s \o t)[i] = IF i <= Len(s) THEN s[i] ELSE t[i - Len(s)]
          BY <4>1, ConcatProperties
        <5>2. Len(s) + Len(t) = 4
          BY <4>2
        <5> QED
          BY <4>2, <5>1, <5>2, Zenon
      <4>5. \A i \in 1 .. 4 : (s \o t)[i] = u[i]
        <5>1. /\ (s \o t)[1] = s[1] /\ (s \o t)[2] = s[2]
              /\ (s \o t)[3] = t[1] /\ (s \o t)[4] = t[2]
          <6> DEFINE u4 == s \o t
          <6>1. \A i \in 1 .. 4 : u4[i] = IF i <= 2 THEN s[i] ELSE t[i - 2]
            BY <4>4
          <6> HIDE DEF u4
          <6>2. u4[1] = s[1] /\ u4[2] = s[2]
            BY <6>1
          <6>3. 3 - 2 = 1 /\ 4 - 2 = 2
            OBVIOUS
          <6>4. u4[3] = t[1] /\ u4[4] = t[2]
            BY <6>1, <6>3
          <6> QED
            BY <6>2, <6>4 DEF u4
        <5>2. \A i \in 1 .. 4 : i = 1 \/ i = 2 \/ i = 3 \/ i = 4
          OBVIOUS
        <5> QED
          BY <4>3, <5>1, <5>2, Zenon
      <4>6. s \o t = u
        BY <4>1, <4>2, <4>4, <4>5, SeqEqual
      <4> QED
        BY <4>6 DEF s, t, u
    <3>2. Codec!Write(n, 4) = Codec!WriteU32(n)
      BY DEF Codec!Write
    <3> QED
      BY <2>2, <2>3, <3>1, <3>2 DEF Codec!WriteU32, h, BB
  <2>5. Codec!Read(<<a, b, c, d>>) = Codec!ReadU16(a, b) * BB + Codec!ReadU16(c, d)
    BY DEF Codec!Read
  <2> HIDE DEF BB
  <2>6. (h % BB) * BB + (n % BB) = n % (BB * BB)
    BY <2>1, TwoDigits DEF h
  <2>7. Codec!Values(4) = BB * BB
    BY BaseFacts DEF BB
  <2>8. <<a, b, c, d>> \in Seq(Int) /\ Len(<<a, b, c, d>>) = 4
    BY <2>2, <2>3
  <2>9. Codec!Read(Codec!Write(n, 4)) = n % Codec!Values(4)
    BY <2>2, <2>3, <2>4, <2>5, <2>6, <2>7
  <2> QED
    BY <1>3, <2>4, <2>8, <2>9
<1> QED
  BY <1>1, <1>2, <1>3

-----------------------------------------------------------------------------
(* Codec: sequences of fields.                                             *)

IsOffset(offset, widths, n) ==
  offset = [i \in 0 .. n |-> IF i = 0 THEN 0 ELSE offset[i - 1] + widths[i]]

LEMMA OffsetsExist ==
  ASSUME NEW widths
  PROVE  \A n \in Nat : \E offset : IsOffset(offset, widths, n)
<1> DEFINE T == {n \in Nat : ~\E offset : IsOffset(offset, widths, n)}
<1> SUFFICES T = {}
  OBVIOUS
<1>1. SUFFICES ASSUME T # {} PROVE FALSE
  OBVIOUS
<1>2. PICK n \in T : \A m \in T : n <= m
  <2>1. T \subseteq Nat
    OBVIOUS
  <2> HIDE DEF T
  <2> QED
    BY <1>1, <2>1, LeastElement
<1>3. n \in Nat /\ ~\E offset : IsOffset(offset, widths, n)
  BY <1>2
<1>4. CASE n = 0
  <2> DEFINE r == [i \in 0 .. 0 |-> 0]
  <2>1. [i \in 0 .. 0 |-> IF i = 0 THEN 0 ELSE r[i - 1] + widths[i]] = r
    OBVIOUS
  <2>2. IsOffset(r, widths, 0)
    BY <2>1 DEF IsOffset
  <2> QED
    BY <1>3, <1>4, <2>2
<1>5. CASE n # 0
  <2>1. n - 1 \in Nat /\ n - 1 \notin T
    BY <1>2, <1>3, <1>5
  <2>2. PICK q : IsOffset(q, widths, n - 1)
    BY <2>1
  <2> DEFINE r == [i \in 0 .. n |-> IF i = n THEN q[n - 1] + widths[n] ELSE q[i]]
  <2>3. ASSUME NEW i \in 0 .. n
        PROVE  r[i] = IF i = 0 THEN 0 ELSE r[i - 1] + widths[i]
    <3>1. CASE i = n
      <4>1. r[i - 1] = q[n - 1]
        BY <1>3, <1>5, <3>1
      <4> QED
        BY <1>5, <3>1, <4>1
    <3>2. CASE i # n
      <4>1. i \in 0 .. n - 1
        BY <1>3, <3>2
      <4>2. q[i] = IF i = 0 THEN 0 ELSE q[i - 1] + widths[i]
        BY <2>2, <4>1 DEF IsOffset
      <4>3. i # 0 => r[i - 1] = q[i - 1]
        BY <1>3, <4>1
      <4> QED
        BY <3>2, <4>2, <4>3
    <3> QED
      BY <3>1, <3>2
  <2>4. r = [i \in 0 .. n |-> r[i]]
    OBVIOUS
  <2> HIDE DEF r
  <2>5. IsOffset(r, widths, n)
    BY <2>3, <2>4 DEF IsOffset
  <2> QED
    BY <1>3, <2>5
<1> QED
  BY <1>4, <1>5

\* Each field begins where the one before it ends.
LEMMA OffsetsAdd ==
  ASSUME NEW widths \in Seq(Nat)
  PROVE  /\ Codec!Offsets(widths) \in [0 .. Len(widths) -> Nat]
         /\ Codec!Offsets(widths)[0] = 0
         /\ \A i \in 1 .. Len(widths) :
              Codec!Offsets(widths)[i] = Codec!Offsets(widths)[i - 1] + widths[i]
<1> DEFINE L == Len(widths)
           f == CHOOSE offset : IsOffset(offset, widths, L)
<1>1. L \in Nat /\ \A i \in 1 .. L : widths[i] \in Nat
  BY ElementOfSeq, LenProperties
<1>2. IsOffset(f, widths, L)
  <2> HIDE DEF L
  <2> QED
    BY <1>1, OffsetsExist
<1>3. Codec!Offsets(widths) = f
  BY DEF Codec!Offsets, IsOffset
<1> HIDE DEF f, L
<1>4. f[0] = 0 /\ \A i \in 1 .. L : f[i] = f[i - 1] + widths[i]
  <2>1. f[0] = 0
    <3>1. 0 \in 0 .. L
      BY <1>1
    <3> QED
      BY <1>2, <3>1 DEF IsOffset
  <2>2. ASSUME NEW i \in 1 .. L PROVE f[i] = f[i - 1] + widths[i]
    <3>1. i \in 0 .. L /\ i # 0
      BY <1>1
    <3> QED
      BY <1>2, <3>1 DEF IsOffset
  <2> QED
    BY <2>1, <2>2
<1>5. \A i \in 0 .. L : f[i] \in Nat
  <2> DEFINE T == {i \in 0 .. L : f[i] \notin Nat}
  <2>1. SUFFICES ASSUME T # {} PROVE FALSE
    OBVIOUS
  <2>2. PICK i \in T : \A j \in T : i <= j
    <3>1. T \subseteq Nat
      OBVIOUS
    <3> HIDE DEF T
    <3> QED
      BY <2>1, <3>1, LeastElement
  <2>3. i \in 1 .. L /\ f[i] \notin Nat
    BY <1>1, <1>4, <2>2
  <2>4. i - 1 \in 0 .. L /\ i - 1 \notin T
    BY <1>1, <2>2, <2>3
  <2>5. f[i - 1] \in Nat
    BY <2>4
  <2> QED
    BY <1>1, <1>4, <2>3, <2>5
<1>6. f = [i \in 0 .. L |-> f[i]]
  BY <1>2 DEF IsOffset
<1>7. f \in [0 .. L -> Nat]
  BY <1>5, <1>6
<1> QED
  BY <1>3, <1>4, <1>7 DEF L

IsFlat(flat, ss, n) ==
  flat = [i \in 1 .. n |-> IF i = 1 THEN ss[i] ELSE flat[i - 1] \o ss[i]]

LEMMA FlatExists ==
  ASSUME NEW ss
  PROVE  \A n \in Nat : \E flat : IsFlat(flat, ss, n)
<1> DEFINE T == {n \in Nat : ~\E flat : IsFlat(flat, ss, n)}
<1> SUFFICES T = {}
  OBVIOUS
<1>1. SUFFICES ASSUME T # {} PROVE FALSE
  OBVIOUS
<1>2. PICK n \in T : \A m \in T : n <= m
  <2>1. T \subseteq Nat
    OBVIOUS
  <2> HIDE DEF T
  <2> QED
    BY <1>1, <2>1, LeastElement
<1>3. n \in Nat /\ ~\E flat : IsFlat(flat, ss, n)
  BY <1>2
<1>4. CASE n = 0
  <2> DEFINE r == [i \in 1 .. 0 |-> ss[i]]
  <2>1. [i \in 1 .. 0 |-> IF i = 1 THEN ss[i] ELSE r[i - 1] \o ss[i]] = r
    OBVIOUS
  <2>2. IsFlat(r, ss, 0)
    BY <2>1 DEF IsFlat
  <2> QED
    BY <1>3, <1>4, <2>2
<1>5. CASE n # 0
  <2>1. n - 1 \in Nat /\ n - 1 \notin T
    BY <1>2, <1>3, <1>5
  <2>2. PICK q : IsFlat(q, ss, n - 1)
    BY <2>1
  <2> DEFINE new == IF n = 1 THEN ss[n] ELSE q[n - 1] \o ss[n]
             r == [i \in 1 .. n |-> IF i = n THEN new ELSE q[i]]
  <2>3. ASSUME NEW i \in 1 .. n
        PROVE  r[i] = IF i = 1 THEN ss[i] ELSE r[i - 1] \o ss[i]
    <3>1. CASE i = n
      <4>1. i # 1 => r[i - 1] = q[n - 1]
        BY <1>3, <1>5, <3>1
      <4>2. r[i] = new
        BY <3>1
      <4> HIDE DEF r
      <4> QED
        BY <3>1, <4>1, <4>2
    <3>2. CASE i # n
      <4>1. i \in 1 .. n - 1
        BY <1>3, <3>2
      <4>2. q[i] = IF i = 1 THEN ss[i] ELSE q[i - 1] \o ss[i]
        BY <2>2, <4>1 DEF IsFlat
      <4>3. i # 1 => r[i - 1] = q[i - 1]
        BY <1>3, <4>1
      <4>4. r[i] = q[i]
        BY <3>2
      <4> HIDE DEF r
      <4> QED
        BY <4>2, <4>3, <4>4
    <3> QED
      BY <3>1, <3>2
  <2>4. r = [i \in 1 .. n |-> r[i]]
    OBVIOUS
  <2> HIDE DEF r
  <2>5. IsFlat(r, ss, n)
    BY <2>3, <2>4 DEF IsFlat
  <2> QED
    BY <1>3, <2>5
<1> QED
  BY <1>4, <1>5

\* Where the pieces end that are put one behind the other.
Ends(at, ss) ==
  /\ at \in [0 .. Len(ss) -> Nat] /\ at[0] = 0
  /\ \A i \in 1 .. Len(ss) : at[i] = at[i - 1] + Len(ss[i])

\* What is put one behind the other is found again between the ends.
LEMMA PiecesAreFound ==
  ASSUME NEW S, NEW ss \in Seq(Seq(S)), NEW at, Ends(at, ss)
  PROVE  /\ Codec!FlattenSeq(ss) \in Seq(S)
         /\ Len(Codec!FlattenSeq(ss)) = at[Len(ss)]
         /\ \A i \in 1 .. Len(ss) :
              /\ at[i] <= at[Len(ss)]
              /\ SubSeq(Codec!FlattenSeq(ss), at[i - 1] + 1, at[i]) = ss[i]
<1> DEFINE L == Len(ss)
           f == CHOOSE flat : IsFlat(flat, ss, L)
           Found(n) == /\ f[n] \in Seq(S) /\ Len(f[n]) = at[n]
                       /\ \A i \in 1 .. n : at[i] <= at[n]
                       /\ \A i \in 1 .. n : \A j \in 1 .. Len(ss[i]) : f[n][at[i - 1] + j] = ss[i][j]
<1>1. L \in Nat /\ \A i \in 1 .. L : ss[i] \in Seq(S) /\ Len(ss[i]) \in Nat
  BY LenProperties
<1>2. /\ \A i \in 0 .. L : at[i] \in Nat
      /\ at[0] = 0 /\ \A i \in 1 .. L : at[i] = at[i - 1] + Len(ss[i])
  BY DEF Ends
<1>3. CASE L = 0
  <2>1. ss = <<>> /\ Codec!FlattenSeq(ss) = ss
    BY <1>3, EmptySeq DEF Codec!FlattenSeq
  <2>2. <<>> \in Seq(S) /\ Len(<<>>) = 0
    BY EmptySeq
  <2>3. at[Len(ss)] = 0 /\ \A i \in 1 .. Len(ss) : FALSE
    BY <1>2, <1>3
  <2> QED
    BY <2>1, <2>2, <2>3
<1>4. CASE L # 0
  <2>1. IsFlat(f, ss, L)
    <3> HIDE DEF L
    <3> QED
      BY <1>1, FlatExists
  <2>2. Codec!FlattenSeq(ss) = f[L]
    BY <1>4 DEF Codec!FlattenSeq, IsFlat
  <2> HIDE DEF f, L
  <2>3. \A i \in 1 .. L : f[i] = IF i = 1 THEN ss[i] ELSE f[i - 1] \o ss[i]
    BY <2>1 DEF IsFlat
  <2>4. \A n \in 1 .. L : Found(n)
    <3> DEFINE T == {n \in 1 .. L : ~Found(n)}
    <3>1. SUFFICES ASSUME T # {} PROVE FALSE
      <4> HIDE DEF Found
      <4> QED
        OBVIOUS
    <3>2. PICK n \in T : \A m \in T : n <= m
      <4>1. T \subseteq Nat
        <5> HIDE DEF Found
        <5> QED
          OBVIOUS
      <4> HIDE DEF T
      <4> QED
        BY <3>1, <4>1, LeastElement
    <3>3. n \in 1 .. L /\ ~Found(n)
      <4> HIDE DEF Found
      <4> QED
        BY <3>2
    <3>4. CASE n = 1
      <4>1. f[1] = ss[1] /\ at[1] = Len(ss[1])
        <5>1. at[1] = at[0] + Len(ss[1])
          BY <1>2, <3>3, <3>4
        <5> QED
          BY <1>1, <1>2, <2>3, <3>3, <3>4, <5>1
      <4>2. \A i \in 1 .. 1 : i = 1 /\ i - 1 = 0
        OBVIOUS
      <4>3. \A j \in 1 .. Len(ss[1]) : f[1][at[0] + j] = ss[1][j]
        BY <1>1, <1>2, <4>1
      <4>4. f[1] \in Seq(S) /\ Len(f[1]) = at[1] /\ at[1] <= at[1]
        BY <1>1, <1>2, <3>3, <3>4, <4>1
      <4>5. Found(1)
        BY <4>2, <4>3, <4>4
      <4> QED
        BY <3>3, <3>4, <4>5
    <3>5. CASE n # 1
      <4>1. n - 1 \in 1 .. L /\ n - 1 \notin T
        <5> HIDE DEF Found
        <5> QED
          BY <1>1, <3>2, <3>3, <3>5
      <4>2. Found(n - 1)
        <5> HIDE DEF Found
        <5> QED
          BY <4>1
      <4> DEFINE s == f[n - 1]
                 t == ss[n]
      <4>3. f[n] = s \o t
        BY <2>3, <3>3, <3>5
      <4>4. s \in Seq(S) /\ t \in Seq(S) /\ Len(s) = at[n - 1] /\ Len(t) \in Nat
        BY <1>1, <3>3, <4>2
      <4>5. at[n] = at[n - 1] + Len(t) /\ at[n] \in Nat /\ at[n - 1] \in Nat
        BY <1>1, <1>2, <3>3, <4>1
      <4> HIDE DEF s, t
      <4>6. /\ s \o t \in Seq(S) /\ Len(s \o t) = Len(s) + Len(t)
            /\ \A i \in 1 .. Len(s) + Len(t) :
                  (s \o t)[i] = IF i <= Len(s) THEN s[i] ELSE t[i - Len(s)]
        BY <4>4, ConcatProperties
      <4>7. f[n] \in Seq(S) /\ Len(f[n]) = at[n]
        BY <4>3, <4>4, <4>5, <4>6
      <4>8. \A i \in 1 .. n : i \in 1 .. n - 1 \/ i = n
        BY <3>3
      <4>9. \A i \in 1 .. n : at[i] <= at[n]
        <5>1. \A i \in 1 .. n - 1 : at[i] <= at[n - 1] /\ at[i] \in Nat
          BY <1>1, <1>2, <3>3, <4>2
        <5>2. \A i \in 1 .. n - 1 : at[i] <= at[n]
          BY <4>4, <4>5, <5>1, SMTT(30)
        <5> QED
          BY <4>5, <4>8, <5>2, SMTT(60)
      <4>10. ASSUME NEW i \in 1 .. n, NEW j \in 1 .. Len(ss[i])
             PROVE  f[n][at[i - 1] + j] = ss[i][j]
        <5>1. CASE i \in 1 .. n - 1
          <6>1. s[at[i - 1] + j] = ss[i][j]
            BY <4>2, <5>1 DEF s
          <6>2. at[i] <= at[n - 1]
            BY <4>2, <5>1
          <6>3. i \in 1 .. L /\ i \in 0 .. L /\ i - 1 \in 0 .. L
            BY <1>1, <3>3, <5>1
          <6>4. at[i] = at[i - 1] + Len(ss[i]) /\ at[i - 1] \in Nat /\ Len(ss[i]) \in Nat
            BY <1>1, <1>2, <6>3
          <6>5. at[i - 1] + j \in 1 .. Len(s) + Len(t) /\ at[i - 1] + j <= Len(s)
            <7> DEFINE a == at[i - 1]
                       l == Len(ss[i])
                       u == Len(s)
                       v == Len(t)
            <7>1. /\ a \in Nat /\ l \in Nat /\ u \in Nat /\ v \in Nat
                  /\ j \in 1 .. l /\ a + l <= u
              BY <4>4, <4>5, <6>2, <6>4
            <7> HIDE DEF a, l, u, v
            <7>2. j \in Int /\ 1 <= j /\ j <= l
              BY <7>1
            <7>3. a + j \in Int /\ 1 <= a + j /\ a + j <= u /\ a + j <= u + v
              BY <7>1, <7>2
            <7>4. u + v \in Int
              BY <7>1
            <7>5. a + j \in 1 .. u + v /\ a + j <= u
              BY <7>3, <7>4
            <7> QED
              BY <7>5 DEF a, u, v
          <6> QED
            BY <4>3, <4>6, <6>1, <6>5
        <5>2. CASE i = n
          <6>1. j \in 1 .. Len(t) /\ ss[i][j] = t[j] /\ at[i - 1] = Len(s)
            BY <4>4, <5>2 DEF t
          <6>2. Len(s) \in Nat
            BY <4>4, <4>5
          <6>3. Len(s) + j \in 1 .. Len(s) + Len(t) /\ ~(Len(s) + j <= Len(s)) /\ (Len(s) + j) - Len(s) = j
            <7> DEFINE u == Len(s)
                       v == Len(t)
            <7>1. u \in Nat /\ v \in Nat /\ j \in 1 .. v
              BY <4>4, <6>1, <6>2
            <7> HIDE DEF u, v
            <7>2. u + j \in 1 .. u + v /\ ~(u + j <= u) /\ (u + j) - u = j
              BY <7>1
            <7> QED
              BY <7>2 DEF u, v
          <6>4. (s \o t)[Len(s) + j] = t[j]
            BY <4>6, <6>3
          <6> QED
            BY <4>3, <6>1, <6>4
        <5> QED
          BY <4>8, <5>1, <5>2
      <4>11. Found(n)
        BY <4>7, <4>9, <4>10
      <4> QED
        BY <3>3, <4>11
    <3> QED
      BY <3>4, <3>5
  <2>5. Found(L)
    <3>1. L \in 1 .. L
      BY <1>1, <1>4
    <3> HIDE DEF Found
    <3> QED
      BY <2>4, <3>1
  <2>6. ASSUME NEW i \in 1 .. L
        PROVE  SubSeq(f[L], at[i - 1] + 1, at[i]) = ss[i]
    <3> DEFINE m == at[i - 1] + 1
               n == at[i]
               p == SubSeq(f[L], m, n)
    <3>1. i \in 0 .. L /\ i - 1 \in 0 .. L
      BY <1>1
    <3>2. /\ at[i - 1] \in Nat /\ n \in Nat /\ n = at[i - 1] + Len(ss[i])
          /\ Len(ss[i]) \in Nat /\ ss[i] \in Seq(S)
      BY <1>1, <1>2, <3>1
    <3>3. \A j \in 1 .. Len(ss[i]) : f[L][at[i - 1] + j] = ss[i][j] /\ ss[i][j] \in S
      BY <2>5, <3>2, ElementOfSeq
    <3>4. \A k \in m .. n : f[L][k] \in S
      <4> SUFFICES ASSUME NEW k \in m .. n PROVE f[L][k] \in S
        OBVIOUS
      <4>1. k - at[i - 1] \in 1 .. Len(ss[i]) /\ at[i - 1] + (k - at[i - 1]) = k
        BY <3>2
      <4> QED
        BY <3>3, <4>1
    <3>5. m \in Int /\ n \in Int /\ n - m + 1 = Len(ss[i])
      BY <3>2, SMTT(30)
    <3> HIDE DEF m, n
    <3>6. /\ p \in Seq(S) /\ Len(p) = (IF m <= n THEN n - m + 1 ELSE 0)
          /\ \A j \in 1 .. n - m + 1 : p[j] = f[L][m + j - 1]
      BY <3>4, <3>5, SubSeqProperties
    <3> HIDE DEF p
    <3>7. Len(p) = Len(ss[i])
      BY <3>2, <3>5, <3>6
    <3>8. \A j \in 1 .. Len(ss[i]) : p[j] = ss[i][j]
      <4> SUFFICES ASSUME NEW j \in 1 .. Len(ss[i]) PROVE p[j] = ss[i][j]
        OBVIOUS
      <4>1. m + j - 1 = at[i - 1] + j
        BY <3>2 DEF m
      <4>2. p[j] = f[L][m + j - 1]
        BY <3>5, <3>6
      <4> QED
        BY <3>3, <4>1, <4>2
    <3>9. p = ss[i]
      BY <3>2, <3>6, <3>7, <3>8, SeqEqual
    <3> QED
      BY <3>9 DEF p, m, n
  <2> QED
    BY <2>2, <2>5, <2>6 DEF L
<1> QED
  BY <1>3, <1>4

\* What the fields of widths make of values: of a number too large, the rest.
Rest(values, widths) == [i \in 1 .. Len(widths) |-> values[i] % Codec!Values(widths[i])]

\* Fields written one behind the other are read again, whatever follows
\* (PacketWriter, PacketReader).
LEMMA FieldsAreRead ==
  ASSUME NEW widths \in Seq(Fields), NEW values, \A i \in 1 .. Len(widths) : values[i] \in Int,
         NEW after \in Seq(Int)
  PROVE  /\ Codec!WriteAll(values, widths) \in Seq(Int)
         /\ Codec!Sum(widths) \in Nat /\ Len(Codec!WriteAll(values, widths)) = Codec!Sum(widths)
         /\ Len(widths) # 0 => Codec!Sum(widths) # 0
         /\ Codec!ReadAll(Codec!WriteAll(values, widths) \o after, widths) = Rest(values, widths)
<1> DEFINE L == Len(widths)
           ss == [i \in 1 .. L |-> Codec!Write(values[i], widths[i])]
           at == Codec!Offsets(widths)
           flat == Codec!FlattenSeq(ss)
<1>1. L \in Nat /\ widths \in Seq(Nat) /\ \A i \in 1 .. L : widths[i] \in Fields
  <2>1. Fields \subseteq Nat
    BY DEF Fields
  <2> QED
    BY <2>1, SeqMonotonic, LenProperties, ElementOfSeq
<1>2. \A i \in 1 .. L : ss[i] \in Seq(Int) /\ Len(ss[i]) = widths[i]
                        /\ Codec!Read(ss[i]) = values[i] % Codec!Values(widths[i])
  BY <1>1, WrittenIsRead
<1>3. ss \in Seq(Seq(Int)) /\ Len(ss) = L
  BY <1>1, <1>2
<1>4. at \in [0 .. L -> Nat] /\ at[0] = 0 /\ \A i \in 1 .. L : at[i] = at[i - 1] + widths[i]
  BY <1>1, OffsetsAdd
<1>5. Codec!Sum(widths) = at[L] /\ Codec!WriteAll(values, widths) = flat
  BY DEF Codec!Sum, Codec!WriteAll
<1> HIDE DEF at, ss, L
<1>6. Ends(at, ss)
  BY <1>2, <1>3, <1>4 DEF Ends
<1>7. /\ flat \in Seq(Int) /\ Len(flat) = at[L]
      /\ \A i \in 1 .. L : at[i] <= at[L] /\ SubSeq(flat, at[i - 1] + 1, at[i]) = ss[i]
  BY <1>3, <1>6, PiecesAreFound
<1> HIDE DEF flat
<1>8. at[L] \in Nat
  BY <1>1, <1>4
<1>9. L # 0 => at[L] # 0
  <2> SUFFICES ASSUME L # 0 PROVE at[L] # 0
    OBVIOUS
  <2>1. 1 \in 1 .. L /\ 0 \in 0 .. L /\ 1 - 1 = 0
    BY <1>1
  <2>2. at[1] = 0 + widths[1] /\ at[1] <= at[L]
    BY <1>4, <1>7, <2>1
  <2>3. widths[1] \in Int /\ widths[1] >= 1
    BY <1>1, <2>1 DEF Fields
  <2>4. widths[1] <= at[L]
    BY <2>2, <2>3
  <2> QED
    BY <1>8, <2>3, <2>4
<1>10. ASSUME NEW i \in 1 .. L
       PROVE  Codec!Read(SubSeq(flat \o after, at[i - 1] + 1, at[i]))
                = values[i] % Codec!Values(widths[i])
  <2> DEFINE m == at[i - 1] + 1
             n == at[i]
  <2>1. i \in 0 .. L /\ i - 1 \in 0 .. L
    BY <1>1
  <2>2. at[i - 1] \in Nat /\ n \in Nat /\ n = at[i - 1] + widths[i] /\ n <= at[L]
    BY <1>4, <1>7, <2>1
  <2>3. widths[i] \in Nat /\ widths[i] >= 1
    BY <1>1, SMTT(30) DEF Fields
  <2>4. m \in 1 .. at[L] /\ n \in 1 .. at[L]
    BY <1>8, <2>2, <2>3, SMTT(30)
  <2> HIDE DEF m, n
  <2>5. SubSeq(flat \o after, m, n) = SubSeq(flat, m, n)
    BY <1>7, <2>4, SubSeqOfConcat1
  <2>6. SubSeq(flat, m, n) = ss[i]
    BY <1>7 DEF m, n
  <2> QED
    BY <1>2, <2>5, <2>6 DEF m, n
<1>11. Codec!ReadAll(flat \o after, widths) = Rest(values, widths)
  BY <1>10 DEF Codec!ReadAll, Rest, at, L
<1> QED
  BY <1>5, <1>7, <1>8, <1>9, <1>11 DEF L

ItemsOf(items, widths) ==
  Codec!FlattenSeq([i \in 1 .. Len(items) |-> Codec!WriteAll(items[i], widths)])

\* Items written one behind the other are found again, whatever comes before.
LEMMA ItemsAreRead ==
  ASSUME NEW items \in Seq(Seq(Int)), NEW widths \in Seq(Fields), Len(widths) # 0,
         \A i \in 1 .. Len(items) : Len(items[i]) = Len(widths),
         NEW before \in Seq(Int)
  PROVE  /\ ItemsOf(items, widths) \in Seq(Int) /\ Codec!Sum(widths) \in Nat
         /\ Len(ItemsOf(items, widths)) = Len(items) * Codec!Sum(widths)
         /\ \A i \in 1 .. Len(items) :
              Codec!ReadAll(SubSeq(before \o ItemsOf(items, widths),
                                   Len(before) + (i - 1) * Codec!Sum(widths) + 1,
                                   Len(before) + i * Codec!Sum(widths)), widths)
                = Rest(items[i], widths)
<1> DEFINE size == Codec!Sum(widths)
           flat == ItemsOf(items, widths)
           N == Len(items)
           ss == [i \in 1 .. N |-> Codec!WriteAll(items[i], widths)]
           at == [i \in 0 .. N |-> i * size]
           B == Len(before)
<1>1. N \in Nat /\ B \in Nat
  BY LenProperties
<1>2. size \in Nat /\ size # 0
  <2> DEFINE zeros == [i \in 1 .. Len(widths) |-> 0]
  <2>1. \A i \in 1 .. Len(widths) : zeros[i] \in Int
    OBVIOUS
  <2>2. <<>> \in Seq(Int)
    BY EmptySeq
  <2> HIDE DEF zeros
  <2> QED
    BY <2>1, <2>2, FieldsAreRead
<1>3. ASSUME NEW i \in 1 .. N
      PROVE  /\ ss[i] \in Seq(Int) /\ Len(ss[i]) = size
             /\ Codec!ReadAll(ss[i], widths) = Rest(items[i], widths)
  <2>1. ss[i] = Codec!WriteAll(items[i], widths)
    OBVIOUS
  <2>2. items[i] \in Seq(Int) /\ Len(items[i]) = Len(widths)
    BY ElementOfSeq
  <2>3. \A j \in 1 .. Len(widths) : items[i][j] \in Int
    BY <2>2, ElementOfSeq
  <2>4. <<>> \in Seq(Int)
    BY EmptySeq
  <2> HIDE DEF ss, N
  <2>5. /\ ss[i] \in Seq(Int) /\ Len(ss[i]) = size
        /\ Codec!ReadAll(ss[i] \o <<>>, widths) = Rest(items[i], widths)
    BY <2>1, <2>3, <2>4, FieldsAreRead
  <2> QED
    BY <2>5, ConcatEmptySeq
<1>4. ss \in Seq(Seq(Int)) /\ Len(ss) = N
  <2>1. \A i \in 1 .. N : Codec!WriteAll(items[i], widths) \in Seq(Int)
    BY <1>3
  <2> QED
    BY <1>1, <2>1
<1>5. Ends(at, ss)
  <2>1. \A i \in 0 .. N : i * size \in Nat
    BY <1>1, <1>2
  <2>2. at \in [0 .. N -> Nat]
    BY <2>1
  <2>3. at[0] = 0
    BY <1>1, <1>2
  <2>4. ASSUME NEW i \in 1 .. N PROVE at[i] = at[i - 1] + Len(ss[i])
    <3>1. i \in 0 .. N /\ i - 1 \in 0 .. N /\ i \in Int
      BY <1>1
    <3>2. at[i] = i * size /\ at[i - 1] = (i - 1) * size
      BY <3>1
    <3>3. i * size = (i - 1) * size + size
      BY <1>2, <3>1
    <3> HIDE DEF at, ss
    <3> QED
      BY <1>3, <3>2, <3>3
  <2> HIDE DEF at, ss, N
  <2> QED
    BY <1>4, <2>2, <2>3, <2>4 DEF Ends
<1>6. at[N] = N * size /\ \A i \in 1 .. N : at[i] = i * size /\ at[i - 1] = (i - 1) * size
  BY <1>1
<1>7. flat = Codec!FlattenSeq(ss)
  BY DEF ItemsOf
<1>8. \A i \in 0 .. N : at[i] \in Nat
  BY <1>4, <1>5 DEF Ends
<1> HIDE DEF at, ss, N, B, flat, size
<1>9. /\ flat \in Seq(Int) /\ Len(flat) = at[N]
      /\ \A i \in 1 .. N : at[i] <= at[N] /\ SubSeq(flat, at[i - 1] + 1, at[i]) = ss[i]
  <2> DEFINE fs == Codec!FlattenSeq(ss)
  <2>1. /\ fs \in Seq(Int) /\ Len(fs) = at[Len(ss)]
        /\ \A i \in 1 .. Len(ss) :
              at[i] <= at[Len(ss)] /\ SubSeq(fs, at[i - 1] + 1, at[i]) = ss[i]
    BY <1>4, <1>5, PiecesAreFound
  <2>2. flat = fs
    BY <1>7
  <2> HIDE DEF fs
  <2> QED
    BY <1>4, <2>1, <2>2
<1>10. ASSUME NEW i \in 1 .. N
       PROVE  SubSeq(before \o flat, B + (i - 1) * size + 1, B + i * size) = ss[i]
  <2> DEFINE a == at[i - 1]
             n == at[i]
  <2>1. i \in 0 .. N /\ i - 1 \in 0 .. N /\ N \in 0 .. N
    BY <1>1
  <2>2. a = (i - 1) * size /\ n = i * size /\ n = a + size /\ a \in Nat /\ n \in Nat /\ at[N] \in Nat
    <3>1. at[i] = at[i - 1] + Len(ss[i])
      BY <1>4, <1>5 DEF Ends
    <3> QED
      BY <1>3, <1>6, <1>8, <2>1, <3>1
  <2>3. n <= at[N]
    BY <1>9
  <2> HIDE DEF a, n
  <2>4. /\ B + a + 1 \in B + 1 .. B + at[N] /\ B + n \in B + 1 .. B + at[N]
        /\ (B + a + 1) - B = a + 1 /\ (B + n) - B = n
    <3> DEFINE z == at[N]
    <3>1. z \in Nat /\ n <= z
      BY <2>2, <2>3
    <3> HIDE DEF z
    <3>2. /\ B + a + 1 \in B + 1 .. B + z /\ B + n \in B + 1 .. B + z
          /\ (B + a + 1) - B = a + 1 /\ (B + n) - B = n
      <4>1. B \in Nat /\ a \in Nat /\ n \in Nat /\ z \in Nat /\ a + 1 <= n /\ n <= z
        BY <1>1, <1>2, <2>2, <3>1
      <4> QED
        BY <4>1
    <3> QED
      BY <3>2 DEF z
  <2>5. SubSeq(before \o flat, B + a + 1, B + n)
          = SubSeq(flat, (B + a + 1) - B, (B + n) - B)
    <3> DEFINE p == B + a + 1
               q == B + n
    <3>1. p \in Len(before) + 1 .. Len(before) + Len(flat)
          /\ q \in Len(before) + 1 .. Len(before) + Len(flat)
      BY <1>9, <2>4 DEF B
    <3> HIDE DEF p, q
    <3>2. SubSeq(before \o flat, p, q) = SubSeq(flat, p - Len(before), q - Len(before))
      <4>1. before \in Seq(Int) /\ flat \in Seq(Int)
        BY <1>9
      <4> QED
        BY <3>1, <4>1, SubSeqOfConcat2, ZenonT(30)
    <3> QED
      BY <3>2 DEF p, q, B
  <2>6. SubSeq(flat, a + 1, n) = ss[i]
    BY <1>9 DEF a, n
  <2> QED
    BY <2>2, <2>4, <2>5, <2>6
<1>11. \A i \in 1 .. N :
         Codec!ReadAll(SubSeq(before \o flat, B + (i - 1) * size + 1, B + i * size), widths)
           = Rest(items[i], widths)
  BY <1>3, <1>10
<1> QED
  BY <1>2, <1>6, <1>9, <1>11 DEF N, B, flat, size

-----------------------------------------------------------------------------
(* Codec: messages.                                                        *)

\* Of one type: the fields, and which of them are signed.
LEMMA TypeFacts ==
  ASSUME NEW type \in DOMAIN Codec!Packets
  PROVE  /\ Codec!Packets[type].head \in Seq(Fields) /\ Len(Codec!Packets[type].head) # 0
         /\ Codec!CountWidths(type) \in Seq(Fields)
         /\ \/ Codec!CountWidths(type) = <<>>
            \/ type = "S2C_WorldSnapshot" /\ Codec!CountWidths(type) = <<4>>
            \/ type = "S2C_EnemyPathDebug" /\ Codec!CountWidths(type) = <<1>>
         /\ Codec!ItemWidths(type) \in Seq(Fields) /\ Len(Codec!ItemWidths(type)) # 0
         /\ \A i \in Codec!SignedInHead(type) : Codec!Packets[type].head[i] = 4
         /\ \A i \in Codec!SignedInItem(type) : Codec!ItemWidths(type)[i] = 4
<1>1. type \in {"C2S_Enter", "C2S_Input", "S2C_Enter", "S2C_WorldSnapshot",
                "S2C_CombatEvent", "S2C_EnemyPathDebug"}
  BY DEF Codec!Packets
<1> DEFINE head == Codec!Packets[type].head
<1>2. \/ type = "C2S_Enter" /\ head = <<2>>
      \/ type = "C2S_Input" /\ head = <<4, 1, 1>>
      \/ type = "S2C_Enter" /\ head = <<2, 4>>
      \/ type = "S2C_WorldSnapshot" /\ head = <<4>>
      \/ type = "S2C_CombatEvent" /\ head = <<1, 4, 1>>
      \/ type = "S2C_EnemyPathDebug" /\ head = <<4, 4, 4, 4>>
  BY <1>1 DEF Codec!Packets
<1>3. 1 \in Fields /\ 2 \in Fields /\ 4 \in Fields
  BY DEF Fields
<1> HIDE DEF head
<1>4. head \in Seq(Fields) /\ Len(head) # 0
  <2>1. /\ <<2>> \in Seq(Fields) /\ <<4, 1, 1>> \in Seq(Fields) /\ <<2, 4>> \in Seq(Fields)
        /\ <<4>> \in Seq(Fields) /\ <<1, 4, 1>> \in Seq(Fields) /\ <<4, 4, 4, 4>> \in Seq(Fields)
    BY <1>3
  <2>2. /\ Len(<<2>>) # 0 /\ Len(<<4, 1, 1>>) # 0 /\ Len(<<2, 4>>) # 0
        /\ Len(<<4>>) # 0 /\ Len(<<1, 4, 1>>) # 0 /\ Len(<<4, 4, 4, 4>>) # 0
    OBVIOUS
  <2> QED
    BY <1>2, <2>1, <2>2, Zenon
<1>5. Codec!CountWidths(type) \in Seq(Fields)
  BY <1>1, <1>3 DEF Codec!CountWidths
<1>6. \/ Codec!CountWidths(type) = <<>>
      \/ type = "S2C_WorldSnapshot" /\ Codec!CountWidths(type) = <<4>>
      \/ type = "S2C_EnemyPathDebug" /\ Codec!CountWidths(type) = <<1>>
  BY <1>1 DEF Codec!CountWidths
<1>7. Codec!ItemWidths(type) \in Seq(Fields) /\ Len(Codec!ItemWidths(type)) # 0
  BY <1>1, <1>3 DEF Codec!ItemWidths
<1>8. \A i \in Codec!SignedInHead(type) : head[i] = 4
  BY <1>2 DEF Codec!SignedInHead
<1>9. \A i \in Codec!SignedInItem(type) : Codec!ItemWidths(type)[i] = 4
  BY <1>2 DEF Codec!SignedInItem, Codec!ItemWidths
<1> QED
  BY <1>4, <1>5, <1>6, <1>7, <1>8, <1>9 DEF head

\* What fits is read as it was meant, signs included (Read32).
LEMMA WhatFitsIsRead ==
  ASSUME NEW widths \in Seq(Fields), NEW values, NEW signed, Codec!Fits(values, widths, signed),
         \A i \in signed : widths[i] = 4
  PROVE  /\ values \in Seq(Int) /\ Len(values) = Len(widths)
         /\ Codec!WithSigns(Rest(values, widths), signed) = values
         /\ \A i \in 1 .. Len(widths) : i \notin signed => Rest(values, widths)[i] = values[i]
<1> DEFINE L == Len(widths)
           V(i) == Codec!Values(widths[i])
           r == Rest(values, widths)
<1>1. /\ L \in Nat /\ DOMAIN widths = 1 .. L
      /\ \A i \in 1 .. L : widths[i] \in Fields /\ V(i) \in Nat \ {0}
  BY LenProperties, ElementOfSeq, BaseFacts
<1>2. /\ values \in Seq(Int) /\ Len(values) = L
      /\ \A i \in 1 .. L : values[i] \in Int
      /\ \A i \in 1 .. L :
           (IF i \in signed THEN values[i] + V(i) \div 2 ELSE values[i]) \in 0 .. V(i) - 1
  <2>1. values \in Seq(Int) /\ Len(values) = L
    BY DEF Codec!Fits
  <2>2. \A i \in 1 .. L : values[i] \in Int
    BY <2>1, ElementOfSeq
  <2>3. \A i \in 1 .. L :
           (IF i \in signed THEN values[i] + V(i) \div 2 ELSE values[i]) \in 0 .. V(i) - 1
    BY <1>1 DEF Codec!Fits
  <2> QED
    BY <2>1, <2>2, <2>3
<1>3. \A i \in 1 .. L : r[i] = values[i] % V(i)
  BY DEF Rest
<1>4. r = [i \in 1 .. L |-> r[i]]
  BY DEF Rest
<1> HIDE DEF r, L, V
<1>5. ASSUME NEW i \in 1 .. L, i \notin signed PROVE r[i] = values[i]
  <2>1. values[i] \in 0 .. V(i) - 1 /\ V(i) \in Nat \ {0}
    BY <1>1, <1>2, <1>5
  <2> QED
    BY <1>3, <2>1, SmallIsItself
<1>6. ASSUME NEW i \in 1 .. L, i \in signed PROVE Codec!Signed(r[i]) = values[i]
  <2> DEFINE n == values[i]
             v == Codec!Values(4)
             h == v \div 2
  <2>1. V(i) = v /\ v \in Nat \ {0} /\ n \in Int
    BY <1>1, <1>2, <1>6 DEF V
  <2>2. h \in Nat /\ v = h + h
    <3> DEFINE b == Base \div 2
               c == Base * (Base * Base)
    <3>1. Base \in Nat /\ Base % 2 = 0 /\ Base * Base \in Nat
      BY BaseFacts, PartsAssumption DEF Codec!CodecAssumption
    <3>2. b \in Nat /\ Base = 2 * b
      BY <3>1
    <3>3. c \in Nat
      <4> DEFINE BB == Base * Base
      <4> HIDE DEF BB
      <4>1. BB \in Nat => Base * BB \in Nat
        BY <3>1
      <4> QED
        BY <3>1, <4>1 DEF BB
    <3>4. v = Base * c
      <4>1. v = (Base * Base) * (Base * Base)
        BY BaseFacts
      <4>2. (Base * Base) * (Base * Base) = Base * (Base * (Base * Base))
        BY <3>1
      <4> QED
        BY <4>1, <4>2
    <3> HIDE DEF b, c, v
    <3>5. b * c \in Nat
      BY <3>2, <3>3
    <3>6. v = 2 * (b * c)
      BY <3>2, <3>3, <3>4
    <3> DEFINE z == b * c
    <3> HIDE DEF z
    <3>7. z \in Nat /\ v = 2 * z
      BY <3>5, <3>6 DEF z
    <3>8. h = z
      BY <3>7
    <3> QED
      BY <3>7, <3>8
  <2> HIDE DEF h
  <2>3. n + h \in 0 .. v - 1
    BY <1>2, <1>6, <2>1 DEF h
  <2>4. r[i] = n % v
    BY <1>3, <2>1
  <2>5. Codec!Signed(r[i]) = IF r[i] < h THEN r[i] ELSE r[i] - v
    BY DEF Codec!Signed, h
  <2> HIDE DEF n, v
  <2>6. CASE n >= 0
    <3>1. n \in 0 .. v - 1 /\ n < h
      BY <2>1, <2>2, <2>3, <2>6
    <3>2. n % v = n
      BY <2>1, <3>1, SmallIsItself
    <3> QED
      BY <2>4, <2>5, <3>1, <3>2 DEF n
  <2>7. CASE n < 0
    <3> DEFINE q == 0 - 1
    <3>1. n \div v = q
      <4>1. q * v <= n /\ n < q * v + v /\ q \in Int
        BY <2>1, <2>2, <2>3, <2>7
      <4> HIDE DEF q
      <4> QED
        BY <2>1, <4>1, Division
    <3>2. n % v = n + v
      <4>1. n % v = n - (n \div v) * v
        BY <2>1, Division
      <4> QED
        BY <2>1, <3>1, <4>1
    <3>3. ~(n + v < h) /\ (n + v) - v = n
      BY <2>1, <2>2, <2>3
    <3> QED
      BY <2>4, <2>5, <3>2, <3>3 DEF n
  <2> QED
    BY <2>1, <2>6, <2>7
<1>7. Codec!WithSigns(r, signed) = values
  <2> DEFINE w == Codec!WithSigns(r, signed)
  <2>1. w = [i \in 1 .. L |-> IF i \in signed THEN Codec!Signed(r[i]) ELSE r[i]]
    BY <1>4 DEF Codec!WithSigns
  <2>2. \A i \in 1 .. L : w[i] = values[i]
    BY <1>5, <1>6, <2>1
  <2>3. w = [i \in 1 .. L |-> values[i]]
    BY <1>5, <1>6, <2>1
  <2>4. values = [i \in 1 .. L |-> values[i]]
    BY <1>2, LenProperties
  <2> HIDE DEF w
  <2> QED
    BY <2>3, <2>4 DEF w
<1> QED
  BY <1>2, <1>5, <1>7 DEF r, L

\* What a message says before its items, and whom it tells nothing.
FixedOf(m) == m.head \o [i \in DOMAIN Codec!CountWidths(m.type) |-> Len(m.items)]
IsForeign(m) == m.type \in {"C2S_Enter", "S2C_Enter"} /\ m.head[1] # ProtocolVersion
Answer(m) == IF IsForeign(m) THEN Codec!Refused ELSE m

LEMMA MessageFacts ==
  ASSUME NEW m \in Messages
  PROVE  /\ m = [type |-> m.type, head |-> m.head, items |-> m.items]
         /\ m.type \in DOMAIN Codec!Packets
         /\ Codec!Fits(m.head, Codec!Packets[m.type].head, Codec!SignedInHead(m.type))
         /\ m.items \in Seq(Seq(Int)) /\ Len(m.items) \in Nat
         /\ \A i \in 1 .. Len(m.items) :
              Codec!Fits(m.items[i], Codec!ItemWidths(m.type), Codec!SignedInItem(m.type))
         /\ Codec!CountWidths(m.type) = <<>> => m.items = <<>>
         /\ Codec!IsValid(m.type, m.head, m.items) /\ Codec!HasIds(m)
<1>1. Codec!IsMessage(m)
  BY PartsAssumption DEF Codec!CodecAssumption
<1>2. m.items \in Seq(Seq(Int))
  BY <1>1 DEF Codec!IsMessage
<1>3. Len(m.items) \in Nat /\ DOMAIN m.items = 1 .. Len(m.items)
  BY <1>2, LenProperties
<1> QED
  BY <1>1, <1>2, <1>3 DEF Codec!IsMessage

LEMMA FixedFacts ==
  ASSUME NEW m \in Messages
  PROVE  /\ Codec!FixedWidths(m.type) \in Seq(Fields)
         /\ FixedOf(m) \in Seq(Int)
         /\ LET widths == Codec!Packets[m.type].head
                counts == Codec!CountWidths(m.type)
                n == Len(widths)
            IN /\ n \in Nat \ {0} /\ Len(m.head) = n
               /\ Len(Codec!FixedWidths(m.type)) = n + Len(counts)
               /\ Len(FixedOf(m)) = n + Len(counts)
               /\ \A i \in 1 .. n : /\ Codec!FixedWidths(m.type)[i] = widths[i]
                                    /\ FixedOf(m)[i] = m.head[i]
               /\ Len(counts) = 1 => /\ Codec!FixedWidths(m.type)[n + 1] = counts[1]
                                     /\ FixedOf(m)[n + 1] = Len(m.items)
<1> DEFINE widths == Codec!Packets[m.type].head
           counts == Codec!CountWidths(m.type)
           n == Len(widths)
           c == [i \in DOMAIN counts |-> Len(m.items)]
           fw == Codec!FixedWidths(m.type)
           fo == FixedOf(m)
<1>1. /\ widths \in Seq(Fields) /\ n # 0 /\ counts \in Seq(Fields)
      /\ \A i \in Codec!SignedInHead(m.type) : widths[i] = 4
  BY MessageFacts, TypeFacts
<1>2. m.head \in Seq(Int) /\ Len(m.head) = n
  <2>1. Codec!Fits(m.head, widths, Codec!SignedInHead(m.type))
    BY MessageFacts
  <2> HIDE DEF widths, counts
  <2> QED
    BY <1>1, <2>1, WhatFitsIsRead
<1>3. Len(counts) \in Nat /\ DOMAIN counts = 1 .. Len(counts) /\ n \in Nat
  BY <1>1, LenProperties
<1>4. c \in Seq(Int) /\ Len(c) = Len(counts) /\ \A i \in 1 .. Len(counts) : c[i] = Len(m.items)
  <2>1. Len(m.items) \in Int
    BY MessageFacts
  <2> QED
    BY <1>3, <2>1
<1>5. fw = widths \o counts /\ fo = m.head \o c
  BY DEF Codec!FixedWidths, FixedOf
<1> HIDE DEF c, fw, fo, counts, widths
<1>6. /\ fw \in Seq(Fields) /\ Len(fw) = n + Len(counts)
      /\ \A i \in 1 .. n + Len(counts) : fw[i] = IF i <= n THEN widths[i] ELSE counts[i - n]
  BY <1>1, <1>5, ConcatProperties
<1>7. /\ fo \in Seq(Int) /\ Len(fo) = n + Len(counts)
      /\ \A i \in 1 .. n + Len(counts) : fo[i] = IF i <= n THEN m.head[i] ELSE c[i - n]
  <2> DEFINE h == m.head
  <2>1. h \in Seq(Int) /\ Len(h) = n /\ fo = h \o c
    BY <1>2, <1>5
  <2> HIDE DEF h, n
  <2>2. /\ h \o c \in Seq(Int) /\ Len(h \o c) = Len(h) + Len(c)
        /\ \A i \in 1 .. Len(h) + Len(c) :
              (h \o c)[i] = IF i <= Len(h) THEN h[i] ELSE c[i - Len(h)]
    <3>1. h \in Seq(Int) /\ c \in Seq(Int)
      BY <1>4, <2>1
    <3> QED
      BY <3>1, ConcatProperties, ZenonT(30)
  <2>3. /\ fo \in Seq(Int) /\ Len(fo) = n + Len(counts)
        /\ \A i \in 1 .. n + Len(counts) : fo[i] = IF i <= n THEN h[i] ELSE c[i - n]
    BY <1>4, <2>1, <2>2
  <2> QED
    BY <2>3 DEF h
<1> HIDE DEF n
<1>8. \A i \in 1 .. n : fw[i] = widths[i] /\ fo[i] = m.head[i]
  <2>1. \A i \in 1 .. n : i \in 1 .. n + Len(counts) /\ i <= n
    BY <1>3
  <2> QED
    BY <1>6, <1>7, <2>1
<1>9. ASSUME Len(counts) = 1 PROVE fw[n + 1] = counts[1] /\ fo[n + 1] = Len(m.items)
  <2>1. n + 1 \in 1 .. n + Len(counts) /\ ~(n + 1 <= n) /\ (n + 1) - n = 1 /\ 1 \in 1 .. Len(counts)
    BY <1>3, <1>9
  <2> QED
    BY <1>4, <1>6, <1>7, <2>1
<1> QED
  BY <1>1, <1>2, <1>3, <1>6, <1>7, <1>8, <1>9 DEF n, widths, counts, fw, fo

\* A payload is its fixed fields and its items, and is read as both.
LEMMA PayloadFacts ==
  ASSUME NEW m \in Messages
  PROVE  LET payload == Codec!PayloadOf(m)
             first == Codec!Sum(Codec!FixedWidths(m.type))
             size == Codec!Sum(Codec!ItemWidths(m.type))
         IN /\ payload \in Seq(Int) /\ first \in Nat /\ size \in Nat /\ first # 0 /\ size # 0
            /\ Len(payload) = first + Len(m.items) * size
            /\ Codec!ReadAll(payload, Codec!FixedWidths(m.type))
                 = Rest(FixedOf(m), Codec!FixedWidths(m.type))
            /\ \A i \in 1 .. Len(m.items) :
                 Codec!ReadAll(SubSeq(payload, first + (i - 1) * size + 1, first + i * size),
                               Codec!ItemWidths(m.type))
                   = Rest(m.items[i], Codec!ItemWidths(m.type))
<1> DEFINE fw == Codec!FixedWidths(m.type)
           fo == FixedOf(m)
           iw == Codec!ItemWidths(m.type)
           front == Codec!WriteAll(fo, fw)
           flat == Codec!FlattenSeq([i \in 1 .. Len(m.items) |-> Codec!WriteAll(m.items[i], iw)])
           first == Codec!Sum(fw)
           size == Codec!Sum(iw)
<1>1. /\ fw \in Seq(Fields) /\ fo \in Seq(Int) /\ Len(fo) = Len(fw) /\ Len(fw) # 0
  <2>1. /\ fw \in Seq(Fields) /\ fo \in Seq(Int) /\ Len(fo) = Len(fw)
    BY FixedFacts
  <2>2. Len(Codec!CountWidths(m.type)) \in Nat
    BY MessageFacts, TypeFacts, LenProperties
  <2> DEFINE n == Len(Codec!Packets[m.type].head)
  <2>3. n \in Nat \ {0} /\ Len(fw) = n + Len(Codec!CountWidths(m.type))
    BY FixedFacts
  <2> HIDE DEF n
  <2>4. Len(fw) # 0
    BY <2>2, <2>3
  <2> QED
    BY <2>1, <2>4
<1>2. /\ iw \in Seq(Fields) /\ Len(iw) # 0
      /\ m.items \in Seq(Seq(Int)) /\ \A i \in 1 .. Len(m.items) : Len(m.items[i]) = Len(iw)
  BY MessageFacts, TypeFacts, WhatFitsIsRead
<1>3. \A i \in 1 .. Len(fw) : fo[i] \in Int
  BY <1>1, ElementOfSeq
<1>4. Codec!PayloadOf(m) = front \o flat
  BY DEF Codec!PayloadOf, FixedOf
<1> HIDE DEF fw, fo, iw
<1>5. <<>> \in Seq(Int)
  BY EmptySeq
<1>6. front \in Seq(Int) /\ first \in Nat /\ Len(front) = first /\ first # 0
  BY <1>1, <1>3, <1>5, FieldsAreRead
<1>7. /\ flat \in Seq(Int) /\ size \in Nat /\ Len(flat) = Len(m.items) * size
      /\ \A i \in 1 .. Len(m.items) :
           Codec!ReadAll(SubSeq(front \o flat, Len(front) + (i - 1) * size + 1,
                                               Len(front) + i * size), iw)
             = Rest(m.items[i], iw)
  <2>1. m.items \in Seq(Seq(Int)) /\ front \in Seq(Int)
    BY <1>2, <1>6
  <2> DEFINE its == m.items
  <2>2. flat = ItemsOf(its, iw)
    BY DEF ItemsOf
  <2> HIDE DEF its, flat, front
  <2>3. /\ ItemsOf(its, iw) \in Seq(Int) /\ Codec!Sum(iw) \in Nat
        /\ Len(ItemsOf(its, iw)) = Len(its) * Codec!Sum(iw)
        /\ \A i \in 1 .. Len(its) :
             Codec!ReadAll(SubSeq(front \o ItemsOf(its, iw),
                                  Len(front) + (i - 1) * Codec!Sum(iw) + 1,
                                  Len(front) + i * Codec!Sum(iw)), iw)
               = Rest(its[i], iw)
    <3>1. /\ its \in Seq(Seq(Int)) /\ Len(iw) # 0 /\ front \in Seq(Int) /\ iw \in Seq(Fields)
          /\ \A i \in 1 .. Len(its) : Len(its[i]) = Len(iw)
      BY <1>2, <2>1 DEF its
    <3> QED
      BY <3>1, ItemsAreRead
  <2> QED
    BY <2>2, <2>3 DEF its
<1>8. Codec!ReadAll(front \o flat, fw) = Rest(fo, fw)
  BY <1>1, <1>3, <1>7, FieldsAreRead
<1>9. size # 0
  <2> DEFINE zeros == [i \in 1 .. Len(iw) |-> 0]
  <2>1. \A i \in 1 .. Len(iw) : zeros[i] \in Int
    OBVIOUS
  <2> HIDE DEF zeros
  <2> QED
    BY <1>2, <1>5, <2>1, FieldsAreRead
<1> HIDE DEF front, flat
<1>10. front \o flat \in Seq(Int) /\ Len(front \o flat) = first + Len(m.items) * size
  BY <1>6, <1>7, ConcatProperties
<1> QED
  BY <1>4, <1>6, <1>7, <1>8, <1>9, <1>10 DEF fw, fo, iw

\* Is not larger than a packet.
FitsPacket(m) ==
  Codec!Sum(Codec!HeaderWidths) + Len(Codec!PayloadOf(m)) <= MaxPacketSize

\* What is asked of a message may be asked of its fields as they are read: none of
\* those it is asked of is signed.
LEMMA ValidAsRead ==
  ASSUME NEW m \in Messages, NEW head, NEW items, DOMAIN items = DOMAIN m.items,
         \A i \in 1 .. Len(m.head) : i \notin Codec!SignedInHead(m.type) => head[i] = m.head[i],
         \A i \in DOMAIN m.items : \A j \in 1 .. Len(Codec!ItemWidths(m.type)) :
             j \notin Codec!SignedInItem(m.type) => items[i][j] = m.items[i][j]
  PROVE  /\ Len(items) = Len(m.items) => Codec!IsValid(m.type, head, items)
         /\ m.type \in {"C2S_Enter", "S2C_Enter"} => head[1] = m.head[1]
<1>1. Codec!IsValid(m.type, m.head, m.items) /\ m.type \in DOMAIN Codec!Packets
      /\ Len(m.head) = Len(Codec!Packets[m.type].head)
  BY MessageFacts, FixedFacts
<1>2. CASE m.type = "C2S_Enter"
  <2>1. Len(m.head) = 1 /\ Codec!SignedInHead(m.type) = {}
    BY <1>1, <1>2 DEF Codec!Packets, Codec!SignedInHead
  <2>2. head[1] = m.head[1]
    BY <2>1
  <2> QED
    BY <1>2, <2>2 DEF Codec!IsValid
<1>3. CASE m.type = "C2S_Input"
  <2>1. Len(m.head) = 3 /\ Codec!SignedInHead(m.type) = {}
    BY <1>1, <1>3 DEF Codec!Packets, Codec!SignedInHead
  <2>2. head[2] = m.head[2] /\ head[3] = m.head[3]
    BY <2>1
  <2> QED
    BY <1>1, <1>3, <2>2 DEF Codec!IsValid
<1>4. CASE m.type = "S2C_Enter"
  <2>1. Len(m.head) = 2 /\ Codec!SignedInHead(m.type) = {}
    BY <1>1, <1>4 DEF Codec!Packets, Codec!SignedInHead
  <2>2. head[1] = m.head[1] /\ head[2] = m.head[2]
    BY <2>1
  <2> QED
    BY <1>1, <1>4, <2>2 DEF Codec!IsValid
<1>5. CASE m.type = "S2C_WorldSnapshot"
  <2>1. \A i \in DOMAIN m.items : Codec!IsValidActor(m.items[i])
    BY <1>1, <1>5 DEF Codec!IsValid
  <2>2. Len(Codec!ItemWidths(m.type)) = 7 /\ Codec!SignedInItem(m.type) = {2}
    BY <1>5 DEF Codec!ItemWidths, Codec!SignedInItem
  <2>3. \A i \in DOMAIN m.items :
          items[i][5] = m.items[i][5] /\ items[i][6] = m.items[i][6] /\ items[i][7] = m.items[i][7]
    BY <2>2
  <2>4. \A i \in DOMAIN m.items : Codec!IsValidActor(items[i])
    BY <2>1, <2>3 DEF Codec!IsValidActor
  <2> QED
    BY <1>5, <2>4 DEF Codec!IsValid
<1>6. CASE m.type = "S2C_CombatEvent"
  <2>1. Len(m.head) = 3 /\ Codec!SignedInHead(m.type) = {}
    BY <1>1, <1>6 DEF Codec!Packets, Codec!SignedInHead
  <2>2. head[1] = m.head[1] /\ head[3] = m.head[3]
    BY <2>1
  <2> QED
    BY <1>1, <1>6, <2>2 DEF Codec!IsValid
<1>7. CASE m.type = "S2C_EnemyPathDebug"
  <2>1. Len(m.items) <= RoomTiles /\ \A i \in DOMAIN m.items : m.items[i][1] < RoomTiles
    BY <1>1, <1>7 DEF Codec!IsValid
  <2>2. Len(Codec!ItemWidths(m.type)) = 1 /\ Codec!SignedInItem(m.type) = {}
    BY <1>7 DEF Codec!ItemWidths, Codec!SignedInItem
  <2>3. \A i \in DOMAIN m.items : items[i][1] = m.items[i][1]
    BY <2>2
  <2> QED
    BY <1>7, <2>1, <2>3 DEF Codec!IsValid
<1> QED
  BY <1>1, <1>2, <1>3, <1>4, <1>5, <1>6, <1>7 DEF Codec!Packets

\* How many items there are is read, where it is told.
LEMMA CountIsRead ==
  ASSUME NEW m \in Messages, FitsPacket(m), Len(Codec!CountWidths(m.type)) = 1
  PROVE  Len(m.items) % Codec!Values(Codec!CountWidths(m.type)[1]) = Len(m.items)
<1> DEFINE N == Len(m.items)
           BB == Base * Base
<1>1. N \in Nat
  BY MessageFacts
<1>2. CASE m.type = "S2C_WorldSnapshot"
  <2>1. Codec!CountWidths(m.type)[1] = 4
    BY <1>2 DEF Codec!CountWidths
  <2>2. BB \in Nat \ {0} /\ Codec!Values(4) = BB * BB
    BY BaseFacts
  <2>3. MaxPacketSize < BB /\ MaxPacketSize \in Nat
    BY PartsAssumption DEF Codec!CodecAssumption
  <2> DEFINE first == Codec!Sum(Codec!FixedWidths(m.type))
             size == Codec!Sum(Codec!ItemWidths(m.type))
             h == Codec!Sum(Codec!HeaderWidths)
  <2>4. /\ first \in Nat /\ size \in Nat /\ size # 0
        /\ Len(Codec!PayloadOf(m)) = first + N * size
    BY PayloadFacts
  <2>5. h \in Nat
    <3>1. Codec!HeaderWidths \in Seq(Nat)
      BY DEF Codec!HeaderWidths
    <3>2. Len(Codec!HeaderWidths) \in Nat
      BY <3>1, LenProperties
    <3> QED
      BY <3>1, <3>2, OffsetsAdd DEF Codec!Sum
  <2>6. h + (first + N * size) <= MaxPacketSize
    BY <2>4 DEF FitsPacket
  <2> HIDE DEF first, size, h, N, BB
  <2>7. N * size \in Nat /\ N <= N * size
    <3>1. N * (size - 1) >= 0
      BY <1>1, <2>4
    <3>2. N * size = N * (size - 1) + N
      BY <1>1, <2>4
    <3>3. N * size \in Int /\ N * (size - 1) \in Int
      BY <1>1, <2>4
    <3> QED
      BY <1>1, <3>1, <3>2, <3>3
  <2>8. N < BB
    <3> DEFINE p == N * size
    <3>1. p \in Nat /\ N <= p /\ h + (first + p) <= MaxPacketSize
      BY <2>6, <2>7
    <3> HIDE DEF p
    <3> QED
      BY <1>1, <2>2, <2>3, <2>4, <2>5, <3>1
  <2>9. BB * BB \in Nat \ {0} /\ BB <= BB * BB
    <3>1. BB * (BB - 1) >= 0 /\ BB * BB = BB * (BB - 1) + BB
      BY <2>2
    <3>2. BB * BB \in Int /\ BB * (BB - 1) \in Int
      BY <2>2
    <3> QED
      BY <2>2, <3>1, <3>2
  <2> DEFINE V == BB * BB
  <2>10. V \in Nat \ {0} /\ N \in 0 .. V - 1
    <3>1. V \in Nat \ {0} /\ BB <= V
      BY <2>9
    <3> HIDE DEF V
    <3> QED
      BY <1>1, <2>2, <2>8, <3>1
  <2>11. Codec!Values(4) = V
    BY <2>2
  <2> HIDE DEF V
  <2> QED
    BY <2>1, <2>10, <2>11, SmallIsItself DEF N
<1>3. CASE m.type = "S2C_EnemyPathDebug"
  <2>1. Codec!CountWidths(m.type)[1] = 1
    BY <1>3 DEF Codec!CountWidths
  <2>2. N <= RoomTiles
    BY <1>3, MessageFacts DEF Codec!IsValid
  <2>3. RoomTiles \in Nat /\ RoomTiles < Base
    BY PartsAssumption DEF Codec!CodecAssumption
  <2>4. Base \in Nat \ {0} /\ Codec!Values(1) = Base
    BY BaseFacts
  <2>5. N \in 0 .. Base - 1
    BY <1>1, <2>2, <2>3, <2>4
  <2> HIDE DEF N
  <2> QED
    BY <2>1, <2>4, <2>5, SmallIsItself DEF N
<1>4. Codec!CountWidths(m.type) # <<>>
  <2>1. Len(<<>>) = 0 /\ ~(0 = 1)
    OBVIOUS
  <2> QED
    BY <2>1, Zenon
<1> QED
  BY <1>2, <1>3, <1>4 DEF Codec!CountWidths

\* The payload of a message is understood as it was meant.
LEMMA PayloadIsUnderstood ==
  ASSUME NEW m \in Messages, FitsPacket(m)
  PROVE  Codec!Parse(m.type, Codec!PayloadOf(m)) = Answer(m)
<1> DEFINE t == m.type
           payload == Codec!PayloadOf(m)
           hw == Codec!Packets[t].head
           cw == Codec!CountWidths(t)
           iw == Codec!ItemWidths(t)
           fw == Codec!FixedWidths(t)
           n == Len(hw)
           N == Len(m.items)
           first == Codec!Sum(fw)
           size == Codec!Sum(iw)
           values == Codec!ReadAll(payload, fw)
           head == SubSeq(values, 1, n)
           count == IF cw = <<>> THEN 0 ELSE values[n + 1]
           items == [i \in 1 .. count |->
                       Codec!ReadAll(SubSeq(payload, first + (i - 1) * size + 1,
                                                     first + i * size), iw)]
<1>1. /\ hw \in Seq(Fields) /\ cw \in Seq(Fields) /\ iw \in Seq(Fields) /\ fw \in Seq(Fields)
      /\ \A i \in Codec!SignedInHead(t) : hw[i] = 4
      /\ \A i \in Codec!SignedInItem(t) : iw[i] = 4
      /\ cw = <<>> \/ Len(cw) = 1
  <2>1. Len(<<4>>) = 1 /\ Len(<<1>>) = 1
    OBVIOUS
  <2>2. t \in DOMAIN Codec!Packets
    BY MessageFacts
  <2>3. cw = <<>> \/ Len(cw) = 1
    BY <2>1, <2>2, TypeFacts
  <2>4. fw \in Seq(Fields)
    BY FixedFacts
  <2> QED
    BY <2>2, <2>3, <2>4, TypeFacts
<1>2. /\ n \in Nat \ {0} /\ Len(m.head) = n /\ N \in Nat /\ Len(fw) = n + Len(cw)
      /\ \A i \in 1 .. n : fw[i] = hw[i] /\ FixedOf(m)[i] = m.head[i]
      /\ Len(cw) = 1 => fw[n + 1] = cw[1] /\ FixedOf(m)[n + 1] = N
  BY FixedFacts, MessageFacts
<1>3. /\ values = Rest(FixedOf(m), fw) /\ first \in Nat /\ size \in Nat
      /\ Len(payload) = first + N * size
      /\ \A i \in 1 .. N :
           Codec!ReadAll(SubSeq(payload, first + (i - 1) * size + 1, first + i * size), iw)
             = Rest(m.items[i], iw)
  BY PayloadFacts
<1>4. Len(cw) \in Nat /\ (cw = <<>> => Len(cw) = 0)
  <2>1. Len(<<>>) = 0
    OBVIOUS
  <2> QED
    BY <1>1, <2>1, LenProperties
<1>5. /\ m.head \in Seq(Int)
      /\ Codec!WithSigns(Rest(m.head, hw), Codec!SignedInHead(t)) = m.head
      /\ \A i \in 1 .. n : i \notin Codec!SignedInHead(t) => Rest(m.head, hw)[i] = m.head[i]
  <2>1. Codec!Fits(m.head, hw, Codec!SignedInHead(t))
    BY MessageFacts
  <2> HIDE DEF hw
  <2> QED
    BY <1>1, <2>1, WhatFitsIsRead, SMTT(30)
<1>6. \A i \in 1 .. N :
         /\ Codec!WithSigns(Rest(m.items[i], iw), Codec!SignedInItem(t)) = m.items[i]
         /\ \A j \in 1 .. Len(iw) : j \notin Codec!SignedInItem(t)
                                      => Rest(m.items[i], iw)[j] = m.items[i][j]
  <2>1. \A i \in 1 .. N : Codec!Fits(m.items[i], iw, Codec!SignedInItem(t))
    BY MessageFacts
  <2> HIDE DEF iw
  <2> QED
    BY <1>1, <2>1, WhatFitsIsRead, SMTT(30)
<1>7. /\ \A i \in 1 .. n : values[i] = m.head[i] % Codec!Values(hw[i])
      /\ Len(cw) = 1 => values[n + 1] = N
  <2>1. \A i \in 1 .. n + Len(cw) : values[i] = FixedOf(m)[i] % Codec!Values(fw[i])
    BY <1>2, <1>3 DEF Rest
  <2>2. \A i \in 1 .. n : i \in 1 .. n + Len(cw)
    <3> DEFINE k == Len(cw)
    <3>1. n \in Nat /\ k \in Nat
      BY <1>2, <1>4
    <3> HIDE DEF n, k
    <3>2. \A i \in 1 .. n : i \in 1 .. n + k
      BY <3>1
    <3> QED
      BY <3>2 DEF k
  <2>3. \A i \in 1 .. n : values[i] = m.head[i] % Codec!Values(hw[i])
    <3> HIDE DEF values, n, cw, fw, hw
    <3> QED
      BY <1>2, <2>1, <2>2
  <2>4. ASSUME Len(cw) = 1 PROVE values[n + 1] = N
    <3>1. n + 1 \in 1 .. n + Len(cw)
      BY <1>2, <2>4
    <3>2. values[n + 1] = N % Codec!Values(cw[1])
      <4> HIDE DEF values, n, cw, fw, hw
      <4> QED
        BY <1>2, <2>1, <2>4, <3>1
    <3>3. N % Codec!Values(cw[1]) = N
      BY <2>4, CountIsRead
    <3> QED
      BY <3>2, <3>3
  <2> QED
    BY <2>3, <2>4
<1>8. head = Rest(m.head, hw)
  <2> DEFINE r == Rest(m.head, hw)
  <2>1. \A i \in 1 .. n : m.head[i] % Codec!Values(hw[i]) \in Int
    <3> SUFFICES ASSUME NEW i \in 1 .. n PROVE m.head[i] % Codec!Values(hw[i]) \in Int
      OBVIOUS
    <3>1. m.head[i] \in Int /\ hw[i] \in Fields
      BY <1>1, <1>2, <1>5, ElementOfSeq
    <3>2. Codec!Values(hw[i]) \in Nat \ {0}
      BY <3>1, BaseFacts
    <3> DEFINE d == Codec!Values(hw[i])
    <3> HIDE DEF d, hw
    <3> QED
      BY <3>1, <3>2, Division DEF d
  <2>2. r \in Seq(Int) /\ Len(r) = n /\ \A i \in 1 .. n : r[i] = m.head[i] % Codec!Values(hw[i])
    <3>1. r = [i \in 1 .. n |-> m.head[i] % Codec!Values(hw[i])]
      BY DEF Rest
    <3> HIDE DEF r, hw, n
    <3> QED
      BY <1>2, <2>1, <3>1
  <2>3. \A i \in 1 .. n : values[i] \in Int
    BY <1>7, <2>1
  <2> HIDE DEF values, n, r
  <2>4. /\ head \in Seq(Int) /\ Len(head) = (IF 1 <= n THEN n - 1 + 1 ELSE 0)
        /\ \A i \in 1 .. n - 1 + 1 : head[i] = values[1 + i - 1]
    <3>1. 1 \in Int /\ n \in Int
      BY <1>2
    <3> QED
      BY <2>3, <3>1, SubSeqProperties
  <2> HIDE DEF head
  <2>5. Len(head) = n /\ \A i \in 1 .. n : head[i] = values[i]
    <3>1. 1 <= n /\ n - 1 + 1 = n /\ \A i \in 1 .. n : 1 + i - 1 = i
      BY <1>2
    <3> QED
      BY <2>4, <3>1
  <2>6. \A i \in 1 .. n : head[i] = r[i]
    BY <1>7, <2>2, <2>5
  <2> QED
    BY <2>2, <2>4, <2>5, <2>6, SeqEqual DEF r
<1>9. count = N
  <2>1. CASE cw = <<>>
    <3>1. m.items = <<>>
      BY <2>1, MessageFacts
    <3> QED
      BY <2>1, <3>1
  <2>2. CASE cw # <<>>
    <3>1. Len(cw) = 1
      BY <1>1, <2>2
    <3> HIDE DEF values, cw
    <3> QED
      BY <1>7, <2>2, <3>1
  <2> QED
    BY <2>1, <2>2
<1>10. items = [i \in 1 .. N |-> Rest(m.items[i], iw)]
  <2> HIDE DEF count
  <2> QED
    BY <1>3, <1>9
<1>11. m.items \in Seq(Seq(Int)) /\ DOMAIN m.items = 1 .. N
  BY MessageFacts, LenProperties
<1> HIDE DEF items, head, count, values
<1>12. DOMAIN items = DOMAIN m.items /\ Len(items) = Len(m.items)
  BY <1>2, <1>10, <1>11
<1>13. Codec!IsValid(t, head, items) /\ (t \in {"C2S_Enter", "S2C_Enter"} => head[1] = m.head[1])
  <2>1. \A i \in 1 .. Len(m.head) : i \notin Codec!SignedInHead(m.type) => head[i] = m.head[i]
    BY <1>2, <1>5, <1>8
  <2>2. \A i \in DOMAIN m.items : \A j \in 1 .. Len(Codec!ItemWidths(m.type)) :
          j \notin Codec!SignedInItem(m.type) => items[i][j] = m.items[i][j]
    BY <1>6, <1>10, <1>11
  <2> HIDE DEF t, payload, hw, cw, iw, fw, n, N, first, size
  <2>3. /\ Len(items) = Len(m.items) => Codec!IsValid(m.type, head, items)
        /\ m.type \in {"C2S_Enter", "S2C_Enter"} => head[1] = m.head[1]
    <3>1. DOMAIN items = DOMAIN m.items
      BY <1>12
    <3> QED
      BY <2>1, <2>2, <3>1, ValidAsRead
  <2>4. Codec!IsValid(m.type, head, items)
    BY <1>12, <2>3
  <2> QED
    BY <2>3, <2>4 DEF t
<1>14. Codec!Typed(t, head, items) = m
  <2>1. Codec!WithSigns(head, Codec!SignedInHead(t)) = m.head
    BY <1>5, <1>8
  <2>2. [i \in DOMAIN items |-> Codec!WithSigns(items[i], Codec!SignedInItem(t))] = m.items
    <3>1. \A i \in 1 .. N : Codec!WithSigns(items[i], Codec!SignedInItem(t)) = m.items[i]
      BY <1>6, <1>10
    <3>2. m.items = [i \in 1 .. N |-> m.items[i]]
      BY <1>11, LenProperties
    <3> QED
      BY <1>11, <1>12, <3>1, <3>2
  <2>3. m = [type |-> m.type, head |-> m.head, items |-> m.items]
    BY MessageFacts
  <2> QED
    BY <2>1, <2>2, <2>3 DEF Codec!Typed
<1>15. Len(payload) >= first /\ Len(payload) = first + count * size
  <2>1. N * size \in Nat
    BY <1>2, <1>3
  <2> QED
    BY <1>3, <1>9, <2>1
<1>16. Codec!Parse(t, payload)
         = IF /\ Len(payload) >= first
              /\ Len(payload) = first + count * size
              /\ Codec!IsValid(t, head, items)
              /\ t \in {"C2S_Enter", "S2C_Enter"} => head[1] = ProtocolVersion
           THEN Codec!Typed(t, head, items)
           ELSE Codec!Refused
  BY DEF Codec!Parse, items, head, count, values
<1>17. IsForeign(m) <=> ~(t \in {"C2S_Enter", "S2C_Enter"} => head[1] = ProtocolVersion)
  BY <1>13 DEF IsForeign
<1> QED
  BY <1>13, <1>14, <1>15, <1>16, <1>17 DEF Answer

LEMMA HeaderAndPayload ==
  ASSUME NEW m \in Messages
  PROVE  /\ Codec!Sum(Codec!HeaderWidths) \in Nat /\ Codec!PayloadOf(m) \in Seq(Int)
         /\ Len(Codec!PayloadOf(m)) \in Nat /\ Len(Codec!PayloadOf(m)) # 0
<1> DEFINE first == Codec!Sum(Codec!FixedWidths(m.type))
           size == Codec!Sum(Codec!ItemWidths(m.type))
           N == Len(m.items)
<1>1. /\ Codec!PayloadOf(m) \in Seq(Int) /\ first \in Nat /\ size \in Nat /\ first # 0
      /\ Len(Codec!PayloadOf(m)) = first + N * size
  BY PayloadFacts
<1>2. N \in Nat
  BY MessageFacts
<1> HIDE DEF first, size, N
<1>3. N * size \in Nat
  BY <1>1, <1>2
<1>4. Codec!Sum(Codec!HeaderWidths) \in Nat
  <2> DEFINE hw == Codec!HeaderWidths
  <2>1. hw \in Seq(Nat) /\ Len(hw) = 2
    BY DEF Codec!HeaderWidths
  <2> HIDE DEF hw
  <2>2. Codec!Offsets(hw) \in [0 .. 2 -> Nat]
    BY <2>1, OffsetsAdd
  <2>3. Codec!Sum(hw) \in Nat
    BY <2>1, <2>2 DEF Codec!Sum
  <2> QED
    BY <2>3 DEF hw
<1> QED
  BY <1>1, <1>3, <1>4

\* A packet's header tells its size and its type, and both fit (BuildPacket).
LEMMA PacketIsFramed ==
  ASSUME NEW m \in Messages, FitsPacket(m)
  PROVE  LET payload == Codec!PayloadOf(m)
             p == Codec!PacketOf(m.type, payload)
             h == Codec!Sum(Codec!HeaderWidths)
         IN /\ p # <<>>
            /\ Codec!ReadAll(p, Codec!HeaderWidths)[1] = Len(p)
            /\ Codec!ReadAll(p, Codec!HeaderWidths)[2] = Codec!Packets[m.type].type
            /\ SubSeq(p, h + 1, Len(p)) = payload
<1> DEFINE payload == Codec!PayloadOf(m)
           hw == Codec!HeaderWidths
           h == Codec!Sum(hw)
           type == Codec!Packets[m.type].type
           said == <<h + Len(payload), type>>
           front == Codec!WriteAll(said, hw)
           p == Codec!PacketOf(m.type, payload)
           BB == Base * Base
<1>1. payload \in Seq(Int) /\ Len(payload) \in Nat /\ Len(payload) # 0
  BY HeaderAndPayload
<1>2. hw \in Seq(Fields) /\ Len(hw) = 2 /\ hw[1] = 2 /\ hw[2] = 2
  BY DEF Codec!HeaderWidths, Fields
<1>3. type \in Nat /\ type < BB
  <2>1. m.type \in DOMAIN Codec!Packets
    BY MessageFacts
  <2>2. type < BB
    BY <2>1, PartsAssumption DEF Codec!CodecAssumption
  <2>3. type \in Nat
    BY <2>1 DEF Codec!Packets
  <2> QED
    BY <2>2, <2>3
<1>4. h \in Nat
  BY HeaderAndPayload
<1>5. h + Len(payload) \in Nat /\ h + Len(payload) < BB /\ BB \in Nat \ {0} /\ Codec!Values(2) = BB
  <2>1. h + Len(payload) <= MaxPacketSize
    BY DEF FitsPacket
  <2>2. MaxPacketSize \in Nat /\ MaxPacketSize < BB /\ BB \in Nat \ {0} /\ Codec!Values(2) = BB
    BY BaseFacts, PartsAssumption DEF Codec!CodecAssumption
  <2> HIDE DEF h, payload, BB
  <2> QED
    BY <1>1, <1>4, <2>1, <2>2
<1>6. said[1] = h + Len(payload) /\ said[2] = type /\ \A i \in 1 .. 2 : i = 1 \/ i = 2
  OBVIOUS
<1>7. p = front \o payload
  BY DEF Codec!PacketOf
<1> HIDE DEF said, hw, h, payload, type, BB
<1>8. /\ front \in Seq(Int) /\ Len(front) = h /\ h # 0
      /\ Codec!ReadAll(front \o payload, hw) = Rest(said, hw)
  <2>1. \A i \in 1 .. Len(hw) : said[i] \in Int
    BY <1>2, <1>3, <1>5, <1>6
  <2>2. Len(hw) # 0
    BY <1>2
  <2>3. /\ front \in Seq(Int) /\ Len(front) = Codec!Sum(hw) /\ (Len(hw) # 0 => Codec!Sum(hw) # 0)
        /\ Codec!ReadAll(front \o payload, hw) = Rest(said, hw)
    BY <1>1, <1>2, <2>1, FieldsAreRead
  <2> QED
    BY <2>2, <2>3 DEF h
<1> HIDE DEF front
<1>9. Rest(said, hw)[1] = h + Len(payload) /\ Rest(said, hw)[2] = type
  <2>1. Rest(said, hw)[1] = said[1] % BB /\ Rest(said, hw)[2] = said[2] % BB
    BY <1>2, <1>5 DEF Rest
  <2>2. h + Len(payload) \in 0 .. BB - 1 /\ type \in 0 .. BB - 1
    BY <1>3, <1>5
  <2> QED
    BY <1>5, <1>6, <2>1, <2>2, SmallIsItself
<1>10. Len(front \o payload) = h + Len(payload) /\ front \o payload \in Seq(Int)
  BY <1>1, <1>8, ConcatProperties
<1>11. front \o payload # <<>>
  <2>1. Len(<<>>) = 0
    OBVIOUS
  <2>2. h + Len(payload) # 0
    BY <1>1, <1>4, <1>8
  <2> QED
    BY <1>10, <2>1, <2>2, Zenon
<1>12. SubSeq(front \o payload, h + 1, h + Len(payload)) = payload
  <2> DEFINE a == h + 1
             b == h + Len(payload)
  <2>1. a \in Len(front) + 1 .. Len(front) + Len(payload)
        /\ b \in Len(front) + 1 .. Len(front) + Len(payload)
        /\ a - Len(front) = 1 /\ b - Len(front) = Len(payload)
    BY <1>1, <1>4, <1>8
  <2> HIDE DEF a, b
  <2>2. SubSeq(front \o payload, a, b) = SubSeq(payload, a - Len(front), b - Len(front))
    <3>1. front \in Seq(Int) /\ payload \in Seq(Int)
      BY <1>1, <1>8
    <3> QED
      BY <2>1, <3>1, SubSeqOfConcat2, ZenonT(30)
  <2>3. SubSeq(payload, 1, Len(payload)) = payload
    BY <1>1, SubSeqFull
  <2> QED
    BY <2>1, <2>2, <2>3 DEF a, b
<1> QED
  BY <1>7, <1>8, <1>9, <1>10, <1>11, <1>12 DEF hw, h, payload, type

\* The types are told apart.
LEMMA TypesDiffer ==
  ASSUME NEW s \in DOMAIN Codec!Packets, NEW t \in DOMAIN Codec!Packets,
         Codec!Packets[s].type = Codec!Packets[t].type
  PROVE  s = t
BY DEF Codec!Packets

\* A message is under way, and what has become of it is what was meant.
CodecInv ==
  /\ message \in Messages
  /\ \/ packet = <<>> /\ received = Codec!Nothing
     \/ packet = <<>> /\ received = Codec!Unsent /\ ~FitsPacket(message)
     \/ /\ FitsPacket(message)
        /\ packet = Codec!PacketOf(message.type, Codec!PayloadOf(message))
        /\ received = Codec!Nothing \/ received = Answer(message)

LEMMA BuildKeeps ==
  ASSUME CodecInv, Codec!Build PROVE CodecInv'
<1>1. message \in Messages /\ message' = message
  BY DEF CodecInv, Codec!Build
<1>2. Codec!IsValid(message.type, message.head, message.items) /\ Codec!HasIds(message)
  BY <1>1, MessageFacts
<1>3. CASE FitsPacket(message)
  <2>1. packet' = Codec!PacketOf(message.type, Codec!PayloadOf(message)) /\ received' = received
        /\ received = Codec!Nothing
    BY <1>2, <1>3 DEF Codec!Build, FitsPacket
  <2> QED
    BY <1>1, <1>3, <2>1 DEF CodecInv
<1>4. CASE ~FitsPacket(message)
  <2>1. packet' = <<>> /\ received' = Codec!Unsent
    BY <1>2, <1>4 DEF Codec!Build, FitsPacket
  <2> QED
    BY <1>1, <1>4, <2>1 DEF CodecInv
<1> QED
  BY <1>3, <1>4

LEMMA ReceiveKeeps ==
  ASSUME CodecInv, Codec!Receive PROVE CodecInv'
<1> DEFINE m == message
           types == {t \in DOMAIN Codec!Packets :
                       Codec!Packets[t].type = Codec!ReadAll(packet, Codec!HeaderWidths)[2]}
           payload == SubSeq(packet, Codec!Sum(Codec!HeaderWidths) + 1, Len(packet))
<1>1. /\ message \in Messages /\ message' = message /\ packet' = packet /\ packet # <<>>
      /\ FitsPacket(message) /\ packet = Codec!PacketOf(message.type, Codec!PayloadOf(message))
  BY DEF CodecInv, Codec!Receive
<1>2. /\ Codec!ReadAll(packet, Codec!HeaderWidths)[1] = Len(packet)
      /\ Codec!ReadAll(packet, Codec!HeaderWidths)[2] = Codec!Packets[m.type].type
      /\ payload = Codec!PayloadOf(m)
  BY <1>1, PacketIsFramed
<1>3. m.type \in types /\ \A t \in types : t = m.type
  <2>1. m.type \in DOMAIN Codec!Packets
    BY <1>1, MessageFacts
  <2> QED
    BY <1>2, <2>1, TypesDiffer
<1>4. (CHOOSE t \in types : TRUE) = m.type /\ types # {}
  <2> HIDE DEF types, m
  <2> QED
    BY <1>3
<1>5. received' = Codec!Parse(CHOOSE t \in types : TRUE, payload)
  BY <1>2, <1>4 DEF Codec!Receive
<1>6. received' = Answer(m)
  <2> HIDE DEF types, payload
  <2> QED
    BY <1>1, <1>2, <1>4, <1>5, PayloadIsUnderstood
<1> QED
  BY <1>1, <1>6 DEF CodecInv, FitsPacket, Answer, IsForeign

LEMMA CodecInvariant == PartsSpec => []CodecInv
<1>1. PartsInit => CodecInv
  BY DEF PartsInit, Codec!Init, CodecInv
<1>2. CodecInv /\ [Codec!Next]_codecVars => CodecInv'
  <2> SUFFICES ASSUME CodecInv, [Codec!Next]_codecVars PROVE CodecInv'
    OBVIOUS
  <2>1. CASE Codec!Build
    BY <2>1, BuildKeeps
  <2>2. CASE Codec!Receive
    BY <2>2, ReceiveKeeps
  <2>3. CASE UNCHANGED codecVars
    BY <2>3 DEF codecVars, CodecInv
  <2> QED
    BY <2>1, <2>2, <2>3 DEF Codec!Next
<1>3. CodecInv /\ [PartsNext]_partVars => CodecInv'
  BY <1>2, EachPartSteps
<1> QED
  BY <1>1, <1>3, PTL DEF PartsSpec

\* Whatever one peer builds the other one understands as it was meant, whatever the
\* message and however many values a byte has; only what is too large for a packet
\* is not sent, and only a peer of another version is refused
\* (Z1::Network, BuildPacket and ParsePayload).
THEOREM ThePeersAgree == PartsSpec => []PeersAgree
<1>1. CodecInv => PeersAgree
  <2> SUFFICES ASSUME CodecInv PROVE Codec!PeersAgree
    BY DEF PeersAgree
  <2>1. message.type \in DOMAIN Codec!Packets
    BY MessageFacts DEF CodecInv
  <2>2. message # Codec!Nothing /\ message # Codec!Unsent
    BY <2>1 DEF Codec!Packets, Codec!Nothing, Codec!Unsent, Codec!Verdict
  <2>3. Codec!Refused # Codec!Nothing /\ Codec!Refused # Codec!Unsent /\ Codec!Unsent # Codec!Nothing
    BY DEF Codec!Nothing, Codec!Unsent, Codec!Refused, Codec!Verdict
  <2>4. Answer(message) # Codec!Nothing /\ Answer(message) # Codec!Unsent
    BY <2>2, <2>3 DEF Answer
  <2>5. CASE received = Codec!Nothing
    BY <2>3, <2>5 DEF Codec!PeersAgree
  <2>6. CASE received = Codec!Unsent /\ ~FitsPacket(message)
    <3>1. Codec!IsTooLarge(message)
      <4>1. Len(Codec!PayloadOf(message)) \in Int /\ Codec!Sum(Codec!HeaderWidths) \in Int
            /\ MaxPacketSize \in Int
        BY HeaderAndPayload, PartsAssumption DEF CodecInv, Codec!CodecAssumption
      <4> QED
        BY <2>6, <4>1 DEF Codec!IsTooLarge, FitsPacket
    <3> QED
      BY <2>3, <2>6, <3>1 DEF Codec!PeersAgree
  <2>7. CASE received = Answer(message)
    BY <2>4, <2>7 DEF Codec!PeersAgree, Answer, IsForeign
  <2> QED
    BY <2>5, <2>6, <2>7 DEF CodecInv
<1> QED
  BY <1>1, CodecInvariant, PTL
=============================================================================
