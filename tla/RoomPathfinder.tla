--------------------------- MODULE RoomPathfinder ---------------------------
(***************************************************************************)
(* RoomPathfinder::FindPath: A* over the tiles of one room, by Manhattan   *)
(* distance.  A step is one turn of its loop; one behaviour is one call,   *)
(* for a grid, a start and a goal chosen at the beginning.                 *)
(***************************************************************************)
EXTENDS Integers, FiniteSets, Sequences

CONSTANTS
    Width, Height,    \* of the grid
    MaxWalls,         \* how many of its tiles may be blocked
    StartTiles        \* where the search may begin

\* A grid has a size.
SearchAssumption == Width \in Nat /\ Height \in Nat

VARIABLES
    walkable, start, goal,   \* the arguments
    pq,                      \* the priority queue of nodes [tile, g]
    gCosts, parents,         \* tile -> cost and tile it was last reached with
    path,                    \* the path returned
    searching

vars == <<walkable, start, goal, pq, gCosts, parents, path, searching>>

Tiles == (0 .. Width - 1) \X (0 .. Height - 1)

\* INT32_MAX: dearer than any path.
Unreached == Width * Height

Abs(n) == IF n < 0 THEN -n ELSE n

ManhattanDistance(from, to) == Abs(from[1] - to[1]) + Abs(from[2] - to[2])

IsWalkable(tile) == tile \in walkable

ToIndex(tile) == tile[2] * Width + tile[1]

\* Mistake: the node nearest to the goal is taken, whatever it has cost.
OrderByNearness(node) == <<ManhattanDistance(node.tile, goal), node.g, ToIndex(node.tile)>>

\* What operator> compares, in turn.
Order(node) ==
    LET h == ManhattanDistance(node.tile, goal)
    IN <<node.g + h, h, ToIndex(node.tile)>>

Precedes(a, b) ==
    \E i \in 1 .. 3 : a[i] < b[i] /\ \A j \in 1 .. i - 1 : a[j] = b[j]

Top == CHOOSE n \in pq : \A m \in pq \ {n} : Precedes(Order(n), Order(m))

Init ==
    /\ walkable \in {w \in SUBSET Tiles : Cardinality(Tiles \ w) <= MaxWalls}
    /\ start \in StartTiles /\ goal \in Tiles
    /\ searching = (start \in walkable /\ goal \in walkable)
    /\ pq = {[tile |-> start, g |-> 0]}
    /\ gCosts = [t \in Tiles |-> IF t = start THEN 0 ELSE Unreached]
    /\ parents = [t \in Tiles |-> IF t = start THEN start ELSE <<-1, -1>>]
    /\ path = <<>>

\* A node that has been reached more cheaply since.
SkipStale ==
    /\ searching /\ pq # {} /\ Top.g > gCosts[Top.tile]
    /\ pq' = pq \ {Top}
    /\ UNCHANGED <<walkable, start, goal, gCosts, parents, path, searching>>

\* The tiles from after the start to the goal.
PathTo(tile) ==
    LET chain[n \in 0 .. Unreached] ==
            IF n = 0 THEN [at |-> tile, path |-> <<>>]
            ELSE LET c == chain[n - 1]
                 IN IF c.at = start THEN c
                    ELSE [at |-> parents[c.at], path |-> <<c.at>> \o c.path]
    IN chain[Unreached].path

TakeGoal ==
    /\ searching /\ pq # {} /\ Top.g <= gCosts[Top.tile] /\ Top.tile = goal
    /\ path' = PathTo(goal) /\ searching' = FALSE
    /\ pq' = pq \ {Top}
    /\ UNCHANGED <<walkable, start, goal, gCosts, parents>>

\* The tiles around the node that it reaches more cheaply than any before.
Cheaper(node) ==
    {t \in Tiles : /\ ManhattanDistance(t, node.tile) = 1 /\ IsWalkable(t)
                   /\ node.g + 1 < gCosts[t]}

Expand ==
    /\ searching /\ pq # {} /\ Top.g <= gCosts[Top.tile] /\ Top.tile # goal
    /\ LET reached == Cheaper(Top)
       IN /\ gCosts' = [t \in Tiles |-> IF t \in reached THEN Top.g + 1 ELSE gCosts[t]]
          /\ parents' = [t \in Tiles |-> IF t \in reached THEN Top.tile ELSE parents[t]]
          /\ pq' = (pq \ {Top}) \cup {[tile |-> t, g |-> Top.g + 1] : t \in reached}
    /\ UNCHANGED <<walkable, start, goal, path, searching>>

GiveUp ==
    /\ searching /\ pq = {}
    /\ searching' = FALSE
    /\ UNCHANGED <<walkable, start, goal, pq, gCosts, parents, path>>

Next == SkipStale \/ TakeGoal \/ Expand \/ GiveUp

Spec == Init /\ [][Next]_vars
-----------------------------------------------------------------------------
(* Properties.                                                             *)

\* The tiles a walk of at most n steps can reach.
Reach(n) ==
    LET r[k \in 0 .. n] ==
            IF k = 0 THEN {start} \cap walkable
            ELSE LET near == r[k - 1]
                 IN near \cup {t \in walkable :
                                 \E s \in near : ManhattanDistance(s, t) = 1}
    IN r[n]

\* The path that FindPath returns steps from tile to walkable tile, begins
\* beside the start, ends at the goal, and no walk is shorter; it is empty just
\* when there is nowhere to go or no way there.
PathIsShortest ==
    ~searching =>
        IF goal = start \/ goal \notin Reach(Unreached) THEN path = <<>>
        ELSE LET walk == <<start>> \o path
             IN /\ path # <<>> /\ path[Len(path)] = goal
                /\ \A i \in 1 .. Len(path) :
                      IsWalkable(path[i]) /\ ManhattanDistance(walk[i], walk[i + 1]) = 1
                /\ goal \notin Reach(Len(path) - 1)
=============================================================================
