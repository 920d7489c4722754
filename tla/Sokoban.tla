------------------------------ MODULE Sokoban ------------------------------
(***************************************************************************)
(* Sokoban: the player who walks and pushes boxes (Player::Tick and        *)
(* GameLevel::CanMoveTo), the test whether the stage is cleared, and the   *)
(* menu that takes over from the level and gives it back.  A step is a     *)
(* frame of the engine's loop.                                             *)
(***************************************************************************)
EXTENDS SokobanStage

VARIABLES
    player,        \* where the player stands
    box,           \* where each box stands
    cleared,       \* GameLevel::_isGameCleared
    mainLevel,     \* the level the engine runs: "Gameplay" or "Menu"
    selected,      \* MenuLevel::_selectedIndex
    isQuit

vars == <<player, box, cleared, mainLevel, selected, isQuit>>

Resume == 0
Quit == 1

Init ==
    /\ player = PlayerStart /\ box = BoxStart /\ cleared = FALSE
    /\ mainLevel = "Gameplay" /\ selected = Resume /\ isQuit = FALSE

-----------------------------------------------------------------------------
(* GameLevel.                                                              *)

BoxesAt(p) == {b \in Boxes : box[b] = p}

\* As many boxes are on targets as there are targets.
IsGameCleared(at) ==
    Cardinality({b \in Boxes : at[b] \in Targets}) = Cardinality(Targets)

\* Mistake: only walls are looked for behind a box.
CanBePushedOntoBox(b, p) == p \in Floor

CanBePushed(b, p) == p \in Floor /\ BoxesAt(p) \subseteq {b}

\* CanMoveTo onto a tile without a box.
Walk(to) ==
    /\ ~cleared /\ BoxesAt(to) = {} /\ to \in Floor
    /\ player' = to
    /\ UNCHANGED <<box, cleared>>

\* CanMoveTo onto a box, which goes before the player.
Push(to, d) ==
    /\ ~cleared
    /\ \E b \in BoxesAt(to) :
          /\ CanBePushed(b, Beyond(to, d))
          /\ box' = [box EXCEPT ![b] = Beyond(to, d)]
          /\ cleared' = IsGameCleared(box')
    /\ player' = to

\* Where nothing at all lies behind the box, the search for what does ends
\* without an answer, and the player walks onto the box.
WalkOntoBox(to, d) ==
    /\ ~cleared /\ BoxesAt(to) # {} /\ to \in Floor
    /\ Beyond(to, d) \notin Floor \cup Walls
    /\ player' = to
    /\ UNCHANGED <<box, cleared>>

StandStill == UNCHANGED <<player, box, cleared>>

\* A frame of the level: Escape opens the menu, after the step of this frame.
GameplayTick ==
    /\ ~isQuit /\ mainLevel = "Gameplay"
    /\ \/ \E d \in Steps : LET to == Beyond(player, d)
                           IN Walk(to) \/ Push(to, d) \/ WalkOntoBox(to, d)
       \/ StandStill
    /\ mainLevel' \in {"Gameplay", "Menu"}
    /\ UNCHANGED <<selected, isQuit>>

-----------------------------------------------------------------------------
(* MenuLevel: the arrow keys first, then Enter, then Escape.  Enter on the *)
(* first item and Escape toggle the menu, both in one frame toggle twice.  *)

ToggledMenu(times) == IF times = 1 THEN "Gameplay" ELSE "Menu"

MenuTick ==
    /\ ~isQuit /\ mainLevel = "Menu"
    /\ \E moved \in {0, 1}, enter, escape \in BOOLEAN :
          LET item == (selected + moved) % 2
              resumes == IF enter /\ item = Resume THEN 1 ELSE 0
          IN /\ isQuit' = (enter /\ item = Quit)
             /\ mainLevel' = ToggledMenu(resumes + (IF escape THEN 1 ELSE 0))
             /\ selected' = IF escape THEN Resume ELSE item
    /\ UNCHANGED <<player, box, cleared>>

Next == GameplayTick \/ MenuTick

Spec == Init /\ [][Next]_vars
-----------------------------------------------------------------------------
(* Properties.                                                             *)

\* Every variable stays within its type.
TypeOK ==
    /\ player \in Floor /\ box \in [Boxes -> Floor] /\ cleared \in BOOLEAN
    /\ mainLevel \in {"Gameplay", "Menu"} /\ selected \in {Resume, Quit}
    /\ isQuit \in BOOLEAN

\* The stage counts as cleared just when every target holds a box of its own,
\* though the code only counts boxes on targets, after pushes.
ClearedMeansCovered == cleared <=> \A t \in Targets : \E b \in Boxes : box[b] = t

\* Whatever is pushed where, diagonally too, no two boxes share a tile, the
\* player never stands on one, and so counting the boxes on targets tells when
\* all of them are covered.
BoxesApart ==
    /\ TypeOK
    /\ \A a, b \in Boxes : box[a] = box[b] => a = b
    /\ \A b \in Boxes : box[b] # player
    /\ ClearedMeansCovered
=============================================================================
