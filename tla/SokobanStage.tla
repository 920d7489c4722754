---------------------------- MODULE SokobanStage ----------------------------
(***************************************************************************)
(* A stage of Sokoban, as GameLevel::LoadMap reads it from its file: the   *)
(* tiles that are walls, the ground, the targets, and where the player and *)
(* the boxes start.  A box and the player stand on ground.                 *)
(***************************************************************************)
EXTENDS Integers, FiniteSets

CONSTANTS
    Walls, Ground, Targets,    \* tiles <<x, y>>
    Boxes,                     \* the boxes
    BoxStart, PlayerStart      \* where they stand first

Floor == Ground \cup Targets

\* What Player::Tick makes of the direction keys pressed in a frame: they are
\* read one by one, so that two of them make a diagonal step or none.
Steps == {-1, 0, 1} \X {-1, 0, 1}

Beyond(p, d) == <<p[1] + d[1], p[2] + d[2]>>

\* The stages in Content/Stages are closed: walls all round what can be walked
\* on, the corners included.
ASSUME StageAssumption ==
    /\ Floor \subseteq Int \X Int
    /\ Floor \cap Walls = {}
    /\ \A p \in Floor, d \in Steps : Beyond(p, d) \in Floor \cup Walls
    /\ BoxStart \in [Boxes -> Ground] /\ PlayerStart \in Ground
    /\ \A a, b \in Boxes : BoxStart[a] = BoxStart[b] => a = b
    /\ \A b \in Boxes : BoxStart[b] \notin Targets \cup {PlayerStart}
    /\ Targets # {} /\ IsFiniteSet(Targets)
=============================================================================
