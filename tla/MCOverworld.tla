---------------------------- MODULE MCOverworld ----------------------------
(* Two rooms of three by two tiles, side by side; the boxes are as wide as *)
(* a tile of two cells by one, so that they can lie across two tiles and   *)
(* across the border of the rooms.  '.' is free, 'X' blocked:              *)
(*                                                                         *)
(*     ..X ..X                                                             *)
(*     ... ...                                                             *)
EXTENDS OverworldSimulation

T(x, y) == [x |-> x, y |-> y]

Blocked == {T(2, 0), T(5, 0)}
SpawnAt == [e \in Enemies |-> IF e = 1 THEN T(8, 1) ELSE T(6, 0)]
Start == T(4, 1)
SwordAcross == [w |-> 2, h |-> 1]
SwordAlong == [w |-> 2, h |-> 1]

\* The first room alone, with an enemy in the way of the players.
BlockedInRoom == {T(2, 0)}
SpawnInRoom == [e \in Enemies |-> T(4, 1)]
StartInRoom == T(2, 1)
=============================================================================
