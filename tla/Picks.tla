------------------------------- MODULE Picks -------------------------------
(***************************************************************************)
(* The elements of a sequence at some of its places, in their order: what  *)
(* SelectSeq gives, but by place and without recursion, so that it can be  *)
(* proved about.                                                           *)
(***************************************************************************)
EXTENDS Integers, Sequences, FiniteSets

\* How many of the places are not beyond i.
Rank(places, i) == Cardinality({j \in places : j <= i})

Picked(seq, places) ==
    [n \in 1 .. Cardinality(places) |->
        seq[CHOOSE i \in places : Rank(places, i) = n]]
=============================================================================
