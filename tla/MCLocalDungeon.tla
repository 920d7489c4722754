--------------------------- MODULE MCLocalDungeon ---------------------------
EXTENDS LocalDungeon
\* Three rooms of three cells in a row: Octoroks, Aquamentus, the triforce.
MCUnit     == <<1, 1>>
MCEntrance == <<0, 0>>
MCBossTile == <<4, 0>>
MCHeart    == <<4, 0>>
MCTriforce == <<7, 0>>
=============================================================================
