-------------------------- MODULE MCLocalOverworld --------------------------
EXTENDS LocalOverworld
\* Two rows of two rooms, two tiles each; the path runs right, then down.
\*      C . | . .        C the sword cave
\*      x x | . D        x open, but no room of the path; D the dungeon
MCStart  == <<0, 0>>
MCPath   == {<<0, 0>>, <<1, 0>>, <<1, 1>>}
MCCave   == <<0, 0>>
MCDungeon == <<3, 1>>
MCStartTile == <<1, 0>>
MCBlocked == {MCCave, MCDungeon}
MCPawn   == <<2, 2>>
MCShot   == <<1, 1>>
=============================================================================
