------------------------------ MODULE MCParts ------------------------------
(***************************************************************************)
(* Parts for TLC, each of them small.                                      *)
(***************************************************************************)
EXTENDS Parts

CONSTANTS item1, item2, item3

\* NetworkOverworldLevel: two other actors, three ticks of the server.
MCOthers == {item1, item2}

\* LocalGame: a cave of three tiles by three, the sword at the top, the way out
\* below.
MCBlockedTiles == {<<0, 0>>, <<2, 0>>, <<2, 2>>}
MCPlayerSize   == <<2, 1>>
MCExitTile     == <<0, 2>>
MCSwordTile    == <<1, 0>>

\* ShootingGame: two enemies and two of the player's bullets at a time, one of
\* an enemy's.
MCMaxOfClass == [Enemy |-> 2, PlayerBullet |-> 2, EnemyBullet |-> 1]

\* Sokoban: four tiles by three with a wall round them, three boxes, two
\* targets.
StageTiles == (1 .. 4) \X (1 .. 3)
MCWalls    == ((0 .. 5) \X (0 .. 4)) \ StageTiles
MCTargets  == {<<1, 1>>, <<4, 2>>}
MCGround   == StageTiles \ MCTargets
MCBoxStart ==
  [x \in Boxes |-> IF x = item1 THEN <<2, 2>> ELSE IF x = item2 THEN <<3, 2>> ELSE <<3, 1>>]
MCStart    == <<1, 2>>

\* Sound: two good files and one that is cut short, three voices.
Chunk(name, size) == [name |-> name, size |-> size, pcm |-> name = "fmt "]
Wave(size) == [size |-> size, riff |-> TRUE,
               chunks |-> <<Chunk("LIST", 1), Chunk("fmt ", 16), Chunk("data", 2)>>]
MCFiles  == [effect |-> Wave(56), music |-> Wave(60), cut |-> Wave(55)]
MCPaths  == {"effect", "music", "cut"}
MCVoices == {item1, item2, item3}

\* RoomPathfinder: five tiles by three, at most three of them blocked.
MCStartTiles == {<<0, 0>>}

\* PacketCodec: bytes of sixteen values, rooms of fifteen tiles, packets that two actors
\* fit in; numbers from either edge of their fields.
EdgesOf(bytes) == {1, 16 ^ bytes - 1}
Actors ==
  {<<7, hp, x, 1, 1, 0, flags>> : hp \in {0, 3}, x \in EdgesOf(2), flags \in {0, 3}}
    \cup {<<id, 1, 2, 3, kind, 4, 1>> : id \in EdgesOf(4), kind \in 2 .. 4}
    \cup {<<9, 0, 17, 5, 5, direction, 0>> : direction \in 1 .. 4}
Sent(type, heads, itemLists) ==
  {[type |-> type, head |-> head, items |-> items] : head \in heads, items \in itemLists}
MCMessages ==
  UNION {
    Sent("C2S_Enter", {<<version>> : version \in {4, 5}}, {<<>>}),
    Sent("S2C_Enter", {4, 5} \X EdgesOf(4), {<<>>}),
    Sent("C2S_Input", EdgesOf(4) \X (0 .. 4) \X {0, 1}, {<<>>}),
    Sent("S2C_WorldSnapshot", {<<tick>> : tick \in EdgesOf(4)},
         UNION {[1 .. n -> Actors] : n \in 0 .. 2} \cup {<<x, x, x>> : x \in Actors}),
    Sent("S2C_CombatEvent", {1} \X EdgesOf(4) \X (1 .. 4), {<<>>}),
    Sent("S2C_EnemyPathDebug", EdgesOf(4) \X {7} \X {-1, 0, 15} \X {0, 8},
         {[i \in 1 .. n |-> <<15 - i>>] : n \in 0 .. 15})}
=============================================================================
