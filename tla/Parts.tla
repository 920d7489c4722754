------------------------------- MODULE Parts -------------------------------
(***************************************************************************)
(* The parts of the repository that share nothing with each other, side by *)
(* side: a behaviour is one of the part chosen at its beginning, all the   *)
(* others stay as they begin.  Sokoban is extended, the others are         *)
(* instances.                                                              *)
(***************************************************************************)
EXTENDS Sokoban, Sequences

CONSTANTS
  \* NetworkOverworldLevel
  Me, Others, MaxTick, MaxBacklog,
  \* LocalGame
  TileWidth, TileHeight, RoomTileWidth, RoomTileHeight, MapTileWidth, MapTileHeight,
  BlockedTiles, MaxHp, PlayerSize, ExitTile, SwordTile,
  \* ShootingGame
  GameOverFrames, MaxScore, MaxOfClass,
  \* Sound
  Files, Paths, Voices, NoVoice, NoMusic,
  \* RoomPathfinder
  Width, Height, MaxWalls, StartTiles,
  \* PacketCodec
  Base, MaxPacketSize, RoomTiles, ProtocolVersion, Messages

VARIABLES
  part,
  \* NetworkOverworldLevel
  serverTick, requested, stream, level, latestSnapshot, pendingCombatEvents,
  lastAppliedTick, myPlayer, remote, worldAt, attacks, passed, shown,
  \* LocalGame
  state, runningLevel, subLevel, gamePhase, playerState, visits, spawned, loaded,
  cave, hero,
  \* ShootingGame
  actors, addRequestedActors, phase, next, pairs, score, gameOver, clock, programQuit,
  \* Sound
  soundPhase, comHeld, comByUs, xaudio2, mastering, soundCache,
  activeOneShotVoices, backgroundVoice, currentMusic, live,
  \* RoomPathfinder
  walkable, start, goal, pq, gCosts, parents, path, searching,
  \* PacketCodec
  message, packet, received

-----------------------------------------------------------------------------
(* The instances.                                                          *)

View     == INSTANCE NetworkOverworldLevel
Game     == INSTANCE LocalGame WITH phase <- gamePhase, mainLevel <- runningLevel
Shooting == INSTANCE ShootingGame WITH isQuit <- programQuit
Player   == INSTANCE Sound WITH phase <- soundPhase
Search   == INSTANCE RoomPathfinder
Codec    == INSTANCE PacketCodec

ASSUME PartsAssumption ==
  /\ View!LevelAssumption /\ Game!LocalGameAssumption
  /\ Shooting!ShootingAssumption /\ Player!SoundAssumption
  /\ Search!SearchAssumption /\ Codec!CodecAssumption

-----------------------------------------------------------------------------
(* One of them runs.                                                       *)

viewVars     == <<serverTick, requested, stream, level, latestSnapshot,
                  pendingCombatEvents, lastAppliedTick, myPlayer, remote,
                  worldAt, attacks, passed, shown>>
gameVars     == <<state, runningLevel, subLevel, gamePhase, playerState, visits,
                  spawned, loaded, cave, hero>>
shootingVars == <<actors, addRequestedActors, phase, next, pairs, score,
                  gameOver, clock, programQuit>>
soundVars    == <<soundPhase, comHeld, comByUs, xaudio2, mastering, soundCache,
                  activeOneShotVoices, backgroundVoice, currentMusic, live>>
searchVars   == <<walkable, start, goal, pq, gCosts, parents, path, searching>>
codecVars    == <<message, packet, received>>
partVars == <<part, viewVars, gameVars, shootingVars, vars, soundVars, searchVars,
              codecVars>>

PartsInit ==
  /\ part \in {"view", "game", "shooting", "stage", "sound", "search", "codec"}
  /\ part = "codec" \/ message = [type |-> "C2S_Enter", head |-> <<5>>, items |-> <<>>]
  /\ \/ part = "search"
     \/ walkable = Search!Tiles /\ start = <<0, 0>> /\ goal = <<0, 0>>
  /\ View!Init /\ Game!Init /\ Shooting!Init /\ Init /\ Player!Init
  /\ Codec!Init /\ Search!Init

InView(Action) ==
  /\ part = "view" /\ Action
  /\ UNCHANGED <<part, gameVars, shootingVars, vars, soundVars, searchVars,
                 codecVars>>
InGame(Action) ==
  /\ part = "game" /\ Action
  /\ UNCHANGED <<part, viewVars, shootingVars, vars, soundVars, searchVars,
                 codecVars>>
InShooting(Action) ==
  /\ part = "shooting" /\ Action
  /\ UNCHANGED <<part, viewVars, gameVars, vars, soundVars, searchVars,
                 codecVars>>
InStage(Action) ==
  /\ part = "stage" /\ Action
  /\ UNCHANGED <<part, viewVars, gameVars, shootingVars, soundVars, searchVars,
                 codecVars>>
InSound(Action) ==
  /\ part = "sound" /\ Action
  /\ UNCHANGED <<part, viewVars, gameVars, shootingVars, vars, searchVars,
                 codecVars>>
InSearch(Action) ==
  /\ part = "search" /\ Action
  /\ UNCHANGED <<part, viewVars, gameVars, shootingVars, vars, soundVars,
                 codecVars>>
InCodec(Action) ==
  /\ part = "codec" /\ Action
  /\ UNCHANGED <<part, viewVars, gameVars, shootingVars, vars, soundVars, searchVars>>

PartsNext ==
  \/ InView(View!Next) \/ InGame(Game!Next) \/ InShooting(Shooting!Next)
  \/ InStage(Next) \/ InSound(Player!Next) \/ InSearch(Search!Next)
  \/ InCodec(Codec!Next)

\* The fairness of LocalGame and of ShootingGame.
PartsSpec ==
  /\ PartsInit /\ [][PartsNext]_partVars
  /\ WF_partVars(InGame(Game!BeginPlay \/ Game!EndFrame))
  /\ SF_partVars(InGame(Game!Ending))
  /\ WF_partVars(InShooting(Shooting!Next))

-----------------------------------------------------------------------------
(* The properties of the parts, stated in their modules; BoxesApart is     *)
(* Sokoban's.                                                              *)

\* NetworkOverworldLevel: the view is the world of one tick of the server.
ViewIsOneTick == View!TypeOK /\ View!ViewIsOneTick /\ View!OwnAttacksAreShown
AttacksOfTheViewAreShown == View!AttacksOfTheViewAreShown

\* LocalGame: three levels' players are one, and a game's endings are earned.
OnePlayer ==
  /\ Game!TypeOK /\ Game!OnePlayer /\ Game!SwordIsKept
  /\ Game!EndingsAreEarned /\ Game!LevelChangesAtTheFramesEnd

\* LocalGame and ShootingGame: a death ends the game, by itself.
DeathEndsTheGame == Game!DeathEndsTheGame /\ Shooting!DeathEndsTheProgram

\* ShootingGame: the ship is built once and lost whole, a point is one hit.
ShipIsOne == Shooting!TypeOK /\ Shooting!ShipIsOne
EachPointIsOneHit == Shooting!EachPointIsOneHit

\* Sound: no voice is lost, and none is cut short.
VoicesAreOwned == [](Player!VoicesAreOwned) /\ Player!SoundsPlayOut

\* RoomPathfinder: a path, and none shorter.
PathIsShortest == Search!PathIsShortest

\* PacketCodec: what is sent is understood.
PeersAgree == Codec!PeersAgree
=============================================================================
