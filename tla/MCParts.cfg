CONSTANTS
  item1 = item1  item2 = item2  item3 = item3
  Me = me  Others <- MCOthers  MaxTick = 3  MaxBacklog = 4
  TileWidth = 2  TileHeight = 2  RoomTileWidth = 3  RoomTileHeight = 3
  MapTileWidth = 3  MapTileHeight = 3  BlockedTiles <- MCBlockedTiles  MaxHp = 2
  PlayerSize <- MCPlayerSize  ExitTile <- MCExitTile  SwordTile <- MCSwordTile
  GameOverFrames = 1  MaxScore = 1  MaxOfClass <- MCMaxOfClass
  Walls <- MCWalls  Ground <- MCGround  Targets <- MCTargets
  Boxes = {item1, item2, item3}  BoxStart <- MCBoxStart  PlayerStart <- MCStart
  Files <- MCFiles  Paths <- MCPaths  Voices <- MCVoices
  NoVoice = NoVoice  NoMusic = NoMusic
  Width = 5  Height = 3  MaxWalls = 3  StartTiles <- MCStartTiles
  Base = 16  MaxPacketSize = 44  RoomTiles = 15  ProtocolVersion = 5
  Messages <- MCMessages
SPECIFICATION PartsSpec
CHECK_DEADLOCK FALSE
INVARIANTS
  ViewIsOneTick
  OnePlayer
  ShipIsOne
  BoxesApart
  PathIsShortest
  PeersAgree
PROPERTIES
  VoicesAreOwned
  AttacksOfTheViewAreShown
  DeathEndsTheGame
  EachPointIsOneHit
