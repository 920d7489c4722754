CONSTANTS
  TileCellWidth = 2
  TileCellHeight = 1
  RoomWidth = 3
  RoomHeight = 2
  OverworldRoomColumns = 1
  OverworldRoomRows = 1
  PlayerBoxWidth = 2
  PlayerBoxHeight = 1
  EnemyBoxWidth = 2
  EnemyBoxHeight = 1
  BlockedTiles <- BlockedInRoom
  Players = {p1, p2}
  Enemies = {1}
  Moblins = {1}
  SpawnPosition <- SpawnInRoom
  StartPosition <- StartInRoom
  MaxHp = 1
  HorizontalSword <- SwordAcross
  VerticalSword <- SwordAlong
  SwordInset = 0
  MoveInterval = 2
  AttackCooldownTicks = 3
  ProjectileTicks = 2
  RespawnCooldownTicks = 2
  InputDirections = {"None", "Right"}
SPECIFICATION FairSpec
PROPERTIES
  OneHitEach
  DeadDoNothing
  DeadEnemiesReturn
