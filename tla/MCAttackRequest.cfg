CONSTANTS
  TileCellWidth = 2
  TileCellHeight = 1
  RoomWidth = 3
  RoomHeight = 2
  OverworldRoomColumns = 2
  OverworldRoomRows = 1
  PlayerBoxWidth = 2
  PlayerBoxHeight = 1
  EnemyBoxWidth = 2
  EnemyBoxHeight = 1
  BlockedTiles <- Blocked
  Players = {p1}
  Enemies = {1, 2}
  Moblins = {1}
  SpawnPosition <- SpawnAt
  StartPosition <- Start
  MaxHp = 1
  HorizontalSword <- SwordAcross
  VerticalSword <- SwordAlong
  SwordInset = 0
  MoveInterval = 2
  AttackCooldownTicks = 3
  ProjectileTicks = 2
  RespawnCooldownTicks = 2
  InputDirections = {"None", "Up", "Down", "Left", "Right"}
SPECIFICATION PressSpec
PROPERTIES
  MovingRequestsNeverStrike
