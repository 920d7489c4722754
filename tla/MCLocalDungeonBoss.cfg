SPECIFICATION Spec
CONSTANTS
    TileWidth = 1  TileHeight = 1
    RoomTileWidth = 3  RoomTileHeight = 1
    MapTileWidth = 9  MapTileHeight = 1
    BlockedTiles = {}
    KnockbackDistance = 1  StepsPerFrame = 1
    EnemyIds = {"octorok"}  Boss = "aquamentus"
    MaxHp = 2  BossHp = 2
    PawnSize <- MCUnit  BossSize <- MCUnit  SwordSize <- MCUnit  RockSize <- MCUnit
    BossRoom = 1  LastRoom = 2  RandomEnemyRoomLast = 0
    EntranceTile <- MCEntrance  BossTile <- MCBossTile
    HeartTile <- MCHeart  TriforceTile <- MCTriforce
    ExitTileX = 0  ExitTileWidth = 1
    SpawnMargin = 0  SpawnDistance = 1
    GameOverFrames = 1  ClearFrames = 1
    MaxShots = 1
CHECK_DEADLOCK FALSE
INVARIANT KilledBossStaysDead
