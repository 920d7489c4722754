SPECIFICATION Spec
CONSTANTS
    TileWidth = 2  TileHeight = 3
    RoomTileWidth = 2  RoomTileHeight = 1
    MapTileWidth = 4  MapTileHeight = 2
    BlockedTiles <- MCBlocked
    KnockbackDistance = 1  StepsPerFrame = 1
    EnemyIds = {"enemy"}  EnemyKinds = {"Octorok", "Moblin", "Tektite"}
    MaxHp = 2
    PawnSize <- MCPawn  BossSize <- MCPawn  SwordSize <- MCShot  RockSize <- MCShot
    AccessibleRooms <- MCPath  StartRoom <- MCStart  StartTile <- MCStartTile
    SwordCaveTile <- MCCave  Dungeon1Tile <- MCDungeon
    SpawnMargin = 0  SpawnDistance = 1
    GameOverFrames = 1
    MaxShots = 1
CHECK_DEADLOCK FALSE
INVARIANTS
    NobodyIsMisplaced
    ShotsBelongToTheRoom
PROPERTIES
    ImplementsVisit
