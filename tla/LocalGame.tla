------------------------------ MODULE LocalGame ------------------------------
(***************************************************************************)
(* A single-player game from the title screen to one of its endings: the   *)
(* changes of level (Game::ChangeLevel, Engine::Run), the player's state   *)
(* that Game carries between levels that each have a player of their own,  *)
(* and the sword cave.  The overworld and the dungeon are the visits that  *)
(* LocalOverworld and LocalDungeon implement.                              *)
(*                                                                         *)
(* A frame begins with BeginPlay of the level that runs, goes on with any  *)
(* number of steps of it, and ends with the change of level.               *)
(***************************************************************************)
EXTENDS RoomGeometry

CONSTANTS
    MaxHp,                   \* Game::PlayerMaxHp
    PlayerSize,
    ExitTile, SwordTile      \* of the cave's map, one each (LoadMap)

LocalGameAssumption ==
    /\ MaxHp \in Nat \ {0} /\ {TileWidth, TileHeight} \subseteq Nat \ {0}
    /\ ExitTile \in Nat \X (Nat \ {0})

VARIABLES
    state,          \* Game::_state
    mainLevel,      \* the level the engine runs
    subLevel,       \* the level it is to run next
    phase,          \* "begin" or "play"
    playerState,    \* Game::_playerState
    visits,         \* what each level knows of its own player
    spawned,        \* the levels that have a player
    loaded,         \* _playerStateLoaded
    cave,           \* where the cave's player stands, _swordCollected
    hero            \* history: health and sword of the one player these are

vars == <<state, mainLevel, subLevel, phase, playerState, visits, spawned,
          loaded, cave, hero>>

Overworld == INSTANCE LevelVisit WITH Exits <- {"SwordCave", "Dungeon1"},
                                      visit <- visits["Overworld"]
Dungeon1  == INSTANCE LevelVisit WITH Exits <- {"Overworld"},
                                      visit <- visits["Dungeon1"]

PlayLevels == {"Overworld", "SwordCave", "Dungeon1"}
NoLevel == "none"
Whole == [hp |-> MaxHp, hasSword |-> FALSE]
NewHero == [hp |-> MaxHp, hasSword |-> FALSE, triforce |-> FALSE]
NewVisits == [l \in PlayLevels |-> Overworld!NewVisit(MaxHp, FALSE)]
NewCave == [at |-> <<ExitTile[1] * TileWidth, (ExitTile[2] - 1) * TileHeight>>,
            swordCollected |-> FALSE]

\* Game's constructor asks for the title screen.
Init ==
    /\ state = "Title" /\ mainLevel = NoLevel /\ subLevel = "Title"
    /\ phase = "begin"
    /\ playerState = Whole /\ hero = NewHero
    /\ visits = NewVisits /\ spawned = {} /\ loaded = {}
    /\ cave = NewCave

-----------------------------------------------------------------------------
(* Game.                                                                   *)

ChangeLevel(level) ==
    IF state = level
    THEN UNCHANGED <<state, subLevel>>
    ELSE state' = level /\ subLevel' = level

StartNewGame ==
    /\ playerState' = Whole /\ hero' = NewHero
    /\ visits' = NewVisits /\ spawned' = {} /\ loaded' = {}
    /\ cave' = NewCave
    /\ ChangeLevel("Overworld")

SavePlayerState(v) == [hp |-> v.hp, hasSword |-> v.hasSword]

-----------------------------------------------------------------------------
(* A frame.                                                                *)

\* Mistake: what the game has kept is loaded into a new player only.
LoadsPlayerStateOnce == mainLevel \notin spawned

LoadsPlayerState == mainLevel \notin loaded

\* BeginPlay: a level's first visit spawns its player, every visit loads what
\* the game has kept.
BeginPlay ==
    /\ phase = "begin" /\ phase' = "play"
    /\ IF mainLevel \in PlayLevels
       THEN /\ spawned' = spawned \cup {mainLevel}
            /\ loaded' = loaded \cup {mainLevel}
            /\ visits' = IF LoadsPlayerState
                         THEN [visits EXCEPT ![mainLevel] =
                                  Overworld!ReturnWith(@, playerState.hp,
                                                       playerState.hasSword)]
                         ELSE visits
       ELSE UNCHANGED <<spawned, loaded, visits>>
    /\ UNCHANGED <<state, mainLevel, subLevel, playerState, cave, hero>>

Playing(level) == phase = "play" /\ mainLevel = level

\* What happens to a level's player happens to the one player there is.
BecomesHero(v) ==
    hero' = [hp |-> v.hp, hasSword |-> v.hasSword,
             triforce |-> \/ hero.triforce
                          \/ v.triforce /\ ~visits[mainLevel].triforce]

Plays(level, steps) ==
    /\ Playing(level)
    /\ \E v \in steps :
          /\ visits' = [visits EXCEPT ![level] = v]
          /\ IF v.request = visits[level].request
             THEN UNCHANGED <<state, subLevel>>
             ELSE ChangeLevel(v.request)
          /\ BecomesHero(v)
    /\ UNCHANGED <<mainLevel, phase, playerState, spawned, loaded, cave>>

OverworldStep ==
    LET v == visits["Overworld"]
    IN Plays("Overworld", Overworld!Hurt(v) \cup Overworld!Ask(v))

DungeonStep == Plays("Dungeon1", Dungeon1!Played(visits["Dungeon1"]))

\* The title, and the screens a game ends with, wait for Enter.
SelectLocalplay ==
    /\ Playing("Title") /\ subLevel = NoLevel
    /\ StartNewGame
    /\ UNCHANGED <<mainLevel, phase>>

LeaveEndScreen ==
    /\ Playing("GameOver") \/ Playing("Clear")
    /\ ChangeLevel("Title")
    /\ UNCHANGED <<mainLevel, phase, playerState, visits, spawned, loaded, cave,
                   hero>>

\* The end of Engine::Run's frame: EndPlay of the level that is left saves its
\* player.
EndFrame ==
    /\ phase = "play" /\ phase' = "begin"
    /\ IF subLevel = NoLevel
       THEN UNCHANGED <<mainLevel, subLevel, playerState, visits, loaded>>
       ELSE /\ mainLevel' = subLevel /\ subLevel' = NoLevel
            /\ IF mainLevel \in spawned
               THEN /\ playerState' = SavePlayerState(visits[mainLevel])
                    /\ loaded' = loaded \ {mainLevel}
                    /\ visits' = [visits EXCEPT ![mainLevel].away = TRUE]
               ELSE UNCHANGED <<playerState, loaded, visits>>
    /\ UNCHANGED <<state, spawned, cave, hero>>

-----------------------------------------------------------------------------
(* CaveLevel's Tick.                                                       *)

InCave == Playing("SwordCave") /\ subLevel = NoLevel

TryExitCave(to, dir) ==
    LET box == Box(to, PlayerSize)
    IN /\ dir = Down
       /\ box.left < (ExitTile[1] + 2) * TileWidth
       /\ box.right >= ExitTile[1] * TileWidth
       /\ box.bottom >= RoomHeight

\* Mistake: no frame of the cave asks whether its player is dead.
CaveDeathUnseen == FALSE /\ UNCHANGED vars

\* Whoever enters the cave dead is gone at once.
CaveDeath ==
    /\ InCave /\ visits["SwordCave"].hp = 0
    /\ ChangeLevel("GameOver")
    /\ UNCHANGED <<mainLevel, phase, playerState, visits, spawned, loaded, cave,
                   hero>>

ExitCave ==
    /\ InCave /\ visits["SwordCave"].hp > 0
    /\ \E d \in Directions : TryExitCave(Plus(cave.at, d), d)
    /\ ChangeLevel("Overworld")
    /\ UNCHANGED <<mainLevel, phase, playerState, visits, spawned, loaded, cave,
                   hero>>

TryCollectSword(at) ==
    /\ ~cave.swordCollected
    /\ Overlaps(Box(at, PlayerSize),
                Box(<<SwordTile[1] * TileWidth, SwordTile[2] * TileHeight>>,
                    <<TileWidth, TileHeight>>))

\* A cell walked, and the sword taken where it lies.
CaveStep ==
    /\ InCave /\ visits["SwordCave"].hp > 0
    /\ \E d \in Directions :
          LET to == Plus(cave.at, d)
              found == TryCollectSword(to)
              v == [visits["SwordCave"] EXCEPT !.hasSword = @ \/ found]
          IN /\ ~TryExitCave(to, d)
             /\ CanPlaceBox(Box(to, PlayerSize))
             /\ cave' = [at |-> to, swordCollected |-> cave.swordCollected \/ found]
             /\ visits' = [visits EXCEPT !["SwordCave"] = v]
             /\ BecomesHero(v)
    /\ UNCHANGED <<state, mainLevel, subLevel, phase, playerState, spawned,
                   loaded>>

-----------------------------------------------------------------------------

\* The endings that come by themselves: a death's, a triforce's.
Ending ==
    \/ CaveDeath
    \/ /\ OverworldStep \/ DungeonStep
       /\ state' # state /\ state' \in {"GameOver", "Clear"}

Next ==
    \/ BeginPlay \/ EndFrame
    \/ SelectLocalplay \/ LeaveEndScreen
    \/ OverworldStep \/ DungeonStep
    \/ CaveDeath \/ ExitCave \/ CaveStep

\* The loop never stops; in a level that runs frame after frame the timer of
\* an ending that is due runs out (LocalDungeon's EndingsArrive; the
\* overworld's timer is the same).
Fairness == WF_vars(BeginPlay \/ EndFrame) /\ SF_vars(Ending)

Spec == Init /\ [][Next]_vars /\ Fairness
-----------------------------------------------------------------------------
(* Properties.                                                             *)

Levels == PlayLevels \cup {"Title", "GameOver", "Clear"}
Health == 0 .. MaxHp

\* Every variable stays within its type.
TypeOK ==
    /\ state \in Levels /\ mainLevel \in Levels \cup {NoLevel}
    /\ subLevel \in Levels \cup {NoLevel}
    /\ phase \in {"begin", "play"}
    /\ playerState \in [hp : Health, hasSword : BOOLEAN]
    /\ \A l \in PlayLevels : /\ visits[l].hp \in Health
                             /\ visits[l].hasSword \in BOOLEAN
    /\ spawned \subseteq PlayLevels /\ loaded \subseteq spawned
    /\ cave.at \in Int \X Int /\ cave.swordCollected \in BOOLEAN

\* Three levels have a player each, but there is one: whichever level runs,
\* its player has the health and the sword the player had when it left the
\* last one, whatever happened in between, and a new game's is whole and
\* unarmed.
OnePlayer ==
    phase = "play" /\ mainLevel \in PlayLevels =>
        SavePlayerState(visits[mainLevel]) =
            [hp |-> hero.hp, hasSword |-> hero.hasSword]

\* The sword of a game is found once and kept: the dungeon is entered with it
\* only (docs/z1/TESTING.md), and it is in the cave or with the player.
SwordIsKept ==
    /\ mainLevel = "Dungeon1" => hero.hasSword
    /\ mainLevel \in PlayLevels => (hero.hasSword <=> cave.swordCollected)

\* The game over screen is for the dead, the ending for one who lives and took
\* the triforce in this very game.
EndingsAreEarned ==
    /\ mainLevel = "GameOver" => hero.hp = 0
    /\ mainLevel = "Clear" => hero.hp > 0 /\ hero.triforce

\* A death in any level, also in the frame that leaves it for another, ends
\* on the game over screen (docs/z1/TESTING.md).
DeathEndsTheGame ==
    (hero.hp = 0 /\ mainLevel \in PlayLevels) ~> (mainLevel = "GameOver")

\* A level that is asked for runs from the next frame on.
LevelChangesAtTheFramesEnd ==
    phase = "begin" /\ mainLevel # NoLevel => mainLevel = state /\ subLevel = NoLevel
=============================================================================
