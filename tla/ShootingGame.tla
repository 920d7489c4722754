---------------------------- MODULE ShootingGame ----------------------------
(***************************************************************************)
(* The shooting game, played on the engine's actors: a player with two     *)
(* guns and an engine flame attached, enemies that cross the screen and    *)
(* fire, bullets, the score the GameManager keeps, and the level that      *)
(* stops when the player dies and ends the program a while later.          *)
(*                                                                         *)
(* Where things are is left out: what leaves the screen, fires or overlaps *)
(* in a frame is any of those that may.                                    *)
(***************************************************************************)
EXTENDS EngineActors

CONSTANTS
    GameOverFrames,        \* length of GameOverWaitTime
    MaxOfClass,            \* bound: actors each class may have at a time
    MaxScore               \* bound: no enemy is shot once it is reached

\* The wait is not nothing.
ShootingAssumption == GameOverFrames \in Nat \ {0}

VARIABLES
    score,       \* GameManager::_score
    gameOver,    \* GameLevel::_state is GameOver
    clock,       \* frames it has been
    isQuit       \* Engine::isQuit

gameVars == <<score, gameOver, clock, isQuit>>
vars == <<engineVars, gameVars>>

PlayerParts == <<"PlayerGun", "PlayerGun", "PlayerEngineEffect">>

All == actors \o addRequestedActors
OfClass(class) == {i \in DOMAIN All : All[i].class = class}
MayHaveMore(class, n) == Cardinality(OfClass(class)) + n <= MaxOfClass[class]

\* OnInitialized
Init ==
    /\ actors = <<>>
    /\ addRequestedActors = [i \in 1 .. 3 |->
            NewActor(<<"Player", "EnemySpawner", "GameManager">>[i], NoParent)]
    /\ phase = "begin" /\ next = 1 /\ pairs = {}
    /\ score = 0 /\ gameOver = FALSE /\ clock = 0 /\ isQuit = FALSE

-----------------------------------------------------------------------------
(* BeginPlay: only the player's does something, it builds the ship.        *)

BeginPlay ==
    /\ phase = "begin" /\ phase' = "tick"
    /\ ActorsBegin
    /\ addRequestedActors' =
          IF \E i \in Beginning : actors[i].class = "Player"
          THEN addRequestedActors \o [i \in DOMAIN PlayerParts |->
                                         NewActor(PlayerParts[i], "Player")]
          ELSE addRequestedActors
    /\ UNCHANGED <<next, pairs, gameVars>>

-----------------------------------------------------------------------------
(* Which actors overlap.  Of the pairs that do, only those of a bullet and *)
(* its target have a handler that does anything.                           *)

Classes(p) == {actors[p[1]].class, actors[p[2]].class}
Shots  == {"Enemy", "PlayerBullet"}
Deaths == {"Player", "EnemyBullet"}

CollidingPairs ==
    {p \in ActiveActors \X ActiveActors :
        p[1] < p[2] /\ Classes(p) \in {Shots, Deaths}}

CollectOverlapping ==
    /\ \E overlapping \in SUBSET CollidingPairs :
          /\ score < MaxScore \/ \A p \in overlapping : Classes(p) # Shots
          /\ CollectPairs(overlapping)
    /\ UNCHANGED score

-----------------------------------------------------------------------------
(* Tick.                                                                   *)

\* Guns, flame and manager only draw.
Idle == {"PlayerGun", "PlayerEngineEffect", "GameManager"}
TickingActor == Ticking(Idle)

Ticks(classes) ==
    /\ phase = "tick" /\ ~gameOver /\ StillToTick(Idle) # {}
    /\ actors[TickingActor].class \in classes
    /\ next' = TickingActor + 1
    /\ UNCHANGED <<phase, pairs, score, gameOver, clock>>

\* Escape ends the program at the end of the frame, the space bar fires a
\* bullet from each active gun, those that still wait to join included.
PlayerTick ==
    /\ Ticks({"Player"})
    /\ LET guns == {i \in OfClass("PlayerGun") : IsActive(All[i])}
       IN \/ /\ isQuit' \in {isQuit, TRUE}
             /\ UNCHANGED addRequestedActors
          \/ /\ MayHaveMore("PlayerBullet", Cardinality(guns))
             /\ addRequestedActors' = addRequestedActors
                   \o [i \in 1 .. Cardinality(guns) |-> NewActor("PlayerBullet", NoParent)]
             /\ UNCHANGED isQuit
    /\ UNCHANGED actors

EnemySpawnerTick ==
    /\ Ticks({"EnemySpawner"})
    /\ \/ UNCHANGED addRequestedActors
       \/ MayHaveMore("Enemy", 1) /\ SpawnActor("Enemy", NoParent)
    /\ UNCHANGED <<actors, isQuit>>

\* An enemy that has left the screen does nothing more.
EnemyTick ==
    /\ Ticks({"Enemy"})
    /\ \/ UNCHANGED <<actors, addRequestedActors>>
       \/ /\ actors' = Destroy(actors, "Enemy", {TickingActor})
          /\ UNCHANGED addRequestedActors
       \/ /\ MayHaveMore("EnemyBullet", 1)
          /\ SpawnActor("EnemyBullet", NoParent)
          /\ UNCHANGED actors
    /\ UNCHANGED isQuit

\* Bullets leave the screen, effects end.
PassingTick ==
    /\ Ticks({"PlayerBullet", "EnemyBullet", "DestroyEffect"})
    /\ actors' \in {actors, Destroy(actors, actors[TickingActor].class, {TickingActor})}
    /\ UNCHANGED <<addRequestedActors, isQuit>>

\* The walk is over.
LevelTicked ==
    /\ phase = "tick" /\ ~gameOver /\ StillToTick(Idle) = {}
    /\ CollectOverlapping
    /\ UNCHANGED <<gameOver, clock, isQuit>>

GameOverClock == clock + 1

\* When the player is dead the level ticks nobody, and waits.
GameOverTick ==
    /\ phase = "tick" /\ gameOver
    /\ clock' = GameOverClock
    /\ isQuit' = (isQuit \/ clock' >= GameOverFrames)
    /\ CollectOverlapping
    /\ UNCHANGED gameOver

-----------------------------------------------------------------------------
(* OnCollision.                                                            *)

Collides(classes) ==
    /\ phase = "collide" /\ pairs # {} /\ StillActive(FirstPair)
    /\ Classes(FirstPair) = classes
    /\ pairs' = pairs \ {FirstPair}
    /\ UNCHANGED <<phase, next, isQuit>>

EnemyOnCollision ==
    /\ Collides(Shots)
    /\ actors' = Destroy(actors, "Enemy", {FirstPair[1], FirstPair[2]})
    /\ SpawnActor("DestroyEffect", NoParent)
    /\ score' = score + 1
    /\ UNCHANGED <<gameOver, clock>>

PlayerOnCollision ==
    /\ Collides(Deaths)
    /\ actors' = Destroy(actors, "Player", {FirstPair[1], FirstPair[2]})
    /\ addRequestedActors' = Destroy(addRequestedActors, "Player", {})
    /\ gameOver' = TRUE /\ clock' = 0
    /\ UNCHANGED score

\* The end of the frame: the loop goes on, or has been told to stop.
EndFrame ==
    /\ ProcessRequestedActors
    /\ phase' = IF isQuit THEN "stopped" ELSE "begin"
    /\ UNCHANGED gameVars

-----------------------------------------------------------------------------

Engine ==
    \/ PassPair /\ UNCHANGED gameVars
    \/ EndFrame

Next ==
    \/ BeginPlay
    \/ PlayerTick \/ EnemySpawnerTick \/ EnemyTick \/ PassingTick
    \/ LevelTicked \/ GameOverTick
    \/ EnemyOnCollision \/ PlayerOnCollision
    \/ Engine

Spec == Init /\ [][Next]_vars /\ WF_vars(Next)
-----------------------------------------------------------------------------
(* Properties.                                                             *)

\* Every variable stays within its type.
TypeOK ==
    /\ \A i \in DOMAIN All :
          All[i] \in [class : {"Player", "EnemySpawner", "GameManager", "Enemy",
                               "PlayerGun", "PlayerEngineEffect", "PlayerBullet",
                               "EnemyBullet", "DestroyEffect"},
                      parent : {NoParent, "Player"},
                      began : BOOLEAN, expired : BOOLEAN]
    /\ phase \in {"begin", "tick", "collide", "stopped"}
    /\ next \in 1 .. Len(actors) + 1
    /\ pairs \subseteq (DOMAIN actors) \X (DOMAIN actors)
    /\ score \in Nat /\ clock \in 0 .. GameOverFrames
    /\ gameOver \in BOOLEAN /\ isQuit \in BOOLEAN

\* The ship is built once and goes down whole: its guns and its flame are made
\* when the player begins, in the frame after it was asked for, never again,
\* and none of them outlives it, in the list or still waiting.
ShipIsOne ==
    LET players == OfClass("Player")
        parts == OfClass("PlayerGun") \cup OfClass("PlayerEngineEffect")
    IN /\ \A i \in players : Cardinality(parts) = IF All[i].began THEN 3 ELSE 0
       /\ \A p \in parts : IsActive(All[p]) <=> \E i \in players : IsActive(All[i])

\* A point is one enemy and one bullet: a bullet over two enemies, or an enemy
\* under two bullets, found as two pairs in the same frame, is one hit; and an
\* enemy that is gone, or going, earns nothing.
EachPointIsOneHit ==
    [][score' # score =>
          LET hit == {i \in ActiveActors : ~IsActive(actors'[i])}
          IN /\ score' = score + 1
             /\ Cardinality(hit) = 2
             /\ {actors[i].class : i \in hit} = Shots]_vars

\* Once the player is dead the program ends by itself.
DeathEndsTheProgram == gameOver ~> (phase = "stopped")
=============================================================================
