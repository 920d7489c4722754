---------------------------- MODULE EngineActors ----------------------------
(***************************************************************************)
(* The life of actors in a level of the engine (CraftEngine: Engine::Run,  *)
(* Level, Actor, CollisionSystem).  A frame begins the actors that have    *)
(* not begun, ticks them in the order of the list, collects the pairs that *)
(* overlap and lets each pair collide; handlers create and destroy actors  *)
(* all the while, but the list itself only changes at the frame's end.     *)
(*                                                                         *)
(* An actor is a record: its class, whether it has begun and has expired,  *)
(* and the class of the actor it is attached to.  Within a frame it is     *)
(* known by its place in the list.  What a class does is its game's.       *)
(***************************************************************************)
EXTENDS Picks

VARIABLES
    actors,                 \* Level::actors
    addRequestedActors,     \* Level::addRequestedActors
    phase,                  \* "begin", "tick", "collide" or "stopped"
    next,                   \* the actor of the list that ticks next
    pairs                   \* collided pairs of the list not handled yet

engineVars == <<actors, addRequestedActors, phase, next, pairs>>

NoParent == "nobody"

NewActor(class, parent) ==
    [class |-> class, parent |-> parent, began |-> FALSE, expired |-> FALSE]

IsActive(actor) == ~actor.expired

Active(list) == {i \in DOMAIN list : IsActive(list[i])}
ActiveActors == Active(actors)

\* SpawnActor: an actor that is asked for waits.
SpawnActor(class, parent) ==
    addRequestedActors' = Append(addRequestedActors, NewActor(class, parent))

\* Mistake: the actors attached to one that is destroyed are left alone.
DestroyAlone(list, class, hit) ==
    [i \in DOMAIN list |->
        [list[i] EXCEPT !.expired = @ \/ i \in hit]]

\* Destroy: the actors at the places hit, and those attached to a class that
\* is destroyed, expire.
Destroy(list, class, hit) ==
    [i \in DOMAIN list |->
        [list[i] EXCEPT !.expired = @ \/ i \in hit \/ list[i].parent = class]]

-----------------------------------------------------------------------------
(* The parts of a frame.                                                   *)

\* Level::BeginPlay is for the active actors that have not begun.
Beginning == {i \in ActiveActors : ~actors[i].began}

ActorsBegin ==
    actors' = [i \in DOMAIN actors |->
                  [actors[i] EXCEPT !.began = @ \/ i \in Beginning]]

\* Level::Tick: the next in the list that is still active; idle are the classes
\* whose Tick changes nothing.
StillToTick(idle) ==
    {i \in ActiveActors : i >= next /\ actors[i].class \notin idle}

Ticking(idle) ==
    CHOOSE i \in StillToTick(idle) : \A j \in StillToTick(idle) : i <= j

\* The first walk of ProcessCollision: which boxes overlap is left open.
CollectPairs(collide) ==
    /\ phase' = "collide" /\ next' = 1
    /\ pairs' = collide
    /\ UNCHANGED <<actors, addRequestedActors>>

\* Pairs are handled in the order in which they were found.
FirstPair ==
    CHOOSE p \in pairs : \A q \in pairs : \/ p[1] < q[1]
                                          \/ p[1] = q[1] /\ p[2] <= q[2]

\* Mistake: a pair is not looked at again before it collides.
StillActiveAsFound(p) == TRUE

\* The second walk: a pair with an actor that an earlier one destroyed is
\* passed over.
StillActive(p) == p[1] \in ActiveActors /\ p[2] \in ActiveActors

PassPair ==
    /\ phase = "collide" /\ pairs # {} /\ ~StillActive(FirstPair)
    /\ pairs' = pairs \ {FirstPair}
    /\ UNCHANGED <<actors, addRequestedActors, phase, next>>

\* ProcessRequestedActors, after Draw.
ProcessRequestedActors ==
    /\ phase = "collide" /\ pairs = {}
    /\ actors' = Picked(actors, ActiveActors)
                    \o Picked(addRequestedActors, Active(addRequestedActors))
    /\ addRequestedActors' = <<>>
    /\ UNCHANGED <<next, pairs>>
=============================================================================
