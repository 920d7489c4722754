-------------------------------- MODULE Pawn --------------------------------
(***************************************************************************)
(* What the local levels' player and enemies share: health, the short      *)
(* invulnerability after a hit and the knockback a hit starts (class Pawn).*)
(*                                                                         *)
(* A pawn is a record: kind; at and prev, where it stands and where it     *)
(* stood when the frame began; dir, the way it faces; hp; hurt, still      *)
(* invulnerable; push and pushSteps, the direction and the cells left of a *)
(* knockback; hopping, for a Tektite in the air; fresh, spawned this frame *)
(* and not yet among the level's actors.  Sub-cell movement and the clocks *)
(* are left out: how many cells a frame moves a pawn, and when its         *)
(* invulnerability ends, is chosen by the level's actions.                 *)
(***************************************************************************)
EXTENDS RoomGeometry

CONSTANTS
    KnockbackDistance,   \* cells a hit pushes its victim
    StepsPerFrame        \* bound: cells anything moves in one frame

ASSUME PawnAssumption ==
    KnockbackDistance \in Nat \ {0} /\ StepsPerFrame \in Nat \ {0}

NewPawn(kind, at, hp, dir) ==
    [kind |-> kind, at |-> at, prev |-> at, dir |-> dir, hp |-> hp,
     hurt |-> FALSE, push |-> NoDirection, pushSteps |-> 0,
     hopping |-> FALSE, fresh |-> TRUE]

PawnRecord(kinds, maxHp) ==
    [kind : kinds, at : Int \X Int, prev : Int \X Int,
     dir : {-1, 0, 1} \X {-1, 0, 1}, hp : 0 .. maxHp, hurt : BOOLEAN,
     push : Directions \cup {NoDirection}, pushSteps : 0 .. KnockbackDistance,
     hopping : BOOLEAN, fresh : BOOLEAN]

IsDead(pawn) == pawn.hp = 0

IsKnockback(pawn) == pawn.pushSteps > 0

\* Away from the attacker along the weapon; a weapon that is the attacker
\* itself pushes straight away from it.
KnockbackDirection(victimAt, instigatorAt, causerAt) ==
    LET weapon == Minus(causerAt, instigatorAt)
        d == IF weapon # NoDirection THEN weapon ELSE Minus(victimAt, causerAt)
    IN CASE d = NoDirection -> NoDirection
         [] d # NoDirection /\ Magnitude(d[1]) >= Magnitude(d[2]) ->
                IF d[1] >= 0 THEN Right ELSE Left
         [] OTHER -> IF d[2] >= 0 THEN Down ELSE Up

CanBeHurt(pawn) == ~IsDead(pawn) /\ ~pawn.hurt

\* What a hit by causer, in the hands of instigator, makes of a pawn.
TakeDamage(pawn, amount, instigatorAt, causerAt) ==
    LET hp == pawn.hp - Smaller(amount, pawn.hp)
        push == KnockbackDirection(pawn.at, instigatorAt, causerAt)
    IN CASE amount <= 0 \/ ~CanBeHurt(pawn) -> pawn
         [] amount > 0 /\ CanBeHurt(pawn) /\ hp = 0 -> [pawn EXCEPT !.hp = 0]
         [] OTHER -> IF push = NoDirection
                     THEN [pawn EXCEPT !.hp = hp, !.hurt = TRUE]
                     ELSE [pawn EXCEPT !.hp = hp, !.hurt = TRUE, !.push = push,
                                       !.pushSteps = KnockbackDistance]

\* A frame's share of a knockback is taken off before it is walked.  (The
\* direction of a spent knockback is never read: it is dropped here.)
ConsumeKnockbackSteps(pawn, n) ==
    IF n = pawn.pushSteps
    THEN [pawn EXCEPT !.push = NoDirection, !.pushSteps = 0]
    ELSE [pawn EXCEPT !.pushSteps = @ - n]

StopKnockback(pawn) == [pawn EXCEPT !.push = NoDirection, !.pushSteps = 0]

FrameSteps == 0 .. StepsPerFrame

KnockbackSteps(pawn) == 0 .. Smaller(StepsPerFrame, pawn.pushSteps)

MoveBy(pawn, delta) == [pawn EXCEPT !.at = Plus(@, delta)]

\* The end of a frame: a spawned pawn has joined the level, and the next
\* frame's sweep is measured from here.
EndFrame(pawn) == [pawn EXCEPT !.prev = pawn.at, !.fresh = FALSE]
=============================================================================
