----------------------------- MODULE LevelVisit -----------------------------
(***************************************************************************)
(* What the rest of the single-player game sees of a level it plays in:    *)
(* the player's health and sword, what was won there, and the level that   *)
(* is asked for next.  LocalOverworld and LocalDungeon implement it, with  *)
(* all that happens in their rooms; LocalGame is played with it.           *)
(***************************************************************************)
EXTENDS Integers

CONSTANTS
    MaxHp,
    Exits       \* the levels it leads to, the endings apart

VARIABLE visit

NoRequest == "none"

\* The health, the sword; Aquamentus defeated, the heart and the triforce
\* collected; the level asked for; away, another level runs.
NewVisit(hp, hasSword) ==
    [hp |-> hp, hasSword |-> hasSword, boss |-> FALSE, heart |-> FALSE,
     triforce |-> FALSE, request |-> NoRequest, away |-> FALSE]

When(condition, v) == IF condition THEN {v} ELSE {}

\* Hits take health, but no longer once the triforce is had.
Hurt(v) ==
    {[v EXCEPT !.hp = h] : h \in {n \in 0 .. v.hp - 1 : ~v.triforce}}

DefeatBoss(v) == When(v.hp > 0, [v EXCEPT !.boss = TRUE])

\* Whoever beat the boss, and is not on the way out, may take the heart, which
\* heals, and the triforce.
Collect(v) ==
    {[v EXCEPT !.heart = h, !.triforce = t,
               !.hp = IF h /\ ~v.heart THEN MaxHp ELSE @] :
        h \in {b \in BOOLEAN : v.heart => b},
        t \in {b \in BOOLEAN : /\ v.boss /\ v.hp > 0 /\ v.request = NoRequest
                               /\ v.triforce => b}}

\* The living go where the exits lead, armed if it is the dungeon, the dead to
\* the game over screen, the holder of the triforce to the ending.
Ask(v) ==
    {[v EXCEPT !.request = r] :
        r \in {e \in Exits : /\ v.hp > 0 /\ ~v.triforce
                             /\ v.request = NoRequest
                             /\ e = "Dungeon1" => v.hasSword}}
    \cup When(v.hp = 0 /\ v.request = NoRequest, [v EXCEPT !.request = "GameOver"])
    \cup When(v.triforce, [v EXCEPT !.request = "Clear"])

Leave(v) == When(v.request # NoRequest, [v EXCEPT !.away = TRUE])

\* The player is back, with what the game has kept of it.
ReturnWith(v, hp, hasSword) ==
    [v EXCEPT !.hp = hp, !.hasSword = @ \/ hasSword,
              !.request = NoRequest, !.away = FALSE]

\* What a visit may become in a step of the level.
Played(v) == Hurt(v) \cup DefeatBoss(v) \cup Collect(v) \cup Ask(v)

Init == \E hp \in 0 .. MaxHp, hasSword \in BOOLEAN :
            visit = NewVisit(hp, hasSword)

Next ==
    \/ ~visit.away /\ visit' \in Played(visit) \cup Leave(visit)
    \/ /\ visit.away /\ visit.request \in Exits
       /\ \E hp \in 0 .. MaxHp, hasSword \in BOOLEAN :
             visit' = ReturnWith(visit, hp, hasSword)

Spec == Init /\ [][Next]_visit
=============================================================================
