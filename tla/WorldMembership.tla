-------------------------- MODULE WorldMembership --------------------------
(***************************************************************************)
(* What Z1Server promises its clients, without threads, completion packets *)
(* or queues: a connection enters the world at most once, under an id that *)
(* was never given before, its player is in the world for exactly as long  *)
(* as the connection plays, and a connection that closed plays no more     *)
(* before its address is given to a new one.                               *)
(***************************************************************************)
EXTENDS Naturals

CONSTANT Conns

VARIABLES
  conn,     \* the phase of each connection
  player,   \* the id a playing connection was given, 0 for the others
  players,  \* the ids of the players in the world
  issued    \* the last id given

vars == <<conn, player, players, issued>>

Phases == {"none", "connected", "playing", "closed"}

TypeOK ==
  /\ conn \in [Conns -> Phases]
  /\ player \in [Conns -> Nat]
  /\ players \subseteq Nat
  /\ issued \in Nat

Init ==
  /\ conn = [c \in Conns |-> "none"]
  /\ player = [c \in Conns |-> 0]
  /\ players = {}
  /\ issued = 0

InPhase(C, P) == \A c \in C : conn[c] \in P

MoveTo(C, phase) == conn' = [c \in Conns |-> IF c \in C THEN phase ELSE conn[c]]

Connect(C) ==
  /\ InPhase(C, {"none"}) /\ MoveTo(C, "connected")
  /\ UNCHANGED <<player, players, issued>>

Join(c) ==
  /\ InPhase({c}, {"connected"}) /\ MoveTo({c}, "playing")
  /\ issued' = issued + 1
  /\ player' = [player EXCEPT ![c] = issued']
  /\ players' = players \cup {issued'}

\* Several connections may be dropped by one broadcast; the id of a refused
\* second entry is spent.
Leave(C) ==
  /\ InPhase(C, {"connected", "playing"}) /\ MoveTo(C, "closed")
  /\ player' = [c \in Conns |-> IF c \in C THEN 0 ELSE player[c]]
  /\ players' = players \ {player[c] : c \in C}
  /\ issued' \in {issued, issued + 1}

Forget(C) ==
  /\ InPhase(C, {"closed"}) /\ MoveTo(C, "none")
  /\ UNCHANGED <<player, players, issued>>

SpendId == issued' = issued + 1 /\ UNCHANGED <<conn, player, players>>

Next ==
  \/ \E C \in SUBSET Conns : Connect(C) \/ Leave(C) \/ Forget(C)
  \/ \E c \in Conns : Join(c)
  \/ SpendId

Spec == Init /\ [][Next]_vars
=============================================================================
