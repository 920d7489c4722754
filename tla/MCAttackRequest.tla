--------------------------- MODULE MCAttackRequest ---------------------------
(* The world of MCOverworld with a history of what each attack request was *)
(* pressed with.                                                           *)
EXTENDS MCOverworld

VARIABLE
  movingRequest  \* players whose pending request was made holding a direction

allVars == <<vars, movingRequest>>

PressInit == Init /\ movingRequest = {}

Press(p, direction, attack) ==
  /\ SetInput(p, direction, attack)
  /\ movingRequest' =
       IF attack /\ direction = "None" THEN movingRequest \ {p}
       ELSE IF attack /\ ~player[p].attackRequested THEN movingRequest \cup {p}
       ELSE movingRequest

NotPress ==
  /\ Tick \/ \E p \in Players : SpawnPlayer(p) \/ DespawnPlayer(p)
  /\ movingRequest' = {p \in movingRequest : player'[p].attackRequested}

PressNext ==
  \/ NotPress
  \/ \E p \in Players, direction \in InputDirections, attack \in BOOLEAN :
       Press(p, direction, attack)

PressSpec == PressInit /\ [][PressNext]_allVars

\* docs/z1/TESTING.md:105: pressing A while a direction is held strikes no blow,
\* nor does the request strike one later, when the direction is released.
MovingRequestsNeverStrike ==
  [][\A v \in events' \ events : v.player \notin movingRequest]_allVars
=============================================================================
