---------------------------- MODULE ServerProofs ----------------------------
(***************************************************************************)
(* Proofs about Server.tla: its type invariant and its safety invariants,  *)
(* for every set of connections and every value of the bounds.             *)
(***************************************************************************)
EXTENDS Server, FiniteSetTheorems, TLAPS

(* Every operation on a session yields a session.                          *)
LEMMA SessionOperationsTyped ==
  ASSUME NEW s \in SessionState, NEW posted \in BOOLEAN, NEW partial \in BOOLEAN,
         NEW id \in Nat
  PROVE  /\ AfterPostRecv(s, posted) \in SessionState
         /\ AfterSend(s, posted) \in SessionState
         /\ AfterHandleSend(s, partial, posted) \in SessionState
         /\ AfterEnter(s, id) \in SessionState
         /\ AfterClose(s) \in SessionState
         /\ NewSession \in SessionState
  <1> USE SendQueueAssumption DEF SessionState
  <1>1. AfterPostRecv(s, posted) \in SessionState
    BY DEF AfterPostRecv, PostRecvSucceeds
  <1>2. AfterSend(s, posted) \in SessionState
    <2>1. CASE SendQueues(s)
      <3>1. s.queued + 1 \in 0 .. MaxQueuedSendPackets
        BY <2>1 DEF SendQueues
      <3>2. (s.sendPending \/ posted) \in BOOLEAN
        OBVIOUS
      <3>3. AfterSend(s, posted) = [s EXCEPT !.queued = s.queued + 1,
                                             !.sendPending = s.sendPending \/ posted]
        BY <2>1 DEF AfterSend
      <3>4. QED  BY <3>1, <3>2, <3>3
    <2>2. CASE ~SendQueues(s)
      BY <2>2 DEF AfterSend
    <2>3. QED  BY <2>1, <2>2
  <1>3. AfterHandleSend(s, partial, posted) \in SessionState
    <2>1. CASE s.queued # 0
      <3>1. LeftToSend(s, partial) \in 0 .. MaxQueuedSendPackets
        BY <2>1 DEF LeftToSend
      <3>2. (HandleSendPosts(s, partial) /\ posted) \in BOOLEAN
        BY DEF HandleSendPosts
      <3>3. AfterHandleSend(s, partial, posted)
              = [s EXCEPT !.queued = LeftToSend(s, partial),
                          !.sendPending = HandleSendPosts(s, partial) /\ posted]
        BY <2>1 DEF AfterHandleSend
      <3>4. QED  BY <3>1, <3>2, <3>3
    <2>2. CASE s.queued = 0
      BY <2>2 DEF AfterHandleSend
    <2>3. QED  BY <2>1, <2>2
  <1>4. AfterEnter(s, id) \in SessionState
    BY DEF AfterEnter
  <1>5. AfterClose(s) \in SessionState
    BY DEF AfterClose
  <1>6. NewSession \in SessionState
    BY DEF NewSession, NoPlayer
  <1>7. QED  BY <1>1, <1>2, <1>3, <1>4, <1>5, <1>6

LEMMA SessionsAfterCloseTyped ==
  ASSUME NEW after \in [Conns -> SessionState], NEW C
  PROVE  /\ SessionsAfterClose(after, C) \in [Conns -> SessionState]
         /\ \A c \in Conns : SessionsAfterClose(after, C)[c]
                               = IF c \in C THEN AfterClose(after[c]) ELSE after[c]
  <1>1. \A c \in Conns : AfterClose(after[c]) \in SessionState
    BY SessionOperationsTyped
  <1>2. QED  BY <1>1 DEF SessionsAfterClose

LEMMA BroadcastTyped ==
  ASSUME TypeOK, NEW R, NEW unbuilt, Broadcast(R, unbuilt)
  PROVE  /\ session' \in [Conns -> SessionState]
         /\ outstanding' \subseteq Operation \cup (R \X {"send"})
         /\ players' \subseteq players
  <1>1. PICK posted \in SUBSET {c \in R \ unbuilt : SendPosts(session[c])} :
          LET sent == [c \in Conns |-> IF c \in R \ unbuilt
                                       THEN AfterSend(session[c], c \in posted)
                                       ELSE session[c]]
              failed == unbuilt \cup
                        {c \in R \ unbuilt : ~SendSucceeds(session[c], c \in posted)}
          IN /\ session' = SessionsAfterClose(sent, failed)
             /\ players' = players \ Despawned(sent, failed)
             /\ outstanding' = outstanding \cup (posted \X {"send"})
    BY DEF Broadcast
  <1> DEFINE sent == [c \in Conns |-> IF c \in R \ unbuilt
                                      THEN AfterSend(session[c], c \in posted)
                                      ELSE session[c]]
  <1>2. sent \in [Conns -> SessionState]
    <2>1. ASSUME NEW c \in Conns  PROVE  AfterSend(session[c], c \in posted) \in SessionState
      <3> DEFINE p == c \in posted
      <3>1. p \in BOOLEAN /\ session[c] \in SessionState
        BY DEF TypeOK
      <3> HIDE DEF p
      <3>2. AfterSend(session[c], p) \in SessionState
        BY <3>1, SessionOperationsTyped
      <3>3. QED  BY <3>2 DEF p
    <2>2. QED  BY <2>1 DEF TypeOK
  <1>3. session' \in [Conns -> SessionState]
    <2> HIDE DEF sent
    <2>1. QED  BY <1>1, <1>2, SessionsAfterCloseTyped DEF sent
  <1>4. QED  BY <1>1, <1>3 DEF TypeOK

-----------------------------------------------------------------------------
(* The type invariant.                                                     *)

LEMMA TailTyped ==
  ASSUME TypeOK, port # <<>>
  PROVE  /\ Head(port) \in Completion \cup {Shutdown}
         /\ Tail(port) \in Seq(Completion \cup {Shutdown})
  BY DEF TypeOK

LEMMA AppendTyped ==
  ASSUME TypeOK, NEW e \in Completion \cup {Shutdown}
  PROVE  Append(port, e) \in Seq(Completion \cup {Shutdown})
  BY DEF TypeOK

LEMMA AcksTyped ==
  ASSUME TypeOK, NEW c \in Conns
  PROVE  /\ AckRecv(c) \in [Conns -> SessionState]
         /\ AckSend(c) \in [Conns -> SessionState]
  <1>1. session \in [Conns -> SessionState]  BY DEF TypeOK
  <1>2. [session[c] EXCEPT !.recvPending = FALSE] \in SessionState
    BY <1>1 DEF SessionState
  <1>3. [session[c] EXCEPT !.sendPending = FALSE] \in SessionState
    BY <1>1 DEF SessionState
  <1>4. QED  BY <1>1, <1>2, <1>3 DEF AckRecv, AckSend

LEMMA DespawnedLeavesNat ==
  ASSUME TypeOK, NEW D
  PROVE  players \ D \subseteq Nat
  BY DEF TypeOK

LEMMA LoopTyped ==
  ASSUME TypeOK,
         \/ RemoveClosedSessions \/ ProcessAcceptedSockets \/ StartTick
         \/ BroadcastCombatEvent \/ BroadcastWorldSnapshot
         \/ BroadcastEnemyPathDebug \/ EndTick \/ EndCatchup
  PROVE  TypeOK'
  <1> USE DEF IoStates, stop, os, world
  <1>1. ASSUME RemoveClosedSessions  PROVE TypeOK'
    <2>1. session' \in [Conns -> SessionState]
      BY <1>1, SessionOperationsTyped DEF TypeOK, RemoveClosedSessions
    <2>2. QED  BY <1>1, <2>1 DEF TypeOK, RemoveClosedSessions
  <1>2. ASSUME ProcessAcceptedSockets  PROVE TypeOK'
    <2>1. NewSession \in SessionState
      BY SendQueueAssumption DEF NewSession, NoPlayer, SessionState
    <2>2. AfterPostRecv(NewSession, TRUE) \in SessionState
      BY <2>1, SessionOperationsTyped
    <2>3. session' \in [Conns -> SessionState] /\ sessions' \subseteq Conns
      BY <1>2, <2>2 DEF TypeOK, ProcessAcceptedSockets
    <2>4. outstanding' \subseteq Operation
      BY <1>2 DEF TypeOK, ProcessAcceptedSockets, Operation, Directions
    <2>5. QED  BY <1>2, <2>3, <2>4 DEF TypeOK, ProcessAcceptedSockets
  <1>3. ASSUME StartTick  PROVE TypeOK'
    BY <1>3, BoundsAssumption DEF TypeOK, StartTick
  <1>4. ASSUME NEW R, NEW unbuilt, R \subseteq Conns, Broadcast(R, unbuilt),
               ioPc' \in IoStates
        PROVE TypeOK'
    <2>1. outstanding' \subseteq Operation
      BY <1>4, BroadcastTyped DEF TypeOK, Operation, Directions
    <2>2. session' \in [Conns -> SessionState] /\ players' \subseteq Nat
      BY <1>4, BroadcastTyped DEF TypeOK
    <2>3. QED  BY <1>4, <2>1, <2>2 DEF TypeOK, Broadcast
  <1>5. Recipients \subseteq Conns
    BY DEF TypeOK, Recipients
  <1>6. ASSUME BroadcastCombatEvent  PROVE TypeOK'
    BY <1>4, <1>5, <1>6 DEF BroadcastCombatEvent, TypeOK
  <1>7. ASSUME BroadcastWorldSnapshot  PROVE TypeOK'
    BY <1>4, <1>5, <1>7 DEF BroadcastWorldSnapshot
  <1>8. ASSUME BroadcastEnemyPathDebug  PROVE TypeOK'
    BY <1>4, <1>5, <1>8 DEF BroadcastEnemyPathDebug, TypeOK
  <1>9. ASSUME EndTick  PROVE TypeOK'
    BY <1>9 DEF TypeOK, EndTick
  <1>10. ASSUME EndCatchup  PROVE TypeOK'
    <2>1. 0 \in 0 .. MaxCatchupTicks
      BY BoundsAssumption
    <2>2. QED  BY <1>10, <2>1 DEF TypeOK, EndCatchup
  <1>11. QED  BY <1>1, <1>2, <1>3, <1>6, <1>7, <1>8, <1>9, <1>10

LEMMA DequeueTyped ==
  ASSUME TypeOK, Dequeue
  PROVE  TypeOK'
  <1> USE DEF IoStates, stop, os, world
  <1>1. ASSUME DequeueTimeout  PROVE TypeOK'
    BY <1>1 DEF TypeOK, DequeueTimeout
  <1>2. ASSUME DequeueShutdown  PROVE TypeOK'
    BY <1>2, TailTyped DEF TypeOK, DequeueShutdown
  <1>3. ASSUME NEW c \in Conns, NEW d, Dequeued(c, d)
        PROVE port' \in Seq(Completion \cup {Shutdown})
    BY <1>3, TailTyped DEF Dequeued
  <1>4. ASSUME NEW c \in Conns, RecvFailed(c)  PROVE TypeOK'
    <2>1. session' \in [Conns -> SessionState]
      <3> HIDE DEF IoStates, stop, os, world
      <3>1. QED  BY <1>4, AcksTyped, SessionsAfterCloseTyped DEF RecvFailed
    <2>2. players' \subseteq Nat
      BY <1>4, DespawnedLeavesNat DEF RecvFailed
    <2>3. QED  BY <1>3, <1>4, <2>1, <2>2 DEF TypeOK, RecvFailed
  <1>5. ASSUME NEW c \in Conns, RecvCompleted(c)  PROVE TypeOK'
    BY <1>3, <1>5, AcksTyped DEF TypeOK, RecvCompleted
  <1>6. ASSUME NEW c \in Conns, SendFailed(c)  PROVE TypeOK'
    <2>1. session' \in [Conns -> SessionState]
      BY <1>6, AcksTyped, SessionsAfterCloseTyped DEF SendFailed
    <2>2. players' \subseteq Nat
      BY <1>6, DespawnedLeavesNat DEF SendFailed
    <2>3. QED  BY <1>3, <1>6, <2>1, <2>2 DEF TypeOK, SendFailed
  <1>7. ASSUME NEW c \in Conns, SendCompleted(c)  PROVE TypeOK'
    <2>1. PICK partial \in BOOLEAN, posted \in BOOLEAN :
            LET s == AckSend(c)[c]
                after == [session EXCEPT ![c] = AfterHandleSend(s, partial, posted)]
                failed == IF HandleSendSucceeds(s, partial, posted) THEN {} ELSE {c}
            IN /\ session' = SessionsAfterClose(after, failed)
               /\ players' = players \ Despawned(after, failed)
               /\ outstanding' = IF after[c].sendPending
                                 THEN outstanding \cup {<<c, "send">>}
                                 ELSE outstanding
      BY <1>7 DEF SendCompleted
    <2> DEFINE after == [session EXCEPT ![c] = AfterHandleSend(AckSend(c)[c], partial, posted)]
    <2>2. AckSend(c)[c] \in SessionState
      BY AcksTyped
    <2>3. AfterHandleSend(AckSend(c)[c], partial, posted) \in SessionState
      BY <2>2, SessionOperationsTyped
    <2>4. after \in [Conns -> SessionState]
      BY <2>3 DEF TypeOK
    <2>5. session' \in [Conns -> SessionState]
      <3> HIDE DEF after
      <3>1. QED  BY <2>1, <2>4, SessionsAfterCloseTyped DEF after
    <2>6. players' \subseteq Nat
      BY <2>1 DEF TypeOK
    <2>7. outstanding' \subseteq Operation
      BY <2>1 DEF TypeOK, Operation, Directions
    <2>8. QED  BY <1>3, <1>7, <2>5, <2>6, <2>7 DEF TypeOK, SendCompleted
  <1>8. QED  BY <1>1, <1>2, <1>4, <1>5, <1>6, <1>7 DEF Dequeue

LEMMA DispatchTyped ==
  ASSUME TypeOK, DispatchInv, Dispatch
  PROVE  TypeOK'
  <1> USE DEF IoStates, stop, os, world, DispatchStops
  <1>1. current \in Conns
    BY DEF TypeOK, DispatchInv, Dispatch, HandleEnter, HandleInput, RefusePacket, EndDispatch
  <1>2. ASSUME HandleEnter  PROVE TypeOK'
    <2> DEFINE entered == AfterEnter(session[current], lastId + 1)
               result(posted) == IF EnterSucceeds(session[current])
                                 THEN AfterSend(entered, posted) ELSE entered
               after(posted) == [session EXCEPT ![current] = result(posted)]
               handled(posted) == /\ EnterSucceeds(session[current])
                                  /\ SendSucceeds(entered, posted)
               spawned == IF EnterSucceeds(session[current]) THEN {lastId + 1} ELSE {}
    <2>1. PICK posted \in BOOLEAN :
            LET failed == IF handled(posted) THEN {} ELSE {current}
            IN /\ session' = SessionsAfterClose(after(posted), failed)
               /\ players' = (players \cup spawned) \ Despawned(after(posted), failed)
               /\ outstanding' = IF after(posted)[current].sendPending
                                      /\ ~session[current].sendPending
                                 THEN outstanding \cup {<<current, "send">>}
                                 ELSE outstanding
               /\ IF handled(posted) THEN UNCHANGED <<current, ioPc>> ELSE DispatchStops
      BY <1>2 DEF HandleEnter
    <2>2. session[current] \in SessionState /\ lastId + 1 \in Nat
      BY <1>1 DEF TypeOK
    <2>3. entered \in SessionState
      BY <2>2, SessionOperationsTyped
    <2>4. result(posted) \in SessionState
      <3> HIDE DEF entered
      <3>1. QED  BY <2>3, SessionOperationsTyped
    <2>5. after(posted) \in [Conns -> SessionState]
      <3> HIDE DEF result
      <3>1. QED  BY <1>1, <2>4 DEF TypeOK
    <2>6. session' \in [Conns -> SessionState]
      <3> HIDE DEF after, handled
      <3>1. QED  BY <2>1, <2>5, SessionsAfterCloseTyped
    <2>7. players' \subseteq Nat
      <3> HIDE DEF after, handled
      <3>1. QED  BY <2>1, <2>2 DEF TypeOK
    <2>8. outstanding' \subseteq Operation
      <3> HIDE DEF after, handled
      <3>1. QED  BY <1>1, <2>1 DEF TypeOK, Operation, Directions
    <2>9. current' \in Conns \cup {NoConn} /\ ioPc' \in IoStates
      <3> HIDE DEF after, handled
      <3>1. QED  BY <2>1 DEF TypeOK
    <2>10. QED  BY <1>2, <2>2, <2>6, <2>7, <2>8, <2>9 DEF TypeOK, HandleEnter
  <1>3. ASSUME HandleInput  PROVE TypeOK'
    BY <1>3 DEF TypeOK, HandleInput, vars
  <1>4. ASSUME RefusePacket  PROVE TypeOK'
    <2>1. session' \in [Conns -> SessionState]
      BY <1>4, SessionsAfterCloseTyped DEF TypeOK, RefusePacket
    <2>2. players' \subseteq Nat
      BY <1>4, DespawnedLeavesNat DEF RefusePacket
    <2>3. QED  BY <1>4, <2>1, <2>2 DEF TypeOK, RefusePacket
  <1>5. ASSUME EndDispatch  PROVE TypeOK'
    <2>1. CASE stopRequested
      BY <1>5, <2>1 DEF TypeOK, EndDispatch
    <2>2. CASE ~stopRequested
      <3> DEFINE after(posted) == [session EXCEPT ![current] = AfterPostRecv(@, posted)]
      <3>1. PICK posted \in BOOLEAN :
              LET failed == IF PostRecvSucceeds(session[current], posted) THEN {} ELSE {current}
              IN /\ session' = SessionsAfterClose(after(posted), failed)
                 /\ players' = players \ Despawned(after(posted), failed)
                 /\ outstanding' = IF after(posted)[current].recvPending
                                   THEN outstanding \cup {<<current, "recv">>}
                                   ELSE outstanding
        BY <1>5, <2>2 DEF EndDispatch
      <3>2. AfterPostRecv(session[current], posted) \in SessionState
        BY <1>1, SessionOperationsTyped DEF TypeOK
      <3>3. after(posted) \in [Conns -> SessionState]
        BY <1>1, <3>2 DEF TypeOK
      <3>4. session' \in [Conns -> SessionState]
        <4> HIDE DEF after
        <4>1. QED  BY <3>1, <3>3, SessionsAfterCloseTyped
      <3>5. /\ players' \subseteq Nat
            /\ outstanding' \subseteq Operation
        <4> HIDE DEF after
        <4>1. players' \subseteq Nat
          BY <3>1 DEF TypeOK
        <4>2. <<current, "recv">> \in Operation
          BY <1>1 DEF Operation, Directions
        <4>3. outstanding' \subseteq Operation
          BY <3>1, <4>2 DEF TypeOK
        <4>4. QED  BY <4>1, <4>3
      <3>6. QED  BY <1>5, <3>4, <3>5 DEF TypeOK, EndDispatch
    <2>3. QED  BY <2>1, <2>2
  <1>6. QED  BY <1>2, <1>3, <1>4, <1>5 DEF Dispatch

LEMMA OtherThreadsTyped ==
  ASSUME TypeOK, AcceptLoop \/ Winsock \/ Stop
  PROVE  TypeOK'
  <1> USE DEF stop, os, world
  <1>1. ASSUME AcceptLoop  PROVE TypeOK'
    <2>1. CASE CheckStopRequested \/ AcceptFails
      BY <2>1 DEF TypeOK, CheckStopRequested, AcceptFails
    <2>2. ASSUME NEW c \in Conns, AcceptClient(c)  PROVE TypeOK'
      BY <2>2 DEF TypeOK, AcceptClient
    <2>3. QED  BY <1>1, <2>1, <2>2 DEF AcceptLoop
  <1>2. ASSUME NEW c \in Conns, NEW d \in Directions, CompleteOperation(c, d)
        PROVE TypeOK'
    <2>1. PICK ok \in BOOLEAN : port' = Append(port, [conn |-> c, dir |-> d, ok |-> ok])
      BY <1>2 DEF CompleteOperation
    <2>2. [conn |-> c, dir |-> d, ok |-> ok] \in Completion
      BY DEF Completion
    <2>3. port' \in Seq(Completion \cup {Shutdown})
      BY <2>1, <2>2, AppendTyped
    <2>4. QED  BY <1>2, <2>3 DEF TypeOK, CompleteOperation
  <1>3. ASSUME Stop  PROVE TypeOK'
    <2>1. Append(port, Shutdown) \in Seq(Completion \cup {Shutdown})
      BY AppendTyped
    <2>2. QED
      BY <1>3, <2>1 DEF TypeOK, Stop, RequestStop, CloseListener,
                        JoinAcceptThread, JoinIoThread, Stopped, vars
  <1>4. QED  BY <1>1, <1>2, <1>3 DEF Winsock

LEMMA NextTyped ==
  ASSUME TypeOK, DispatchInv, [Next]_vars
  PROVE  TypeOK'
  <1>1. CASE AcceptLoop \/ Winsock \/ Stop
    BY <1>1, OtherThreadsTyped
  <1>2. CASE RemoveClosedSessions \/ ProcessAcceptedSockets \/ Tick
    BY <1>2, LoopTyped DEF Tick
  <1>3. CASE Dequeue
    BY <1>3, DequeueTyped
  <1>4. CASE Dispatch
    BY <1>4, DispatchTyped
  <1>5. CASE UNCHANGED vars
    BY <1>5 DEF TypeOK, vars
  <1>6. QED  BY <1>1, <1>2, <1>3, <1>4, <1>5 DEF Next, IOLoop

-----------------------------------------------------------------------------
(* How the operations change the pending flags, and how completions move   *)
(* between Winsock, the port and the sessions.                             *)

CompletionInv == CompletionsBelongToSessions /\ CompletionsAreDistinct

\* No pending flag of a registered session is cleared by the step.
FlagsKept ==
  \A c \in sessions, d \in Directions :
    Pending(session[c], d) => Pending(session'[c], d)

\* Operations posted by a step: each sets the flag of a session that is
\* registered after it, and was not in progress before.
FreshlyPosted(P) ==
  \A op \in P :
    /\ op[1] \in sessions' /\ Pending(session'[op[1]], op[2])
    /\ op[1] \notin sessions \/ ~Pending(session[op[1]], op[2])

LEMMA PortEntries ==
  ASSUME TypeOK, NEW i \in 1 .. Len(port), port[i] # Shutdown
  PROVE  /\ port[i].conn \in Conns /\ port[i].dir \in Directions
         /\ port[i] \in Completion
  <1>1. port[i] \in Completion \cup {Shutdown}
    BY DEF TypeOK
  <1>2. QED  BY <1>1 DEF Completion

LEMMA ShutdownIsNoCompletion ==
  ASSUME NEW e \in Completion
  PROVE  e # Shutdown
  BY DEF Completion, Shutdown, Directions

\* A step that only posts operations keeps the completion invariant.
LEMMA PostingKeepsCompletions ==
  ASSUME TypeOK, CompletionInv, NEW P \in SUBSET Operation,
         sessions \subseteq sessions', FlagsKept, FreshlyPosted(P),
         outstanding' = outstanding \cup P, port' = port
  PROVE  CompletionInv'
  <1> USE DEF CompletionInv
  <1>1. CompletionsBelongToSessions'
    <2>1. ASSUME NEW op \in outstanding'
          PROVE  op[1] \in sessions' /\ Pending(session'[op[1]], op[2])
      <3>1. CASE op \in P
        BY <3>1 DEF FreshlyPosted
      <3>2. CASE op \in outstanding
        <4>1. op[1] \in sessions /\ Pending(session[op[1]], op[2]) /\ op[2] \in Directions
          BY <3>2 DEF CompletionsBelongToSessions, TypeOK, Operation
        <4>2. QED  BY <4>1 DEF FlagsKept
      <3>3. QED  BY <2>1, <3>1, <3>2
    <2>2. ASSUME NEW i \in 1 .. Len(port'), port'[i] # Shutdown
          PROVE  /\ port'[i].conn \in sessions'
                 /\ Pending(session'[port'[i].conn], port'[i].dir)
      <3>1. i \in 1 .. Len(port) /\ port[i] # Shutdown
        BY <2>2
      <3>2. /\ port[i].conn \in sessions /\ port[i].dir \in Directions
            /\ Pending(session[port[i].conn], port[i].dir)
        BY <3>1, PortEntries DEF CompletionsBelongToSessions
      <3>3. QED  BY <3>2 DEF FlagsKept
    <2>3. QED  BY <2>1, <2>2 DEF CompletionsBelongToSessions
  <1>2. CompletionsAreDistinct'
    <2>1. ASSUME NEW op \in outstanding', NEW i \in 1 .. Len(port),
                 port[i].conn = op[1], port[i].dir = op[2]
          PROVE  FALSE
      <3>1. CASE op \in outstanding
        BY <2>1, <3>1 DEF CompletionsAreDistinct, QueuedAt
      <3>2. CASE op \in P
        <4>1. op[2] \in Directions
          BY <3>2 DEF Operation
        <4>2. port[i] # Shutdown
          BY <2>1, <4>1 DEF Shutdown, Directions
        <4>3. op[1] \in sessions /\ Pending(session[op[1]], op[2])
          BY <2>1, <4>2 DEF CompletionsBelongToSessions
        <4>4. QED  BY <3>2, <4>3 DEF FreshlyPosted
      <3>3. QED  BY <2>1, <3>1, <3>2
    <2>2. \A op \in outstanding' : QueuedAt(op[1], op[2])' = {}
      BY <2>1 DEF QueuedAt
    <2>3. QED  BY <2>2 DEF CompletionsAreDistinct
  <1>3. QED  BY <1>1, <1>2

\* Taking a completion from the port, with at most the same operation posted
\* again, keeps the completion invariant.
LEMMA DequeueKeepsCompletions ==
  ASSUME TypeOK, CompletionInv, NEW c \in Conns, NEW d \in Directions,
         NEW P \in SUBSET {<<c, d>>}, Dequeued(c, d),
         sessions' = sessions, outstanding' = outstanding \cup P,
         \A e \in sessions, k \in Directions :
            <<e, k>> # <<c, d>> /\ Pending(session[e], k) => Pending(session'[e], k),
         P # {} => Pending(session'[c], d)
  PROVE  CompletionInv'
  <1> USE DEF CompletionInv
  <1>1. port # <<>> /\ port[1].conn = c /\ port[1].dir = d /\ port' = Tail(port)
    BY DEF Dequeued
  <1>2. /\ port \in Seq(Completion \cup {Shutdown}) /\ Len(port) \in Nat
        /\ Len(port) > 0 /\ Len(port') = Len(port) - 1
        /\ \A i \in 1 .. Len(port') : port'[i] = port[i + 1] /\ i + 1 \in 1 .. Len(port)
    BY <1>1 DEF TypeOK
  <1>3. port[1] # Shutdown /\ 1 \in 1 .. Len(port)
    BY <1>1, <1>2 DEF Shutdown, Directions
  <1>4. c \in sessions /\ Pending(session[c], d)
    BY <1>1, <1>3 DEF CompletionsBelongToSessions
  <1>5. <<c, d>> \notin outstanding
    BY <1>1, <1>3 DEF CompletionsAreDistinct, QueuedAt
  <1>6. ASSUME NEW i \in 1 .. Len(port'), port'[i] # Shutdown
        PROVE  ~(port'[i].conn = c /\ port'[i].dir = d)
    <2>1. i + 1 \in 1 .. Len(port) /\ port[i + 1] = port'[i] /\ i + 1 # 1
      BY <1>2
    <2>2. QED  BY <1>1, <1>3, <1>6, <2>1 DEF CompletionsAreDistinct
  <1>7. CompletionsBelongToSessions'
    <2>1. ASSUME NEW op \in outstanding'
          PROVE  op[1] \in sessions' /\ Pending(session'[op[1]], op[2])
      <3>1. CASE op \in P
        BY <1>4, <3>1
      <3>2. CASE op \in outstanding
        <4>1. op[1] \in sessions /\ Pending(session[op[1]], op[2])
          BY <3>2 DEF CompletionsBelongToSessions
        <4>2. op = <<op[1], op[2]>> /\ op[2] \in Directions /\ op # <<c, d>>
          BY <1>5, <3>2 DEF TypeOK, Operation
        <4>3. QED  BY <4>1, <4>2
      <3>3. QED  BY <2>1, <3>1, <3>2
    <2>2. ASSUME NEW i \in 1 .. Len(port'), port'[i] # Shutdown
          PROVE  /\ port'[i].conn \in sessions'
                 /\ Pending(session'[port'[i].conn], port'[i].dir)
      <3>1. i + 1 \in 1 .. Len(port) /\ port[i + 1] = port'[i]
        BY <1>2
      <3>2. /\ port'[i].conn \in sessions /\ port'[i].dir \in Directions
            /\ Pending(session[port'[i].conn], port'[i].dir)
        BY <2>2, <3>1, PortEntries DEF CompletionsBelongToSessions
      <3>3. <<port'[i].conn, port'[i].dir>> # <<c, d>>
        BY <1>6, <2>2
      <3>4. QED  BY <3>2, <3>3
    <2>3. QED  BY <2>1, <2>2 DEF CompletionsBelongToSessions
  <1>8. CompletionsAreDistinct'
    <2>1. ASSUME NEW op \in outstanding', NEW i \in 1 .. Len(port'),
                 port'[i].conn = op[1], port'[i].dir = op[2]
          PROVE  FALSE
      <3>1. op[2] \in Directions
        BY <2>1 DEF TypeOK, Operation
      <3>2. port'[i] # Shutdown
        BY <2>1, <3>1 DEF Shutdown, Directions
      <3>3. i + 1 \in 1 .. Len(port) /\ port[i + 1] = port'[i]
        BY <1>2
      <3>4. CASE op \in outstanding
        BY <2>1, <3>3, <3>4 DEF CompletionsAreDistinct, QueuedAt
      <3>5. CASE op \in P
        BY <1>6, <2>1, <3>2, <3>5
      <3>6. QED  BY <2>1, <3>4, <3>5
    <2>2. \A op \in outstanding' : QueuedAt(op[1], op[2])' = {}
      BY <2>1 DEF QueuedAt
    <2>3. ASSUME NEW i \in 1 .. Len(port'), NEW j \in 1 .. Len(port'),
                 i # j, port'[i] # Shutdown
          PROVE  ~(port'[i].conn = port'[j].conn /\ port'[i].dir = port'[j].dir)
      <3>1. /\ i + 1 \in 1 .. Len(port) /\ port[i + 1] = port'[i]
            /\ j + 1 \in 1 .. Len(port) /\ port[j + 1] = port'[j] /\ i + 1 # j + 1
        BY <1>2, <2>3
      <3>2. QED  BY <2>3, <3>1 DEF CompletionsAreDistinct
    <2>4. QED  BY <2>2, <2>3 DEF CompletionsAreDistinct
  <1>9. QED  BY <1>7, <1>8

-----------------------------------------------------------------------------
(* The fields of a session that each operation changes.                    *)

LEMMA AfterCloseFields ==
  ASSUME NEW s \in SessionState
  PROVE  /\ AfterClose(s).closing /\ (AfterClose(s).open <=> s.open /\ s.closing)
         /\ AfterClose(s).recvPending = s.recvPending
         /\ AfterClose(s).sendPending = s.sendPending
         /\ AfterClose(s).playerId = s.playerId
  BY DEF AfterClose, SessionState

LEMMA AfterSendFields ==
  ASSUME NEW s \in SessionState, NEW posted \in BOOLEAN
  PROVE  /\ AfterSend(s, posted).closing = s.closing
         /\ AfterSend(s, posted).open = s.open
         /\ AfterSend(s, posted).recvPending = s.recvPending
         /\ (AfterSend(s, posted).sendPending <=> s.sendPending \/ (SendQueues(s) /\ posted))
         /\ AfterSend(s, posted).playerId = s.playerId
  BY DEF AfterSend, SessionState, SendQueues

LEMMA AfterPostRecvFields ==
  ASSUME NEW s \in SessionState, NEW posted \in BOOLEAN
  PROVE  /\ AfterPostRecv(s, posted).closing = s.closing
         /\ AfterPostRecv(s, posted).open = s.open
         /\ (AfterPostRecv(s, posted).recvPending <=> s.recvPending \/ (s.open /\ posted))
         /\ AfterPostRecv(s, posted).sendPending = s.sendPending
         /\ AfterPostRecv(s, posted).playerId = s.playerId
  BY DEF AfterPostRecv, PostRecvSucceeds, SessionState

LEMMA AfterHandleSendFields ==
  ASSUME NEW s \in SessionState, NEW partial \in BOOLEAN, NEW posted \in BOOLEAN,
         ~s.sendPending
  PROVE  /\ AfterHandleSend(s, partial, posted).closing = s.closing
         /\ AfterHandleSend(s, partial, posted).open = s.open
         /\ AfterHandleSend(s, partial, posted).recvPending = s.recvPending
         /\ AfterHandleSend(s, partial, posted).playerId = s.playerId
  BY DEF AfterHandleSend, SessionState

-----------------------------------------------------------------------------
(* The players of the world when a step does no more to the registry than  *)
(* close the sessions of C.                                                *)

ClosesOnly(C) ==
  /\ sessions' = sessions
  /\ \A c \in sessions :
       /\ session'[c].playerId = session[c].playerId
       /\ session'[c].closing <=> session[c].closing \/ c \in C
       /\ session'[c].open <=> session[c].open /\ c \notin C
  /\ players' = players \ {session[c].playerId : c \in {d \in C : ~session[d].closing}}

LEMMA ClosingKeepsWorld ==
  ASSUME TypeOK, WorldMatchesSessions, NEW C \in SUBSET sessions, ClosesOnly(C)
  PROVE  WorldMatchesSessions'
  <1>1. Recipients' = Recipients \ C
    BY DEF Recipients, ClosesOnly, IsEntered
  <1>2. \A c \in Recipients : session'[c].playerId = session[c].playerId
    BY DEF Recipients, ClosesOnly
  <1>3. ASSUME NEW c \in Recipients, NEW d \in C, ~session[d].closing,
               session[c].playerId = session[d].playerId
        PROVE  c \in C
    <2>1. IsEntered(session[d])
      BY <1>3 DEF Recipients, IsEntered
    <2>2. d \in Recipients
      BY <1>3, <2>1 DEF Recipients
    <2>3. QED  BY <1>3, <2>2 DEF WorldMatchesSessions
  <1>4. ASSUME NEW c \in Recipients, c \in C
        PROVE  session[c].playerId \in {session[e].playerId : e \in {d \in C : ~session[d].closing}}
    BY <1>4 DEF Recipients
  <1>5. players' = {session[c].playerId : c \in Recipients \ C}
    BY <1>3, <1>4 DEF WorldMatchesSessions, ClosesOnly
  <1>6. {session[c].playerId : c \in Recipients \ C} = {session'[c].playerId : c \in Recipients \ C}
    BY <1>2
  <1>7. QED  BY <1>1, <1>2, <1>5, <1>6 DEF WorldMatchesSessions

\* A step that changes neither the registry nor what Recipients reads.
LEMMA SameWorld ==
  ASSUME TypeOK, WorldMatchesSessions, sessions' = sessions, players' = players,
         \A c \in sessions : /\ session'[c].playerId = session[c].playerId
                             /\ session'[c].closing = session[c].closing
  PROVE  WorldMatchesSessions'
  <1>1. Recipients' = Recipients
    BY DEF Recipients, IsEntered
  <1>2. \A c \in Recipients : session'[c].playerId = session[c].playerId
    BY DEF Recipients
  <1>3. {session[c].playerId : c \in Recipients} = {session'[c].playerId : c \in Recipients}
    BY <1>2
  <1>4. QED  BY <1>1, <1>2, <1>3 DEF WorldMatchesSessions

\* CloseSession for a set C of sessions, after handlers that leave the player,
\* the socket and the closing flag of every session as they were.
LEMMA CloseSessionClosesOnly ==
  ASSUME TypeOK, NEW after \in [Conns -> SessionState], NEW C \in SUBSET sessions,
         \A c \in sessions : SessionInv(c),
         \A c \in Conns : /\ after[c].playerId = session[c].playerId
                          /\ after[c].closing = session[c].closing
                          /\ after[c].open = session[c].open,
         sessions' = sessions,
         session' = SessionsAfterClose(after, C),
         players' = players \ Despawned(after, C)
  PROVE  /\ ClosesOnly(C)
         /\ \A c \in sessions : /\ session'[c].recvPending = after[c].recvPending
                                /\ session'[c].sendPending = after[c].sendPending
  <1>1. \A c \in sessions : c \in Conns /\ after[c] \in SessionState
    BY DEF TypeOK
  <1>2. ASSUME NEW c \in sessions
        PROVE  /\ session'[c].playerId = session[c].playerId
               /\ session'[c].closing <=> session[c].closing \/ c \in C
               /\ session'[c].open <=> session[c].open /\ c \notin C
               /\ session'[c].recvPending = after[c].recvPending
               /\ session'[c].sendPending = after[c].sendPending
    <2>1. c \in Conns /\ after[c] \in SessionState
      BY <1>1
    <2>2. CASE c \in C
      <3>1. session'[c] = AfterClose(after[c])
        BY <2>1, <2>2 DEF SessionsAfterClose
      <3>2. session[c].open <=> ~session[c].closing
        BY DEF SessionInv
      <3>3. /\ session'[c].closing /\ (session'[c].open <=> after[c].open /\ after[c].closing)
            /\ session'[c].recvPending = after[c].recvPending
            /\ session'[c].sendPending = after[c].sendPending
            /\ session'[c].playerId = after[c].playerId
        BY <2>1, <3>1, AfterCloseFields
      <3>4. /\ after[c].playerId = session[c].playerId
            /\ after[c].closing = session[c].closing
            /\ after[c].open = session[c].open
        BY <2>1
      <3>5. QED  BY <2>2, <3>2, <3>3, <3>4
    <2>3. CASE c \notin C
      <3>1. session'[c] = after[c]
        BY <2>1, <2>3 DEF SessionsAfterClose
      <3>2. QED  BY <2>1, <2>3, <3>1
    <2>4. QED  BY <2>2, <2>3
  <1>3. Despawned(after, C) = {session[c].playerId : c \in {d \in C : ~session[d].closing}}
    BY DEF Despawned, TypeOK
  <1>4. QED  BY <1>2, <1>3 DEF ClosesOnly

-----------------------------------------------------------------------------
(* The broadcasts of a tick.                                               *)

LEMMA BroadcastKeepsInvariant ==
  ASSUME IInv, ioPc # "dispatch", ioPc' # "dispatch",
         NEW R \in SUBSET Recipients, NEW unbuilt \in SUBSET R, Broadcast(R, unbuilt)
  PROVE  /\ CompletionInv' /\ WorldMatchesSessions' /\ DispatchInv'
         /\ \A c \in sessions' : SessionInv(c)'
         /\ (accepted \cap sessions)' = {}
  <1> USE DEF IInv
  <1>1. PICK posted \in SUBSET {c \in R \ unbuilt : SendPosts(session[c])} :
          LET sent == [c \in Conns |-> IF c \in R \ unbuilt
                                       THEN AfterSend(session[c], c \in posted)
                                       ELSE session[c]]
              failed == unbuilt \cup
                        {c \in R \ unbuilt : ~SendSucceeds(session[c], c \in posted)}
          IN /\ session' = SessionsAfterClose(sent, failed)
             /\ players' = players \ Despawned(sent, failed)
             /\ outstanding' = outstanding \cup (posted \X {"send"})
    BY DEF Broadcast
  <1> DEFINE sent == [c \in Conns |-> IF c \in R \ unbuilt
                                      THEN AfterSend(session[c], c \in posted)
                                      ELSE session[c]]
             failed == unbuilt \cup
                       {c \in R \ unbuilt : ~SendSucceeds(session[c], c \in posted)}
  <1>2. /\ UNCHANGED <<accepted, sessions, port, lastId, current>>
        /\ Recipients \subseteq sessions /\ sessions \subseteq Conns
    BY DEF Broadcast, Recipients, TypeOK
  <1>3. ASSUME NEW c \in Conns
        PROVE  /\ sent[c] \in SessionState
               /\ sent[c].playerId = session[c].playerId
               /\ sent[c].closing = session[c].closing
               /\ sent[c].open = session[c].open
               /\ sent[c].recvPending = session[c].recvPending
               /\ session[c].sendPending => sent[c].sendPending
               /\ c \in posted => sent[c].sendPending
               /\ c \notin R => sent[c] = session[c]
    <2>1. session[c] \in SessionState
      BY DEF TypeOK
    <2>2. CASE c \in R \ unbuilt
      <3> DEFINE p == c \in posted
      <3>1. p \in BOOLEAN /\ sent[c] = AfterSend(session[c], p)
        BY <2>2
      <3>2. p => SendQueues(session[c])
        BY <1>1 DEF SendPosts
      <3> HIDE DEF p, sent
      <3>3. /\ sent[c] \in SessionState
            /\ sent[c].playerId = session[c].playerId
            /\ sent[c].closing = session[c].closing
            /\ sent[c].open = session[c].open
            /\ sent[c].recvPending = session[c].recvPending
            /\ sent[c].sendPending <=> session[c].sendPending \/ (SendQueues(session[c]) /\ p)
        BY <2>1, <3>1, AfterSendFields, SessionOperationsTyped
      <3>4. QED  BY <2>2, <3>2, <3>3 DEF p
    <2>3. CASE c \notin R \ unbuilt
      <3>1. sent[c] = session[c] /\ c \notin posted
        BY <1>1, <2>3
      <3>2. QED  BY <2>1, <3>1
    <2>4. QED  BY <2>2, <2>3
  <1>4. failed \in SUBSET R /\ R \in SUBSET sessions
    BY <1>2
  <1>5. sent \in [Conns -> SessionState]
    BY <1>3
  <1>6. session' = SessionsAfterClose(sent, failed) /\ players' = players \ Despawned(sent, failed)
    BY <1>1
  <1> HIDE DEF sent, failed
  <1>7. /\ ClosesOnly(failed)
        /\ \A c \in sessions : /\ session'[c].recvPending = sent[c].recvPending
                               /\ session'[c].sendPending = sent[c].sendPending
    BY <1>2, <1>3, <1>4, <1>5, <1>6, CloseSessionClosesOnly
  <1>8. CompletionInv'
    <2>1. FlagsKept
      BY <1>2, <1>3, <1>7 DEF FlagsKept, Pending, Directions
    <2>2. ASSUME NEW c \in posted
          PROVE  c \in sessions /\ session'[c].sendPending /\ ~session[c].sendPending
      <3>1. c \in R /\ SendPosts(session[c])
        BY <1>1
      <3>2. QED  BY <1>2, <1>3, <1>4, <1>7, <3>1 DEF SendPosts
    <2>3. FreshlyPosted(posted \X {"send"})
      BY <1>2, <2>2 DEF FreshlyPosted, Pending
    <2>4. posted \X {"send"} \in SUBSET Operation
      BY <1>2, <2>2 DEF Operation, Directions
    <2>5. QED  BY <1>1, <1>2, <2>1, <2>3, <2>4, PostingKeepsCompletions DEF CompletionInv
  <1>9. WorldMatchesSessions'
    BY <1>4, <1>7, ClosingKeepsWorld
  <1>10. DispatchInv'
    BY <1>2 DEF DispatchInv
  <1>11. ASSUME NEW c \in sessions  PROVE SessionInv(c)'
    <2>1. /\ session'[c].playerId = session[c].playerId
          /\ session'[c].closing <=> session[c].closing \/ c \in failed
          /\ session'[c].open <=> session[c].open /\ c \notin failed
      BY <1>7 DEF ClosesOnly
    <2>2. c \in Conns /\ SessionInv(c)
      BY <1>2
    <2>3. CASE IsEntered(session[c])
      BY <1>2, <2>1, <2>2, <2>3 DEF SessionInv, IsEntered
    <2>4. CASE ~IsEntered(session[c])
      <3>1. c \notin R
        BY <2>4 DEF Recipients
      <3>2. c \notin failed /\ sent[c] = session[c]
        BY <1>3, <1>4, <2>2, <3>1
      <3>3. QED  BY <1>2, <1>7, <2>1, <2>2, <3>2 DEF SessionInv, IsEntered
    <2>5. QED  BY <2>3, <2>4
  <1>12. QED  BY <1>2, <1>8, <1>9, <1>10, <1>11

-----------------------------------------------------------------------------
(* The other steps of the loop, the accept thread, Winsock and Stop.       *)

\* The invariant but for the types.
StateInv ==
  /\ CompletionInv /\ DispatchInv /\ WorldMatchesSessions
  /\ \A c \in sessions : SessionInv(c)
  /\ accepted \cap sessions = {}

\* Steps that leave the sessions, their operations and the world alone.
LEMMA QuietStep ==
  ASSUME IInv, UNCHANGED <<sessions, session, outstanding, port, players, lastId, current>>,
         ioPc' = "dispatch" <=> ioPc = "dispatch",
         (accepted \cap sessions)' = {}
  PROVE  StateInv'
  <1> USE DEF IInv
  <1>1. CompletionInv'
    BY DEF CompletionInv, CompletionsBelongToSessions, CompletionsAreDistinct, QueuedAt, Pending
  <1>2. WorldMatchesSessions'
    BY DEF WorldMatchesSessions, Recipients
  <1>3. \A c \in sessions' : SessionInv(c)'
    BY DEF SessionInv
  <1>4. DispatchInv'
    BY DEF DispatchInv
  <1>5. QED  BY <1>1, <1>2, <1>3, <1>4 DEF StateInv

LEMMA RemoveKeepsInvariant ==
  ASSUME IInv, RemoveClosedSessions
  PROVE  StateInv'
  <1> USE DEF IInv
  <1> DEFINE removed == {c \in sessions : CanDestroy(session[c])}
  <1>1. /\ sessions' = sessions \ removed
        /\ \A c \in sessions' : c \in sessions /\ session'[c] = session[c]
        /\ UNCHANGED <<accepted, outstanding, port, players, lastId, current>>
        /\ ioPc = "remove" /\ ioPc' = "register"
    BY DEF RemoveClosedSessions, TypeOK, os, world
  <1>2. ASSUME NEW c \in sessions, NEW d, Pending(session[c], d)
        PROVE  c \in sessions' /\ Pending(session'[c], d)
    <2>1. ~CanDestroy(session[c])
      BY <1>2 DEF Pending, CanDestroy
    <2>2. QED  BY <1>1, <1>2, <2>1
  <1>3. CompletionsBelongToSessions'
    BY <1>1, <1>2 DEF CompletionsBelongToSessions
  <1>4. CompletionsAreDistinct'
    BY <1>1 DEF CompletionsAreDistinct, QueuedAt
  <1>5. WorldMatchesSessions'
    <2>1. \A c \in removed : session[c].closing
      BY DEF CanDestroy
    <2>2. Recipients' = Recipients
      BY <1>1, <2>1 DEF Recipients
    <2>3. \A c \in Recipients : session'[c] = session[c]
      BY <1>1, <2>2 DEF Recipients
    <2>4. {session[c].playerId : c \in Recipients} = {session'[c].playerId : c \in Recipients}
      BY <2>3
    <2>5. QED  BY <1>1, <2>2, <2>3, <2>4 DEF WorldMatchesSessions
  <1>6. \A c \in sessions' : SessionInv(c)'
    BY <1>1 DEF SessionInv
  <1>7. DispatchInv' /\ (accepted \cap sessions)' = {}
    BY <1>1 DEF DispatchInv
  <1>8. QED  BY <1>3, <1>4, <1>5, <1>6, <1>7 DEF StateInv, CompletionInv

LEMMA RegisterKeepsInvariant ==
  ASSUME IInv, ProcessAcceptedSockets
  PROVE  StateInv'
  <1> USE DEF IInv
  <1> DEFINE fresh == AfterPostRecv(NewSession, TRUE)
  <1>1. PICK registered \in SUBSET accepted :
          /\ sessions' = sessions \cup registered
          /\ session' = [c \in Conns |-> IF c \in registered THEN fresh ELSE session[c]]
          /\ outstanding' = outstanding \cup (registered \X {"recv"})
    BY DEF ProcessAcceptedSockets
  <1>2. /\ fresh.open /\ ~fresh.closing /\ fresh.recvPending /\ ~fresh.sendPending
        /\ fresh.playerId = 0
    BY DEF AfterPostRecv, PostRecvSucceeds, NewSession, NoPlayer
  <1> HIDE DEF fresh
  <1>3. /\ accepted' = {} /\ UNCHANGED <<port, players, lastId, current>>
        /\ ioPc = "register" /\ ioPc' = "tick"
        /\ sessions \subseteq Conns /\ registered \subseteq Conns
        /\ registered \cap sessions = {} /\ lastId \in Nat
    BY <1>1 DEF ProcessAcceptedSockets, TypeOK, world
  <1>4. /\ \A c \in sessions : session'[c] = session[c]
        /\ \A c \in registered : session'[c] = fresh
    BY <1>1, <1>3
  <1>5. CompletionInv'
    <2>1. FlagsKept
      BY <1>4 DEF FlagsKept
    <2>2. FreshlyPosted(registered \X {"recv"})
      BY <1>1, <1>2, <1>3, <1>4 DEF FreshlyPosted, Pending
    <2>3. registered \X {"recv"} \in SUBSET Operation
      BY <1>3 DEF Operation, Directions
    <2>4. QED  BY <1>1, <1>3, <2>1, <2>2, <2>3, PostingKeepsCompletions DEF CompletionInv
  <1>6. WorldMatchesSessions'
    <2>1. \A c \in registered : ~IsEntered(session'[c])
      BY <1>2, <1>4 DEF IsEntered, NoPlayer
    <2>2. Recipients' = Recipients
      BY <1>1, <1>4, <2>1 DEF Recipients
    <2>3. \A c \in Recipients : session'[c] = session[c]
      BY <1>4 DEF Recipients
    <2>4. {session[c].playerId : c \in Recipients} = {session'[c].playerId : c \in Recipients}
      BY <2>3
    <2>5. QED  BY <1>3, <2>2, <2>3, <2>4 DEF WorldMatchesSessions
  <1>7. ASSUME NEW c \in sessions'  PROVE SessionInv(c)'
    <2>1. CASE c \in sessions
      BY <1>3, <1>4, <2>1 DEF SessionInv
    <2>2. CASE c \in registered
      <3>1. session'[c] = fresh /\ lastId' \in Nat
        BY <1>3, <1>4, <2>2
      <3>2. QED  BY <1>2, <3>1 DEF SessionInv
    <2>3. QED  BY <1>1, <2>1, <2>2
  <1>8. DispatchInv' /\ (accepted \cap sessions)' = {}
    BY <1>3 DEF DispatchInv
  <1>9. QED  BY <1>5, <1>6, <1>7, <1>8 DEF StateInv

LEMMA CompleteKeepsInvariant ==
  ASSUME IInv, NEW c \in Conns, NEW d \in Directions, CompleteOperation(c, d)
  PROVE  StateInv'
  <1> USE DEF IInv
  <1>1. PICK ok \in BOOLEAN : port' = Append(port, [conn |-> c, dir |-> d, ok |-> ok])
    BY DEF CompleteOperation
  <1> DEFINE e == [conn |-> c, dir |-> d, ok |-> ok]
  <1>2. /\ <<c, d>> \in outstanding /\ outstanding' = outstanding \ {<<c, d>>}
        /\ UNCHANGED <<accepted, sessions, session, players, lastId, current, ioPc>>
    BY DEF CompleteOperation, world
  <1>3. /\ Len(port) \in Nat /\ Len(port') = Len(port) + 1 /\ port'[Len(port) + 1] = e
        /\ \A i \in 1 .. Len(port) : port'[i] = port[i]
    BY <1>1 DEF TypeOK
  <1>4. e.conn = c /\ e.dir = d
    OBVIOUS
  <1> HIDE DEF e
  <1>5. c \in sessions /\ Pending(session[c], d) /\ QueuedAt(c, d) = {}
    BY <1>2 DEF CompletionsBelongToSessions, CompletionsAreDistinct
  <1>6. ASSUME NEW i \in 1 .. Len(port')
        PROVE  \/ i \in 1 .. Len(port) /\ port'[i] = port[i]
               \/ i = Len(port) + 1 /\ port'[i] = e
    BY <1>3
  <1>7. CompletionsBelongToSessions'
    BY <1>2, <1>4, <1>5, <1>6 DEF CompletionsBelongToSessions
  <1>8. CompletionsAreDistinct'
    <2>1. ASSUME NEW op \in outstanding', NEW i \in 1 .. Len(port'),
                 port'[i].conn = op[1], port'[i].dir = op[2]
          PROVE  FALSE
      <3>1. op \in outstanding /\ op # <<c, d>> /\ op = <<op[1], op[2]>>
        BY <1>2 DEF TypeOK, Operation
      <3>2. QED  BY <1>4, <1>6, <2>1, <3>1 DEF CompletionsAreDistinct, QueuedAt
    <2>2. \A op \in outstanding' : QueuedAt(op[1], op[2])' = {}
      BY <2>1 DEF QueuedAt
    <2>3. ASSUME NEW i \in 1 .. Len(port'), NEW j \in 1 .. Len(port'),
                 i # j, port'[i] # Shutdown,
                 port'[i].conn = port'[j].conn, port'[i].dir = port'[j].dir
          PROVE  FALSE
      <3>1. CASE i \in 1 .. Len(port) /\ j \in 1 .. Len(port)
        <4>1. port'[i] = port[i] /\ port'[j] = port[j]
          BY <1>3, <3>1
        <4>2. QED  BY <2>3, <3>1, <4>1 DEF CompletionsAreDistinct
      <3>2. CASE i = Len(port) + 1
        <4>1. j \in 1 .. Len(port) /\ port'[j] = port[j] /\ port'[i] = e
          BY <1>3, <1>6, <2>3, <3>2
        <4>2. QED  BY <1>4, <1>5, <2>3, <4>1 DEF QueuedAt
      <3>3. CASE j = Len(port) + 1
        <4>1. i \in 1 .. Len(port) /\ port'[i] = port[i] /\ port'[j] = e
          BY <1>3, <1>6, <2>3, <3>3
        <4>2. QED  BY <1>4, <1>5, <2>3, <4>1 DEF QueuedAt
      <3>4. QED  BY <1>3, <3>1, <3>2, <3>3
    <2>4. QED  BY <2>2, <2>3 DEF CompletionsAreDistinct
  <1>9. WorldMatchesSessions' /\ DispatchInv' /\ (accepted \cap sessions)' = {}
    BY <1>2 DEF WorldMatchesSessions, Recipients, DispatchInv
  <1>10. \A x \in sessions' : SessionInv(x)'
    BY <1>2 DEF SessionInv
  <1>11. QED  BY <1>7, <1>8, <1>9, <1>10 DEF StateInv, CompletionInv

LEMMA ShutdownKeepsInvariant ==
  ASSUME IInv, JoinAcceptThread
  PROVE  StateInv'
  <1> USE DEF IInv
  <1>1. /\ UNCHANGED <<accepted, sessions, session, outstanding, players, lastId, current, ioPc>>
        /\ port' = Append(port, Shutdown)
    BY DEF JoinAcceptThread, world
  <1>2. /\ Len(port) \in Nat /\ Len(port') = Len(port) + 1 /\ port'[Len(port) + 1] = Shutdown
        /\ \A i \in 1 .. Len(port) : port'[i] = port[i]
    BY <1>1 DEF TypeOK
  <1>3. ASSUME NEW i \in 1 .. Len(port'), port'[i].dir # "shutdown" \/ port'[i] # Shutdown
        PROVE  i \in 1 .. Len(port) /\ port'[i] = port[i]
    BY <1>2, <1>3 DEF Shutdown
  <1>4. CompletionsBelongToSessions'
    BY <1>1, <1>3 DEF CompletionsBelongToSessions
  <1>5. CompletionsAreDistinct'
    <2>1. ASSUME NEW op \in outstanding', NEW i \in 1 .. Len(port'),
                 port'[i].conn = op[1], port'[i].dir = op[2]
          PROVE  FALSE
      <3>1. op \in outstanding /\ op[2] # "shutdown"
        BY <1>1 DEF TypeOK, Operation, Directions
      <3>2. QED  BY <1>3, <2>1, <3>1 DEF CompletionsAreDistinct, QueuedAt
    <2>2. \A op \in outstanding' : QueuedAt(op[1], op[2])' = {}
      BY <2>1 DEF QueuedAt
    <2>3. ASSUME NEW i \in 1 .. Len(port'), NEW j \in 1 .. Len(port'),
                 i # j, port'[i] # Shutdown,
                 port'[i].conn = port'[j].conn, port'[i].dir = port'[j].dir
          PROVE  FALSE
      <3>1. i \in 1 .. Len(port) /\ port'[i] = port[i]
        BY <1>3, <2>3
      <3>2. port[i].dir \in Directions
        BY <2>3, <3>1, PortEntries
      <3>3. j \in 1 .. Len(port) /\ port'[j] = port[j]
        BY <1>3, <2>3, <3>1, <3>2 DEF Directions
      <3>4. QED  BY <2>3, <3>1, <3>3 DEF CompletionsAreDistinct
    <2>4. QED  BY <2>2, <2>3 DEF CompletionsAreDistinct
  <1>6. WorldMatchesSessions' /\ DispatchInv' /\ (accepted \cap sessions)' = {}
    BY <1>1 DEF WorldMatchesSessions, Recipients, DispatchInv
  <1>7. \A x \in sessions' : SessionInv(x)'
    BY <1>1 DEF SessionInv
  <1>8. QED  BY <1>4, <1>5, <1>6, <1>7 DEF StateInv, CompletionInv

-----------------------------------------------------------------------------
(* The completions.                                                        *)

LEMMA DequeuedFacts ==
  ASSUME IInv, NEW c \in Conns, NEW d \in Directions, Dequeued(c, d)
  PROVE  /\ c \in sessions /\ Pending(session[c], d) /\ SessionInv(c)
         /\ session[c] \in SessionState
         /\ ioPc = "dequeue" /\ current = NoConn /\ c # NoConn
  <1>1. /\ port # <<>> /\ Len(port) \in Nat /\ 1 \in 1 .. Len(port)
        /\ port[1].conn = c /\ port[1].dir = d
    BY DEF Dequeued, IInv, TypeOK
  <1>2. port[1] # Shutdown
    BY <1>1 DEF Shutdown, Directions
  <1>3. c \in sessions /\ Pending(session[c], d)
    BY <1>1, <1>2 DEF IInv, CompletionsBelongToSessions
  <1>4. QED  BY <1>3, ConnsAssumption DEF IInv, Dequeued, DispatchInv, TypeOK

\* A failed completion of direction d: the flag is cleared, the session closed.
LEMMA FailedCompletionKeepsInvariant ==
  ASSUME IInv, NEW c \in Conns, NEW d \in Directions, Dequeued(c, d),
         NEW acked \in [Conns -> SessionState],
         \A e \in Conns : /\ acked[e].playerId = session[e].playerId
                          /\ acked[e].closing = session[e].closing
                          /\ acked[e].open = session[e].open,
         \A e \in Conns, k \in Directions :
            IF e = c /\ k = d THEN ~Pending(acked[e], k)
                              ELSE Pending(acked[e], k) = Pending(session[e], k),
         session' = SessionsAfterClose(acked, {c}),
         players' = players \ Despawned(acked, {c}),
         ioPc' = "remove",
         UNCHANGED <<accepted, sessions, outstanding, lastId, current>>
  PROVE  StateInv'
  <1> USE DEF IInv
  <1>1. /\ c \in sessions /\ Pending(session[c], d) /\ SessionInv(c)
        /\ ioPc = "dequeue" /\ current = NoConn /\ c # NoConn
    BY DequeuedFacts
  <1>2. sessions \subseteq Conns /\ {c} \in SUBSET sessions
    BY <1>1 DEF TypeOK
  <1>3. /\ ClosesOnly({c})
        /\ \A e \in sessions : /\ session'[e].recvPending = acked[e].recvPending
                               /\ session'[e].sendPending = acked[e].sendPending
    BY <1>2, CloseSessionClosesOnly
  <1>4. \A e \in sessions, k \in Directions :
          <<e, k>> # <<c, d>> /\ Pending(session[e], k) => Pending(session'[e], k)
    <2>1. \A e \in sessions, k \in Directions : Pending(session'[e], k) = Pending(acked[e], k)
      BY <1>3 DEF Pending
    <2>2. ASSUME NEW e \in sessions, NEW k \in Directions,
                 <<e, k>> # <<c, d>>, Pending(session[e], k)
          PROVE  Pending(session'[e], k)
      <3>1. ~(e = c /\ k = d) /\ e \in Conns
        BY <1>2, <2>2
      <3>2. Pending(acked[e], k) = Pending(session[e], k)
        BY <3>1
      <3>3. QED  BY <2>1, <2>2, <3>2
    <2>3. QED  BY <2>2
  <1>5. CompletionInv'
    <2> DEFINE P == {}
    <2>1. /\ P \in SUBSET {<<c, d>>} /\ outstanding' = outstanding \cup P
          /\ sessions' = sessions
          /\ P # {} => Pending(session'[c], d)
      OBVIOUS
    <2> HIDE DEF P
    <2>2. QED  BY <1>4, <2>1, DequeueKeepsCompletions DEF CompletionInv
  <1>6. WorldMatchesSessions'
    BY <1>2, <1>3, ClosingKeepsWorld
  <1>7. ASSUME NEW e \in sessions  PROVE SessionInv(e)'
    <2>1. /\ session'[e].playerId = session[e].playerId
          /\ session'[e].closing <=> session[e].closing \/ e = c
          /\ session'[e].open <=> session[e].open /\ e # c
          /\ session'[e].recvPending = acked[e].recvPending
          /\ session'[e].sendPending = acked[e].sendPending
          /\ lastId' = lastId /\ current' = NoConn
      BY <1>1, <1>3 DEF ClosesOnly
    <2>2. e \in Conns /\ SessionInv(e) /\ e # NoConn
      BY <1>2, ConnsAssumption
    <2>3. /\ acked[e].recvPending => session[e].recvPending
          /\ acked[e].sendPending => session[e].sendPending
      BY <2>2 DEF Pending, Directions
    <2>4. CASE IsEntered(session[e])
      BY <2>1, <2>2, <2>4 DEF SessionInv, IsEntered
    <2>7. CASE ~IsEntered(session[e]) /\ e # c
      <3>1. /\ ~session'[e].sendPending
            /\ session'[e].closing => ~session'[e].recvPending
        BY <2>1, <2>2, <2>3, <2>7 DEF SessionInv
      <3>2. QED  BY <2>1, <2>2, <2>7, <3>1 DEF SessionInv, IsEntered
    <2>5. CASE ~IsEntered(session[e]) /\ e = c
      <3>1. d = "recv" /\ ~acked[e].recvPending
        BY <1>1, <2>2, <2>5 DEF SessionInv, Pending, Directions
      <3>2. QED  BY <2>1, <2>2, <2>3, <2>5, <3>1 DEF SessionInv, IsEntered
    <2>6. QED  BY <2>4, <2>5, <2>7
  <1>8. DispatchInv' /\ (accepted \cap sessions)' = {}
    BY <1>1 DEF DispatchInv
  <1>9. QED  BY <1>5, <1>6, <1>7, <1>8 DEF StateInv

LEMMA AckFields ==
  ASSUME TypeOK, NEW c \in Conns, NEW e \in Conns, NEW k \in Directions
  PROVE  /\ AckRecv(c)[e].playerId = session[e].playerId
         /\ AckRecv(c)[e].closing = session[e].closing
         /\ AckRecv(c)[e].open = session[e].open
         /\ IF e = c /\ k = "recv" THEN ~Pending(AckRecv(c)[e], k)
                                   ELSE Pending(AckRecv(c)[e], k) = Pending(session[e], k)
         /\ AckSend(c)[e].playerId = session[e].playerId
         /\ AckSend(c)[e].closing = session[e].closing
         /\ AckSend(c)[e].open = session[e].open
         /\ IF e = c /\ k = "send" THEN ~Pending(AckSend(c)[e], k)
                                   ELSE Pending(AckSend(c)[e], k) = Pending(session[e], k)
  <1>1. session[e] \in SessionState /\ session[c] \in SessionState
    BY DEF TypeOK
  <1>2. CASE e = c
    BY <1>1, <1>2 DEF AckRecv, AckSend, Pending, Directions, SessionState, TypeOK
  <1>3. CASE e # c
    BY <1>1, <1>3 DEF AckRecv, AckSend, Pending, TypeOK
  <1>4. QED  BY <1>2, <1>3

LEMMA DespawnedAfterAck ==
  ASSUME TypeOK, NEW c \in Conns
  PROVE  /\ Despawned(AckRecv(c), {c}) = Despawned(session, {c})
         /\ Despawned(AckSend(c), {c}) = Despawned(session, {c})
  <1>1. "recv" \in Directions
    BY DEF Directions
  <1>2. QED  BY <1>1, AckFields DEF Despawned

LEMMA RecvFailedKeepsInvariant ==
  ASSUME IInv, NEW c \in Conns, RecvFailed(c)
  PROVE  StateInv'
  <1> DEFINE acked == AckRecv(c)
  <1>1. TypeOK /\ Dequeued(c, "recv") /\ "recv" \in Directions
    BY DEF IInv, RecvFailed, Directions
  <1>2. /\ acked \in [Conns -> SessionState]
        /\ session' = SessionsAfterClose(acked, {c})
        /\ players' = players \ Despawned(acked, {c})
        /\ ioPc' = "remove"
        /\ UNCHANGED <<accepted, sessions, outstanding, lastId, current>>
    BY <1>1, AcksTyped, DespawnedAfterAck DEF RecvFailed
  <1>3. \A e \in Conns : /\ acked[e].playerId = session[e].playerId
                         /\ acked[e].closing = session[e].closing
                         /\ acked[e].open = session[e].open
    BY <1>1, AckFields
  <1>4. \A e \in Conns, k \in Directions :
          IF e = c /\ k = "recv" THEN ~Pending(acked[e], k)
                               ELSE Pending(acked[e], k) = Pending(session[e], k)
    BY <1>1, AckFields
  <1> HIDE DEF acked
  <1>5. QED  BY <1>1, <1>2, <1>3, <1>4, FailedCompletionKeepsInvariant

LEMMA SendFailedKeepsInvariant ==
  ASSUME IInv, NEW c \in Conns, SendFailed(c)
  PROVE  StateInv'
  <1> DEFINE acked == AckSend(c)
  <1>1. TypeOK /\ Dequeued(c, "send") /\ "send" \in Directions
    BY DEF IInv, SendFailed, Directions
  <1>2. /\ acked \in [Conns -> SessionState]
        /\ session' = SessionsAfterClose(acked, {c})
        /\ players' = players \ Despawned(acked, {c})
        /\ ioPc' = "remove"
        /\ UNCHANGED <<accepted, sessions, outstanding, lastId, current>>
    BY <1>1, AcksTyped, DespawnedAfterAck DEF SendFailed
  <1>3. \A e \in Conns : /\ acked[e].playerId = session[e].playerId
                         /\ acked[e].closing = session[e].closing
                         /\ acked[e].open = session[e].open
    BY <1>1, AckFields
  <1>4. \A e \in Conns, k \in Directions :
          IF e = c /\ k = "send" THEN ~Pending(acked[e], k)
                               ELSE Pending(acked[e], k) = Pending(session[e], k)
    BY <1>1, AckFields
  <1> HIDE DEF acked
  <1>5. QED  BY <1>1, <1>2, <1>3, <1>4, FailedCompletionKeepsInvariant

LEMMA RecvCompletedKeepsInvariant ==
  ASSUME IInv, NEW c \in Conns, RecvCompleted(c)
  PROVE  StateInv'
  <1> USE DEF IInv
  <1>1. /\ Dequeued(c, "recv") /\ "recv" \in Directions
        /\ UNCHANGED <<accepted, sessions, outstanding, players, lastId>>
        /\ session' = AckRecv(c) /\ current' = c /\ ioPc' = "dispatch"
    BY DEF RecvCompleted, Directions, world
  <1>2. /\ c \in sessions /\ Pending(session[c], "recv") /\ SessionInv(c)
        /\ ioPc = "dequeue" /\ current = NoConn /\ c # NoConn /\ sessions \subseteq Conns
    BY <1>1, DequeuedFacts DEF TypeOK
  <1>3. \A e \in sessions, k \in Directions :
          /\ session'[e].playerId = session[e].playerId
          /\ session'[e].closing = session[e].closing
          /\ session'[e].open = session[e].open
          /\ IF e = c /\ k = "recv" THEN ~Pending(session'[e], k)
                                    ELSE Pending(session'[e], k) = Pending(session[e], k)
    BY <1>1, <1>2, AckFields
  <1>4. CompletionInv'
    <2>1. outstanding' = outstanding \cup {}
      BY <1>1
    <2>2. \A e \in sessions, k \in Directions :
            <<e, k>> # <<c, "recv">> /\ Pending(session[e], k) => Pending(session'[e], k)
      BY <1>3
    <2>3. QED  BY <1>1, <2>1, <2>2, DequeueKeepsCompletions DEF CompletionInv
  <1>5. WorldMatchesSessions'
    BY <1>1, <1>3, SameWorld DEF Directions
  <1>6. ASSUME NEW e \in sessions  PROVE SessionInv(e)'
    <2>1. /\ session'[e].recvPending => session[e].recvPending
          /\ session'[e].sendPending => session[e].sendPending
          /\ e = c => ~session'[e].recvPending
      BY <1>3 DEF Pending, Directions
    <2>2. /\ session'[e].playerId = session[e].playerId
          /\ session'[e].closing = session[e].closing
          /\ session'[e].open = session[e].open
      BY <1>3 DEF Directions
    <2>3. SessionInv(e)
      OBVIOUS
    <2>4. session[c].closing => IsEntered(session[c])
      BY <1>2 DEF SessionInv, Pending
    <2>5. QED  BY <1>1, <2>1, <2>2, <2>3, <2>4 DEF SessionInv, IsEntered
  <1>7. DispatchInv' /\ (accepted \cap sessions)' = {}
    BY <1>1, <1>2, <1>3 DEF DispatchInv, Pending, Directions
  <1>8. QED  BY <1>1, <1>4, <1>5, <1>6, <1>7 DEF StateInv

LEMMA SendCompletedKeepsInvariant ==
  ASSUME IInv, NEW c \in Conns, SendCompleted(c)
  PROVE  StateInv'
  <1> USE DEF IInv
  <1> DEFINE s == AckSend(c)[c]
  <1>1. PICK partial \in BOOLEAN, posted \in BOOLEAN :
          LET after == [session EXCEPT ![c] = AfterHandleSend(s, partial, posted)]
              failed == IF HandleSendSucceeds(s, partial, posted) THEN {} ELSE {c}
          IN /\ session' = SessionsAfterClose(after, failed)
             /\ players' = players \ Despawned(after, failed)
             /\ outstanding' = IF after[c].sendPending
                               THEN outstanding \cup {<<c, "send">>}
                               ELSE outstanding
    BY DEF SendCompleted
  <1> DEFINE after == [session EXCEPT ![c] = AfterHandleSend(s, partial, posted)]
             failed == IF HandleSendSucceeds(s, partial, posted) THEN {} ELSE {c}
             P == IF after[c].sendPending THEN {<<c, "send">>} ELSE {}
  <1>2. /\ Dequeued(c, "send") /\ "send" \in Directions /\ ioPc' = "remove"
        /\ UNCHANGED <<accepted, sessions, lastId, current>>
        /\ session \in [Conns -> SessionState]
    BY DEF SendCompleted, Directions, TypeOK
  <1>3. /\ c \in sessions /\ session[c].sendPending /\ SessionInv(c)
        /\ ioPc = "dequeue" /\ current = NoConn /\ sessions \subseteq Conns
    BY <1>2, DequeuedFacts DEF Pending, TypeOK
  <1>4. /\ s \in SessionState /\ ~s.sendPending
        /\ s.playerId = session[c].playerId /\ s.closing = session[c].closing
        /\ s.open = session[c].open /\ s.recvPending = session[c].recvPending
    <2>1. session[c] \in SessionState /\ s = [session[c] EXCEPT !.sendPending = FALSE]
      BY <1>2 DEF AckSend
    <2>2. QED  BY <2>1 DEF SessionState
  <1> HIDE DEF s
  <1>5. /\ AfterHandleSend(s, partial, posted) \in SessionState
        /\ AfterHandleSend(s, partial, posted).playerId = session[c].playerId
        /\ AfterHandleSend(s, partial, posted).closing = session[c].closing
        /\ AfterHandleSend(s, partial, posted).open = session[c].open
        /\ AfterHandleSend(s, partial, posted).recvPending = session[c].recvPending
    BY <1>4, AfterHandleSendFields, SessionOperationsTyped
  <1>6. /\ after \in [Conns -> SessionState]
        /\ \A e \in Conns : /\ after[e].playerId = session[e].playerId
                            /\ after[e].closing = session[e].closing
                            /\ after[e].open = session[e].open
                            /\ after[e].recvPending = session[e].recvPending
                            /\ e # c => after[e].sendPending = session[e].sendPending
    BY <1>2, <1>5
  <1>7. /\ session' = SessionsAfterClose(after, failed)
        /\ players' = players \ Despawned(after, failed)
        /\ outstanding' = outstanding \cup P
        /\ failed \in SUBSET sessions /\ P \in SUBSET {<<c, "send">>}
    BY <1>1, <1>3
  <1>8. P # {} => after[c].sendPending
    OBVIOUS
  <1> HIDE DEF after, failed, P
  <1>9. /\ ClosesOnly(failed)
        /\ \A e \in sessions : /\ session'[e].recvPending = after[e].recvPending
                               /\ session'[e].sendPending = after[e].sendPending
    BY <1>2, <1>6, <1>7, CloseSessionClosesOnly
  <1>10. CompletionInv'
    <2>1. ASSUME NEW e \in sessions, NEW k \in Directions,
                 <<e, k>> # <<c, "send">>, Pending(session[e], k)
          PROVE  Pending(session'[e], k)
      <3>1. e \in Conns
        BY <1>3
      <3>2. CASE k = "recv"
        BY <1>6, <1>9, <2>1, <3>1, <3>2 DEF Pending
      <3>3. CASE k = "send"
        <4>1. e # c
          BY <2>1, <3>3
        <4>2. QED  BY <1>6, <1>9, <2>1, <3>1, <3>3, <4>1 DEF Pending
      <3>4. QED  BY <3>2, <3>3 DEF Directions
    <2>2. P # {} => Pending(session'[c], "send")
      BY <1>3, <1>8, <1>9 DEF Pending
    <2>3. QED  BY <1>2, <1>7, <2>1, <2>2, DequeueKeepsCompletions DEF CompletionInv
  <1>11. WorldMatchesSessions'
    BY <1>7, <1>9, ClosingKeepsWorld
  <1>12. ASSUME NEW e \in sessions  PROVE SessionInv(e)'
    <2>1. /\ session'[e].playerId = session[e].playerId
          /\ session'[e].closing <=> session[e].closing \/ e \in failed
          /\ session'[e].open <=> session[e].open /\ e \notin failed
          /\ lastId' = lastId /\ current' = current
      BY <1>2, <1>9 DEF ClosesOnly
    <2>2. e \in Conns /\ SessionInv(e)
      BY <1>3
    <2>3. CASE IsEntered(session[e])
      BY <2>1, <2>2, <2>3 DEF SessionInv, IsEntered
    <2>4. CASE ~IsEntered(session[e])
      <3>1. e # c /\ e \notin failed
        BY <1>3, <2>4 DEF SessionInv, failed
      <3>2. /\ session'[e].recvPending = session[e].recvPending
            /\ session'[e].sendPending = session[e].sendPending
        BY <1>6, <1>9, <2>2, <3>1
      <3>3. QED  BY <2>1, <2>2, <3>1, <3>2 DEF SessionInv, IsEntered
    <2>5. QED  BY <2>3, <2>4
  <1>13. DispatchInv' /\ (accepted \cap sessions)' = {}
    BY <1>2, <1>3 DEF DispatchInv
  <1>14. QED  BY <1>2, <1>10, <1>11, <1>12, <1>13 DEF StateInv

-----------------------------------------------------------------------------
(* The handlers of packets.                                                *)

LEMMA RefuseKeepsInvariant ==
  ASSUME IInv, RefusePacket
  PROVE  StateInv'
  <1> USE DEF IInv
  <1>1. /\ ioPc = "dispatch" /\ ioPc' = "remove" /\ current' = NoConn
        /\ UNCHANGED <<accepted, sessions, outstanding, port, lastId>>
        /\ session' = SessionsAfterClose(session, {current})
        /\ players' = players \ Despawned(session, {current})
    BY DEF RefusePacket, DispatchStops, os
  <1>2. /\ current \in sessions /\ ~session[current].recvPending
        /\ sessions \subseteq Conns /\ session \in [Conns -> SessionState]
        /\ {current} \in SUBSET sessions
    BY <1>1 DEF DispatchInv, TypeOK
  <1>3. /\ ClosesOnly({current})
        /\ \A e \in sessions : /\ session'[e].recvPending = session[e].recvPending
                               /\ session'[e].sendPending = session[e].sendPending
    BY <1>1, <1>2, CloseSessionClosesOnly
  <1>4. CompletionInv'
    <2>1. FlagsKept /\ FreshlyPosted({})
      BY <1>3 DEF FlagsKept, FreshlyPosted, Pending
    <2>2. outstanding' = outstanding \cup {} /\ {} \in SUBSET Operation
      BY <1>1
    <2>3. QED  BY <1>1, <2>1, <2>2, PostingKeepsCompletions DEF CompletionInv
  <1>5. WorldMatchesSessions'
    BY <1>2, <1>3, ClosingKeepsWorld
  <1>6. ASSUME NEW e \in sessions  PROVE SessionInv(e)'
    <2>1. /\ session'[e].playerId = session[e].playerId
          /\ session'[e].closing <=> session[e].closing \/ e = current
          /\ session'[e].open <=> session[e].open /\ e # current
          /\ lastId' = lastId /\ e # NoConn
      BY <1>1, <1>2, <1>3, ConnsAssumption DEF ClosesOnly
    <2>2. SessionInv(e)
      OBVIOUS
    <2>3. QED  BY <1>1, <1>2, <1>3, <2>1, <2>2 DEF SessionInv, IsEntered
  <1>7. DispatchInv' /\ (accepted \cap sessions)' = {}
    BY <1>1 DEF DispatchInv
  <1>8. QED  BY <1>1, <1>4, <1>5, <1>6, <1>7 DEF StateInv

LEMMA EndDispatchKeepsInvariant ==
  ASSUME IInv, EndDispatch
  PROVE  StateInv'
  <1> USE DEF IInv
  <1>1. /\ ioPc = "dispatch" /\ ioPc' = "remove" /\ current' = NoConn
        /\ UNCHANGED <<accepted, sessions, port, lastId>>
        /\ current \in sessions /\ ~session[current].recvPending
        /\ sessions \subseteq Conns /\ session \in [Conns -> SessionState]
    BY DEF EndDispatch, DispatchStops, DispatchInv, TypeOK
  <1>2. DispatchInv' /\ (accepted \cap sessions)' = {}
    BY <1>1 DEF DispatchInv
  <1>3. CASE stopRequested
    <2>1. UNCHANGED <<session, players, outstanding>>
      BY <1>3 DEF EndDispatch
    <2>2. CompletionInv' /\ WorldMatchesSessions'
      BY <1>1, <2>1 DEF CompletionInv, CompletionsBelongToSessions, CompletionsAreDistinct,
                        QueuedAt, Pending, WorldMatchesSessions, Recipients
    <2>3. \A e \in sessions' : SessionInv(e)'
      <3>1. \A e \in sessions : e # NoConn
        BY <1>1, ConnsAssumption
      <3>2. QED  BY <1>1, <2>1, <3>1 DEF SessionInv
    <2>4. QED  BY <1>2, <2>2, <2>3 DEF StateInv
  <1>4. CASE ~stopRequested
    <2>1. PICK posted \in BOOLEAN :
            LET after == [session EXCEPT ![current] = AfterPostRecv(@, posted)]
                failed == IF PostRecvSucceeds(session[current], posted) THEN {} ELSE {current}
            IN /\ session' = SessionsAfterClose(after, failed)
               /\ players' = players \ Despawned(after, failed)
               /\ outstanding' = IF after[current].recvPending
                                 THEN outstanding \cup {<<current, "recv">>}
                                 ELSE outstanding
      BY <1>4 DEF EndDispatch
    <2> DEFINE after == [session EXCEPT ![current] = AfterPostRecv(@, posted)]
               failed == IF PostRecvSucceeds(session[current], posted) THEN {} ELSE {current}
               P == IF after[current].recvPending THEN {<<current, "recv">>} ELSE {}
    <2>2. /\ AfterPostRecv(session[current], posted) \in SessionState
          /\ AfterPostRecv(session[current], posted).playerId = session[current].playerId
          /\ AfterPostRecv(session[current], posted).closing = session[current].closing
          /\ AfterPostRecv(session[current], posted).open = session[current].open
          /\ AfterPostRecv(session[current], posted).sendPending = session[current].sendPending
          /\ AfterPostRecv(session[current], posted).recvPending
               <=> PostRecvSucceeds(session[current], posted)
      <3>1. session[current] \in SessionState /\ ~session[current].recvPending
        BY <1>1
      <3>2. AfterPostRecv(session[current], posted) \in SessionState
        BY <3>1, SessionOperationsTyped
      <3>3. QED  BY <3>1, <3>2, AfterPostRecvFields DEF PostRecvSucceeds
    <2>3. /\ after \in [Conns -> SessionState]
          /\ \A e \in Conns : /\ after[e].playerId = session[e].playerId
                              /\ after[e].closing = session[e].closing
                              /\ after[e].open = session[e].open
                              /\ after[e].sendPending = session[e].sendPending
                              /\ e # current => after[e].recvPending = session[e].recvPending
          /\ after[current].recvPending <=> PostRecvSucceeds(session[current], posted)
      BY <1>1, <2>2
    <2>4. /\ session' = SessionsAfterClose(after, failed)
          /\ players' = players \ Despawned(after, failed)
          /\ outstanding' = outstanding \cup P
          /\ failed \in SUBSET sessions /\ P \in SUBSET {<<current, "recv">>}
      BY <1>1, <2>1
    <2>5. /\ P # {} => after[current].recvPending
          /\ after[current].recvPending => failed = {}
          /\ ~after[current].recvPending => failed = {current}
      <3> HIDE DEF after
      <3>1. QED  BY <2>3
    <2> HIDE DEF after, failed, P
    <2>6. /\ ClosesOnly(failed)
          /\ \A e \in sessions : /\ session'[e].recvPending = after[e].recvPending
                                 /\ session'[e].sendPending = after[e].sendPending
      BY <1>1, <2>3, <2>4, CloseSessionClosesOnly
    <2>7. CompletionInv'
      <3>1. FlagsKept
        BY <1>1, <2>3, <2>6 DEF FlagsKept, Pending, Directions
      <3>2. FreshlyPosted(P)
        <4>1. ASSUME NEW op \in P
              PROVE  op = <<current, "recv">> /\ session'[current].recvPending
          BY <1>1, <2>4, <2>5, <2>6
        <4>2. QED  BY <1>1, <4>1 DEF FreshlyPosted, Pending
      <3>3. P \in SUBSET Operation
        BY <1>1, <2>4 DEF Operation, Directions
      <3>4. QED  BY <1>1, <2>4, <3>1, <3>2, <3>3, PostingKeepsCompletions DEF CompletionInv
    <2>8. WorldMatchesSessions'
      BY <2>4, <2>6, ClosingKeepsWorld
    <2>9. ASSUME NEW e \in sessions  PROVE SessionInv(e)'
      <3>1. /\ session'[e].playerId = session[e].playerId
            /\ session'[e].closing <=> session[e].closing \/ e \in failed
            /\ session'[e].open <=> session[e].open /\ e \notin failed
            /\ session'[e].sendPending = session[e].sendPending
            /\ lastId' = lastId /\ e # NoConn
        BY <1>1, <2>3, <2>6, ConnsAssumption DEF ClosesOnly
      <3>2. SessionInv(e)
        OBVIOUS
      <3>3. session'[e].closing /\ ~IsEntered(session[e]) => ~session'[e].recvPending
        <4>1. CASE e = current
          <5>1. session'[e].recvPending => e \notin failed /\ session[e].open
            BY <2>2, <2>3, <2>5, <2>6, <4>1 DEF PostRecvSucceeds
          <5>2. QED  BY <3>1, <3>2, <5>1 DEF SessionInv
        <4>2. CASE e # current
          BY <1>1, <2>3, <2>4, <2>5, <2>6, <3>1, <3>2, <4>2 DEF SessionInv
        <4>3. QED  BY <4>1, <4>2
      <3>4. QED  BY <1>1, <3>1, <3>2, <3>3 DEF SessionInv, IsEntered
    <2>10. QED  BY <1>1, <1>2, <2>7, <2>8, <2>9 DEF StateInv
  <1>5. QED  BY <1>3, <1>4

\* A second entry of a session that entered is refused.
LEMMA SecondEnterKeepsInvariant ==
  ASSUME IInv, HandleEnter, IsEntered(session[current])
  PROVE  StateInv'
  <1> USE DEF IInv
  <1>1. /\ ioPc = "dispatch" /\ UNCHANGED <<accepted, sessions, port>>
        /\ lastId' = lastId + 1 /\ lastId \in Nat
        /\ current \in sessions /\ sessions \subseteq Conns
        /\ session \in [Conns -> SessionState] /\ session[current] \in SessionState
        /\ {current} \in SUBSET sessions
    BY DEF HandleEnter, DispatchInv, TypeOK
  <1>2. /\ session' = SessionsAfterClose(session, {current})
        /\ players' = players \ Despawned(session, {current})
        /\ outstanding' = outstanding
        /\ current' = NoConn /\ ioPc' = "remove"
    <2>1. /\ ~EnterSucceeds(session[current])
          /\ \A id : AfterEnter(session[current], id) = session[current]
      BY DEF EnterSucceeds, AfterEnter
    <2>2. [session EXCEPT ![current] = session[current]] = session
      BY <1>1
    <2>3. (players \cup {}) = players
      OBVIOUS
    <2>4. QED  BY <2>1, <2>2, <2>3 DEF HandleEnter, DispatchStops
  <1>3. /\ ClosesOnly({current})
        /\ \A e \in sessions : /\ session'[e].recvPending = session[e].recvPending
                               /\ session'[e].sendPending = session[e].sendPending
    BY <1>1, <1>2, CloseSessionClosesOnly
  <1>4. CompletionInv'
    <2>1. FlagsKept /\ FreshlyPosted({})
      BY <1>3 DEF FlagsKept, FreshlyPosted, Pending
    <2>2. outstanding' = outstanding \cup {} /\ {} \in SUBSET Operation
      BY <1>2
    <2>3. QED  BY <1>1, <2>1, <2>2, PostingKeepsCompletions DEF CompletionInv
  <1>5. WorldMatchesSessions'
    BY <1>1, <1>3, ClosingKeepsWorld
  <1>6. ASSUME NEW e \in sessions  PROVE SessionInv(e)'
    <2>1. /\ session'[e].playerId = session[e].playerId /\ session[e].playerId \in Nat
          /\ session'[e].closing <=> session[e].closing \/ e = current
          /\ session'[e].open <=> session[e].open /\ e # current
          /\ e # NoConn
      BY <1>1, <1>2, <1>3, ConnsAssumption DEF ClosesOnly, SessionState
    <2>2. SessionInv(e)
      OBVIOUS
    <2>3. session'[e].playerId <= lastId'
      BY <1>1, <2>1, <2>2 DEF SessionInv
    <2>4. QED  BY <1>1, <1>2, <1>3, <2>1, <2>2, <2>3 DEF SessionInv, IsEntered
  <1>7. DispatchInv' /\ (accepted \cap sessions)' = {}
    BY <1>1, <1>2 DEF DispatchInv
  <1>8. QED  BY <1>1, <1>4, <1>5, <1>6, <1>7 DEF StateInv

\* The first entry spawns a player, which leaves again if the answer that
\* tells the client its id could not be sent.
LEMMA FirstEnterKeepsInvariant ==
  ASSUME IInv, HandleEnter, ~IsEntered(session[current])
  PROVE  StateInv'
  <1> USE DEF IInv
  <1> DEFINE id == lastId + 1
             entered == AfterEnter(session[current], id)
  <1>1. /\ ioPc = "dispatch" /\ UNCHANGED <<accepted, sessions, port>>
        /\ lastId' = id /\ lastId \in Nat /\ id \in Nat /\ id > lastId /\ id # 0
        /\ current \in sessions /\ sessions \subseteq Conns /\ current \in Conns
        /\ session \in [Conns -> SessionState] /\ session[current] \in SessionState
        /\ ~session[current].recvPending
    BY DEF HandleEnter, DispatchInv, TypeOK
  <1>2. ~session[current].closing /\ session[current].open /\ ~session[current].sendPending
    BY <1>1 DEF SessionInv
  <1>3. EnterSucceeds(session[current])
    BY DEF EnterSucceeds
  <1>4. /\ entered \in SessionState /\ entered.playerId = id /\ ~entered.closing
        /\ entered.open /\ ~entered.sendPending /\ ~entered.recvPending
    BY <1>1, <1>2, <1>3 DEF AfterEnter, SessionState
  <1>5. PICK posted \in BOOLEAN :
          LET after == [session EXCEPT ![current] = AfterSend(entered, posted)]
              failed == IF SendSucceeds(entered, posted) THEN {} ELSE {current}
          IN /\ session' = SessionsAfterClose(after, failed)
             /\ players' = (players \cup {id}) \ Despawned(after, failed)
             /\ outstanding' = IF after[current].sendPending /\ ~session[current].sendPending
                               THEN outstanding \cup {<<current, "send">>}
                               ELSE outstanding
             /\ IF SendSucceeds(entered, posted)
                THEN UNCHANGED <<current, ioPc>> ELSE DispatchStops
    BY <1>3 DEF HandleEnter
  <1> HIDE DEF id, entered
  <1> DEFINE sent == AfterSend(entered, posted)
             handled == SendSucceeds(entered, posted)
             after == [session EXCEPT ![current] = sent]
             failed == IF handled THEN {} ELSE {current}
             P == IF handled THEN {<<current, "send">>} ELSE {}
  <1>6. /\ sent \in SessionState /\ sent.playerId = id /\ ~sent.closing /\ sent.open
        /\ ~sent.recvPending /\ (sent.sendPending <=> handled)
    <2>1. sent \in SessionState
      BY <1>4, SessionOperationsTyped
    <2>2. SendSucceeds(entered, posted) <=> SendQueues(entered) /\ posted
      BY <1>4 DEF SendSucceeds
    <2>3. QED  BY <1>4, <2>1, <2>2, AfterSendFields
  <1> HIDE DEF sent, handled
  <1>7. after \in [Conns -> SessionState] /\ after[current] = sent
    BY <1>1, <1>6
  <1>8. /\ session' = SessionsAfterClose(after, failed)
        /\ outstanding' = outstanding \cup P
        /\ players' = (players \cup {id}) \ Despawned(after, failed)
        /\ handled => UNCHANGED <<current, ioPc>>
        /\ ~handled => current' = NoConn /\ ioPc' = "remove"
    <2>1. after[current].sendPending <=> handled
      BY <1>6, <1>7
    <2>2. QED  BY <1>2, <1>5, <2>1 DEF sent, handled, DispatchStops
  <1>9. /\ \A e \in Conns : e # current => session'[e] = session[e]
        /\ session'[current].playerId = id
        /\ session'[current].closing <=> ~handled
        /\ session'[current].open <=> handled
        /\ session'[current].sendPending <=> handled
        /\ ~session'[current].recvPending
    <2>1. \A e \in Conns : session'[e] = IF e \in failed THEN AfterClose(after[e]) ELSE after[e]
      <3> HIDE DEF after, failed
      <3>1. QED  BY <1>7, <1>8, SessionsAfterCloseTyped
    <2>2. \A e \in Conns : e # current => after[e] = session[e]
      BY <1>1
    <2>3. \A e \in Conns : e # current => e \notin failed
      OBVIOUS
    <2>4. session'[current] = IF handled THEN sent ELSE AfterClose(sent)
      BY <1>1, <1>7, <2>1
    <2>5. QED  BY <1>6, <2>1, <2>2, <2>3, <2>4, AfterCloseFields
  <1>10. \A e \in sessions : session[e].playerId \in Nat /\ session[e].playerId <= lastId
                            /\ session[e].playerId # id
    <2>1. ASSUME NEW e \in sessions
          PROVE  session[e].playerId \in Nat /\ session[e].playerId <= lastId
      BY <1>1 DEF SessionInv, SessionState
    <2>2. QED  BY <1>1, <2>1
  <1>11. players' = IF handled THEN players \cup {id} ELSE players
    <2>1. id \notin players
      BY <1>10 DEF WorldMatchesSessions, Recipients
    <2>2. Despawned(after, failed) = IF handled THEN {} ELSE {id}
      <3>1. {d \in failed : ~after[d].closing} = failed
        BY <1>6, <1>7
      <3>2. Despawned(after, failed) = {after[e].playerId : e \in failed}
        BY <3>1 DEF Despawned
      <3>3. QED  BY <1>6, <1>7, <3>2
    <2>3. QED  BY <1>8, <2>1, <2>2
  <1> HIDE DEF after, failed
  <1>12. CompletionInv'
    <2>1. FlagsKept
      BY <1>1, <1>2, <1>9 DEF FlagsKept, Pending, Directions
    <2>2. FreshlyPosted(P)
      <3>1. \A op \in P : op = <<current, "send">> /\ handled
        OBVIOUS
      <3>2. QED  BY <1>1, <1>2, <1>9, <3>1 DEF FreshlyPosted, Pending
    <2>3. P \in SUBSET Operation
      BY <1>1 DEF Operation, Directions
    <2>4. QED  BY <1>1, <1>8, <2>1, <2>2, <2>3, PostingKeepsCompletions DEF CompletionInv
  <1>13. WorldMatchesSessions'
    <2>1. /\ \A e \in Recipients : e # current /\ e \in sessions /\ session'[e] = session[e]
          /\ Recipients' = IF handled THEN Recipients \cup {current} ELSE Recipients
      <3>1. ASSUME NEW e \in sessions, e # current
            PROVE  e \in Recipients' <=> e \in Recipients
        BY <1>1, <1>9, <3>1 DEF Recipients
      <3>2. current \in Recipients' <=> handled
        BY <1>1, <1>9 DEF Recipients, IsEntered, NoPlayer
      <3>3. current \notin Recipients
        BY DEF Recipients
      <3>4. Recipients \subseteq sessions /\ Recipients' \subseteq sessions
        BY <1>1 DEF Recipients
      <3>5. QED  BY <1>1, <1>9, <3>1, <3>2, <3>3, <3>4
    <2>2. \A e \in Recipients : session'[e].playerId # id
      BY <1>10, <2>1
    <2>3. QED  BY <1>9, <1>11, <2>1, <2>2 DEF WorldMatchesSessions
  <1>14. ASSUME NEW e \in sessions  PROVE SessionInv(e)'
    <2>1. CASE e = current
      BY <1>1, <1>8, <1>9, <2>1, ConnsAssumption DEF SessionInv, IsEntered, NoPlayer
    <2>2. CASE e # current
      <3>1. session'[e] = session[e] /\ e # NoConn /\ SessionInv(e)
        BY <1>1, <1>9, <2>2, ConnsAssumption
      <3>2. session[e].playerId <= lastId'
        BY <1>1, <1>10
      <3>3. current' # e
        BY <1>8, <2>2, <3>1
      <3>4. QED  BY <3>1, <3>2, <3>3 DEF SessionInv
    <2>3. QED  BY <2>1, <2>2
  <1>15. DispatchInv' /\ (accepted \cap sessions)' = {}
    BY <1>1, <1>8, <1>9 DEF DispatchInv
  <1>16. QED  BY <1>1, <1>12, <1>13, <1>14, <1>15 DEF StateInv

LEMMA DequeueShutdownKeepsInvariant ==
  ASSUME IInv, DequeueShutdown
  PROVE  StateInv'
  <1> USE DEF IInv
  <1>1. /\ port # <<>> /\ port' = Tail(port) /\ ioPc = "dequeue" /\ ioPc' = "exited"
        /\ UNCHANGED <<accepted, sessions, session, outstanding, players, lastId, current>>
    BY DEF DequeueShutdown, world
  <1>2. /\ Len(port) \in Nat /\ Len(port') = Len(port) - 1
        /\ \A i \in 1 .. Len(port') : i + 1 \in 1 .. Len(port) /\ port'[i] = port[i + 1]
    BY <1>1 DEF TypeOK
  <1>3. CompletionsBelongToSessions'
    BY <1>1, <1>2 DEF CompletionsBelongToSessions
  <1>4. CompletionsAreDistinct'
    <2>1. ASSUME NEW op \in outstanding'  PROVE QueuedAt(op[1], op[2])' = {}
      BY <1>1, <1>2 DEF CompletionsAreDistinct, QueuedAt
    <2>2. ASSUME NEW i \in 1 .. Len(port'), NEW j \in 1 .. Len(port'),
                 i # j, port'[i] # Shutdown,
                 port'[i].conn = port'[j].conn, port'[i].dir = port'[j].dir
          PROVE  FALSE
      <3>1. /\ i + 1 # j + 1 /\ i + 1 \in 1 .. Len(port) /\ j + 1 \in 1 .. Len(port)
            /\ port'[i] = port[i + 1] /\ port'[j] = port[j + 1]
        BY <2>2, <1>2
      <3>2. QED  BY <2>2, <3>1 DEF CompletionsAreDistinct
    <2>3. QED  BY <2>1, <2>2 DEF CompletionsAreDistinct
  <1>5. WorldMatchesSessions' /\ DispatchInv' /\ (accepted \cap sessions)' = {}
    BY <1>1 DEF WorldMatchesSessions, Recipients, DispatchInv
  <1>6. \A x \in sessions' : SessionInv(x)'
    BY <1>1 DEF SessionInv
  <1>7. QED  BY <1>3, <1>4, <1>5, <1>6 DEF StateInv, CompletionInv

-----------------------------------------------------------------------------
(* The steps together.                                                     *)

LEMMA LoopKeepsInvariant ==
  ASSUME IInv, IOLoop
  PROVE  StateInv'
  <1> USE DEF stop, os, world
  <1>1. CASE RemoveClosedSessions \/ ProcessAcceptedSockets
    BY <1>1, RemoveKeepsInvariant, RegisterKeepsInvariant
  <1>2. CASE StartTick \/ EndTick \/ EndCatchup \/ DequeueTimeout
    <2>1. /\ UNCHANGED <<accepted, sessions, session, outstanding, port, players,
                         lastId, current>>
          /\ ioPc # "dispatch" /\ ioPc' # "dispatch"
      BY <1>2 DEF StartTick, EndTick, EndCatchup, DequeueTimeout
    <2>2. (accepted \cap sessions)' = {}
      BY <2>1 DEF IInv
    <2>3. QED  BY <2>1, <2>2, QuietStep
  <1>3. ASSUME NEW R \in SUBSET Recipients, NEW unbuilt \in SUBSET R, Broadcast(R, unbuilt),
               ioPc # "dispatch", ioPc' # "dispatch"
        PROVE  StateInv'
    BY <1>3, BroadcastKeepsInvariant DEF StateInv
  <1>4. CASE BroadcastCombatEvent
    BY <1>3, <1>4 DEF BroadcastCombatEvent
  <1>5. CASE BroadcastWorldSnapshot
    BY <1>3, <1>5 DEF BroadcastWorldSnapshot
  <1>6. CASE BroadcastEnemyPathDebug
    <2>1. PICK c \in Recipients : Broadcast({c}, {})
      BY <1>6 DEF BroadcastEnemyPathDebug
    <2>2. {c} \in SUBSET Recipients /\ {} \in SUBSET {c}
      OBVIOUS
    <2>3. QED  BY <1>3, <1>6, <2>1, <2>2 DEF BroadcastEnemyPathDebug
  <1>7. CASE DequeueShutdown
    BY <1>7, DequeueShutdownKeepsInvariant
  <1>8. CASE \E c \in Conns : RecvFailed(c) \/ RecvCompleted(c) \/ SendFailed(c) \/ SendCompleted(c)
    BY <1>8, RecvFailedKeepsInvariant, RecvCompletedKeepsInvariant,
       SendFailedKeepsInvariant, SendCompletedKeepsInvariant
  <1>9. CASE HandleEnter
    BY <1>9, FirstEnterKeepsInvariant, SecondEnterKeepsInvariant
  <1>10. CASE HandleInput
    BY <1>10, QuietStep DEF HandleInput, vars, IInv
  <1>11. CASE RefusePacket \/ EndDispatch
    BY <1>11, RefuseKeepsInvariant, EndDispatchKeepsInvariant
  <1>12. QED
    BY <1>1, <1>2, <1>4, <1>5, <1>6, <1>7, <1>8, <1>9, <1>10, <1>11
       DEF IOLoop, Tick, Dequeue, Dispatch

LEMMA OtherThreadsKeepInvariant ==
  ASSUME IInv, AcceptLoop \/ Winsock \/ Stop
  PROVE  StateInv'
  <1> USE DEF os, world
  <1>1. ASSUME NEW c \in Conns, AcceptClient(c)  PROVE StateInv'
    <2>1. /\ UNCHANGED <<sessions, session, outstanding, port, players, lastId, current, ioPc>>
          /\ accepted' = accepted \cup {c} /\ c \notin sessions
      BY <1>1 DEF AcceptClient
    <2>2. (accepted \cap sessions)' = {}
      BY <2>1 DEF IInv
    <2>3. QED  BY <2>1, <2>2, QuietStep
  <1>2. CASE \/ CheckStopRequested \/ AcceptFails
             \/ RequestStop \/ CloseListener \/ JoinIoThread \/ Stopped
    <2>1. UNCHANGED <<accepted, sessions, session, outstanding, port, players,
                      lastId, current, ioPc>>
      BY <1>2 DEF CheckStopRequested, AcceptFails, RequestStop, CloseListener, JoinIoThread, Stopped,
                  vars
    <2>2. (accepted \cap sessions)' = {}
      BY <2>1 DEF IInv
    <2>3. QED  BY <2>1, <2>2, QuietStep
  <1>3. CASE JoinAcceptThread
    BY <1>3, ShutdownKeepsInvariant
  <1>4. CASE Winsock
    BY <1>4, CompleteKeepsInvariant DEF Winsock
  <1>5. QED  BY <1>1, <1>2, <1>3, <1>4 DEF AcceptLoop, Stop

LEMMA NextKeepsInvariant ==
  ASSUME IInv, [Next]_vars
  PROVE  IInv'
  <1>1. TypeOK'
    BY NextTyped DEF IInv
  <1>2. StateInv'
    <2>1. CASE vars' = vars
      BY <2>1, QuietStep DEF vars, IInv
    <2>2. CASE Next
      BY <2>2, LoopKeepsInvariant, OtherThreadsKeepInvariant DEF Next
    <2>3. QED  BY <2>1, <2>2
  <1>3. QED  BY <1>1, <1>2 DEF IInv, StateInv, CompletionInv

LEMMA InitInvariant ==
  ASSUME Init
  PROVE  IInv
  <1>1. TypeOK
    <2>1. NewSession \in SessionState
      BY SendQueueAssumption DEF NewSession, NoPlayer, SessionState
    <2>2. 0 \in 0 .. MaxCatchupTicks
      BY BoundsAssumption
    <2>3. session \in [Conns -> SessionState] /\ ticks \in 0 .. MaxCatchupTicks
      BY <2>1, <2>2 DEF Init
    <2>4. port \in Seq(Completion \cup {Shutdown})
      BY DEF Init
    <2>5. QED  BY <2>3, <2>4 DEF Init, TypeOK, IoStates
  <1>2. CompletionsBelongToSessions /\ CompletionsAreDistinct
    BY DEF Init, CompletionsBelongToSessions, CompletionsAreDistinct, QueuedAt
  <1>3. DispatchInv /\ WorldMatchesSessions /\ accepted \cap sessions = {}
    BY DEF Init, DispatchInv, WorldMatchesSessions, Recipients
  <1>4. \A c \in sessions : SessionInv(c)
    BY DEF Init
  <1>5. QED  BY <1>1, <1>2, <1>3, <1>4 DEF IInv

-----------------------------------------------------------------------------
(* The theorems.                                                           *)

\* The invariant is inductive: it holds in every state of every behaviour of
\* the server, whatever its clients, Winsock and the scheduler do.
THEOREM InvariantHolds == Spec => []IInv
  <1>1. Init => IInv
    BY InitInvariant
  <1>2. IInv /\ [Next]_vars => IInv'
    BY NextKeepsInvariant
  <1>3. QED  BY <1>1, <1>2, PTL DEF Spec

\* Every variable of the server stays within its type: no queue outgrows its
\* limit, and no more ticks are run in a row than IOLoop allows.
THEOREM TypeCorrect == Spec => []TypeOK
  <1>1. IInv => TypeOK
    BY DEF IInv
  <1>2. QED  BY <1>1, InvariantHolds, PTL

\* RemoveClosedSessions never frees a Session that Winsock or the completion
\* port still refers to.
THEOREM NoCompletionOutlivesItsSession == Spec => []CompletionsBelongToSessions
  <1>1. IInv => CompletionsBelongToSessions
    BY DEF IInv
  <1>2. QED  BY <1>1, InvariantHolds, PTL

\* Every path that spawns a player or closes a session leaves the world with
\* exactly the players of the sessions that entered and are not closing, each
\* under an id of its own.
THEOREM WorldHoldsLivePlayers == Spec => []WorldMatchesSessions
  <1>1. IInv => WorldMatchesSessions
    BY DEF IInv
  <1>2. QED  BY <1>1, InvariantHolds, PTL

-----------------------------------------------------------------------------
(***************************************************************************)
(* On top of the inductive invariant: no live session is left without the  *)
(* operations that serve it, a closing session starts none, and the server *)
(* implements the abstract membership of the world, WorldMembership.       *)
(*                                                                         *)
(* Every handler is first described by the sessions it closes, the         *)
(* operations it posts and the completion it takes from the port           *)
(* (HandlerStep); the properties follow from the description.              *)
(***************************************************************************)
(* The inductive invariant.                                                *)

\* An operation that Winsock has in progress or the port has queued.
Watched(c, d) == <<c, d>> \in outstanding \/ QueuedAt(c, d) # {}

PendingIsWatched ==
  \A c \in sessions, d \in Directions : Pending(session[c], d) => Watched(c, d)

ServedInv == PendingIsWatched /\ LiveSessionIsServed

\* As the port holds an operation at most once, one that is watched is in
\* progress or queued exactly once.
LEMMA WatchedIsOneOperation ==
  ASSUME IInv, PendingIsWatched
  PROVE  PendingIsOneOperation
  <1>1. SUFFICES ASSUME NEW c \in sessions, NEW d \in Directions, Pending(session[c], d)
                 PROVE  \/ <<c, d>> \in outstanding /\ QueuedAt(c, d) = {}
                        \/ <<c, d>> \notin outstanding /\ Cardinality(QueuedAt(c, d)) = 1
    BY DEF PendingIsOneOperation
  <1>2. CASE <<c, d>> \in outstanding
    BY <1>2 DEF IInv, CompletionsAreDistinct
  <1>3. CASE <<c, d>> \notin outstanding
    <2>1. PICK i \in QueuedAt(c, d) : TRUE
      BY <1>1, <1>3 DEF PendingIsWatched, Watched
    <2>2. i \in 1 .. Len(port) /\ port[i].conn = c /\ port[i].dir = d
      BY <2>1 DEF QueuedAt
    <2>3. port[i] # Shutdown
      BY <2>2 DEF Shutdown, Directions
    <2>4. ASSUME NEW j \in QueuedAt(c, d)  PROVE j = i
      <3>1. j \in 1 .. Len(port) /\ port[j].conn = c /\ port[j].dir = d
        BY <2>4 DEF QueuedAt
      <3>2. QED  BY <2>2, <2>3, <3>1 DEF IInv, CompletionsAreDistinct
    <2>5. QueuedAt(c, d) = {i}
      BY <2>1, <2>4
    <2>6. Cardinality({i}) = 1
      BY FS_Singleton
    <2>7. QED  BY <1>3, <2>5, <2>6
  <1>4. QED  BY <1>2, <1>3

-----------------------------------------------------------------------------
(* What a handler does.                                                    *)

\* The step closes the sessions of C, posts the operations of P and takes the
\* completions of Done from the port.
HandlerStep(C, P, Done) ==
  /\ C \in SUBSET sessions /\ ClosesOnly(C)
  /\ outstanding' = outstanding \cup P
  /\ \A e \in sessions, k \in Directions :
       Pending(session'[e], k) =>
         \/ Pending(session[e], k) /\ <<e, k>> \notin Done
         \/ <<e, k>> \in P
  /\ \A e \in sessions, k \in Directions : <<e, k>> \in P => ~session[e].closing
  /\ lastId' \in {lastId, lastId + 1}

\* ClosingSessionIsQuiet, of one step.
ClosingStaysQuiet ==
  \A c \in sessions \cap sessions' : session[c].closing =>
    /\ session'[c].closing /\ ~session'[c].open
    /\ \A d \in Directions : Pending(session'[c], d) => Pending(session[c], d)

\* A step of the abstract membership, or one it does not see.
MembershipStep == Membership!Next \/ UNCHANGED Membership!vars

LEMMA HandlerIsQuiet ==
  ASSUME IInv, NEW C, NEW P, NEW Done, HandlerStep(C, P, Done)
  PROVE  ClosingStaysQuiet
  <1>1. SUFFICES ASSUME NEW c \in sessions, session[c].closing
                 PROVE  /\ session'[c].closing /\ ~session'[c].open
                        /\ \A d \in Directions : Pending(session'[c], d) => Pending(session[c], d)
    BY DEF ClosingStaysQuiet
  <1>2. session'[c].closing
    BY <1>1 DEF HandlerStep, ClosesOnly
  <1>3. ~session'[c].open
    <2>1. ~session[c].open
      BY <1>1 DEF IInv, SessionInv
    <2>2. QED  BY <2>1 DEF HandlerStep, ClosesOnly
  <1>4. ASSUME NEW d \in Directions, Pending(session'[c], d)  PROVE Pending(session[c], d)
    BY <1>1, <1>4 DEF HandlerStep
  <1>5. QED  BY <1>2, <1>3, <1>4

\* The sessions it closes that were live leave the world.
LEMMA HandlerIsLeave ==
  ASSUME IInv, NEW C, NEW P, NEW Done, HandlerStep(C, P, Done)
  PROVE  MembershipStep
  <1> PICK L : L = {c \in C : ~session[c].closing}
    OBVIOUS
  <1> DEFINE playerOf == [c \in Conns |-> IF c \in Recipients THEN session[c].playerId ELSE NoPlayer]
  <1>1. /\ C \in SUBSET sessions /\ sessions \subseteq Conns /\ sessions' = sessions
        /\ \A c \in sessions :
             /\ session'[c].playerId = session[c].playerId
             /\ session'[c].closing <=> session[c].closing \/ c \in C
        /\ players' = players \ {session[c].playerId : c \in L}
    BY DEF HandlerStep, ClosesOnly, IInv, TypeOK
  <1>2. L \in SUBSET Conns
    BY <1>1
  <1>3. Membership!InPhase(L, {"connected", "playing"})
    <2>1. ASSUME NEW c \in L  PROVE Phase(c) \in {"connected", "playing"} /\ c \in Conns
      BY <1>1 DEF Phase
    <2>2. QED  BY <2>1 DEF Membership!InPhase
  <1>4. Membership!MoveTo(L, "closed")
    <2>1. ASSUME NEW c \in Conns
          PROVE  Phase(c)' = IF c \in L THEN "closed" ELSE Phase(c)
      BY <1>1 DEF Phase, IsEntered
    <2>2. QED  BY <2>1 DEF Membership!MoveTo
  <1>5. ASSUME NEW c \in Conns
        PROVE  (IF c \in Recipients THEN session[c].playerId ELSE NoPlayer)'
                 = IF c \in L THEN 0 ELSE playerOf[c]
    BY <1>1 DEF Recipients, IsEntered, NoPlayer
  <1>6. {playerOf[c] : c \in L} = {session[c].playerId : c \in L}
    <2>1. \A c \in L : playerOf[c] = session[c].playerId
      BY <1>1 DEF Recipients, IsEntered
    <2>2. QED  BY <2>1
  <1>7. Membership!Leave(L)
    <2>1. lastId' \in {lastId, lastId + 1}
      BY DEF HandlerStep
    <2>2. [c \in Conns |-> IF c \in Recipients THEN session[c].playerId ELSE NoPlayer]'
            = [c \in Conns |-> IF c \in L THEN 0 ELSE playerOf[c]]
      BY <1>5
    <2>3. players' = players \ {playerOf[c] : c \in L}
      BY <1>1, <1>6
    <2>4. QED  BY <1>3, <1>4, <2>1, <2>2, <2>3 DEF Membership!Leave
  <1>8. \E D \in SUBSET Conns : Membership!Leave(D)
    BY <1>2, <1>7
  <1>9. QED  BY <1>8 DEF MembershipStep, Membership!Next

\* A handler that takes no completion.
LEMMA PostingKeepsWatch ==
  ASSUME IInv, PendingIsWatched, NEW C, NEW P, HandlerStep(C, P, {}), port' = port
  PROVE  PendingIsWatched'
  <1>1. SUFFICES ASSUME NEW c \in sessions, NEW d \in Directions, Pending(session'[c], d)
                 PROVE  Watched(c, d)'
    BY DEF PendingIsWatched, HandlerStep, ClosesOnly
  <1>2. Pending(session[c], d) \/ <<c, d>> \in P
    BY <1>1 DEF HandlerStep
  <1>3. outstanding' = outstanding \cup P /\ QueuedAt(c, d)' = QueuedAt(c, d)
    BY DEF HandlerStep, QueuedAt
  <1>4. QED  BY <1>2, <1>3 DEF PendingIsWatched, Watched

\* The handler of a completion.
LEMMA DequeueKeepsWatch ==
  ASSUME IInv, PendingIsWatched, NEW c \in Conns, NEW d \in Directions, Dequeued(c, d),
         NEW C, NEW P, HandlerStep(C, P, {<<c, d>>})
  PROVE  PendingIsWatched'
  <1>1. SUFFICES ASSUME NEW e \in sessions, NEW k \in Directions, Pending(session'[e], k)
                 PROVE  Watched(e, k)'
    BY DEF PendingIsWatched, HandlerStep, ClosesOnly
  <1>2. outstanding' = outstanding \cup P
    BY DEF HandlerStep
  <1>3. CASE <<e, k>> \in P
    BY <1>2, <1>3 DEF Watched
  <1>4. CASE Pending(session[e], k) /\ ~(e = c /\ k = d)
    <2>1. /\ port \in Seq(Completion \cup {Shutdown}) /\ port # <<>> /\ port' = Tail(port)
          /\ port[1].conn = c /\ port[1].dir = d
      BY DEF IInv, TypeOK, Dequeued
    <2>2. Len(port) \in Nat /\ Len(port') = Len(port) - 1
          /\ \A i \in 1 .. Len(port') : port'[i] = port[i + 1]
      BY <2>1
    <2>3. CASE QueuedAt(e, k) # {}
      <3>1. PICK i \in 1 .. Len(port) : port[i].conn = e /\ port[i].dir = k
        BY <2>3 DEF QueuedAt
      <3>2. i # 1
        BY <1>4, <2>1, <3>1
      <3>3. i - 1 \in 1 .. Len(port') /\ (i - 1) + 1 = i
        BY <2>2, <3>2
      <3>4. port'[i - 1] = port[i]
        BY <2>2, <3>3
      <3>5. i - 1 \in QueuedAt(e, k)'
        BY <3>1, <3>3, <3>4 DEF QueuedAt
      <3>6. QED  BY <3>5 DEF Watched
    <2>4. CASE <<e, k>> \in outstanding
      BY <1>2, <2>4 DEF Watched
    <2>5. QED  BY <1>4, <2>3, <2>4 DEF PendingIsWatched, Watched
  <1>5. QED  BY <1>1, <1>3, <1>4 DEF HandlerStep

-----------------------------------------------------------------------------
(* What is to be shown of every step.                                      *)

ServingStep == ServedInv' /\ ClosingStaysQuiet /\ MembershipStep

\* A session is open exactly while it is not closing, so two facts are left.
LEMMA ServedFromParts ==
  ASSUME IInv',
         \A c \in sessions' : ~session'[c].closing =>
           /\ session'[c].sendPending <=> session'[c].queued > 0
           /\ session'[c].recvPending \/ current' = c \/ stopRequested'
  PROVE  LiveSessionIsServed'
  BY DEF IInv, SessionInv, LiveSessionIsServed

LEMMA HandlerServes ==
  ASSUME IInv, IInv', ServedInv, NEW C, NEW P, HandlerStep(C, P, {}), port' = port,
         \A c \in sessions : ~session'[c].closing =>
           /\ session'[c].sendPending <=> session'[c].queued > 0
           /\ session'[c].recvPending \/ current' = c \/ stopRequested'
  PROVE  ServingStep
  <1>1. LiveSessionIsServed'
    BY ServedFromParts DEF HandlerStep, ClosesOnly
  <1>2. PendingIsWatched'
    BY PostingKeepsWatch DEF ServedInv
  <1>3. QED  BY <1>1, <1>2, HandlerIsQuiet, HandlerIsLeave DEF ServingStep, ServedInv

LEMMA CompletionHandlerServes ==
  ASSUME IInv, IInv', ServedInv, NEW c \in Conns, NEW d \in Directions, Dequeued(c, d),
         NEW C, NEW P, HandlerStep(C, P, {<<c, d>>}),
         \A e \in sessions : ~session'[e].closing =>
           /\ session'[e].sendPending <=> session'[e].queued > 0
           /\ session'[e].recvPending \/ current' = e \/ stopRequested'
  PROVE  ServingStep
  <1>1. LiveSessionIsServed'
    BY ServedFromParts DEF HandlerStep, ClosesOnly
  <1>2. PendingIsWatched'
    BY DequeueKeepsWatch DEF ServedInv
  <1>3. QED  BY <1>1, <1>2, HandlerIsQuiet, HandlerIsLeave DEF ServingStep, ServedInv

\* A step that leaves the sessions and the world alone, and takes nothing but
\* the shutdown packet from the port.
LEMMA QuietStepServes ==
  ASSUME IInv, IInv', ServedInv,
         UNCHANGED <<sessions, session, players, lastId, current>>,
         stopRequested => stopRequested',
         \A c \in sessions, d \in Directions : Watched(c, d) => Watched(c, d)'
  PROVE  ServingStep
  <1>1. PendingIsWatched'
    BY DEF ServedInv, PendingIsWatched
  <1>2. LiveSessionIsServed'
    BY DEF ServedInv, LiveSessionIsServed
  <1>3. ClosingStaysQuiet
    BY DEF ClosingStaysQuiet, IInv, SessionInv
  <1>4. UNCHANGED Membership!vars
    BY DEF Membership!vars, Phase, Recipients
  <1>5. QED  BY <1>1, <1>2, <1>3, <1>4 DEF ServingStep, ServedInv, MembershipStep

-----------------------------------------------------------------------------
(* The queue of a session and its send in progress.                        *)

LEMMA AfterSendServes ==
  ASSUME NEW s \in SessionState, NEW posted \in BOOLEAN, SendSucceeds(s, posted)
  PROVE  AfterSend(s, posted).sendPending /\ AfterSend(s, posted).queued > 0
  <1>1. SendQueues(s) /\ (s.sendPending \/ posted)
    BY DEF SendSucceeds
  <1>2. s.queued \in Nat
    BY SendQueueAssumption DEF SessionState
  <1>3. AfterSend(s, posted) = [s EXCEPT !.queued = s.queued + 1,
                                         !.sendPending = s.sendPending \/ posted]
    BY <1>1 DEF AfterSend
  <1>4. QED  BY <1>1, <1>2, <1>3 DEF SessionState

LEMMA AfterHandleSendServes ==
  ASSUME NEW s \in SessionState, NEW partial \in BOOLEAN, NEW posted \in BOOLEAN,
         HandleSendSucceeds(s, partial, posted)
  PROVE  AfterHandleSend(s, partial, posted).sendPending
           <=> AfterHandleSend(s, partial, posted).queued > 0
  <1> DEFINE left == LeftToSend(s, partial)
  <1>1. s.queued \in Nat /\ s.queued > 0 /\ (left > 0 => s.open /\ posted)
    BY SendQueueAssumption DEF HandleSendSucceeds, SessionState
  <1>2. left \in Nat
    BY <1>1 DEF LeftToSend
  <1>3. AfterHandleSend(s, partial, posted)
          = [s EXCEPT !.queued = left, !.sendPending = HandleSendPosts(s, partial) /\ posted]
    BY <1>1 DEF AfterHandleSend
  <1>4. HandleSendPosts(s, partial) <=> left > 0 /\ s.open
    BY <1>1 DEF HandleSendPosts
  <1> HIDE DEF left
  <1>5. QED  BY <1>1, <1>2, <1>3, <1>4 DEF SessionState

\* The send that HandleSend posts is one of an open session.
LEMMA AfterHandleSendPosts ==
  ASSUME NEW s \in SessionState, NEW partial \in BOOLEAN, NEW posted \in BOOLEAN,
         ~s.sendPending, AfterHandleSend(s, partial, posted).sendPending
  PROVE  s.open
  BY DEF AfterHandleSend, HandleSendPosts, SessionState

-----------------------------------------------------------------------------
(* The broadcasts of a tick.                                               *)

LEMMA BroadcastServes ==
  ASSUME IInv, IInv', ServedInv, stopRequested => stopRequested',
         NEW R \in SUBSET Recipients, NEW unbuilt \in SUBSET R, Broadcast(R, unbuilt)
  PROVE  ServingStep
  <1> USE DEF IInv
  <1>1. PICK posted \in SUBSET {c \in R \ unbuilt : SendPosts(session[c])} :
          LET sent == [c \in Conns |-> IF c \in R \ unbuilt
                                       THEN AfterSend(session[c], c \in posted)
                                       ELSE session[c]]
              failed == unbuilt \cup
                        {c \in R \ unbuilt : ~SendSucceeds(session[c], c \in posted)}
          IN /\ session' = SessionsAfterClose(sent, failed)
             /\ players' = players \ Despawned(sent, failed)
             /\ outstanding' = outstanding \cup (posted \X {"send"})
    BY DEF Broadcast
  <1> DEFINE sent == [c \in Conns |-> IF c \in R \ unbuilt
                                      THEN AfterSend(session[c], c \in posted)
                                      ELSE session[c]]
             failed == unbuilt \cup
                       {c \in R \ unbuilt : ~SendSucceeds(session[c], c \in posted)}
             P == posted \X {"send"}
  <1>2. /\ UNCHANGED <<sessions, port, lastId, current>>
        /\ Recipients \subseteq sessions /\ sessions \subseteq Conns
        /\ \A c \in Recipients : ~session[c].closing
    BY DEF Broadcast, Recipients, TypeOK
  <1>3. ASSUME NEW c \in Conns
        PROVE  /\ sent[c] \in SessionState
               /\ sent[c].playerId = session[c].playerId
               /\ sent[c].closing = session[c].closing
               /\ sent[c].open = session[c].open
               /\ sent[c].recvPending = session[c].recvPending
               /\ sent[c].sendPending => session[c].sendPending \/ c \in posted
               /\ \/ c \in failed
                  \/ sent[c] = session[c]
                  \/ sent[c].sendPending /\ sent[c].queued > 0
    <2>1. session[c] \in SessionState
      BY DEF TypeOK
    <2>2. CASE c \in R \ unbuilt
      <3> DEFINE p == c \in posted
      <3>1. p \in BOOLEAN /\ sent[c] = AfterSend(session[c], p)
        BY <2>2
      <3>2. c \in failed \/ SendSucceeds(session[c], p)
        BY <2>2
      <3> HIDE DEF p, sent, failed
      <3>3. /\ sent[c] \in SessionState
            /\ sent[c].playerId = session[c].playerId
            /\ sent[c].closing = session[c].closing
            /\ sent[c].open = session[c].open
            /\ sent[c].recvPending = session[c].recvPending
            /\ sent[c].sendPending <=> session[c].sendPending \/ (SendQueues(session[c]) /\ p)
        BY <2>1, <3>1, AfterSendFields, SessionOperationsTyped
      <3>4. SendSucceeds(session[c], p) => sent[c].sendPending /\ sent[c].queued > 0
        BY <2>1, <3>1, AfterSendServes
      <3>5. QED  BY <3>2, <3>3, <3>4 DEF p
    <2>3. CASE c \notin R \ unbuilt
      <3>1. sent[c] = session[c]
        BY <2>3
      <3>2. QED  BY <2>1, <3>1
    <2>4. QED  BY <2>2, <2>3
  <1>4. failed \in SUBSET sessions /\ posted \in SUBSET Recipients
    BY <1>1, <1>2
  <1>5. sent \in [Conns -> SessionState]
    BY <1>3
  <1>6. /\ session' = SessionsAfterClose(sent, failed)
        /\ players' = players \ Despawned(sent, failed)
        /\ outstanding' = outstanding \cup P
    BY <1>1
  <1>7. \A e, k : <<e, k>> \in P <=> e \in posted /\ k = "send"
    OBVIOUS
  <1> HIDE DEF sent, failed, P
  <1>8. /\ ClosesOnly(failed)
        /\ \A c \in sessions : /\ session'[c].recvPending = sent[c].recvPending
                               /\ session'[c].sendPending = sent[c].sendPending
    BY <1>2, <1>3, <1>4, <1>5, <1>6, CloseSessionClosesOnly
  <1>9. HandlerStep(failed, P, {})
    <2>1. ASSUME NEW e \in sessions, NEW k \in Directions, Pending(session'[e], k)
          PROVE  Pending(session[e], k) \/ <<e, k>> \in P
      BY <1>2, <1>3, <1>7, <1>8, <2>1 DEF Pending, Directions
    <2>2. ASSUME NEW e \in sessions, NEW k \in Directions, <<e, k>> \in P
          PROVE  ~session[e].closing
      BY <1>2, <1>4, <1>7, <2>2
    <2>3. QED  BY <1>2, <1>4, <1>6, <1>8, <2>1, <2>2 DEF HandlerStep
  <1>10. ASSUME NEW c \in sessions, ~session'[c].closing
         PROVE  /\ session'[c].sendPending <=> session'[c].queued > 0
                /\ session'[c].recvPending \/ current' = c \/ stopRequested'
    <2>1. c \in Conns /\ c \notin failed /\ ~session[c].closing
      BY <1>2, <1>8, <1>10 DEF ClosesOnly
    <2>2. session'[c] = sent[c]
      BY <1>5, <1>6, <2>1, SessionsAfterCloseTyped
    <2>3. /\ session[c].sendPending <=> session[c].queued > 0
          /\ session[c].recvPending \/ current = c \/ stopRequested
      BY <2>1 DEF ServedInv, LiveSessionIsServed
    <2>4. QED  BY <1>2, <1>3, <2>1, <2>2, <2>3
  <1>11. QED  BY <1>2, <1>9, <1>10, HandlerServes

-----------------------------------------------------------------------------
(* The completions.                                                        *)

\* A failed completion closes its session.
LEMMA FailedCompletionServes ==
  ASSUME IInv, IInv', ServedInv, stopRequested' = stopRequested,
         NEW c \in Conns, NEW d \in Directions, Dequeued(c, d),
         NEW acked \in [Conns -> SessionState],
         \A e \in Conns : /\ acked[e].playerId = session[e].playerId
                          /\ acked[e].closing = session[e].closing
                          /\ acked[e].open = session[e].open
                          /\ e # c => acked[e] = session[e],
         \A e \in Conns, k \in Directions :
            IF e = c /\ k = d THEN ~Pending(acked[e], k)
                              ELSE Pending(acked[e], k) = Pending(session[e], k),
         session' = SessionsAfterClose(acked, {c}),
         players' = players \ Despawned(acked, {c}),
         UNCHANGED <<sessions, outstanding, lastId, current>>
  PROVE  ServingStep
  <1> USE DEF IInv
  <1>1. /\ c \in sessions /\ current = NoConn /\ sessions \subseteq Conns
        /\ {c} \in SUBSET sessions
    BY DequeuedFacts DEF TypeOK
  <1>2. /\ ClosesOnly({c})
        /\ \A e \in sessions : /\ session'[e].recvPending = acked[e].recvPending
                               /\ session'[e].sendPending = acked[e].sendPending
    BY <1>1, CloseSessionClosesOnly
  <1>3. HandlerStep({c}, {}, {<<c, d>>})
    <2>1. ASSUME NEW e \in sessions, NEW k \in Directions, Pending(session'[e], k)
          PROVE  Pending(session[e], k) /\ ~(e = c /\ k = d)
      <3>1. Pending(acked[e], k) /\ e \in Conns
        BY <1>1, <1>2, <2>1 DEF Pending
      <3>2. QED  BY <3>1
    <2>2. outstanding' = outstanding \cup {} /\ {c} \in SUBSET sessions
      BY <1>1
    <2>3. QED  BY <1>2, <2>1, <2>2 DEF HandlerStep
  <1>4. ASSUME NEW e \in sessions, ~session'[e].closing
        PROVE  /\ session'[e].sendPending <=> session'[e].queued > 0
               /\ session'[e].recvPending \/ current' = e \/ stopRequested'
    <2>1. e \in Conns /\ e # c /\ ~session[e].closing
      BY <1>1, <1>2, <1>4 DEF ClosesOnly
    <2>2. session'[e] = session[e]
      BY <2>1, SessionsAfterCloseTyped
    <2>3. QED  BY <2>1, <2>2 DEF ServedInv, LiveSessionIsServed
  <1>5. QED  BY <1>3, <1>4, CompletionHandlerServes

LEMMA AcksOthersAlone ==
  ASSUME NEW c \in Conns, NEW e \in Conns, e # c, TypeOK
  PROVE  AckRecv(c)[e] = session[e] /\ AckSend(c)[e] = session[e]
  BY DEF AckRecv, AckSend, TypeOK

LEMMA RecvFailedServes ==
  ASSUME IInv, IInv', ServedInv, NEW c \in Conns, RecvFailed(c)
  PROVE  ServingStep
  <1> DEFINE acked == AckRecv(c)
  <1>1. TypeOK /\ Dequeued(c, "recv") /\ "recv" \in Directions
    BY DEF IInv, RecvFailed, Directions
  <1>2. /\ acked \in [Conns -> SessionState]
        /\ session' = SessionsAfterClose(acked, {c})
        /\ players' = players \ Despawned(acked, {c})
        /\ UNCHANGED <<sessions, outstanding, lastId, current>>
        /\ stopRequested' = stopRequested
    BY <1>1, AcksTyped, DespawnedAfterAck DEF RecvFailed, stop
  <1>3. \A e \in Conns : /\ acked[e].playerId = session[e].playerId
                         /\ acked[e].closing = session[e].closing
                         /\ acked[e].open = session[e].open
                         /\ e # c => acked[e] = session[e]
    BY <1>1, AckFields, AcksOthersAlone
  <1>4. \A e \in Conns, k \in Directions :
          IF e = c /\ k = "recv" THEN ~Pending(acked[e], k)
                                 ELSE Pending(acked[e], k) = Pending(session[e], k)
    BY <1>1, AckFields
  <1> HIDE DEF acked
  <1>5. QED  BY <1>1, <1>2, <1>3, <1>4, FailedCompletionServes

LEMMA SendFailedServes ==
  ASSUME IInv, IInv', ServedInv, NEW c \in Conns, SendFailed(c)
  PROVE  ServingStep
  <1> DEFINE acked == AckSend(c)
  <1>1. TypeOK /\ Dequeued(c, "send") /\ "send" \in Directions
    BY DEF IInv, SendFailed, Directions
  <1>2. /\ acked \in [Conns -> SessionState]
        /\ session' = SessionsAfterClose(acked, {c})
        /\ players' = players \ Despawned(acked, {c})
        /\ UNCHANGED <<sessions, outstanding, lastId, current>>
        /\ stopRequested' = stopRequested
    BY <1>1, AcksTyped, DespawnedAfterAck DEF SendFailed, stop
  <1>3. \A e \in Conns : /\ acked[e].playerId = session[e].playerId
                         /\ acked[e].closing = session[e].closing
                         /\ acked[e].open = session[e].open
                         /\ e # c => acked[e] = session[e]
    BY <1>1, AckFields, AcksOthersAlone
  <1>4. \A e \in Conns, k \in Directions :
          IF e = c /\ k = "send" THEN ~Pending(acked[e], k)
                                 ELSE Pending(acked[e], k) = Pending(session[e], k)
    BY <1>1, AckFields
  <1> HIDE DEF acked
  <1>5. QED  BY <1>1, <1>2, <1>3, <1>4, FailedCompletionServes

\* The session that received is dispatched next, and so still served.
LEMMA RecvCompletedServes ==
  ASSUME IInv, IInv', ServedInv, NEW c \in Conns, RecvCompleted(c)
  PROVE  ServingStep
  <1> USE DEF IInv
  <1>1. /\ Dequeued(c, "recv") /\ "recv" \in Directions
        /\ UNCHANGED <<sessions, outstanding, players, lastId, stopRequested>>
        /\ session' = AckRecv(c) /\ current' = c
    BY DEF RecvCompleted, Directions, world, stop
  <1>2. /\ c \in sessions /\ current = NoConn /\ sessions \subseteq Conns
        /\ \A e \in sessions : e # NoConn
    BY <1>1, DequeuedFacts, ConnsAssumption DEF TypeOK
  <1>3. \A e \in sessions, k \in Directions :
          /\ session'[e].playerId = session[e].playerId
          /\ session'[e].closing = session[e].closing
          /\ session'[e].open = session[e].open
          /\ IF e = c /\ k = "recv" THEN ~Pending(session'[e], k)
                                    ELSE Pending(session'[e], k) = Pending(session[e], k)
    BY <1>1, <1>2, AckFields
  <1>4. HandlerStep({}, {}, {<<c, "recv">>})
    <2>1. ClosesOnly({})
      BY <1>1, <1>3 DEF ClosesOnly
    <2>2. ASSUME NEW e \in sessions, NEW k \in Directions, Pending(session'[e], k)
          PROVE  Pending(session[e], k) /\ <<e, k>> \notin {<<c, "recv">>}
      BY <1>3, <2>2
    <2>3. outstanding' = outstanding \cup {}
      BY <1>1
    <2>4. QED  BY <1>1, <2>1, <2>2, <2>3 DEF HandlerStep
  <1>5. ASSUME NEW e \in sessions, ~session'[e].closing
        PROVE  /\ session'[e].sendPending <=> session'[e].queued > 0
               /\ session'[e].recvPending \/ current' = e \/ stopRequested'
    <2>1. /\ session[e].sendPending <=> session[e].queued > 0
          /\ session[e].recvPending \/ current = e \/ stopRequested
      BY <1>1, <1>3, <1>5 DEF ServedInv, LiveSessionIsServed
    <2>2. CASE e = c
      <3>1. session'[e] = [session[e] EXCEPT !.recvPending = FALSE] /\ session[e] \in SessionState
        BY <1>1, <1>2, <2>2 DEF AckRecv, TypeOK
      <3>2. session'[e].sendPending = session[e].sendPending /\ session'[e].queued = session[e].queued
        BY <3>1 DEF SessionState
      <3>3. QED  BY <1>1, <2>1, <2>2, <3>2
    <2>3. CASE e # c
      <3>1. session'[e] = session[e]
        BY <1>1, <1>2, <2>3, AcksOthersAlone
      <3>2. QED  BY <1>1, <1>2, <2>1, <3>1
    <2>4. QED  BY <2>2, <2>3
  <1>6. QED  BY <1>1, <1>4, <1>5, CompletionHandlerServes

\* What is left in the queue is posted again, or the session is closed.
LEMMA SendCompletedServes ==
  ASSUME IInv, IInv', ServedInv, NEW c \in Conns, SendCompleted(c)
  PROVE  ServingStep
  <1> USE DEF IInv
  <1> DEFINE s == AckSend(c)[c]
  <1>1. PICK partial \in BOOLEAN, posted \in BOOLEAN :
          LET after == [session EXCEPT ![c] = AfterHandleSend(s, partial, posted)]
              failed == IF HandleSendSucceeds(s, partial, posted) THEN {} ELSE {c}
          IN /\ session' = SessionsAfterClose(after, failed)
             /\ players' = players \ Despawned(after, failed)
             /\ outstanding' = IF after[c].sendPending
                               THEN outstanding \cup {<<c, "send">>}
                               ELSE outstanding
    BY DEF SendCompleted
  <1> DEFINE handled == AfterHandleSend(s, partial, posted)
             after == [session EXCEPT ![c] = handled]
             failed == IF HandleSendSucceeds(s, partial, posted) THEN {} ELSE {c}
             P == IF after[c].sendPending THEN {<<c, "send">>} ELSE {}
  <1>2. /\ Dequeued(c, "send") /\ "send" \in Directions
        /\ UNCHANGED <<sessions, lastId, current, stopRequested>>
        /\ session \in [Conns -> SessionState]
    BY DEF SendCompleted, Directions, TypeOK, stop
  <1>3. /\ c \in sessions /\ SessionInv(c) /\ sessions \subseteq Conns
    BY <1>2, DequeuedFacts DEF TypeOK
  <1>4. /\ s \in SessionState /\ ~s.sendPending
        /\ s.playerId = session[c].playerId /\ s.closing = session[c].closing
        /\ s.open = session[c].open /\ s.recvPending = session[c].recvPending
    <2>1. session[c] \in SessionState /\ s = [session[c] EXCEPT !.sendPending = FALSE]
      BY <1>2 DEF AckSend
    <2>2. QED  BY <2>1 DEF SessionState
  <1> HIDE DEF s
  <1>5. /\ handled \in SessionState
        /\ handled.playerId = session[c].playerId
        /\ handled.closing = session[c].closing
        /\ handled.open = session[c].open
        /\ handled.recvPending = session[c].recvPending
        /\ handled.sendPending => ~session[c].closing
    <2>1. handled.sendPending => session[c].open
      BY <1>4, AfterHandleSendPosts
    <2>2. session[c].open <=> ~session[c].closing
      BY <1>3 DEF SessionInv
    <2>3. QED  BY <1>4, <2>1, <2>2, AfterHandleSendFields, SessionOperationsTyped
  <1>6. c \in failed \/ (handled.sendPending <=> handled.queued > 0)
    BY <1>4, AfterHandleSendServes
  <1> HIDE DEF handled
  <1>7. /\ after \in [Conns -> SessionState] /\ after[c] = handled
        /\ \A e \in Conns : /\ after[e].playerId = session[e].playerId
                            /\ after[e].closing = session[e].closing
                            /\ after[e].open = session[e].open
                            /\ after[e].recvPending = session[e].recvPending
                            /\ e # c => after[e] = session[e]
    BY <1>2, <1>5
  <1>8. /\ session' = SessionsAfterClose(after, failed)
        /\ players' = players \ Despawned(after, failed)
        /\ outstanding' = outstanding \cup P
        /\ failed \in SUBSET sessions
    BY <1>1, <1>3 DEF handled
  <1>9. \A e, k : <<e, k>> \in P <=> e = c /\ k = "send" /\ after[c].sendPending
    OBVIOUS
  <1> HIDE DEF after, failed, P
  <1>10. /\ ClosesOnly(failed)
         /\ \A e \in sessions : /\ session'[e].recvPending = after[e].recvPending
                                /\ session'[e].sendPending = after[e].sendPending
    BY <1>2, <1>7, <1>8, CloseSessionClosesOnly
  <1>11. HandlerStep(failed, P, {<<c, "send">>})
    <2>1. ASSUME NEW e \in sessions, NEW k \in Directions, Pending(session'[e], k)
          PROVE  \/ Pending(session[e], k) /\ <<e, k>> \notin {<<c, "send">>}
                 \/ <<e, k>> \in P
      <3>1. e \in Conns
        BY <1>3
      <3>2. CASE k = "recv"
        BY <1>7, <1>10, <2>1, <3>1, <3>2 DEF Pending
      <3>3. CASE k = "send" /\ e = c
        BY <1>9, <1>10, <2>1, <3>3 DEF Pending
      <3>4. CASE k = "send" /\ e # c
        BY <1>7, <1>10, <2>1, <3>1, <3>4 DEF Pending
      <3>5. QED  BY <3>2, <3>3, <3>4 DEF Directions
    <2>2. ASSUME NEW e \in sessions, NEW k \in Directions, <<e, k>> \in P
          PROVE  ~session[e].closing
      BY <1>5, <1>7, <1>9, <2>2
    <2>3. QED  BY <1>2, <1>8, <1>10, <2>1, <2>2 DEF HandlerStep
  <1>12. ASSUME NEW e \in sessions, ~session'[e].closing
         PROVE  /\ session'[e].sendPending <=> session'[e].queued > 0
                /\ session'[e].recvPending \/ current' = e \/ stopRequested'
    <2>1. e \in Conns /\ e \notin failed /\ ~session[e].closing
      BY <1>3, <1>10, <1>12 DEF ClosesOnly
    <2>2. session'[e] = after[e]
      BY <1>7, <1>8, <2>1, SessionsAfterCloseTyped
    <2>3. /\ session[e].sendPending <=> session[e].queued > 0
          /\ session[e].recvPending \/ current = e \/ stopRequested
      BY <2>1 DEF ServedInv, LiveSessionIsServed
    <2>4. QED  BY <1>2, <1>6, <1>7, <2>1, <2>2, <2>3
  <1>13. QED  BY <1>2, <1>11, <1>12, CompletionHandlerServes

-----------------------------------------------------------------------------
(* The handlers of packets.                                                *)

\* The current session is closed and no other is touched.
LEMMA CurrentClosedServes ==
  ASSUME IInv, IInv', ServedInv, ioPc = "dispatch",
         session' = SessionsAfterClose(session, {current}),
         players' = players \ Despawned(session, {current}),
         UNCHANGED <<sessions, outstanding, port, stopRequested>>,
         lastId' \in {lastId, lastId + 1}
  PROVE  ServingStep
  <1> USE DEF IInv
  <1>1. /\ current \in sessions /\ {current} \in SUBSET sessions
        /\ sessions \subseteq Conns /\ session \in [Conns -> SessionState]
    BY DEF DispatchInv, TypeOK
  <1>2. /\ ClosesOnly({current})
        /\ \A e \in sessions : /\ session'[e].recvPending = session[e].recvPending
                               /\ session'[e].sendPending = session[e].sendPending
    BY <1>1, CloseSessionClosesOnly
  <1>3. HandlerStep({current}, {}, {})
    BY <1>1, <1>2 DEF HandlerStep, Pending
  <1>4. ASSUME NEW e \in sessions, ~session'[e].closing
        PROVE  /\ session'[e].sendPending <=> session'[e].queued > 0
               /\ session'[e].recvPending \/ current' = e \/ stopRequested'
    <2>1. e \in Conns /\ e # current /\ ~session[e].closing
      BY <1>1, <1>2, <1>4 DEF ClosesOnly
    <2>2. session'[e] = session[e]
      BY <1>1, <2>1, SessionsAfterCloseTyped
    <2>3. QED  BY <2>1, <2>2 DEF ServedInv, LiveSessionIsServed
  <1>5. QED  BY <1>3, <1>4, HandlerServes

LEMMA RefuseServes ==
  ASSUME IInv, IInv', ServedInv, RefusePacket
  PROVE  ServingStep
  BY CurrentClosedServes DEF RefusePacket, os, stop

\* A second entry spends an id and is refused.
LEMMA SecondEnterServes ==
  ASSUME IInv, IInv', ServedInv, HandleEnter, IsEntered(session[current])
  PROVE  ServingStep
  <1>1. /\ ioPc = "dispatch" /\ lastId' = lastId + 1
        /\ UNCHANGED <<sessions, port, stopRequested>>
        /\ session \in [Conns -> SessionState]
    BY DEF HandleEnter, stop, IInv, TypeOK
  <1>2. /\ ~EnterSucceeds(session[current])
        /\ \A id : AfterEnter(session[current], id) = session[current]
    BY DEF EnterSucceeds, AfterEnter
  <1>3. [session EXCEPT ![current] = session[current]] = session /\ players \cup {} = players
    BY <1>1
  <1>4. /\ session' = SessionsAfterClose(session, {current})
        /\ players' = players \ Despawned(session, {current})
        /\ outstanding' = outstanding
    BY <1>2, <1>3 DEF HandleEnter
  <1>5. QED  BY <1>1, <1>4, CurrentClosedServes

\* After the last packet the session receives again, unless it is closed or
\* the server is stopping.
LEMMA EndDispatchServes ==
  ASSUME IInv, IInv', ServedInv, EndDispatch
  PROVE  ServingStep
  <1> USE DEF IInv
  <1>1. /\ ioPc = "dispatch" /\ UNCHANGED <<sessions, port, lastId, stopRequested>>
        /\ current \in sessions /\ ~session[current].recvPending
        /\ sessions \subseteq Conns /\ session \in [Conns -> SessionState]
    BY DEF EndDispatch, DispatchInv, TypeOK, stop
  <1>2. CASE stopRequested
    <2>1. UNCHANGED <<session, players, outstanding>>
      BY <1>2 DEF EndDispatch
    <2>2. ClosesOnly({})
      BY <1>1, <2>1 DEF ClosesOnly
    <2>3. HandlerStep({}, {}, {})
      BY <1>1, <2>1, <2>2 DEF HandlerStep
    <2>4. ASSUME NEW e \in sessions, ~session'[e].closing
          PROVE  session'[e].sendPending <=> session'[e].queued > 0
      BY <2>1, <2>4 DEF ServedInv, LiveSessionIsServed
    <2>5. QED  BY <1>1, <1>2, <2>3, <2>4, HandlerServes
  <1>3. CASE ~stopRequested
    <2>1. PICK posted \in BOOLEAN :
            LET after == [session EXCEPT ![current] = AfterPostRecv(@, posted)]
                failed == IF PostRecvSucceeds(session[current], posted) THEN {} ELSE {current}
            IN /\ session' = SessionsAfterClose(after, failed)
               /\ players' = players \ Despawned(after, failed)
               /\ outstanding' = IF after[current].recvPending
                                 THEN outstanding \cup {<<current, "recv">>}
                                 ELSE outstanding
      BY <1>3 DEF EndDispatch
    <2> DEFINE received == AfterPostRecv(session[current], posted)
               after == [session EXCEPT ![current] = received]
               failed == IF PostRecvSucceeds(session[current], posted) THEN {} ELSE {current}
               P == IF after[current].recvPending THEN {<<current, "recv">>} ELSE {}
    <2>2. /\ received \in SessionState
          /\ received.playerId = session[current].playerId
          /\ received.closing = session[current].closing
          /\ received.open = session[current].open
          /\ received.sendPending = session[current].sendPending
          /\ received.queued = session[current].queued
          /\ received.recvPending <=> PostRecvSucceeds(session[current], posted)
      <3>1. session[current] \in SessionState /\ ~session[current].recvPending
        BY <1>1
      <3>2. received \in SessionState
        BY <3>1, SessionOperationsTyped
      <3>3. received.queued = session[current].queued
        BY <3>1 DEF AfterPostRecv, SessionState
      <3>4. QED  BY <3>1, <3>2, <3>3, AfterPostRecvFields DEF PostRecvSucceeds
    <2>3. received.recvPending => ~session[current].closing
      BY <1>1, <2>2 DEF PostRecvSucceeds, SessionInv
    <2>4. current \in failed \/ received.recvPending
      BY <2>2
    <2> HIDE DEF received
    <2>5. /\ after \in [Conns -> SessionState] /\ after[current] = received
          /\ \A e \in Conns : /\ after[e].playerId = session[e].playerId
                              /\ after[e].closing = session[e].closing
                              /\ after[e].open = session[e].open
                              /\ after[e].sendPending = session[e].sendPending
                              /\ after[e].queued = session[e].queued
                              /\ e # current => after[e] = session[e]
      BY <1>1, <2>2
    <2>6. /\ session' = SessionsAfterClose(after, failed)
          /\ players' = players \ Despawned(after, failed)
          /\ outstanding' = outstanding \cup P
          /\ failed \in SUBSET sessions
      BY <1>1, <2>1 DEF received
    <2>7. \A e, k : <<e, k>> \in P <=> e = current /\ k = "recv" /\ after[current].recvPending
      OBVIOUS
    <2> HIDE DEF after, failed, P
    <2>8. /\ ClosesOnly(failed)
          /\ \A e \in sessions : /\ session'[e].recvPending = after[e].recvPending
                                 /\ session'[e].sendPending = after[e].sendPending
      BY <1>1, <2>5, <2>6, CloseSessionClosesOnly
    <2>9. HandlerStep(failed, P, {})
      <3>1. ASSUME NEW e \in sessions, NEW k \in Directions, Pending(session'[e], k)
            PROVE  Pending(session[e], k) \/ <<e, k>> \in P
        <4>1. e \in Conns
          BY <1>1
        <4>2. CASE e = current /\ k = "recv"
          BY <2>7, <2>8, <3>1, <4>2 DEF Pending
        <4>3. CASE e # current /\ k = "recv"
          BY <2>5, <2>8, <3>1, <4>1, <4>3 DEF Pending
        <4>4. CASE k = "send"
          BY <2>5, <2>8, <3>1, <4>1, <4>4 DEF Pending
        <4>5. QED  BY <4>2, <4>3, <4>4 DEF Directions
      <3>2. ASSUME NEW e \in sessions, NEW k \in Directions, <<e, k>> \in P
            PROVE  ~session[e].closing
        BY <2>3, <2>5, <2>7, <3>2
      <3>3. QED  BY <1>1, <2>6, <2>8, <3>1, <3>2 DEF HandlerStep
    <2>10. ASSUME NEW e \in sessions, ~session'[e].closing
           PROVE  /\ session'[e].sendPending <=> session'[e].queued > 0
                  /\ session'[e].recvPending \/ current' = e \/ stopRequested'
      <3>1. e \in Conns /\ e \notin failed /\ ~session[e].closing
        BY <1>1, <2>8, <2>10 DEF ClosesOnly
      <3>2. session'[e] = after[e]
        BY <2>5, <2>6, <3>1, SessionsAfterCloseTyped
      <3>3. /\ session[e].sendPending <=> session[e].queued > 0
            /\ session[e].recvPending \/ current = e \/ stopRequested
        BY <3>1 DEF ServedInv, LiveSessionIsServed
      <3>4. session'[e].sendPending <=> session'[e].queued > 0
        BY <2>5, <3>1, <3>2, <3>3
      <3>5. CASE e = current
        BY <2>4, <2>5, <3>1, <3>2, <3>4, <3>5
      <3>6. CASE e # current
        BY <1>1, <2>5, <3>1, <3>2, <3>3, <3>4, <3>6
      <3>7. QED  BY <3>5, <3>6
    <2>11. QED  BY <1>1, <2>9, <2>10, HandlerServes
  <1>4. QED  BY <1>2, <1>3

\* The first entry joins the world; when the answer cannot be sent the session
\* is closed, and an id was spent.
LEMMA FirstEnterServes ==
  ASSUME IInv, IInv', ServedInv, HandleEnter, ~IsEntered(session[current])
  PROVE  ServingStep
  <1> USE DEF IInv
  <1> DEFINE id == lastId + 1
             entered == AfterEnter(session[current], id)
  <1>1. /\ ioPc = "dispatch" /\ UNCHANGED <<sessions, port, stopRequested>>
        /\ lastId' = id /\ lastId \in Nat /\ id \in Nat /\ id # 0
        /\ current \in sessions /\ sessions \subseteq Conns /\ current \in Conns
        /\ session \in [Conns -> SessionState] /\ session[current] \in SessionState
        /\ ~session[current].recvPending
    BY DEF HandleEnter, DispatchInv, TypeOK, stop
  <1>2. ~session[current].closing /\ session[current].open /\ ~session[current].sendPending
    BY <1>1 DEF SessionInv
  <1>3. EnterSucceeds(session[current])
    BY DEF EnterSucceeds
  <1>4. /\ entered \in SessionState /\ entered.playerId = id /\ ~entered.closing
        /\ entered.open /\ ~entered.sendPending /\ ~entered.recvPending
    BY <1>1, <1>2, <1>3 DEF AfterEnter, SessionState
  <1>5. PICK posted \in BOOLEAN :
          LET after == [session EXCEPT ![current] = AfterSend(entered, posted)]
              failed == IF SendSucceeds(entered, posted) THEN {} ELSE {current}
          IN /\ session' = SessionsAfterClose(after, failed)
             /\ players' = (players \cup {id}) \ Despawned(after, failed)
             /\ outstanding' = IF after[current].sendPending /\ ~session[current].sendPending
                               THEN outstanding \cup {<<current, "send">>}
                               ELSE outstanding
             /\ IF SendSucceeds(entered, posted)
                THEN UNCHANGED <<current, ioPc>> ELSE DispatchStops
    BY <1>3 DEF HandleEnter
  <1> HIDE DEF id, entered
  <1> DEFINE sent == AfterSend(entered, posted)
             handled == SendSucceeds(entered, posted)
             after == [session EXCEPT ![current] = sent]
             failed == IF handled THEN {} ELSE {current}
             P == IF handled THEN {<<current, "send">>} ELSE {}
  <1>6. /\ sent \in SessionState /\ sent.playerId = id /\ ~sent.closing
        /\ ~sent.recvPending /\ (sent.sendPending <=> handled)
        /\ handled => sent.queued > 0
    <2>1. sent \in SessionState
      BY <1>4, SessionOperationsTyped
    <2>2. SendSucceeds(entered, posted) <=> SendQueues(entered) /\ posted
      BY <1>4 DEF SendSucceeds
    <2>3. handled => sent.queued > 0
      BY <1>4, AfterSendServes
    <2>4. QED  BY <1>4, <2>1, <2>2, <2>3, AfterSendFields
  <1> HIDE DEF sent, handled
  <1>7. /\ after \in [Conns -> SessionState] /\ after[current] = sent
        /\ \A e \in Conns : e # current => after[e] = session[e]
    BY <1>1, <1>6
  <1>8. /\ session' = SessionsAfterClose(after, failed)
        /\ outstanding' = outstanding \cup P
        /\ players' = (players \cup {id}) \ Despawned(after, failed)
        /\ handled => current' = current
    <2>1. after[current].sendPending <=> handled
      BY <1>6, <1>7
    <2>2. QED  BY <1>2, <1>5, <2>1 DEF sent, handled
  <1>9. /\ \A e \in Conns : e # current => session'[e] = session[e]
        /\ handled => session'[current] = sent
        /\ session'[current].closing <=> ~handled
        /\ session'[current].playerId = id
        /\ session'[current].sendPending <=> handled
        /\ ~session'[current].recvPending
    <2>1. \A e \in Conns : session'[e] = IF e \in failed THEN AfterClose(after[e]) ELSE after[e]
      <3> HIDE DEF after, failed
      <3>1. QED  BY <1>7, <1>8, SessionsAfterCloseTyped
    <2>2. session'[current] = IF handled THEN sent ELSE AfterClose(sent)
      BY <1>1, <1>7, <2>1
    <2>3. \A e \in Conns : e # current => session'[e] = after[e]
      BY <2>1
    <2>4. QED  BY <1>6, <1>7, <2>2, <2>3, AfterCloseFields
  <1>10. id \notin players /\ 0 \notin players
    <2>1. \A e \in Recipients : /\ session[e].playerId \in Nat /\ session[e].playerId # 0
                                /\ session[e].playerId <= lastId
      BY <1>1 DEF Recipients, IsEntered, NoPlayer, SessionInv, SessionState
    <2>2. \A e \in Recipients : session[e].playerId # id
      BY <1>1, <2>1 DEF id
    <2>3. QED  BY <2>1, <2>2 DEF WorldMatchesSessions
  <1>11. players' = IF handled THEN players \cup {id} ELSE players
    <2>1. Despawned(after, failed) = IF handled THEN {} ELSE {id}
      <3>1. {d \in failed : ~after[d].closing} = failed
        BY <1>6, <1>7
      <3>2. Despawned(after, failed) = {after[e].playerId : e \in failed}
        BY <3>1 DEF Despawned
      <3>3. QED  BY <1>6, <1>7, <3>2
    <2>2. QED  BY <1>8, <1>10, <2>1
  <1>12. \A e, k : <<e, k>> \in P <=> e = current /\ k = "send" /\ handled
    OBVIOUS
  <1> HIDE DEF after, failed, P
  <1>13. PendingIsWatched'
    <2>1. SUFFICES ASSUME NEW e \in sessions, NEW k \in Directions, Pending(session'[e], k)
                   PROVE  Watched(e, k)'
      BY <1>1 DEF PendingIsWatched
    <2>2. Pending(session[e], k) \/ <<e, k>> \in P
      <3>1. CASE e = current
        BY <1>9, <1>12, <2>1, <3>1 DEF Pending, Directions
      <3>2. CASE e # current
        BY <1>1, <1>9, <2>1, <3>2
      <3>3. QED  BY <3>1, <3>2
    <2>3. QueuedAt(e, k)' = QueuedAt(e, k)
      BY <1>1 DEF QueuedAt
    <2>4. QED  BY <1>8, <2>2, <2>3 DEF ServedInv, PendingIsWatched, Watched
  <1>14. LiveSessionIsServed'
    <2>1. ASSUME NEW e \in sessions', ~session'[e].closing
          PROVE  /\ session'[e].sendPending <=> session'[e].queued > 0
                 /\ session'[e].recvPending \/ current' = e \/ stopRequested'
      <3>1. CASE e = current
        BY <1>6, <1>8, <1>9, <2>1, <3>1
      <3>2. CASE e # current
        <4>1. e \in sessions /\ session'[e] = session[e]
          BY <1>1, <1>9, <3>2
        <4>2. QED  BY <1>1, <2>1, <3>2, <4>1 DEF ServedInv, LiveSessionIsServed
      <3>3. QED  BY <3>1, <3>2
    <2>2. QED  BY <2>1, ServedFromParts
  <1>15. ClosingStaysQuiet
    <2>1. ASSUME NEW e \in sessions, session[e].closing
          PROVE  session'[e] = session[e] /\ ~session[e].open
      BY <1>1, <1>2, <1>9, <2>1 DEF SessionInv
    <2>2. QED  BY <2>1 DEF ClosingStaysQuiet
  <1>16. MembershipStep
    <2> DEFINE playerOf == [c \in Conns |-> IF c \in Recipients THEN session[c].playerId ELSE NoPlayer]
    <2>1. PICK c \in Conns : c = current
      BY <1>1
    <2>2. Phase(c) = "connected" /\ playerOf[c] = 0
      BY <1>1, <1>2, <2>1 DEF Phase, Recipients, NoPlayer
    <2>3. Phase(c)' = IF handled THEN "playing" ELSE "closed"
      BY <1>1, <1>9, <2>1 DEF Phase, IsEntered, NoPlayer
    <2>4. ASSUME NEW e \in Conns, e # c
          PROVE  /\ Phase(e)' = Phase(e)
                 /\ (IF e \in Recipients THEN session[e].playerId ELSE NoPlayer)' = playerOf[e]
      BY <1>1, <1>9, <2>1, <2>4 DEF Phase, Recipients
    <2>5. (IF c \in Recipients THEN session[c].playerId ELSE NoPlayer)'
            = IF handled THEN id ELSE 0
      BY <1>1, <1>9, <2>1 DEF Recipients, IsEntered, NoPlayer
    <2>6. CASE handled
      <3>1. Membership!InPhase({c}, {"connected"}) /\ Membership!MoveTo({c}, "playing")
        BY <2>2, <2>3, <2>4, <2>6 DEF Membership!InPhase, Membership!MoveTo
      <3>2. [e \in Conns |-> IF e \in Recipients THEN session[e].playerId ELSE NoPlayer]'
              = [playerOf EXCEPT ![c] = lastId']
        BY <1>1, <2>4, <2>5, <2>6
      <3>3. lastId' = lastId + 1 /\ players' = players \cup {lastId'}
        BY <1>1, <1>11, <2>6 DEF id
      <3>4. Membership!Join(c)
        BY <3>1, <3>2, <3>3 DEF Membership!Join
      <3>5. QED  BY <3>4 DEF MembershipStep, Membership!Next
    <2>7. CASE ~handled
      <3>1. PICK L \in SUBSET Conns : L = {c}
        OBVIOUS
      <3>2. Membership!InPhase(L, {"connected", "playing"}) /\ Membership!MoveTo(L, "closed")
        BY <2>2, <2>3, <2>4, <2>7, <3>1 DEF Membership!InPhase, Membership!MoveTo
      <3>3. [e \in Conns |-> IF e \in Recipients THEN session[e].playerId ELSE NoPlayer]'
              = [e \in Conns |-> IF e \in L THEN 0 ELSE playerOf[e]]
        BY <2>4, <2>5, <2>7, <3>1
      <3>4. lastId' = lastId + 1 /\ players' = players \ {playerOf[e] : e \in L}
        BY <1>1, <1>10, <1>11, <2>2, <2>7, <3>1 DEF id
      <3>5. Membership!Leave(L)
        BY <3>2, <3>3, <3>4 DEF Membership!Leave
      <3>6. \E D \in SUBSET Conns : Membership!Leave(D)
        BY <3>1, <3>5
      <3>7. QED  BY <3>6 DEF MembershipStep, Membership!Next
    <2>8. QED  BY <2>6, <2>7
  <1>17. QED  BY <1>13, <1>14, <1>15, <1>16 DEF ServingStep, ServedInv

-----------------------------------------------------------------------------
(* The registry.                                                           *)

LEMMA RemoveServes ==
  ASSUME IInv, IInv', ServedInv, RemoveClosedSessions
  PROVE  ServingStep
  <1> USE DEF IInv
  <1> PICK removed : removed = {c \in sessions : CanDestroy(session[c])}
    OBVIOUS
  <1>1. /\ sessions' = sessions \ removed /\ sessions \subseteq Conns
        /\ \A c \in sessions' : c \in sessions /\ session'[c] = session[c]
        /\ UNCHANGED <<outstanding, port, players, lastId, current, stopRequested>>
        /\ \A c \in removed : c \in sessions /\ session[c].closing
    BY DEF RemoveClosedSessions, TypeOK, os, world, stop, CanDestroy
  <1>2. PendingIsWatched'
    BY <1>1 DEF ServedInv, PendingIsWatched, Watched, QueuedAt
  <1>3. LiveSessionIsServed'
    BY <1>1 DEF ServedInv, LiveSessionIsServed
  <1>4. ClosingStaysQuiet
    BY <1>1 DEF ClosingStaysQuiet, SessionInv
  <1>5. Membership!Forget(removed)
    <2>1. \A c \in Conns : Phase(c)' = IF c \in removed THEN "none" ELSE Phase(c)
      BY <1>1 DEF Phase
    <2>2. \A c \in removed : Phase(c) = "closed" /\ c \in Conns
      BY <1>1 DEF Phase
    <2>3. Membership!InPhase(removed, {"closed"}) /\ Membership!MoveTo(removed, "none")
      BY <2>1, <2>2 DEF Membership!InPhase, Membership!MoveTo
    <2>4. \A c \in Conns : (IF c \in Recipients THEN session[c].playerId ELSE NoPlayer)'
                             = IF c \in Recipients THEN session[c].playerId ELSE NoPlayer
      BY <1>1 DEF Recipients
    <2>5. QED  BY <1>1, <2>3, <2>4 DEF Membership!Forget
  <1>6. \E D \in SUBSET Conns : Membership!Forget(D)
    BY <1>1, <1>5
  <1>7. MembershipStep
    BY <1>6 DEF MembershipStep, Membership!Next
  <1>8. QED  BY <1>2, <1>3, <1>4, <1>7 DEF ServingStep, ServedInv

LEMMA RegisterServes ==
  ASSUME IInv, IInv', ServedInv, ProcessAcceptedSockets
  PROVE  ServingStep
  <1> USE DEF IInv
  <1> DEFINE fresh == AfterPostRecv(NewSession, TRUE)
  <1>1. PICK registered \in SUBSET accepted :
          /\ sessions' = sessions \cup registered
          /\ session' = [c \in Conns |-> IF c \in registered THEN fresh ELSE session[c]]
          /\ outstanding' = outstanding \cup (registered \X {"recv"})
    BY DEF ProcessAcceptedSockets
  <1>2. /\ fresh.open /\ ~fresh.closing /\ fresh.recvPending /\ ~fresh.sendPending
        /\ fresh.playerId = 0 /\ fresh.queued = 0
    BY DEF AfterPostRecv, PostRecvSucceeds, NewSession, NoPlayer
  <1> HIDE DEF fresh
  <1>3. /\ UNCHANGED <<port, players, lastId, current, stopRequested>>
        /\ sessions \subseteq Conns /\ registered \in SUBSET Conns
        /\ registered \cap sessions = {}
    BY <1>1 DEF ProcessAcceptedSockets, TypeOK, world, stop
  <1>4. /\ \A c \in sessions : session'[c] = session[c]
        /\ \A c \in registered : session'[c] = fresh
    BY <1>1, <1>3
  <1>5. PendingIsWatched'
    <2>1. ASSUME NEW c \in sessions', NEW d \in Directions, Pending(session'[c], d)
          PROVE  Watched(c, d)'
      <3>1. QueuedAt(c, d)' = QueuedAt(c, d)
        BY <1>3 DEF QueuedAt
      <3>2. CASE c \in sessions
        BY <1>1, <1>4, <2>1, <3>1, <3>2 DEF ServedInv, PendingIsWatched, Watched
      <3>3. CASE c \in registered
        <4>1. d = "recv"
          BY <1>2, <1>4, <2>1, <3>3 DEF Pending, Directions
        <4>2. QED  BY <1>1, <3>3, <4>1 DEF Watched
      <3>4. QED  BY <1>1, <3>2, <3>3
    <2>2. QED  BY <2>1 DEF PendingIsWatched
  <1>6. LiveSessionIsServed'
    BY <1>1, <1>2, <1>3, <1>4 DEF ServedInv, LiveSessionIsServed
  <1>7. ClosingStaysQuiet
    BY <1>3, <1>4 DEF ClosingStaysQuiet, SessionInv
  <1>8. Membership!Connect(registered)
    <2>1. \A c \in registered : ~IsEntered(session'[c])
      BY <1>2, <1>4 DEF IsEntered, NoPlayer
    <2>2. \A c \in Conns : Phase(c)' = IF c \in registered THEN "connected" ELSE Phase(c)
      BY <1>1, <1>2, <1>4, <2>1 DEF Phase
    <2>3. \A c \in registered : Phase(c) = "none" /\ c \in Conns
      BY <1>3 DEF Phase
    <2>4. Membership!InPhase(registered, {"none"}) /\ Membership!MoveTo(registered, "connected")
      BY <2>2, <2>3 DEF Membership!InPhase, Membership!MoveTo
    <2>5. \A c \in Conns : (IF c \in Recipients THEN session[c].playerId ELSE NoPlayer)'
                             = IF c \in Recipients THEN session[c].playerId ELSE NoPlayer
      BY <1>1, <1>3, <1>4, <2>1 DEF Recipients
    <2>6. QED  BY <1>3, <2>4, <2>5 DEF Membership!Connect
  <1>9. \E D \in SUBSET Conns : Membership!Connect(D)
    BY <1>3, <1>8
  <1>10. MembershipStep
    BY <1>9 DEF MembershipStep, Membership!Next
  <1>11. QED  BY <1>5, <1>6, <1>7, <1>10 DEF ServingStep, ServedInv

-----------------------------------------------------------------------------
(* The steps that leave the sessions alone.                                *)

\* Appending to the port and taking the shutdown packet from it lose nothing
\* that is watched; an operation that completes moves from Winsock to the port.
LEMMA AppendKeepsWatch ==
  ASSUME IInv, NEW e, port' = Append(port, e), NEW c, NEW d, QueuedAt(c, d) # {}
  PROVE  QueuedAt(c, d)' # {}
  <1>1. PICK i \in 1 .. Len(port) : port[i].conn = c /\ port[i].dir = d
    BY DEF QueuedAt
  <1>2. i \in 1 .. Len(port') /\ port'[i] = port[i]
    <2>1. Len(port') = Len(port) + 1 /\ Len(port) \in Nat /\ port'[i] = port[i]
      BY DEF IInv, TypeOK
    <2>2. QED  BY <2>1
  <1>3. i \in QueuedAt(c, d)'
    BY <1>1, <1>2 DEF QueuedAt
  <1>4. QED  BY <1>3

LEMMA CompleteServes ==
  ASSUME IInv, IInv', ServedInv, NEW c \in Conns, NEW d \in Directions,
         CompleteOperation(c, d)
  PROVE  ServingStep
  <1>1. PICK e : port' = Append(port, e) /\ e.conn = c /\ e.dir = d
    <2>1. PICK ok \in BOOLEAN : port' = Append(port, [conn |-> c, dir |-> d, ok |-> ok])
      BY DEF CompleteOperation
    <2>2. QED  BY <2>1
  <1>2. /\ outstanding' = outstanding \ {<<c, d>>}
        /\ UNCHANGED <<sessions, session, players, lastId, current, stopRequested>>
    BY DEF CompleteOperation, world, stop
  <1>3. ASSUME NEW x \in sessions, NEW k \in Directions, Watched(x, k)
        PROVE  Watched(x, k)'
    <2>1. CASE QueuedAt(x, k) # {}
      BY <1>1, <2>1, AppendKeepsWatch DEF Watched
    <2>2. CASE <<x, k>> \in outstanding /\ <<x, k>> # <<c, d>>
      BY <1>2, <2>2 DEF Watched
    <2>3. CASE x = c /\ k = d
      <3>1. Len(port) + 1 \in 1 .. Len(port') /\ port'[Len(port) + 1] = e
        BY <1>1 DEF IInv, TypeOK
      <3>2. Len(port) + 1 \in QueuedAt(x, k)'
        BY <1>1, <2>3, <3>1 DEF QueuedAt
      <3>3. QED  BY <3>2 DEF Watched
    <2>4. QED  BY <1>3, <2>1, <2>2, <2>3 DEF Watched
  <1>4. QED  BY <1>2, <1>3, QuietStepServes

LEMMA JoinAcceptServes ==
  ASSUME IInv, IInv', ServedInv, JoinAcceptThread
  PROVE  ServingStep
  <1>1. /\ port' = Append(port, Shutdown)
        /\ UNCHANGED <<sessions, session, outstanding, players, lastId, current, stopRequested>>
    BY DEF JoinAcceptThread, world
  <1>2. \A c \in sessions, d \in Directions : Watched(c, d) => Watched(c, d)'
    BY <1>1, AppendKeepsWatch DEF Watched
  <1>3. QED  BY <1>1, <1>2, QuietStepServes

LEMMA DequeueShutdownServes ==
  ASSUME IInv, IInv', ServedInv, DequeueShutdown
  PROVE  ServingStep
  <1>1. /\ port # <<>> /\ port[1] = Shutdown /\ port' = Tail(port)
        /\ UNCHANGED <<sessions, session, outstanding, players, lastId, current, stopRequested>>
    BY DEF DequeueShutdown, world, stop, IInv, TypeOK
  <1>2. Len(port) \in Nat /\ Len(port') = Len(port) - 1
        /\ \A i \in 1 .. Len(port') : port'[i] = port[i + 1]
    BY <1>1 DEF IInv, TypeOK
  <1>3. ASSUME NEW c \in sessions, NEW d \in Directions, QueuedAt(c, d) # {}
        PROVE  QueuedAt(c, d)' # {}
    <2>1. PICK i \in 1 .. Len(port) : port[i].conn = c /\ port[i].dir = d
      BY <1>3 DEF QueuedAt
    <2>2. i # 1
      BY <1>1, <2>1 DEF Shutdown, Directions
    <2>3. i - 1 \in 1 .. Len(port') /\ (i - 1) + 1 = i
      BY <1>2, <2>2
    <2>4. port'[i - 1] = port[i]
      BY <1>2, <2>3
    <2>5. i - 1 \in QueuedAt(c, d)'
      BY <2>1, <2>3, <2>4 DEF QueuedAt
    <2>6. QED  BY <2>5
  <1>4. \A c \in sessions, d \in Directions : Watched(c, d) => Watched(c, d)'
    BY <1>1, <1>3 DEF Watched
  <1>5. QED  BY <1>1, <1>4, QuietStepServes

\* Steps that leave the port and Winsock alone too.
LEMMA UnseenStepServes ==
  ASSUME IInv, IInv', ServedInv,
         UNCHANGED <<sessions, session, outstanding, port, players, lastId, current>>,
         stopRequested => stopRequested'
  PROVE  ServingStep
  <1>1. \A c \in sessions, d \in Directions : Watched(c, d) => Watched(c, d)'
    BY DEF Watched, QueuedAt
  <1>2. QED  BY <1>1, QuietStepServes

-----------------------------------------------------------------------------
(* The steps together.                                                     *)

LEMMA LoopServes ==
  ASSUME IInv, IInv', ServedInv, IOLoop
  PROVE  ServingStep
  <1> USE DEF os, world, stop
  <1>1. CASE RemoveClosedSessions \/ ProcessAcceptedSockets
    BY <1>1, RemoveServes, RegisterServes
  <1>2. CASE StartTick \/ EndTick \/ EndCatchup \/ DequeueTimeout
    <2>1. UNCHANGED <<sessions, session, outstanding, port, players, lastId, current,
                      stopRequested>>
      BY <1>2 DEF StartTick, EndTick, EndCatchup, DequeueTimeout
    <2>2. QED  BY <2>1, UnseenStepServes
  <1>3. ASSUME NEW R \in SUBSET Recipients, NEW unbuilt \in SUBSET R, Broadcast(R, unbuilt)
        PROVE  ServingStep
    <2>1. stopRequested' = stopRequested
      BY <1>3 DEF Broadcast
    <2>2. QED  BY <1>3, <2>1, BroadcastServes
  <1>4. CASE BroadcastCombatEvent
    BY <1>3, <1>4 DEF BroadcastCombatEvent
  <1>5. CASE BroadcastWorldSnapshot
    BY <1>3, <1>5 DEF BroadcastWorldSnapshot
  <1>6. CASE BroadcastEnemyPathDebug
    <2>1. PICK c \in Recipients : Broadcast({c}, {})
      BY <1>6 DEF BroadcastEnemyPathDebug
    <2>2. {c} \in SUBSET Recipients /\ {} \in SUBSET {c}
      OBVIOUS
    <2>3. QED  BY <1>3, <2>1, <2>2
  <1>7. CASE DequeueShutdown
    BY <1>7, DequeueShutdownServes
  <1>8. CASE \E c \in Conns : RecvFailed(c) \/ RecvCompleted(c) \/ SendFailed(c) \/ SendCompleted(c)
    BY <1>8, RecvFailedServes, RecvCompletedServes, SendFailedServes, SendCompletedServes
  <1>9. CASE HandleEnter
    BY <1>9, FirstEnterServes, SecondEnterServes
  <1>10. CASE HandleInput
    <2>1. UNCHANGED vars
      BY <1>10 DEF HandleInput
    <2>2. QED  BY <2>1, UnseenStepServes DEF vars
  <1>11. CASE RefusePacket \/ EndDispatch
    BY <1>11, RefuseServes, EndDispatchServes
  <1>12. QED
    BY <1>1, <1>2, <1>4, <1>5, <1>6, <1>7, <1>8, <1>9, <1>10, <1>11
       DEF IOLoop, Tick, Dequeue, Dispatch

LEMMA OtherThreadsServe ==
  ASSUME IInv, IInv', ServedInv, AcceptLoop \/ Winsock \/ Stop
  PROVE  ServingStep
  <1> USE DEF os, world, stop
  <1>1. CASE AcceptLoop
    <2>1. UNCHANGED <<sessions, session, outstanding, port, players, lastId, current,
                      stopRequested>>
      BY <1>1 DEF AcceptLoop, AcceptClient, CheckStopRequested, AcceptFails
    <2>2. QED  BY <2>1, UnseenStepServes
  <1>2. CASE RequestStop \/ CloseListener \/ JoinIoThread \/ Stopped
    <2>1. /\ UNCHANGED <<sessions, session, outstanding, port, players, lastId, current>>
          /\ stopRequested => stopRequested'
      BY <1>2 DEF RequestStop, CloseListener, JoinIoThread, Stopped, vars
    <2>2. QED  BY <2>1, UnseenStepServes
  <1>3. CASE JoinAcceptThread
    BY <1>3, JoinAcceptServes
  <1>4. CASE Winsock
    BY <1>4, CompleteServes DEF Winsock
  <1>5. QED  BY <1>1, <1>2, <1>3, <1>4 DEF Stop

LEMMA NextServes ==
  ASSUME IInv, IInv', ServedInv, [Next]_vars
  PROVE  ServingStep
  <1>1. CASE UNCHANGED vars
    BY <1>1, UnseenStepServes DEF vars
  <1>2. CASE Next
    BY <1>2, LoopServes, OtherThreadsServe DEF Next
  <1>3. QED  BY <1>1, <1>2

LEMMA InitServes ==
  ASSUME Init
  PROVE  ServedInv /\ Membership!Init
  <1>1. ServedInv
    BY DEF Init, ServedInv, PendingIsWatched, LiveSessionIsServed
  <1>2. Membership!Init
    BY DEF Init, Membership!Init, Phase, Recipients, NoPlayer
  <1>3. QED  BY <1>1, <1>2

-----------------------------------------------------------------------------
(* The theorems.                                                           *)

\* Whatever its clients, Winsock and the scheduler do, the server has for each
\* pending flag of a session exactly one operation in progress or queued, and
\* every live session listens and has its queue drained.
THEOREM OperationsAreNotLost == Spec => [](IInv /\ ServedInv)
  <1>1. Init => ServedInv
    BY InitServes
  <1>2. IInv /\ IInv' /\ ServedInv /\ [Next]_vars => ServedInv'
    BY NextServes DEF ServingStep
  <1>3. QED  BY <1>1, <1>2, InvariantHolds, PTL DEF Spec

\* No operation of a session is lost, no live session is left unserved, and a
\* session that closes starts nothing and stays closed until it is removed.
THEOREM EverySessionIsServed == Spec => SessionsAreServed
  <1>1. IInv /\ ServedInv => PendingIsOneOperation /\ LiveSessionIsServed
    BY WatchedIsOneOperation DEF ServedInv
  <1>2. IInv /\ IInv' /\ ServedInv /\ [Next]_vars
          => [\A c \in sessions \cap sessions' : session[c].closing =>
                /\ session'[c].closing /\ ~session'[c].open
                /\ \A d \in Directions : Pending(session'[c], d) => Pending(session[c], d)]_vars
    BY NextServes DEF ServingStep, ClosingStaysQuiet
  <1>3. QED
    BY <1>1, <1>2, InvariantHolds, OperationsAreNotLost, PTL
       DEF Spec, SessionsAreServed, ClosingSessionIsQuiet

\* The server with its threads, completions and queues implements the abstract
\* membership of the world: a connection joins at most once under a fresh id,
\* and its player is in the world for exactly as long as it plays.
THEOREM ServerImplementsMembership == Spec => ImplementsMembership
  <1>1. Init => Membership!Init
    BY InitServes
  <1>2. IInv /\ IInv' /\ ServedInv /\ [Next]_vars => [Membership!Next]_(Membership!vars)
    BY NextServes DEF ServingStep, MembershipStep
  <1>3. QED
    BY <1>1, <1>2, InvariantHolds, OperationsAreNotLost, PTL
       DEF Spec, ImplementsMembership, Membership!Spec
=============================================================================
