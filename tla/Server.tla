------------------------------- MODULE Server -------------------------------
(***************************************************************************)
(* Z1Server (Z1Server/Server.cpp, Session.cpp, CompletionPort.cpp): the    *)
(* accept thread, the IO thread that owns every session and the simulated  *)
(* world, the thread that stops the server, and the Windows I/O completion *)
(* port between them.                                                      *)
(*                                                                         *)
(* A connection identifier of Conns stands for the address of a Session:   *)
(* it is free again once the session is destroyed, as the address is, so a *)
(* completion that outlives its session would be taken for one of its      *)
(* successor.  The world is reduced to the set of its players' ids.        *)
(***************************************************************************)
EXTENDS Session, Sequences, FiniteSets

CONSTANTS
  Conns,            \* addresses a Session may have
  NoConn,           \* the completion key of the shutdown packet, nullptr
  MaxCatchupTicks,  \* IOLoop's constant, 5 in the code
  MaxConnections    \* bound of the model: clients accepted in a behaviour

ASSUME ConnsAssumption == NoConn \notin Conns
ASSUME BoundsAssumption == MaxCatchupTicks \in Nat \ {0} /\ MaxConnections \in Nat

Directions == {"recv", "send"}

Operation == Conns \X Directions

\* What GetQueuedCompletionStatus returns.  A completion that failed and one
\* of zero bytes take the same path and are not told apart.
Completion == [conn : Conns, dir : Directions, ok : BOOLEAN]

Shutdown == [conn |-> NoConn, dir |-> "shutdown", ok |-> TRUE]

VARIABLES
  accepted,       \* _acceptedSockets
  connections,    \* number of clients accepted so far
  sessions,       \* _sessions
  session,        \* the session at each address
  outstanding,    \* operations posted to Winsock and not completed yet
  port,           \* packets queued at the completion port
  players,        \* keys of _overworld._players
  lastId,         \* last id drawn for a player
  ioPc,           \* where IOLoop is
  current,        \* the session whose packets IOLoop is dispatching
  ticks,          \* tickCount, 0 outside the loop it counts
  acceptPc,       \* where AcceptLoop is
  stopPc,         \* where Stop is
  stopRequested,  \* _stopRequested
  listening       \* _listener is open

world == <<players, lastId>>
os    == <<outstanding, port>>
stop  == <<stopPc, stopRequested, listening>>

vars == <<accepted, connections, sessions, session, outstanding, port, players,
          lastId, ioPc, current, ticks, acceptPc, stopPc, stopRequested, listening>>

Init ==
  /\ accepted = {} /\ connections = 0
  /\ sessions = {}
  /\ session = [c \in Conns |-> NewSession]
  /\ outstanding = {} /\ port = <<>>
  /\ players = {} /\ lastId = 0
  /\ ioPc = "remove" /\ current = NoConn /\ ticks = 0
  /\ acceptPc = "check"
  /\ stopPc = "running" /\ stopRequested = FALSE /\ listening = TRUE

-----------------------------------------------------------------------------
(* The accept thread and the clients that connect: it reads _stopRequested *)
(* at the loop's condition and then stays in accept, until a client        *)
(* connects or the call fails, as it does once the listener is closed.     *)

CheckStopRequested ==
  /\ acceptPc = "check"
  /\ acceptPc' = IF stopRequested THEN "exited" ELSE "accept"
  /\ UNCHANGED <<accepted, connections, sessions, session, os, world, ioPc,
                 current, ticks, stop>>

AcceptClient(c) ==
  /\ acceptPc = "accept" /\ listening
  /\ connections < MaxConnections
  /\ c \notin accepted \cup sessions
  /\ accepted' = accepted \cup {c}
  /\ connections' = connections + 1
  /\ acceptPc' = "check"
  /\ UNCHANGED <<sessions, session, os, world, ioPc, current, ticks, stop>>

AcceptFails ==
  /\ acceptPc = "accept"
  /\ acceptPc' = IF stopRequested THEN "exited" ELSE "check"
  /\ UNCHANGED <<accepted, connections, sessions, session, os, world, ioPc,
                 current, ticks, stop>>

-----------------------------------------------------------------------------
(* Winsock: a posted operation completes once, into the completion port.   *)
(* On a closed socket it completes as cancelled.                           *)

CompleteOperation(c, d) ==
  /\ <<c, d>> \in outstanding
  /\ outstanding' = outstanding \ {<<c, d>>}
  /\ \E ok \in BOOLEAN :
       /\ ok => session[c].open
       /\ port' = Append(port, [conn |-> c, dir |-> d, ok |-> ok])
  /\ UNCHANGED <<accepted, connections, sessions, session, world, ioPc, current,
                 ticks, acceptPc, stop>>

-----------------------------------------------------------------------------
(* Server::CloseSession, for every connection of C after its handler left  *)
(* the sessions as `after': the player of each leaves the world and its    *)
(* socket is closed.                                                       *)

SessionsAfterClose(after, C) ==
  [c \in Conns |-> IF c \in C THEN AfterClose(after[c]) ELSE after[c]]

\* Mistake: CloseSession leaves the player in the world.
DespawnedNobody(after, C) == {}

Despawned(after, C) == {after[c].playerId : c \in {d \in C : ~after[d].closing}}

(* The top of IOLoop.                                                      *)

RemoveClosedSessions ==
  /\ ioPc = "remove"
  /\ LET removed == {c \in sessions : CanDestroy(session[c])}
     IN /\ sessions' = sessions \ removed
        /\ session' = [c \in Conns |-> IF c \in removed THEN NewSession ELSE session[c]]
  /\ ioPc' = "register"
  /\ UNCHANGED <<accepted, connections, os, world, current, ticks, acceptPc, stop>>

\* RegisterAcceptedSocket of every accepted socket; where Associate or WSARecv
\* fails the socket is closed and no session is kept.
ProcessAcceptedSockets ==
  /\ ioPc = "register"
  /\ \E registered \in SUBSET accepted :
       /\ sessions' = sessions \cup registered
       /\ session' = [c \in Conns |-> IF c \in registered
                                      THEN AfterPostRecv(NewSession, TRUE)
                                      ELSE session[c]]
       /\ outstanding' = outstanding \cup (registered \X {"recv"})
  /\ accepted' = {}
  /\ ioPc' = "tick"
  /\ UNCHANGED <<connections, port, world, current, ticks, acceptPc, stop>>

-----------------------------------------------------------------------------
(* Server::Tick.  The simulation itself neither adds nor removes players.  *)

\* The sessions every broadcast goes to.
Recipients == {c \in sessions : IsEntered(session[c]) /\ ~session[c].closing}

\* One packet sent to each connection of R.  The packet of an unbuilt one did
\* not fit (BuildPacket failed); a failure of either kind closes the session.
Broadcast(R, unbuilt) ==
  \E posted \in SUBSET {c \in R \ unbuilt : SendPosts(session[c])} :
    LET sent == [c \in Conns |-> IF c \in R \ unbuilt
                                 THEN AfterSend(session[c], c \in posted)
                                 ELSE session[c]]
        failed == unbuilt \cup
                  {c \in R \ unbuilt : ~SendSucceeds(session[c], c \in posted)}
    IN /\ session' = SessionsAfterClose(sent, failed)
       /\ players' = players \ Despawned(sent, failed)
       /\ outstanding' = outstanding \cup (posted \X {"send"})
       /\ UNCHANGED <<accepted, connections, sessions, port, lastId, current,
                      ticks, acceptPc, stop>>

StartTick ==
  /\ ioPc = "tick" /\ ticks < MaxCatchupTicks
  /\ ioPc' = "events" /\ ticks' = ticks + 1
  /\ UNCHANGED <<accepted, connections, sessions, session, os, world, current,
                 acceptPc, stop>>

\* One combat event, sent to the sessions whose player is in its room.
BroadcastCombatEvent ==
  /\ ioPc = "events"
  /\ \E R \in SUBSET Recipients : Broadcast(R, {})
  /\ UNCHANGED ioPc

BroadcastWorldSnapshot ==
  /\ ioPc = "events"
  /\ \E unbuilt \in SUBSET Recipients : Broadcast(Recipients, unbuilt)
  /\ ioPc' = "paths"

\* The paths of the enemies in one session's room, one packet each.
BroadcastEnemyPathDebug ==
  /\ ioPc = "paths"
  /\ \E c \in Recipients : Broadcast({c}, {})
  /\ UNCHANGED ioPc

EndTick ==
  /\ ioPc = "paths"
  /\ ioPc' = "tick"
  /\ UNCHANGED <<accepted, connections, sessions, session, os, world, current,
                 ticks, acceptPc, stop>>

\* No tick is due, or as many as allowed were run.
EndCatchup ==
  /\ ioPc = "tick"
  /\ ioPc' = "dequeue" /\ ticks' = 0
  /\ UNCHANGED <<accepted, connections, sessions, session, os, world, current,
                 acceptPc, stop>>

-----------------------------------------------------------------------------
(* CompletionPort::Dequeue and the handling of one completion.             *)

DequeueTimeout ==
  /\ ioPc = "dequeue" /\ port = <<>>
  /\ ioPc' = "remove"
  /\ UNCHANGED <<accepted, connections, sessions, session, os, world, current,
                 ticks, acceptPc, stop>>

DequeueShutdown ==
  /\ ioPc = "dequeue" /\ port # <<>> /\ Head(port) = Shutdown
  /\ port' = Tail(port)
  /\ ioPc' = "exited"
  /\ UNCHANGED <<accepted, connections, sessions, session, outstanding, world,
                 current, ticks, acceptPc, stop>>

Dequeued(c, dir) ==
  /\ ioPc = "dequeue" /\ port # <<>>
  /\ Head(port).conn = c /\ Head(port).dir = dir
  /\ port' = Tail(port)

\* Mistake: the pending flags are not reset by a completion.
AckMissing(c) == session

AckRecv(c) == [session EXCEPT ![c].recvPending = FALSE]
AckSend(c) == [session EXCEPT ![c].sendPending = FALSE]

\* The peer is gone, or HandleRecv refuses the bytes it is given.
RecvFailed(c) ==
  /\ Dequeued(c, "recv")
  /\ session' = SessionsAfterClose(AckRecv(c), {c})
  /\ players' = players \ Despawned(session, {c})
  /\ ioPc' = "remove"
  /\ UNCHANGED <<accepted, connections, sessions, outstanding, lastId, current,
                 ticks, acceptPc, stop>>

\* HandleRecv framed the bytes: the packets are dispatched next.
RecvCompleted(c) ==
  /\ Dequeued(c, "recv") /\ Head(port).ok
  /\ session' = AckRecv(c)
  /\ current' = c /\ ioPc' = "dispatch"
  /\ UNCHANGED <<accepted, connections, sessions, outstanding, world, ticks,
                 acceptPc, stop>>

SendFailed(c) ==
  /\ Dequeued(c, "send") /\ ~Head(port).ok
  /\ session' = SessionsAfterClose(AckSend(c), {c})
  /\ players' = players \ Despawned(session, {c})
  /\ ioPc' = "remove"
  /\ UNCHANGED <<accepted, connections, sessions, outstanding, lastId, current,
                 ticks, acceptPc, stop>>

SendCompleted(c) ==
  /\ Dequeued(c, "send") /\ Head(port).ok
  /\ \E partial, posted \in BOOLEAN :
       LET s == AckSend(c)[c]
           after == [session EXCEPT ![c] = AfterHandleSend(s, partial, posted)]
           failed == IF HandleSendSucceeds(s, partial, posted) THEN {} ELSE {c}
       IN /\ session' = SessionsAfterClose(after, failed)
          /\ players' = players \ Despawned(after, failed)
          /\ outstanding' = IF after[c].sendPending
                            THEN outstanding \cup {<<c, "send">>}
                            ELSE outstanding
  /\ ioPc' = "remove"
  /\ UNCHANGED <<accepted, connections, sessions, lastId, current, ticks,
                 acceptPc, stop>>

-----------------------------------------------------------------------------
(* Server::HandleClientPacket, one packet of the current session at a time. *)
(* A packet that is refused closes the session and ends the dispatch.      *)

DispatchStops == current' = NoConn /\ ioPc' = "remove"

HandleEnter ==
  /\ ioPc = "dispatch"
  /\ lastId' = lastId + 1
  /\ \E posted \in BOOLEAN :
       LET c == current
           entered == AfterEnter(session[c], lastId + 1)
           after == [session EXCEPT ![c] = IF EnterSucceeds(session[c])
                                           THEN AfterSend(entered, posted)
                                           ELSE entered]
           handled == EnterSucceeds(session[c]) /\ SendSucceeds(entered, posted)
           failed == IF handled THEN {} ELSE {c}
           spawned == IF EnterSucceeds(session[c]) THEN {lastId + 1} ELSE {}
       IN /\ session' = SessionsAfterClose(after, failed)
          /\ players' = (players \cup spawned) \ Despawned(after, failed)
          /\ outstanding' = IF after[c].sendPending /\ ~session[c].sendPending
                            THEN outstanding \cup {<<c, "send">>}
                            ELSE outstanding
          /\ IF handled THEN UNCHANGED <<current, ioPc>> ELSE DispatchStops
  /\ UNCHANGED <<accepted, connections, sessions, port, ticks, acceptPc, stop>>

HandleInput ==
  /\ ioPc = "dispatch"
  /\ IsEntered(session[current]) /\ session[current].playerId \in players
  /\ UNCHANGED vars

\* A packet of another type, one that does not parse, or input without a
\* player in the world.
RefusePacket ==
  /\ ioPc = "dispatch"
  /\ session' = SessionsAfterClose(session, {current})
  /\ players' = players \ Despawned(session, {current})
  /\ DispatchStops
  /\ UNCHANGED <<accepted, connections, sessions, os, lastId, ticks, acceptPc, stop>>

\* Every packet was dispatched: receive again, unless the server is stopping.
EndDispatch ==
  /\ ioPc = "dispatch"
  /\ IF stopRequested
     THEN UNCHANGED <<session, players, outstanding>>
     ELSE \E posted \in BOOLEAN :
            LET c == current
                after == [session EXCEPT ![c] = AfterPostRecv(@, posted)]
                failed == IF PostRecvSucceeds(session[c], posted) THEN {} ELSE {c}
            IN /\ session' = SessionsAfterClose(after, failed)
               /\ players' = players \ Despawned(after, failed)
               /\ outstanding' = IF after[c].recvPending
                                 THEN outstanding \cup {<<c, "recv">>}
                                 ELSE outstanding
  /\ DispatchStops
  /\ UNCHANGED <<accepted, connections, sessions, port, lastId, ticks, acceptPc, stop>>

-----------------------------------------------------------------------------
(* Server::Stop, on the main thread.                                       *)

RequestStop ==
  /\ stopPc = "running"
  /\ stopRequested' = TRUE /\ stopPc' = "close"
  /\ UNCHANGED <<accepted, connections, sessions, session, os, world, ioPc,
                 current, ticks, acceptPc, listening>>

\* Mistake: Stop joins the accept thread without closing the listener.
CloseListenerLater ==
  /\ stopPc = "close" /\ stopPc' = "joinAccept"
  /\ UNCHANGED <<accepted, connections, sessions, session, os, world, ioPc,
                 current, ticks, acceptPc, stopRequested, listening>>

CloseListener ==
  /\ stopPc = "close"
  /\ listening' = FALSE /\ stopPc' = "joinAccept"
  /\ UNCHANGED <<accepted, connections, sessions, session, os, world, ioPc,
                 current, ticks, acceptPc, stopRequested>>

\* Mistake: Stop joins the IO thread without posting the shutdown packet.
JoinAcceptThreadSilently ==
  /\ stopPc = "joinAccept" /\ acceptPc = "exited"
  /\ stopPc' = "joinIo"
  /\ UNCHANGED <<accepted, connections, sessions, session, os, world,
                 ioPc, current, ticks, acceptPc, stopRequested, listening>>

JoinAcceptThread ==
  /\ stopPc = "joinAccept" /\ acceptPc = "exited"
  /\ port' = Append(port, Shutdown) /\ stopPc' = "joinIo"
  /\ UNCHANGED <<accepted, connections, sessions, session, outstanding, world,
                 ioPc, current, ticks, acceptPc, stopRequested, listening>>

JoinIoThread ==
  /\ stopPc = "joinIo" /\ ioPc = "exited"
  /\ stopPc' = "stopped"
  /\ UNCHANGED <<accepted, connections, sessions, session, os, world, ioPc,
                 current, ticks, acceptPc, stopRequested, listening>>

\* The process ends; the completions it left behind are not handled.
Stopped == stopPc = "stopped" /\ UNCHANGED vars

-----------------------------------------------------------------------------
AcceptLoop == CheckStopRequested \/ AcceptFails \/ \E c \in Conns : AcceptClient(c)

Winsock == \E c \in Conns, d \in Directions : CompleteOperation(c, d)

Tick == \/ StartTick \/ BroadcastCombatEvent \/ BroadcastWorldSnapshot
        \/ BroadcastEnemyPathDebug \/ EndTick \/ EndCatchup

Dequeue ==
  \/ DequeueTimeout \/ DequeueShutdown
  \/ \E c \in Conns : RecvFailed(c) \/ RecvCompleted(c) \/ SendFailed(c) \/ SendCompleted(c)

Dispatch == HandleEnter \/ HandleInput \/ RefusePacket \/ EndDispatch

IOLoop == RemoveClosedSessions \/ ProcessAcceptedSockets \/ Tick \/ Dequeue \/ Dispatch

Stop == RequestStop \/ CloseListener \/ JoinAcceptThread \/ JoinIoThread \/ Stopped

Next == AcceptLoop \/ Winsock \/ IOLoop \/ Stop

Spec == Init /\ [][Next]_vars
-----------------------------------------------------------------------------
(* Properties.                                                             *)

IoStates == {"remove", "register", "tick", "events", "paths", "dequeue",
             "dispatch", "exited"}

\* Every variable stays within its type.
TypeOK ==
  /\ accepted \subseteq Conns /\ sessions \subseteq Conns
  /\ connections \in Nat
  /\ session \in [Conns -> SessionState]
  /\ outstanding \subseteq Operation
  /\ port \in Seq(Completion \cup {Shutdown})
  /\ players \subseteq Nat /\ lastId \in Nat
  /\ ioPc \in IoStates /\ current \in Conns \cup {NoConn}
  /\ ticks \in 0 .. MaxCatchupTicks
  /\ acceptPc \in {"check", "accept", "exited"}
  /\ stopPc \in {"running", "close", "joinAccept", "joinIo", "stopped"}
  /\ stopRequested \in BOOLEAN /\ listening \in BOOLEAN

\* The flag of session s that says an operation of direction d is in progress.
Pending(s, d) == IF d = "recv" THEN s.recvPending ELSE s.sendPending

QueuedAt(c, d) == {i \in 1 .. Len(port) : port[i].conn = c /\ port[i].dir = d}

\* No completion outlives its session: whatever Winsock has in progress and
\* whatever waits at the port belongs to a registered session whose pending
\* flag is set, so the Session* in the completion key is never dangling and
\* the buffers the kernel uses are alive.
CompletionsBelongToSessions ==
  /\ \A op \in outstanding : op[1] \in sessions /\ Pending(session[op[1]], op[2])
  /\ \A i \in 1 .. Len(port) :
       \/ port[i] = Shutdown
       \/ port[i].conn \in sessions /\ Pending(session[port[i].conn], port[i].dir)

\* A session has at most one WSARecv and one WSASend in progress, and a pending
\* flag is never left set by an operation that is not: it would keep a closing
\* session in the registry for ever.
PendingIsOneOperation ==
  \A c \in sessions, d \in Directions :
    Pending(session[c], d) =>
      \/ <<c, d>> \in outstanding /\ QueuedAt(c, d) = {}
      \/ <<c, d>> \notin outstanding /\ Cardinality(QueuedAt(c, d)) = 1

\* The players of the world are those of the sessions that entered and are not
\* closing: no player outlives its connection, none is missing, and no two
\* sessions share one.
WorldMatchesSessions ==
  /\ players = {session[c].playerId : c \in Recipients}
  /\ \A c, d \in Recipients : session[c].playerId = session[d].playerId => c = d

\* A session that is not closing is served: its queue is never left with
\* nothing in progress to drain it, and it is always listening to its client,
\* except while its packets are dispatched or once the server is stopping.
LiveSessionIsServed ==
  \A c \in sessions : ~session[c].closing =>
    /\ session[c].open
    /\ session[c].sendPending <=> session[c].queued > 0
    /\ session[c].recvPending \/ current = c \/ stopRequested

\* Winsock and the port hold at most one operation of each kind of a session.
CompletionsAreDistinct ==
  /\ \A op \in outstanding : QueuedAt(op[1], op[2]) = {}
  /\ \A i, j \in 1 .. Len(port) :
       /\ i # j /\ port[i] # Shutdown
       => ~(port[i].conn = port[j].conn /\ port[i].dir = port[j].dir)

\* The session whose packets are dispatched is registered and receives nothing.
DispatchInv ==
  IF ioPc = "dispatch"
  THEN current \in sessions /\ ~session[current].recvPending
  ELSE current = NoConn

\* What the handlers rely on of one session: it sends nothing before it enters,
\* and closes before entering only while nothing is being received for it.
SessionInv(c) ==
  LET s == session[c]
  IN /\ s.open <=> ~s.closing
     /\ ~IsEntered(s) => ~s.sendPending
     /\ s.closing /\ ~IsEntered(s) => ~s.recvPending /\ current # c
     /\ s.playerId <= lastId

\* Inductive: it implies that completions never outlive their session and that
\* the world holds the players of the live sessions and nobody else.
IInv ==
  /\ TypeOK
  /\ CompletionsBelongToSessions
  /\ CompletionsAreDistinct
  /\ DispatchInv
  /\ \A c \in sessions : SessionInv(c)
  /\ accepted \cap sessions = {}
  /\ WorldMatchesSessions

\* A closing session starts no operation and never leaves that phase but by
\* being removed (docs/z1/ARCHITECTURE.md:191).
ClosingSessionIsQuiet ==
  [][\A c \in sessions \cap sessions' : session[c].closing =>
       /\ session'[c].closing /\ ~session'[c].open
       /\ \A d \in Directions : Pending(session'[c], d) => Pending(session[c], d)]_vars

\* No operation is lost and no live session left without one.
SessionsAreServed ==
  [](PendingIsOneOperation /\ LiveSessionIsServed) /\ ClosingSessionIsQuiet

Phase(c) ==
  IF c \notin sessions THEN "none"
  ELSE IF session[c].closing THEN "closed"
  ELSE IF IsEntered(session[c]) THEN "playing" ELSE "connected"

Membership == INSTANCE WorldMembership WITH
  conn <- [c \in Conns |-> Phase(c)],
  player <- [c \in Conns |-> IF c \in Recipients THEN session[c].playerId ELSE NoPlayer],
  issued <- lastId

\* The server implements the abstract membership of the world.
ImplementsMembership == Membership!Spec

-----------------------------------------------------------------------------
(* Fairness: the IO thread, the accept thread and Stop run; Winsock        *)
(* completes what was posted on a socket that is closed; time passes, so a *)
(* tick is due again and again.  Nothing is assumed of the clients: with   *)
(* the listener open the accept thread may stay in accept for ever.        *)

CancelledOperations ==
  \A c \in Conns, d \in Directions :
    WF_vars(CompleteOperation(c, d) /\ ~session[c].open)

FairSpec ==
  /\ Spec
  /\ WF_vars(IOLoop)
  /\ SF_vars(StartTick)
  /\ WF_vars(CheckStopRequested) /\ WF_vars(AcceptFails /\ ~listening)
  /\ WF_vars(CloseListener \/ JoinAcceptThread \/ JoinIoThread)
  /\ CancelledOperations

\* A closing session is eventually removed from _sessions, whatever its client
\* does, unless the IO thread has been stopped.
ClosedSessionsAreRemoved ==
  \A c \in Conns :
    (c \in sessions /\ session[c].closing) ~> (c \notin sessions \/ ioPc = "exited")

\* A client that stops reading is closed: a send that stays in progress fills
\* the queue tick by tick until a broadcast is refused (Session.cpp:83).
SlowReaderIsClosed ==
  \A c \in Conns :
    (c \in Recipients /\ <<c, "send">> \in outstanding) ~>
      (<<c, "send">> \notin outstanding \/ c \notin Recipients \/ stopRequested)

\* Stop returns: both threads are joined.
StopReturns == stopRequested ~> stopPc = "stopped"
=============================================================================
