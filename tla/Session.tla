------------------------------ MODULE Session ------------------------------
(***************************************************************************)
(* One client session of Z1Server (Z1Server/Session.h, Session.cpp): the   *)
(* record of its flags and the effect of each of its operations.  Every    *)
(* operation runs on the IOLoop thread, so it is an operator on the record *)
(* and not an action: Server.tla composes the operators into the handlers  *)
(* that call them.                                                         *)
(*                                                                         *)
(* The bytes of a packet are abstracted to the length of the send queue;   *)
(* ServerToClient.tla models the queue with its packets and its offset.    *)
(* An operator whose comment starts with "Mistake:" is the definition after *)
(* it as a likely slip would have it; the runs show what it would break.   *)
(* `posted' is the outcome of the WSARecv or WSASend call that the         *)
(* operation makes when it makes one: TRUE for success or WSA_IO_PENDING.  *)
(***************************************************************************)
EXTENDS Naturals

CONSTANT MaxQueuedSendPackets  \* Session::MaxQueuedSendPackets, 64 in the code

ASSUME SendQueueAssumption == MaxQueuedSendPackets \in Nat \ {0}

NoPlayer == 0  \* std::nullopt; the generator of actor ids starts at 1

SessionState ==
  [ open        : BOOLEAN,                  \* _socket.IsValid()
    closing     : BOOLEAN,
    recvPending : BOOLEAN,
    sendPending : BOOLEAN,
    queued      : 0 .. MaxQueuedSendPackets,  \* _sendQueue.size()
    playerId    : Nat ]

NewSession ==
  [ open |-> TRUE, closing |-> FALSE, recvPending |-> FALSE,
    sendPending |-> FALSE, queued |-> 0, playerId |-> NoPlayer ]

IsEntered(s) == s.playerId # NoPlayer

\* Mistake: HasIoPending looks at the receive only.
CanDestroyDuringSend(s) == s.closing /\ ~s.recvPending

CanDestroy(s) == s.closing /\ ~s.recvPending /\ ~s.sendPending

-----------------------------------------------------------------------------
(* PostRecv.                                                               *)

PostRecvSucceeds(s, posted) == s.open /\ posted

AfterPostRecv(s, posted) ==
  [s EXCEPT !.recvPending = @ \/ PostRecvSucceeds(s, posted)]

(* Send: refused on an invalid socket or a full queue, otherwise the packet *)
(* is queued, and posted at once unless a WSASend is already in progress.  *)

\* Mistake: > for >= in the check of the limit.
SendQueuesOneTooMany(s) == s.open /\ s.queued <= MaxQueuedSendPackets

SendQueues(s) == s.open /\ s.queued < MaxQueuedSendPackets

SendPosts(s) == SendQueues(s) /\ ~s.sendPending

\* Mistake: a packet refused by a full queue is dropped without an error.
SendDropsSilently(s, posted) ==
  \/ s.open /\ s.queued = MaxQueuedSendPackets
  \/ SendQueues(s) /\ (s.sendPending \/ posted)

SendSucceeds(s, posted) == SendQueues(s) /\ (s.sendPending \/ posted)

AfterSend(s, posted) ==
  IF SendQueues(s)
  THEN [s EXCEPT !.queued = @ + 1, !.sendPending = @ \/ posted]
  ELSE s

(* HandleSend, after AckSendCompletion: a partly sent packet stays at the  *)
(* front of the queue, a sent one is popped, and what is left is posted.   *)

LeftToSend(s, partial) == IF partial THEN s.queued ELSE s.queued - 1

\* Mistake: the rest of a partly sent packet waits for the next Send.
HandleSendPostsWholePackets(s, partial) ==
  s.queued > 0 /\ LeftToSend(s, partial) > 0 /\ s.open /\ ~partial

HandleSendPosts(s, partial) ==
  s.queued > 0 /\ LeftToSend(s, partial) > 0 /\ s.open

HandleSendSucceeds(s, partial, posted) ==
  /\ s.queued > 0
  /\ LeftToSend(s, partial) > 0 => s.open /\ posted

AfterHandleSend(s, partial, posted) ==
  IF s.queued = 0
  THEN s
  ELSE [s EXCEPT !.queued = LeftToSend(s, partial),
                 !.sendPending = HandleSendPosts(s, partial) /\ posted]

(* Enter keeps the first player id a session is given.                     *)

\* Mistake: Enter does not look at _playerId.
EnterSucceedsAgain(s) == TRUE

EnterSucceeds(s) == ~IsEntered(s)

AfterEnter(s, id) == IF EnterSucceeds(s) THEN [s EXCEPT !.playerId = id] ELSE s

(* SetClosing and Close, as Server::CloseSession calls them: no effect on  *)
(* a session that is closing already.                                      *)

AfterClose(s) ==
  IF s.closing THEN s ELSE [s EXCEPT !.closing = TRUE, !.open = FALSE]
=============================================================================
