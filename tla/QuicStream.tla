------------------------------ MODULE QuicStream ------------------------------
(***************************************************************************)
(* One QuicStream object (Handlers/QuicStream.swift) with the QuicObject   *)
(* base it inherits (Core/QuicObject.swift) and the C thunk that calls it  *)
(* (Utilities/QuicCallbackThunks.swift).                                   *)
(*                                                                         *)
(* Swift tasks call start(), shutdown() and send(); a task is suspended on *)
(* a checked continuation until some other thread resumes it, and it holds *)
(* the stream while it is in a call.  MsQuic's worker thread runs the      *)
(* callbacks of one stream one at a time.  The two meet in the slots the   *)
(* unfair lock guards, so the steps of a call are its locked sections and  *)
(* its MsQuic call.  ARC is the predicate Alive: the object lives while    *)
(* somebody references it; deinit runs after the last one went away.       *)
(***************************************************************************)
EXTENDS Naturals, FiniteSets

CONSTANTS
  Starters,     (* tasks that call start() *)
  Closers,      (* tasks that call shutdown() *)
  Senders,      (* tasks that call send() *)
  NoTask,       (* an empty continuation slot *)
  MaxReceives,  (* bound: RECEIVE events MsQuic delivers *)
  Usage         (* what the application does beyond the documented sequence *)

Tasks == Starters \cup Closers \cup Senders

ASSUME TasksAssumption ==
  /\ NoTask \notin Tasks
  /\ Starters \cap Closers = {}
  /\ Starters \cap Senders = {}
  /\ Closers \cap Senders = {}

ASSUME MaxReceivesAssumption == MaxReceives \in Nat

(* "restart": start() again after it was called or refused;                *)
(* "closeDuringStart": shutdown() while a start() is pending, or before it;*)
(* "rejectedFlags": shutdown() with flags that MsQuic refuses.             *)
ASSUME UsageAssumption == Usage \subseteq {"restart", "closeDuringStart", "rejectedFlags"}

VARIABLES
  streamState,          (* InternalState.streamState *)
  startContinuation,    (* the task whose continuation sits in the slot *)
  shutdownContinuation,
  receiveContinuation,  (* the AsyncThrowingStream: open, finished, failed *)
  retainedSelf,         (* QuicObject.retainedSelf is set *)
  appHolds,             (* the application has a reference *)
  callback,             (* the thunk holds the object: a handler runs *)
  pc,                   (* where each task is in its call *)
  previousState,        (* shutdown()'s local of the same name *)
  continuation,         (* each task's checked continuation *)
  trapped,              (* a checked continuation was resumed twice *)
  buffered,             (* elements waiting in the AsyncThrowingStream *)
  reader,               (* the for-await loop over `receive` *)
  consumed,             (* elements that loop has taken *)
  mq,                   (* the handle, as MsQuic sees it *)
  mqEnded,              (* the directions that were ended, by either side *)
  mqSends,              (* sends MsQuic has not completed *)
  mqPeer,               (* the peer's direction: open, finished, aborted *)
  mqReceived            (* RECEIVE events delivered *)

slots     == <<streamState, startContinuation, shutdownContinuation>>
object    == <<retainedSelf, appHolds, callback>>
calls     == <<pc, previousState>>
resumed   == <<continuation, trapped>>
reception == <<receiveContinuation, buffered, reader, consumed>>
msquic    == <<mq, mqEnded, mqSends, mqPeer, mqReceived>>
vars      == <<slots, object, calls, resumed, reception, msquic>>

States == {"idle", "starting", "open", "shuttingDown", "closed"}

(* The two directions of a stream, named from this side. *)
Directions == {"send", "receive"}

SlotsOK ==
  /\ streamState \in States
  /\ startContinuation \in Starters \cup {NoTask}
  /\ shutdownContinuation \in Closers \cup {NoTask}

ObjectOK ==
  /\ retainedSelf \in BOOLEAN /\ appHolds \in BOOLEAN /\ callback \in BOOLEAN

CallsOK ==
  /\ pc \in [Tasks -> {"idle", "startApi", "startFailed", "shutdownApi",
                       "shutdownFailed", "waiting", "done"}]
  /\ previousState \in [Tasks -> States]
  /\ continuation \in [Tasks -> {"none", "pending", "ok", "error"}]
  /\ trapped \in BOOLEAN

ReceptionOK ==
  /\ receiveContinuation \in {"open", "finished", "failed"}
  /\ buffered \in Nat /\ consumed \in Nat
  /\ reader \in {"idle", "holding", "detached", "done"}

MsQuicOK ==
  /\ mq \in {"none", "failed", "idle", "starting", "started", "shut", "closed"}
  /\ mqEnded \subseteq Directions
  /\ mqSends \subseteq Senders
  /\ mqPeer \in {"open", "finished", "aborted"}
  /\ mqReceived \in 0 .. MaxReceives

TypeOK == SlotsOK /\ ObjectOK /\ CallsOK /\ ReceptionOK /\ MsQuicOK

-----------------------------------------------------------------------------
(* References and threads *)

InCall(t) == pc[t] \notin {"idle", "done"}

(* Somebody references the object: itself, the application, the thunk that *)
(* is running a handler, a loop over its data, a task inside a call.       *)
Alive == \/ retainedSelf
         \/ appHolds
         \/ callback
         \/ reader = "holding"
         \/ \E t \in Tasks : InCall(t)

(* The application can name the stream, to call a method on it. *)
Reachable == appHolds \/ reader = "holding"

(* Both directions have ended: SHUTDOWN_COMPLETE is due. *)
ShutDue == mqEnded = Directions /\ mq \notin {"shut", "closed"}

(* MsQuic still has callbacks to make on this handle. *)
MayCallBack == mq \in {"starting", "started"} \/ ShutDue

(* An object exists and has a handle. *)
Opened == mq \notin {"none", "failed", "closed"}

(* Resume the continuation c took from a slot (NoTask: the slot was empty).*)
Resume(c, how) ==
  /\ continuation' = [t \in Tasks |-> IF t = c THEN how ELSE continuation[t]]
  /\ trapped' = (trapped \/ (c # NoTask /\ continuation[c] # "pending"))

-----------------------------------------------------------------------------
Init ==
  /\ streamState = "idle"
  /\ startContinuation = NoTask /\ shutdownContinuation = NoTask
  /\ retainedSelf = FALSE /\ appHolds = FALSE /\ callback = FALSE
  /\ pc = [t \in Tasks |-> "idle"]
  /\ previousState = [t \in Tasks |-> "idle"]
  /\ continuation = [t \in Tasks |-> "none"]
  /\ trapped = FALSE
  /\ receiveContinuation = "open" /\ buffered = 0 /\ reader = "idle" /\ consumed = 0
  /\ mq = "none" /\ mqEnded = {} /\ mqSends = {}
  /\ mqPeer = "open" /\ mqReceived = 0

(* Mutant: retainSelfForCallback is forgotten. *)
MutSelfAfterInit == FALSE

(* Both initializers leave the object retained for the callbacks. *)
SelfAfterInit == TRUE

(* init(connection:flags:) *)
OpenLocal ==
  /\ mq = "none"
  /\ mq' = "idle"
  /\ retainedSelf' = SelfAfterInit
  /\ appHolds' = TRUE
  /\ UNCHANGED <<slots, callback, calls, resumed, reception,
                 mqEnded, mqSends, mqPeer, mqReceived>>

(* No connection handle, or StreamOpen refuses: the self-reference taken   *)
(* first is released, the initializer throws, nothing is left.             *)
OpenFails ==
  /\ mq = "none"
  /\ mq' = "failed"
  /\ UNCHANGED <<slots, object, calls, resumed, reception,
                 mqEnded, mqSends, mqPeer, mqReceived>>

(* init(handle:), inside the connection's PEER_STREAM_STARTED callback. *)
WrapPeer ==
  /\ mq = "none"
  /\ mq' = "started"
  /\ retainedSelf' = SelfAfterInit
  /\ appHolds' = TRUE
  /\ streamState' = "open"
  /\ UNCHANGED <<startContinuation, shutdownContinuation, callback,
                 calls, resumed, reception, mqEnded, mqSends, mqPeer, mqReceived>>

AppDrop ==
  /\ appHolds
  /\ appHolds' = FALSE
  /\ UNCHANGED <<slots, retainedSelf, callback, calls, resumed, reception, msquic>>

-----------------------------------------------------------------------------
(* start() *)

StartInFlight == mq = "starting" \/ \E t \in Starters : InCall(t)

(* The documented sequence: one start(), before any shutdown(). *)
MayStart ==
  \/ "restart" \in Usage
  \/ /\ mq = "idle" /\ mqEnded = {}
     /\ \A t \in Starters : pc[t] = "idle"
     /\ \/ "closeDuringStart" \in Usage
        \/ \A t \in Closers : pc[t] = "idle"

(* Mutant: the continuation is stored in the other slot. *)
MutStartBegin(t) ==
  /\ Opened /\ Reachable /\ pc[t] = "idle" /\ MayStart
  /\ shutdownContinuation' = t
  /\ streamState' = "starting"
  /\ continuation' = [continuation EXCEPT ![t] = "pending"]
  /\ pc' = [pc EXCEPT ![t] = "startApi"]
  /\ UNCHANGED <<startContinuation, object, previousState, trapped, reception, msquic>>

StartBegin(t) ==
  /\ Opened /\ Reachable /\ pc[t] = "idle"
  /\ MayStart
  /\ startContinuation' = t
  /\ streamState' = "starting"
  /\ continuation' = [continuation EXCEPT ![t] = "pending"]
  /\ pc' = [pc EXCEPT ![t] = "startApi"]
  /\ UNCHANGED <<shutdownContinuation, object, previousState, trapped,
                 reception, msquic>>

(* api.StreamStart: queued for the worker, or refused at once. *)
StartApi(t) ==
  /\ pc[t] = "startApi"
  /\ \/ /\ mq = "idle"
        /\ mq' = "starting"
        /\ pc' = [pc EXCEPT ![t] = "waiting"]
     \/ /\ mq' = mq
        /\ pc' = [pc EXCEPT ![t] = "startFailed"]
  /\ UNCHANGED <<slots, object, previousState, resumed, reception,
                 mqEnded, mqSends, mqPeer, mqReceived>>

StartFail(t) ==
  /\ pc[t] = "startFailed"
  /\ startContinuation' = NoTask
  /\ streamState' = "closed"
  /\ retainedSelf' = FALSE
  /\ Resume(t, "error")
  /\ pc' = [pc EXCEPT ![t] = "waiting"]
  /\ UNCHANGED <<shutdownContinuation, appHolds, callback, previousState,
                 reception, msquic>>

-----------------------------------------------------------------------------
(* shutdown() *)

(* Mutants: one state is forgotten. *)
MutIgnoresShuttingDown == streamState = "closed"
MutIgnoresClosed == streamState = "shuttingDown"

(* The states in which shutdown() has nothing to do. *)
ShutdownReturnsAtOnce == streamState \in {"closed", "shuttingDown"}

(* Mutant: the continuation is resumed but stays in the slot. *)
MutSlotAfterTake == shutdownContinuation

(* shutdownContinuation after the roll back or SHUTDOWN_COMPLETE took it. *)
SlotAfterTake == NoTask

ShutdownBegin(t) ==
  /\ Opened /\ Reachable /\ pc[t] = "idle"
  /\ "closeDuringStart" \in Usage \/ ~StartInFlight
  /\ \/ /\ ShutdownReturnsAtOnce
        /\ continuation' = [continuation EXCEPT ![t] = "ok"]
        /\ pc' = [pc EXCEPT ![t] = "waiting"]
        /\ UNCHANGED <<slots, previousState>>
     \/ /\ ~ShutdownReturnsAtOnce
        /\ previousState' = [previousState EXCEPT ![t] = streamState]
        /\ shutdownContinuation' = t
        /\ streamState' = "shuttingDown"
        /\ continuation' = [continuation EXCEPT ![t] = "pending"]
        /\ pc' = [pc EXCEPT ![t] = "shutdownApi"]
        /\ UNCHANGED startContinuation
  /\ UNCHANGED <<object, trapped, reception, msquic>>

(* api.StreamShutdown.  .graceful and .abortSend end the send direction,   *)
(* .abortReceive the other one, .abort both; SHUTDOWN_COMPLETE is not due  *)
(* before both are ended.                                                  *)
ShutdownApi(t) ==
  /\ pc[t] = "shutdownApi"
  /\ \/ /\ \E ends \in (SUBSET Directions) \ {{}} : mqEnded' = mqEnded \cup ends
        /\ pc' = [pc EXCEPT ![t] = "waiting"]
     \/ /\ "rejectedFlags" \in Usage
        /\ pc' = [pc EXCEPT ![t] = "shutdownFailed"]
        /\ UNCHANGED mqEnded
  /\ UNCHANGED <<slots, object, previousState, resumed, reception,
                 mq, mqSends, mqPeer, mqReceived>>

ShutdownFail(t) ==
  /\ pc[t] = "shutdownFailed"
  /\ shutdownContinuation' = SlotAfterTake
  /\ streamState' = previousState[t]
  /\ Resume(shutdownContinuation, "ok")
  /\ pc' = [pc EXCEPT ![t] = "waiting"]
  /\ UNCHANGED <<startContinuation, object, previousState, reception, msquic>>

-----------------------------------------------------------------------------
(* send(): the context MsQuic gets back in SEND_COMPLETE owns the          *)
(* continuation.  With .start it also starts the stream, with .fin it ends *)
(* the send direction.                                                     *)
Send(t) ==
  /\ Opened /\ Reachable /\ pc[t] = "idle"
  /\ pc' = [pc EXCEPT ![t] = "waiting"]
  /\ \/ /\ mq # "shut"
        /\ mqSends' = mqSends \cup {t}
        /\ continuation' = [continuation EXCEPT ![t] = "pending"]
        /\ mqEnded' \in {mqEnded, mqEnded \cup {"send"}}
        /\ \/ mq' = mq
           \/ /\ mq = "idle" /\ mqEnded = {} /\ MayStart
              /\ mq' = "starting"
     \/ /\ continuation' = [continuation EXCEPT ![t] = "error"]
        /\ UNCHANGED <<mq, mqEnded, mqSends>>
  /\ UNCHANGED <<slots, object, previousState, trapped, reception,
                 mqPeer, mqReceived>>

(* The awaited continuation was resumed: the call returns or throws, and   *)
(* the task lets go of the stream.                                         *)
Return(t) ==
  /\ pc[t] = "waiting"
  /\ continuation[t] \in {"ok", "error"}
  /\ pc' = [pc EXCEPT ![t] = "done"]
  /\ UNCHANGED <<slots, object, previousState, resumed, reception, msquic>>

-----------------------------------------------------------------------------
(* The loop over `receive`: it keeps the stream (for try await data in     *)
(* stream.receive) or only the AsyncThrowingStream.                        *)
ReaderStart ==
  /\ reader = "idle" /\ appHolds
  /\ reader' \in {"holding", "detached"}
  /\ UNCHANGED <<slots, object, calls, resumed, receiveContinuation,
                 buffered, consumed, msquic>>

ReaderNext ==
  /\ reader \in {"holding", "detached"}
  /\ buffered > 0
  /\ buffered' = buffered - 1
  /\ consumed' = consumed + 1
  /\ UNCHANGED <<slots, object, calls, resumed, receiveContinuation,
                 reader, msquic>>

ReaderEnd ==
  /\ reader \in {"holding", "detached"}
  /\ buffered = 0 /\ receiveContinuation # "open"
  /\ reader' = "done"
  /\ UNCHANGED <<slots, object, calls, resumed, receiveContinuation, buffered,
                 consumed, msquic>>

-----------------------------------------------------------------------------
(* handleEvent, through quicStreamCallback.  The thunk's reference is      *)
(* `callback`; it goes away in CallbackReturn.                             *)

Enter ==
  /\ Alive /\ ~callback
  /\ callback' = TRUE
  /\ UNCHANGED <<appHolds, calls>>

(* Mutant: data is passed on only while the stream is open. *)
MutYields == streamState = "open"

(* What a RECEIVE event asks before it yields the data: nothing. *)
Yields == TRUE

(* Mutant: a failing start resumes nobody. *)
MutStartCompletes(ok) == IF ok THEN startContinuation ELSE NoTask

(* The continuation START_COMPLETE resumes, whatever the status. *)
StartCompletes(ok) == startContinuation

OnStartComplete(ok) ==
  /\ mq = "starting"
  /\ Enter
  /\ startContinuation' = NoTask
  /\ streamState' = IF ok THEN "open" ELSE streamState
  /\ Resume(StartCompletes(ok), IF ok THEN "ok" ELSE "error")
  /\ mq' = IF ok THEN "started" ELSE "idle"
  /\ \/ UNCHANGED mqEnded
     \/ ~ok /\ mqEnded' = Directions  (* QUIC_STREAM_START_FLAG_SHUTDOWN_ON_FAIL *)
  /\ UNCHANGED <<shutdownContinuation, retainedSelf, reception, mqSends, mqPeer, mqReceived>>

OnReceive ==
  /\ mq = "started" /\ mqPeer = "open" /\ mqReceived < MaxReceives
  /\ Enter
  /\ mqReceived' = mqReceived + 1
  /\ buffered' = IF Yields /\ receiveContinuation = "open" THEN buffered + 1 ELSE buffered
  /\ UNCHANGED <<slots, retainedSelf, resumed, receiveContinuation, reader, consumed,
                 mq, mqEnded, mqSends, mqPeer>>

(* Mutant: a canceled send resumes nobody. *)
MutSendCompletes(t, canceled) == IF canceled THEN NoTask ELSE t

(* The continuation a SEND_COMPLETE resumes. *)
SendCompletes(t, canceled) == t

OnSendComplete(t, canceled) ==
  /\ t \in mqSends
  /\ mq = "started" \/ ShutDue
  /\ Enter
  /\ mqSends' = mqSends \ {t}
  /\ Resume(SendCompletes(t, canceled), IF canceled THEN "error" ELSE "ok")
  /\ UNCHANGED <<slots, retainedSelf, reception, mq, mqEnded, mqPeer, mqReceived>>

(* finish() and finish(throwing:) do nothing to a finished stream. *)
Finish(how) ==
  receiveContinuation' = IF receiveContinuation = "open" THEN how ELSE receiveContinuation

(* PEER_SEND_SHUTDOWN, PEER_SEND_ABORTED *)
OnPeerSend(how) ==
  /\ mq = "started" /\ mqPeer = "open"
  /\ Enter
  /\ mqPeer' = how
  /\ mqEnded' = mqEnded \cup {"receive"}
  /\ Finish(IF how = "finished" THEN "finished" ELSE "failed")
  /\ UNCHANGED <<slots, retainedSelf, resumed, buffered, reader, consumed,
                 mq, mqSends, mqReceived>>

(* PEER_RECEIVE_ABORTED: MsQuic resets the send direction, the handler     *)
(* does nothing.                                                           *)
OnPeerReceiveAborted ==
  /\ mq = "started" /\ "send" \notin mqEnded
  /\ Enter
  /\ mqEnded' = mqEnded \cup {"send"}
  /\ UNCHANGED <<slots, retainedSelf, resumed, reception, mq, mqSends, mqPeer, mqReceived>>

(* Mutant: the self-reference is kept. *)
MutSelfAfterShutdown == retainedSelf

(* releaseSelfFromCallback at SHUTDOWN_COMPLETE. *)
SelfAfterShutdown == FALSE

OnShutdownComplete ==
  /\ ShutDue /\ mq \in {"idle", "started"} /\ mqSends = {}
  /\ Enter
  /\ mq' = "shut"
  /\ streamState' = "closed"
  /\ shutdownContinuation' = SlotAfterTake
  /\ retainedSelf' = SelfAfterShutdown
  /\ Resume(shutdownContinuation, "ok")
  /\ UNCHANGED <<startContinuation, reception, mqEnded, mqSends, mqPeer, mqReceived>>

CallbackReturn ==
  /\ callback
  /\ callback' = FALSE
  /\ UNCHANGED <<slots, retainedSelf, appHolds, calls, resumed, reception, msquic>>

(* MsQuic ends both directions of a started stream by itself: the          *)
(* connection is lost, or the only direction of a unidirectional stream    *)
(* has ended.                                                              *)
MsQuicShuts ==
  /\ mq = "started" /\ ~ShutDue
  /\ mqEnded' = Directions
  /\ UNCHANGED <<slots, object, calls, resumed, reception, mq, mqSends,
                 mqPeer, mqReceived>>

(* Mutant: deinit leaves the stream of data as it is. *)
MutFinishedByDeinit == receiveContinuation

(* deinit: StreamClose, then the stream of data is finished and a          *)
(* shutdown continuation still in the slot is resumed.                     *)
FinishedByDeinit == IF receiveContinuation = "open" THEN "finished" ELSE receiveContinuation

Deinit ==
  /\ Opened /\ ~Alive
  /\ mq' = "closed"
  /\ receiveContinuation' = FinishedByDeinit
  /\ Resume(shutdownContinuation, "ok")
  /\ UNCHANGED <<slots, object, calls, buffered, reader, consumed,
                 mqEnded, mqSends, mqPeer, mqReceived>>

-----------------------------------------------------------------------------
Lifetime == OpenLocal \/ OpenFails \/ WrapPeer \/ AppDrop \/ Deinit
Starting == \E t \in Starters : StartBegin(t) \/ StartApi(t) \/ StartFail(t)
Closing  == \E t \in Closers : ShutdownBegin(t) \/ ShutdownApi(t) \/ ShutdownFail(t)
Sending  == \E t \in Senders : Send(t)
Waking   == \E t \in Tasks : Return(t)
Reading  == ReaderStart \/ ReaderNext \/ ReaderEnd
Worker   == \/ \E ok \in BOOLEAN : OnStartComplete(ok)
            \/ OnReceive
            \/ \E t \in Senders, canceled \in BOOLEAN : OnSendComplete(t, canceled)
            \/ \E how \in {"finished", "aborted"} : OnPeerSend(how)
            \/ OnPeerReceiveAborted
            \/ OnShutdownComplete \/ CallbackReturn \/ MsQuicShuts

Next == Lifetime \/ Starting \/ Closing \/ Sending \/ Waking \/ Reading \/ Worker

Spec == Init /\ [][Next]_vars

(* What is owed to a call that began: the Swift executor runs the task,    *)
(* and MsQuic delivers START_COMPLETE after an accepted start and, once    *)
(* both directions have ended, completes or cancels the sends and ends the *)
(* stream.  Nothing is owed by the application or the peer: no call, drop, *)
(* data or FIN is fair, so nobody ends the second direction of a stream    *)
(* that was shut down in one.                                              *)
Fairness ==
  /\ \A t \in Starters : WF_vars(StartApi(t) \/ StartFail(t))
  /\ \A t \in Closers : WF_vars(ShutdownApi(t) \/ ShutdownFail(t))
  /\ \A t \in Tasks : WF_vars(Return(t))
  /\ WF_vars(ReaderNext) /\ WF_vars(ReaderEnd)
  /\ WF_vars(CallbackReturn) /\ WF_vars(Deinit)
  /\ SF_vars(\E ok \in BOOLEAN : OnStartComplete(ok))
  /\ \A t \in Senders : SF_vars(ShutDue /\ \E canceled \in BOOLEAN : OnSendComplete(t, canceled))
  /\ SF_vars(OnShutdownComplete)

FairSpec == Spec /\ Fairness

-----------------------------------------------------------------------------
(* Safety *)

(* A continuation taken out of a slot is resumed once: a second resume of  *)
(* a CheckedContinuation traps the process (start() failing, handleEvent,  *)
(* shutdown()'s roll back and deinit all resume).                          *)
NoDoubleResume == ~trapped

(* A task that waits is known to somebody who will resume it: its          *)
(* continuation is in its slot, or its context is with MsQuic.  Otherwise  *)
(* the call can never return (two calls shared one slot).                  *)
PendingIsHeld ==
  \A t \in Tasks : continuation[t] = "pending" =>
    t \in {startContinuation, shutdownContinuation} \cup mqSends

(* While MsQuic may call back, the unretained pointer it hands to          *)
(* quicStreamCallback points to a live object.                             *)
CallbackLifetime == MayCallBack => Alive

(* A loop that saw the peer finish has seen everything MsQuic delivered,   *)
(* also what came before the loop began or while the stream was shutting   *)
(* down.                                                                   *)
NothingLost == reader = "done" /\ receiveContinuation = "finished" => consumed = mqReceived

(* State.open, "Stream is open and ready for data transfer": nobody is in  *)
(* the middle of shutting down a stream that says it is open.              *)
OpenMeansUsable == streamState = "open" => shutdownContinuation = NoTask

(* State.closed, "Stream has been closed": no later step of any thread     *)
(* takes the stream out of it.                                             *)
ClosedIsFinal == [][streamState = "closed" => streamState' = "closed"]_vars

(* The life cycle every QuicObject promises. *)
ObjectStage ==
  IF mq = "none" THEN "absent"
  ELSE IF ~Opened THEN "gone"
  ELSE IF Alive THEN "live" ELSE "dying"

HandleStage ==
  IF mq = "closed" THEN "closed"
  ELSE IF ~Opened THEN "none"
  ELSE IF MayCallBack THEN "calling" ELSE "quiet"

CH == INSTANCE CallbackHandle
        WITH object <- ObjectStage, handle <- HandleStage, frame <- callback

KeepsHandleSafe == CH!Spec

-----------------------------------------------------------------------------
(* Liveness *)

(* start() returns or throws, whether StreamStart refuses, fails on the    *)
(* worker or succeeds.                                                     *)
StartReturns == \A t \in Starters : pc[t] = "startApi" ~> pc[t] = "done"

(* shutdown() returns once both directions have ended: at once with        *)
(* .abort, after the peer ended its own with .graceful, and whatever the   *)
(* other calls and events of the stream do meanwhile.                      *)
ShutdownReturns == \A t \in Closers : (InCall(t) /\ (ShutDue \/ mq = "shut")) ~> pc[t] = "done"

(* A send on a stream whose directions have both ended returns or throws.  *)
SendReturns == \A t \in Senders : (t \in mqSends /\ ShutDue) ~> pc[t] = "done"

(* A shut stream nobody uses is closed: the self-reference does not        *)
(* outlive SHUTDOWN_COMPLETE.                                              *)
HandleReclaimed ==
  (mq = "shut" /\ ~appHolds /\ reader # "holding") ~> mq = "closed"

(* A loop that let go of the stream ends when the stream goes. *)
DetachedReaderEnds ==
  (reader = "detached" /\ mq = "shut" /\ ~appHolds) ~> reader = "done"

(* The doc of `receive`: "The stream completes when the peer finishes      *)
(* sending or aborts."  A connection that is lost ends every stream.       *)
ReaderReleased == (reader = "holding" /\ mq = "shut") ~> reader = "done"
===============================================================================
