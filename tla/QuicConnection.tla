---------------------------- MODULE QuicConnection ----------------------------
(***************************************************************************)
(* The life of one QuicConnection object (Handlers/QuicConnection.swift),  *)
(* client or server: start(), shutdown(), the events that end them, the    *)
(* tasks that run the stream handler, and the reference counting that      *)
(* decides when ConnectionClose is called.                                 *)
(*                                                                         *)
(* start() and shutdown() look at the state in one locked section and      *)
(* store their continuation in another, so each is several steps here.     *)
(* Datagrams, parameters and tickets are left out.                         *)
(***************************************************************************)
EXTENDS Naturals, FiniteSets

CONSTANTS
  Starters,        (* tasks that call start() *)
  Closers,         (* tasks that call shutdown() *)
  NoTask,          (* an empty continuation slot *)
  MaxPeerStreams,  (* bound: streams the peer opens *)
  Usage            (* what the application does beyond the documented sequence *)

Tasks == Starters \cup Closers

ASSUME TasksAssumption == NoTask \notin Tasks /\ Starters \cap Closers = {}

ASSUME MaxPeerStreamsAssumption == MaxPeerStreams \in Nat

(* "concurrentStart", "concurrentShutdown": a call begins before another   *)
(* one of its kind returned; "closeDuringStart": shutdown() while a start()*)
(* has not got past ConnectionStart; "veto": the application may set an    *)
(* event handler that returns failures; "noStreamHandler": it may leave    *)
(* peerStreamHandler unset.                                                *)
ASSUME UsageAssumption ==
  Usage \subseteq {"concurrentStart", "concurrentShutdown", "closeDuringStart", "veto",
                  "noStreamHandler"}

VARIABLES
  connectionState,       (* InternalState.connectionState *)
  connectContinuation,   (* the task whose continuation sits in the slot *)
  shutdownContinuation,
  peerStreamHandler,     (* a stream handler is set *)
  eventHandler,          (* "passing" (or none), or "vetoing" *)
  retainedSelf,          (* QuicObject.retainedSelf is set *)
  appHolds,              (* the application has a reference *)
  handlerTasks,          (* stream handlers running; each holds the connection *)
  callback,              (* the thunk holds the object: handleEvent runs *)
  pc,                    (* where each task is in its call *)
  continuation,          (* each task's checked continuation *)
  trapped,               (* a checked continuation was resumed twice *)
  mq,                    (* the handle, as MsQuic sees it *)
  mqShut,                (* MsQuic is shutting it down: SHUTDOWN_COMPLETE is due *)
  mqToldShut,            (* SHUTDOWN_INITIATED_BY_... was delivered *)
  mqStreams              (* peer streams announced *)

slots  == <<connectionState, connectContinuation, shutdownContinuation>>
object == <<retainedSelf, appHolds, handlerTasks, callback>>
handlers == <<peerStreamHandler, eventHandler>>
resumed == <<continuation, trapped>>
msquic == <<mq, mqShut, mqToldShut, mqStreams>>
vars   == <<slots, handlers, object, pc, resumed, msquic>>

TypeOK ==
  /\ connectionState \in {"idle", "connecting", "connected", "shuttingDown", "closed"}
  /\ connectContinuation \in Starters \cup {NoTask}
  /\ shutdownContinuation \in Closers \cup {NoTask}
  /\ {peerStreamHandler, retainedSelf, appHolds, callback, trapped} \subseteq BOOLEAN
  /\ eventHandler \in {"passing", "vetoing"}
  /\ pc \in [Tasks -> {"idle", "startChecked", "startApi", "startFailed",
                       "shutdownMarked", "shutdownApi", "waiting", "done"}]
  /\ continuation \in [Tasks -> {"none", "pending", "ok", "error"}]
  /\ mq \in {"none", "refused", "idle", "handshaking", "connected", "shut", "closed"}
  /\ {mqShut, mqToldShut} \subseteq BOOLEAN
  /\ mqStreams \in 0 .. MaxPeerStreams
  /\ handlerTasks \in 0 .. mqStreams

-----------------------------------------------------------------------------
(* References and threads *)

InCall(t) == pc[t] \notin {"idle", "done"}

Alive == \/ retainedSelf
         \/ appHolds
         \/ callback
         \/ handlerTasks > 0
         \/ \E t \in Tasks : InCall(t)

(* The application can name the connection, to call a method on it. *)
Reachable == appHolds \/ handlerTasks > 0

(* MsQuic still has callbacks to make on this handle. *)
MayCallBack == mq \in {"handshaking", "connected"} \/ mqShut

(* An object exists and has a handle of its own. *)
Opened == mq \notin {"none", "refused", "closed"}

(* Resume the continuation c took from a slot (NoTask: the slot was empty).*)
Resume(c, how) ==
  /\ continuation' = [t \in Tasks |-> IF t = c THEN how ELSE continuation[t]]
  /\ trapped' = (trapped \/ (c # NoTask /\ continuation[c] # "pending"))

-----------------------------------------------------------------------------
Init ==
  /\ connectionState = "idle"
  /\ connectContinuation = NoTask /\ shutdownContinuation = NoTask
  /\ peerStreamHandler \in IF "noStreamHandler" \in Usage THEN BOOLEAN ELSE {TRUE}
  /\ eventHandler \in {"passing"} \cup IF "veto" \in Usage THEN {"vetoing"} ELSE {}
  /\ retainedSelf = FALSE /\ appHolds = FALSE /\ handlerTasks = 0 /\ callback = FALSE
  /\ pc = [t \in Tasks |-> "idle"]
  /\ continuation = [t \in Tasks |-> "none"]
  /\ trapped = FALSE
  /\ mq = "none" /\ mqShut = FALSE /\ mqToldShut = FALSE
  /\ mqStreams = 0

(* init(registration:) *)
OpenClient ==
  /\ mq = "none"
  /\ mq' = "idle"
  /\ retainedSelf' = TRUE
  /\ appHolds' = TRUE
  /\ UNCHANGED <<slots, handlers, handlerTasks, callback, pc, resumed,
                 mqShut, mqToldShut, mqStreams>>

(* init(handle:configuration:streamHandler:), inside the listener's        *)
(* NEW_CONNECTION callback.                                                *)
WrapServer ==
  /\ mq = "none"
  /\ mq' = "handshaking"
  /\ retainedSelf' = TRUE
  /\ appHolds' = TRUE
  /\ connectionState' = "connected"
  /\ UNCHANGED <<connectContinuation, shutdownContinuation, handlers, handlerTasks,
                 callback, pc, resumed, mqShut, mqToldShut, mqStreams>>

(* ConnectionOpen or ConnectionSetConfiguration refuses.  The client has   *)
(* not retained itself yet; the server has, and stays so for good.  Its    *)
(* handle is MsQuic's again: the listener answers with a refusal.          *)
OpenFails ==
  /\ mq = "none"
  /\ mq' = "refused"
  /\ retainedSelf' \in BOOLEAN
  /\ UNCHANGED <<slots, handlers, appHolds, handlerTasks, callback, pc,
                 resumed, mqShut, mqToldShut, mqStreams>>

AppDrop ==
  /\ appHolds
  /\ appHolds' = FALSE
  /\ UNCHANGED <<slots, handlers, retainedSelf, handlerTasks, callback, pc, resumed,
                 msquic>>

(* deinit: ConnectionClose *)
Deinit ==
  /\ Opened /\ ~Alive
  /\ mq' = "closed" /\ mqShut' = FALSE
  /\ UNCHANGED <<slots, handlers, object, pc, resumed, mqToldShut, mqStreams>>

-----------------------------------------------------------------------------
(* start() *)

(* Mutant: the state is not looked at. *)
MutMayStart == TRUE

(* The guard of start(): another state throws invalidState. *)
StateAllowsStart == connectionState = "idle"

StartCheck(t) ==
  /\ Opened /\ Reachable /\ pc[t] = "idle"
  /\ "concurrentStart" \in Usage \/ \A s \in Starters : ~InCall(s)
  /\ \/ /\ StateAllowsStart
        /\ pc' = [pc EXCEPT ![t] = "startChecked"]
        /\ UNCHANGED continuation
     \/ /\ ~StateAllowsStart
        /\ pc' = [pc EXCEPT ![t] = "waiting"]
        /\ continuation' = [continuation EXCEPT ![t] = "error"]
  /\ UNCHANGED <<slots, handlers, object, trapped, msquic>>

(* Mutant: the continuation is stored in the other slot. *)
MutStartStore(t) ==
  /\ pc[t] = "startChecked"
  /\ shutdownContinuation' = t
  /\ connectionState' = "connecting"
  /\ continuation' = [continuation EXCEPT ![t] = "pending"]
  /\ pc' = [pc EXCEPT ![t] = "startApi"]
  /\ UNCHANGED <<connectContinuation, handlers, object, trapped, msquic>>

StartStore(t) ==
  /\ pc[t] = "startChecked"
  /\ connectContinuation' = t
  /\ connectionState' = "connecting"
  /\ continuation' = [continuation EXCEPT ![t] = "pending"]
  /\ pc' = [pc EXCEPT ![t] = "startApi"]
  /\ UNCHANGED <<shutdownContinuation, handlers, object, trapped, msquic>>

(* api.ConnectionStart: accepted for a fresh handle, or refused. *)
StartApi(t) ==
  /\ pc[t] = "startApi"
  /\ \/ /\ mq = "idle"
        /\ mq' = "handshaking"
        /\ pc' = [pc EXCEPT ![t] = "waiting"]
     \/ /\ mq' = mq
        /\ pc' = [pc EXCEPT ![t] = "startFailed"]
  /\ UNCHANGED <<slots, handlers, object, resumed, mqShut, mqToldShut, mqStreams>>

StartFail(t) ==
  /\ pc[t] = "startFailed"
  /\ connectContinuation' = NoTask
  /\ connectionState' = "closed"
  /\ retainedSelf' = FALSE
  /\ Resume(t, "error")
  /\ pc' = [pc EXCEPT ![t] = "waiting"]
  /\ UNCHANGED <<shutdownContinuation, handlers, appHolds, handlerTasks, callback,
                 msquic>>

-----------------------------------------------------------------------------
(* shutdown() *)

ShutdownMark(t) ==
  /\ Opened /\ Reachable /\ pc[t] = "idle"
  /\ "concurrentShutdown" \in Usage \/ \A c \in Closers : ~InCall(c)
  /\ \/ "closeDuringStart" \in Usage
     \/ \A s \in Starters : pc[s] \notin {"startChecked", "startApi", "startFailed"}
  /\ \/ /\ connectionState = "closed"
        /\ pc' = [pc EXCEPT ![t] = "waiting"]
        /\ continuation' = [continuation EXCEPT ![t] = "ok"]
        /\ UNCHANGED connectionState
     \/ /\ connectionState # "closed"
        /\ connectionState' = "shuttingDown"
        /\ pc' = [pc EXCEPT ![t] = "shutdownMarked"]
        /\ UNCHANGED continuation
  /\ UNCHANGED <<connectContinuation, shutdownContinuation, handlers, object,
                 trapped, msquic>>

ShutdownStore(t) ==
  /\ pc[t] = "shutdownMarked"
  /\ shutdownContinuation' = t
  /\ continuation' = [continuation EXCEPT ![t] = "pending"]
  /\ pc' = [pc EXCEPT ![t] = "shutdownApi"]
  /\ UNCHANGED <<connectionState, connectContinuation, handlers, object,
                 trapped, msquic>>

(* api.ConnectionShutdown returns nothing.  SHUTDOWN_COMPLETE is due,      *)
(* unless it was delivered.                                                *)
ShutdownApi(t) ==
  /\ pc[t] = "shutdownApi"
  /\ mqShut' = (mq # "shut")
  /\ pc' = [pc EXCEPT ![t] = "waiting"]
  /\ UNCHANGED <<slots, handlers, object, resumed, mq, mqToldShut, mqStreams>>

(* The call returns or throws, and the task lets go of the connection. *)
Return(t) ==
  /\ pc[t] = "waiting"
  /\ continuation[t] \in {"ok", "error"}
  /\ pc' = [pc EXCEPT ![t] = "done"]
  /\ UNCHANGED <<slots, handlers, object, resumed, msquic>>

(* onPeerStreamStarted(_:) *)
SetStreamHandler ==
  /\ Opened /\ Reachable /\ ~peerStreamHandler
  /\ peerStreamHandler' = TRUE
  /\ UNCHANGED <<slots, eventHandler, object, pc, resumed, msquic>>

(* onEvent(_:), with a handler of the other kind *)
SetEventHandler ==
  /\ Opened /\ Reachable /\ "veto" \in Usage
  /\ eventHandler' \in {"passing", "vetoing"} \ {eventHandler}
  /\ UNCHANGED <<slots, peerStreamHandler, object, pc, resumed, msquic>>

(* The stream handler returns: its task ends. *)
HandlerReturns ==
  /\ handlerTasks > 0
  /\ handlerTasks' = handlerTasks - 1
  /\ UNCHANGED <<slots, handlers, retainedSelf, appHolds, callback, pc, resumed, msquic>>

-----------------------------------------------------------------------------
(* handleEvent, through quicConnectionCallback.  The application's event   *)
(* handler runs first; when it does not return success nothing else is     *)
(* done (`vetoed`).                                                        *)

Enter ==
  /\ Alive /\ ~callback
  /\ callback' = TRUE
  /\ UNCHANGED <<handlers, appHolds, pc>>

MayVeto(vetoed) == vetoed => eventHandler = "vetoing"

Skip == UNCHANGED <<slots, retainedSelf, handlerTasks, resumed>>

(* Mutant: the continuation is resumed but stays in the slot. *)
MutSlotAfterConnected == connectContinuation

(* connectContinuation after CONNECTED took it. *)
SlotAfterConnected == NoTask

(* Mutant: a connection that is lost counts as connected. *)
MutStartOutcome(event) == "ok"

(* How an event resumes start(). *)
StartOutcome(event) == IF event = "connected" THEN "ok" ELSE "error"

OnConnected(vetoed) ==
  /\ mq = "handshaking" /\ ~mqToldShut
  /\ Enter /\ MayVeto(vetoed)
  /\ mq' = "connected"
  /\ \/ vetoed /\ Skip
     \/ /\ ~vetoed
        /\ connectionState' = "connected"
        /\ connectContinuation' = SlotAfterConnected
        /\ Resume(connectContinuation, StartOutcome("connected"))
        /\ UNCHANGED <<shutdownContinuation, retainedSelf, handlerTasks>>
  /\ UNCHANGED <<mqShut, mqToldShut, mqStreams>>

(* SHUTDOWN_INITIATED_BY_TRANSPORT or _BY_PEER: the connection is lost.    *)
(* The state stays as it is.                                               *)
OnShutdownInitiated(vetoed) ==
  /\ mq \in {"handshaking", "connected"} /\ ~mqToldShut
  /\ Enter /\ MayVeto(vetoed)
  /\ mqToldShut' = TRUE /\ mqShut' = TRUE
  /\ \/ vetoed /\ Skip
     \/ /\ ~vetoed
        /\ connectContinuation' = NoTask
        /\ Resume(connectContinuation, StartOutcome("lost"))
        /\ UNCHANGED <<connectionState, shutdownContinuation, retainedSelf, handlerTasks>>
  /\ UNCHANGED <<mq, mqStreams>>

(* PEER_STREAM_STARTED: with a handler the stream is wrapped and a task    *)
(* runs the handler; without one the stream is accepted and forgotten.     *)
OnPeerStream(vetoed) ==
  /\ mq \in {"handshaking", "connected"} /\ ~mqToldShut /\ mqStreams < MaxPeerStreams
  /\ Enter /\ MayVeto(vetoed)
  /\ mqStreams' = mqStreams + 1
  /\ \/ vetoed /\ Skip  (* MsQuic closes a stream that is refused *)
     \/ /\ ~vetoed /\ peerStreamHandler
        /\ handlerTasks' = handlerTasks + 1
        /\ UNCHANGED <<slots, retainedSelf, resumed>>
     \/ ~vetoed /\ ~peerStreamHandler /\ Skip
  /\ UNCHANGED <<mq, mqShut, mqToldShut>>

(* Mutant: the self-reference is kept. *)
MutSelfAfterShutdown == retainedSelf

(* releaseSelfFromCallback at SHUTDOWN_COMPLETE. *)
SelfAfterShutdown == FALSE

(* Mutants: one of the two slots is forgotten. *)
MutOnlyShutdownTaken == {shutdownContinuation} \ {NoTask}
MutOnlyConnectTaken == {connectContinuation} \ {NoTask}

(* SHUTDOWN_COMPLETE takes both continuations in one locked section. *)
TakenAtShutdown == {connectContinuation, shutdownContinuation} \ {NoTask}

OnShutdownComplete(vetoed) ==
  /\ mqShut /\ mq \in {"idle", "handshaking", "connected"}
  /\ Enter /\ MayVeto(vetoed)
  /\ mq' = "shut" /\ mqShut' = FALSE
  /\ \/ vetoed /\ Skip
     \/ /\ ~vetoed
        /\ connectionState' = "closed"
        /\ shutdownContinuation' = NoTask
        /\ connectContinuation' = NoTask
        /\ retainedSelf' = SelfAfterShutdown
        /\ continuation' = [t \in Tasks |->
                             IF t \notin TakenAtShutdown THEN continuation[t]
                             ELSE IF t = connectContinuation THEN StartOutcome("shut") ELSE "ok"]
        /\ trapped' = (trapped \/ \E t \in TakenAtShutdown : continuation[t] # "pending")
        /\ UNCHANGED handlerTasks
  /\ UNCHANGED <<mqToldShut, mqStreams>>

CallbackReturn ==
  /\ callback
  /\ callback' = FALSE
  /\ UNCHANGED <<slots, handlers, retainedSelf, appHolds, handlerTasks, pc, resumed, msquic>>

-----------------------------------------------------------------------------
Lifetime == OpenClient \/ WrapServer \/ OpenFails \/ AppDrop \/ Deinit
Starting == \E t \in Starters : StartCheck(t) \/ StartStore(t) \/ StartApi(t) \/ StartFail(t)
Closing  == \E t \in Closers : ShutdownMark(t) \/ ShutdownStore(t) \/ ShutdownApi(t)
Waking   == \E t \in Tasks : Return(t)
Handling == SetStreamHandler \/ SetEventHandler \/ HandlerReturns
Worker   == \/ \E vetoed \in BOOLEAN : \/ OnConnected(vetoed)
                                       \/ OnShutdownInitiated(vetoed)
                                       \/ OnPeerStream(vetoed)
                                       \/ OnShutdownComplete(vetoed)
            \/ CallbackReturn

Next == Lifetime \/ Starting \/ Closing \/ Waking \/ Handling \/ Worker

Spec == Init /\ [][Next]_vars

(* The executor runs a task that is in a call; MsQuic ends a handshake     *)
(* (established, or shut down by its timeout) and delivers                 *)
(* SHUTDOWN_COMPLETE to a connection that is shutting down.  Calls, drops, *)
(* the peer's streams and the return of the application's handlers are not *)
(* fair.                                                                   *)
Fairness ==
  /\ \A t \in Starters : WF_vars(StartStore(t) \/ StartApi(t) \/ StartFail(t))
  /\ \A t \in Closers : WF_vars(ShutdownStore(t) \/ ShutdownApi(t))
  /\ \A t \in Tasks : WF_vars(Return(t))
  /\ WF_vars(CallbackReturn) /\ WF_vars(Deinit)
  /\ SF_vars(mq = "handshaking" /\ \E vetoed \in BOOLEAN :
               OnConnected(vetoed) \/ OnShutdownInitiated(vetoed))
  /\ SF_vars(\E vetoed \in BOOLEAN : OnShutdownComplete(vetoed))

FairSpec == Spec /\ Fairness

-----------------------------------------------------------------------------
(* Safety *)

(* start() failing at once, CONNECTED, SHUTDOWN_INITIATED and              *)
(* SHUTDOWN_COMPLETE all resume the caller of start(): never twice, a      *)
(* checked continuation traps.                                             *)
NoDoubleResume == ~trapped

(* A task that waits is in the slot of its kind; otherwise nobody can      *)
(* resume it.                                                              *)
PendingIsHeld ==
  \A t \in Tasks : continuation[t] = "pending" =>
    t \in {connectContinuation, shutdownContinuation}

(* start() is told of success only when MsQuic is past the handshake, not  *)
(* by the events that end the connection while it waits.                   *)
StartedIsEstablished ==
  [][\A t \in Starters : continuation[t] = "pending" /\ continuation'[t] = "ok"
                           => mq' = "connected"]_vars

(* The life cycle every QuicObject promises. *)
ObjectStage ==
  IF mq = "none" THEN "absent"
  ELSE IF ~Opened THEN "gone"
  ELSE IF Alive THEN "live" ELSE "dying"

HandleStage ==
  IF mq = "closed" THEN "closed"
  ELSE IF ~Opened THEN "none"
  ELSE IF MayCallBack THEN "calling" ELSE "quiet"

CH == INSTANCE CallbackHandle
        WITH object <- ObjectStage, handle <- HandleStage, frame <- callback

KeepsHandleSafe == CH!Spec

-----------------------------------------------------------------------------
(* Liveness *)

(* No event handler ever returns a failure. *)
NeverVetoed == [](eventHandler = "passing")

(* "The method returns when the connection is established or throws if the *)
(* connection fails", also when shutdown() overtakes it; an event handler  *)
(* that returns a failure may keep CONNECTED from it.                      *)
StartReturns ==
  NeverVetoed => \A t \in Starters : InCall(t) ~> pc[t] = "done"

(* shutdown() returns, if its continuation was stored before MsQuic        *)
(* delivered SHUTDOWN_COMPLETE.                                            *)
StoredShutdownReturns ==
  NeverVetoed => \A t \in Closers :
                   (shutdownContinuation = t /\ mq # "shut") ~> pc[t] = "done"

(* shutdown() returns: "the connection will be terminated after the        *)
(* shutdown completes".                                                    *)
ShutdownReturns ==
  NeverVetoed => \A t \in Closers : InCall(t) ~> pc[t] = "done"

(* A shut connection nobody uses is closed: SHUTDOWN_COMPLETE released the *)
(* self-reference.                                                         *)
HandleReclaimed ==
  NeverVetoed => ((mq = "shut" /\ ~Reachable /\ \A t \in Tasks : ~InCall(t))
                    ~> mq = "closed")
===============================================================================
