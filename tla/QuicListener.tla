----------------------------- MODULE QuicListener -----------------------------
(***************************************************************************)
(* One QuicListener object (Handlers/QuicListener.swift) and the           *)
(* connections it hands to the application in NEW_CONNECTION.              *)
(*                                                                         *)
(* MsQuic offers connections on several workers at once; it delivers       *)
(* STOP_COMPLETE when the last of those callbacks returned.  The handle of *)
(* an offered connection belongs to the application if the callback        *)
(* returns success, and to MsQuic otherwise, also when the handler wrapped *)
(* it in a QuicConnection before it refused.                               *)
(***************************************************************************)
EXTENDS Naturals, FiniteSets

CONSTANTS
  Stoppers,     (* tasks that call stop() *)
  NoTask,       (* the empty continuation slot *)
  Connections,  (* connections clients attempt *)
  Usage         (* what the application does beyond the documented sequence *)

ASSUME StoppersAssumption == NoTask \notin Stoppers

(* "restart": start() again after stop(); "concurrentStop": stop() while   *)
(* another one waits; "stopIdle": stop() of a listener that is not         *)
(* listening.                                                              *)
ASSUME UsageAssumption == Usage \subseteq {"restart", "concurrentStop", "stopIdle"}

VARIABLES
  stopContinuation,   (* the task whose continuation sits in the slot *)
  connectionHandler,  (* a connection handler is set *)
  retainedSelf,       (* QuicObject.retainedSelf is set *)
  appHolds,           (* the application has a reference *)
  running,            (* connections whose NEW_CONNECTION callback runs *)
  stopFrame,          (* the STOP_COMPLETE callback runs *)
  pc,                 (* where each task is in its call *)
  continuation,       (* each task's checked continuation *)
  mq,                 (* the handle, as MsQuic sees it *)
  offer,              (* each connection, as the listener sees it *)
  wrapper,            (* the QuicConnection around its handle *)
  closedBy            (* who has closed that handle *)

calls   == <<stopContinuation, pc, continuation>>
frames  == <<running, stopFrame>>
offered == <<offer, wrapper, closedBy>>
vars    == <<calls, connectionHandler, retainedSelf, appHolds, frames, mq, offered>>

InCall(t) == pc[t] \notin {"idle", "done"}

(* The slot holds a task that is in stop(); an accepted connection has a   *)
(* QuicConnection.                                                         *)
TypeOK ==
  /\ stopContinuation \in {t \in Stoppers : InCall(t)} \cup {NoTask}
  /\ {connectionHandler, retainedSelf, appHolds, stopFrame} \subseteq BOOLEAN
  /\ running \subseteq Connections
  /\ pc \in [Stoppers -> {"idle", "stopApi", "waiting", "done"}]
  /\ continuation \in [Stoppers -> {"none", "pending", "ok"}]
  /\ mq \in {"none", "failed", "idle", "listening", "stopping", "closed"}
  /\ offer \in [Connections -> {"none", "offered", "accepted", "refused"}]
  /\ wrapper \in [Connections -> {"none", "retained", "loose", "gone"}]
  /\ closedBy \in [Connections -> SUBSET {"msquic", "wrapper"}]
  /\ \A c \in Connections : offer[c] = "accepted" => wrapper[c] # "none"

-----------------------------------------------------------------------------
(* References *)

Alive == \/ retainedSelf
         \/ appHolds
         \/ running # {} \/ stopFrame
         \/ \E t \in Stoppers : InCall(t)

Opened == mq \notin {"none", "failed", "closed"}

MayCallBack == mq \in {"listening", "stopping"}

-----------------------------------------------------------------------------
Init ==
  /\ stopContinuation = NoTask
  /\ pc = [t \in Stoppers |-> "idle"]
  /\ continuation = [t \in Stoppers |-> "none"]
  /\ connectionHandler = FALSE
  /\ retainedSelf = FALSE /\ appHolds = FALSE
  /\ running = {} /\ stopFrame = FALSE
  /\ mq = "none"
  /\ offer = [c \in Connections |-> "none"]
  /\ wrapper = [c \in Connections |-> "none"]
  /\ closedBy = [c \in Connections |-> {}]

(* Mutant: retainSelfForCallback is forgotten. *)
MutSelfAfterInit == FALSE

(* The initializer leaves the object retained for the callbacks. *)
SelfAfterInit == TRUE

(* init(registration:); when ListenerOpen refuses, nothing was retained. *)
Open ==
  /\ mq = "none"
  /\ \/ mq' = "idle" /\ retainedSelf' = SelfAfterInit /\ appHolds' = TRUE
     \/ mq' = "failed" /\ UNCHANGED <<retainedSelf, appHolds>>
  /\ UNCHANGED <<calls, connectionHandler, frames, offered>>

(* onNewConnection(_:) *)
OnNewConnection ==
  /\ Opened /\ appHolds /\ ~connectionHandler
  /\ connectionHandler' = TRUE
  /\ UNCHANGED <<calls, retainedSelf, appHolds, frames, mq, offered>>

(* start(): ListenerStart.  When it fails nothing changes. *)
Start ==
  /\ mq = "idle" /\ appHolds
  /\ "restart" \in Usage \/ \A t \in Stoppers : pc[t] = "idle"
  /\ mq' = "listening"
  /\ UNCHANGED <<calls, connectionHandler, retainedSelf, appHolds, frames, offered>>

AppDrop ==
  /\ appHolds
  /\ appHolds' = FALSE
  /\ UNCHANGED <<calls, connectionHandler, retainedSelf, frames, mq, offered>>

(* deinit: ListenerClose *)
Deinit ==
  /\ Opened /\ ~Alive
  /\ mq' = "closed"
  /\ UNCHANGED <<calls, connectionHandler, retainedSelf, appHolds, frames, offered>>

-----------------------------------------------------------------------------
(* stop() *)

(* Mutant: stop() does not wait for STOP_COMPLETE. *)
MutContinuationAtStop == "ok"

(* The continuation stop() stores and waits for. *)
ContinuationAtStop == "pending"

StopStore(t) ==
  /\ Opened /\ appHolds /\ pc[t] = "idle"
  /\ "concurrentStop" \in Usage \/ \A u \in Stoppers : ~InCall(u)
  /\ "stopIdle" \in Usage \/ mq = "listening"
  /\ stopContinuation' = t
  /\ continuation' = [continuation EXCEPT ![t] = ContinuationAtStop]
  /\ pc' = [pc EXCEPT ![t] = "stopApi"]
  /\ UNCHANGED <<connectionHandler, retainedSelf, appHolds, frames, mq, offered>>

(* api.ListenerStop: STOP_COMPLETE is due if the listener was listening. *)
StopApi(t) ==
  /\ pc[t] = "stopApi"
  /\ mq' = IF mq = "listening" THEN "stopping" ELSE mq
  /\ pc' = [pc EXCEPT ![t] = "waiting"]
  /\ UNCHANGED <<stopContinuation, continuation, connectionHandler, retainedSelf, appHolds,
                 frames, offered>>

Return(t) ==
  /\ pc[t] = "waiting" /\ continuation[t] = "ok"
  /\ pc' = [pc EXCEPT ![t] = "done"]
  /\ UNCHANGED <<stopContinuation, continuation, connectionHandler, retainedSelf, appHolds,
                 frames, mq, offered>>

-----------------------------------------------------------------------------
(* handleEvent *)

(* NEW_CONNECTION: without a handler the connection is refused. *)
NewConnection(c) ==
  /\ mq = "listening" /\ Alive /\ offer[c] = "none"
  /\ running' = running \cup {c}
  /\ offer' = [offer EXCEPT ![c] = IF connectionHandler THEN "offered" ELSE "refused"]
  /\ UNCHANGED <<calls, connectionHandler, retainedSelf, appHolds, stopFrame, mq, wrapper, closedBy>>

(* The handler returns a QuicConnection. *)
Accept(c) ==
  /\ offer[c] = "offered"
  /\ offer' = [offer EXCEPT ![c] = "accepted"]
  /\ wrapper' = [wrapper EXCEPT ![c] = "retained"]
  /\ UNCHANGED <<calls, connectionHandler, retainedSelf, appHolds, frames, mq, closedBy>>

(* Mutant: QuicConnection.init releases itself before it throws. *)
MutWrapperAfterRefusal == "loose"

(* A QuicConnection that was made and is then refused, or whose init threw *)
(* after retainSelfForCallback: MsQuic sends it no SHUTDOWN_COMPLETE, so   *)
(* that nothing releases it.                                               *)
WrapperAfterRefusal == "retained"

(* The handler returns nil or throws, before or after it made a            *)
(* QuicConnection.                                                         *)
Refuse(c) ==
  /\ offer[c] = "offered"
  /\ offer' = [offer EXCEPT ![c] = "refused"]
  /\ \E w \in {"none", WrapperAfterRefusal} : wrapper' = [wrapper EXCEPT ![c] = w]
  /\ UNCHANGED <<calls, connectionHandler, retainedSelf, appHolds, frames, mq, closedBy>>

(* The callback returns; MsQuic closes what was refused. *)
NewConnectionReturns(c) ==
  /\ c \in running /\ offer[c] # "offered"
  /\ running' = running \ {c}
  /\ closedBy' = [closedBy EXCEPT ![c] = IF offer[c] = "refused" THEN @ \cup {"msquic"} ELSE @]
  /\ UNCHANGED <<calls, connectionHandler, retainedSelf, appHolds, stopFrame, mq, offer, wrapper>>

(* Mutant: the continuation is resumed but stays in the slot. *)
MutSlotAfterStop == stopContinuation

(* stopContinuation after STOP_COMPLETE took it. *)
SlotAfterStop == NoTask

(* Mutant: the self-reference is kept. *)
MutSelfAfterStop == retainedSelf

(* releaseSelfFromCallback at STOP_COMPLETE. *)
SelfAfterStop == FALSE

(* Mutant: the continuation is dropped. *)
MutResumedAtStop == {}

(* The stop() that STOP_COMPLETE resumes. *)
ResumedAtStop == {stopContinuation}

StopComplete ==
  /\ mq = "stopping" /\ running = {} /\ Alive
  /\ mq' = "idle"
  /\ stopFrame' = TRUE
  /\ stopContinuation' = SlotAfterStop
  /\ retainedSelf' = SelfAfterStop
  /\ continuation' = [t \in Stoppers |-> IF t \in ResumedAtStop THEN "ok" ELSE continuation[t]]
  /\ UNCHANGED <<pc, connectionHandler, appHolds, running, offered>>

StopCompleteReturns ==
  /\ stopFrame
  /\ stopFrame' = FALSE
  /\ UNCHANGED <<calls, connectionHandler, retainedSelf, appHolds, running, mq, offered>>

-----------------------------------------------------------------------------
(* The accepted connection, as QuicConnection tells it. *)

(* SHUTDOWN_COMPLETE, and the application lets go. *)
ConnectionEnds(c) ==
  /\ offer[c] = "accepted" /\ c \notin running /\ wrapper[c] = "retained"
  /\ wrapper' = [wrapper EXCEPT ![c] = "loose"]
  /\ UNCHANGED <<calls, connectionHandler, retainedSelf, appHolds, frames, mq, offer, closedBy>>

(* QuicConnection.deinit: ConnectionClose *)
ConnectionDeinit(c) ==
  /\ wrapper[c] = "loose"
  /\ wrapper' = [wrapper EXCEPT ![c] = "gone"]
  /\ closedBy' = [closedBy EXCEPT ![c] = @ \cup {"wrapper"}]
  /\ UNCHANGED <<calls, connectionHandler, retainedSelf, appHolds, frames, mq, offer>>

-----------------------------------------------------------------------------
Application == Open \/ OnNewConnection \/ Start \/ AppDrop \/ Deinit
Stopping == \E t \in Stoppers : StopStore(t) \/ StopApi(t) \/ Return(t)
Offering == \E c \in Connections : NewConnection(c) \/ NewConnectionReturns(c)
Deciding == \E c \in Connections : Accept(c) \/ Refuse(c)
Completing == StopComplete \/ StopCompleteReturns
Connecting == \E c \in Connections : ConnectionEnds(c) \/ ConnectionDeinit(c)

Next == Application \/ Stopping \/ Offering \/ Deciding \/ Completing \/ Connecting

Spec == Init /\ [][Next]_vars

(* A task in stop() runs; a connection handler returns (it is synchronous);*)
(* callbacks return; a listener that is stopping gets STOP_COMPLETE.       *)
Fairness ==
  /\ \A t \in Stoppers : WF_vars(StopApi(t)) /\ WF_vars(Return(t))
  /\ \A c \in Connections : /\ WF_vars(Accept(c) \/ Refuse(c))
                            /\ WF_vars(NewConnectionReturns(c))
  /\ WF_vars(StopComplete) /\ WF_vars(StopCompleteReturns) /\ WF_vars(Deinit)

FairSpec == Spec /\ Fairness

-----------------------------------------------------------------------------
(* "Do NOT call ConnectionClose here when returning failure.  MsQuic will  *)
(* close the connection on failure and double-free can occur otherwise":   *)
(* no connection is closed both by MsQuic and by its QuicConnection.       *)
ClosedByOne == \A c \in Connections : Cardinality(closedBy[c]) <= 1

(* The doc of stop(): "After this method returns, no new connections will  *)
(* be accepted", not even one whose handler was already running.           *)
NothingAcceptedAfterStop ==
  [][(\E t \in Stoppers : continuation[t] = "ok") =>
       \A c \in Connections : offer'[c] = "accepted" => offer[c] = "accepted"]_vars

(* The life cycle every QuicObject promises. *)
ObjectStage ==
  IF mq = "none" THEN "absent"
  ELSE IF ~Opened THEN "gone"
  ELSE IF Alive THEN "live" ELSE "dying"

HandleStage ==
  IF mq = "closed" THEN "closed"
  ELSE IF ~Opened THEN "none"
  ELSE IF MayCallBack THEN "calling" ELSE "quiet"

CH == INSTANCE CallbackHandle
        WITH object <- ObjectStage, handle <- HandleStage,
             frame <- running # {} \/ stopFrame

KeepsHandleSafe == CH!Spec

(* stop() returns. *)
StopReturns == \A t \in Stoppers : InCall(t) ~> pc[t] = "done"

(* A listener that was stopped and let go is closed. *)
HandleReclaimed ==
  (mq = "idle" /\ ~appHolds /\ \E t \in Stoppers : pc[t] = "done") ~> mq = "closed"
===============================================================================
