------------------------- MODULE QuicConnectionProofs -------------------------
(***************************************************************************)
(* What start(), shutdown() and the callbacks of a QuicConnection promise, *)
(* for any number of tasks and of streams the peer opens.  Event handlers  *)
(* may veto and the stream handler may be missing; each theorem names the  *)
(* overlapping calls it excludes.                                          *)
(***************************************************************************)
EXTENDS QuicConnection, TLAPS

(* A start() begins after the one before it returned. *)
OneStartAtATime == "concurrentStart" \notin Usage

(* A shutdown() begins after the one before it returned. *)
OneShutdownAtATime == "concurrentShutdown" \notin Usage

(* No shutdown() begins between the first look of a start() at the state   *)
(* and the answer of ConnectionStart.                                      *)
StartUndisturbed == "closeDuringStart" \notin Usage

(* No event handler returns a failure. *)
NoVeto == "veto" \notin Usage

BeforeStart(t) == pc[t] \in {"startChecked", "startApi", "startFailed"}

BeforeShutdown(t) == pc[t] \in {"shutdownMarked", "shutdownApi"}

-----------------------------------------------------------------------------
(* Types *)

LEMMA InitType == Init => TypeOK
<1> SUFFICES ASSUME Init PROVE TypeOK
  OBVIOUS
<1> USE TasksAssumption, MaxPeerStreamsAssumption DEF Init, Tasks
<1>1. peerStreamHandler \in BOOLEAN /\ eventHandler \in {"passing", "vetoing"}
  OBVIOUS
<1>2. /\ pc \in [Tasks -> {"idle"}]
      /\ continuation \in [Tasks -> {"none"}]
  OBVIOUS
<1>3. mqStreams \in 0 .. MaxPeerStreams /\ handlerTasks \in 0 .. mqStreams
  OBVIOUS
<1> QED
  BY <1>1, <1>2, <1>3 DEF TypeOK

LEMMA TypeStep ==
  ASSUME TypeOK, [Next]_vars
  PROVE  TypeOK'
<1> USE MaxPeerStreamsAssumption
    DEF TypeOK, Tasks, slots, object, handlers, resumed, msquic
<1>1. CASE Lifetime
  BY <1>1 DEF Lifetime, OpenClient, WrapServer, OpenFails, AppDrop, Deinit
<1>2. ASSUME NEW t \in Starters, StartCheck(t) \/ StartStore(t)
      PROVE  TypeOK'
  BY <1>2 DEF StartCheck, StartStore
<1>3. ASSUME NEW t \in Starters, StartApi(t) \/ StartFail(t)
      PROVE  TypeOK'
  BY <1>3 DEF StartApi, StartFail, Resume
<1>4. ASSUME NEW t \in Closers, ShutdownMark(t) \/ ShutdownStore(t) \/ ShutdownApi(t)
      PROVE  TypeOK'
  BY <1>4 DEF ShutdownMark, ShutdownStore, ShutdownApi
<1>5. ASSUME NEW t \in Tasks, Return(t)
      PROVE  TypeOK'
  BY <1>5 DEF Return
<1>6. CASE Handling
  <2>1. CASE HandlerReturns
    BY <2>1 DEF HandlerReturns
  <2>2. CASE SetStreamHandler \/ SetEventHandler
    BY <2>2 DEF SetStreamHandler, SetEventHandler
  <2> QED
    BY <1>6, <2>1, <2>2 DEF Handling
<1>7. ASSUME NEW vetoed \in BOOLEAN, OnConnected(vetoed) \/ OnShutdownInitiated(vetoed)
      PROVE  TypeOK'
  BY <1>7 DEF OnConnected, OnShutdownInitiated, Enter, Skip, Resume, SlotAfterConnected,
     StartOutcome
<1>8. ASSUME NEW vetoed \in BOOLEAN, OnPeerStream(vetoed)
      PROVE  TypeOK'
  BY <1>8 DEF OnPeerStream, Enter, Skip
<1>9. ASSUME NEW vetoed \in BOOLEAN, OnShutdownComplete(vetoed)
      PROVE  TypeOK'
  BY <1>9 DEF OnShutdownComplete, Enter, Skip, SelfAfterShutdown, StartOutcome
<1>10. CASE CallbackReturn
  BY <1>10 DEF CallbackReturn
<1>11. CASE UNCHANGED vars
  BY <1>11 DEF vars
<1> QED
  BY <1>1, <1>2, <1>3, <1>4, <1>5, <1>6, <1>7, <1>8, <1>9, <1>10, <1>11
     DEF Next, Starting, Closing, Waking, Worker

(* Every variable of a connection keeps its type, for any use. *)
THEOREM TypeCorrect == Spec => []TypeOK
  BY InitType, TypeStep, PTL DEF Spec

-----------------------------------------------------------------------------
(* Which parts of the state a step may disturb *)

(* An event changes no call; what it resumes it took from a slot. *)
LEMMA EventEffect ==
  ASSUME TypeOK, NEW vetoed \in BOOLEAN,
         \/ OnConnected(vetoed) \/ OnShutdownInitiated(vetoed)
         \/ OnPeerStream(vetoed) \/ OnShutdownComplete(vetoed)
  PROVE  /\ Alive /\ ~callback /\ callback' /\ UNCHANGED <<appHolds, pc>>
         /\ connectContinuation' \in {connectContinuation, NoTask}
         /\ shutdownContinuation' \in {shutdownContinuation, NoTask}
         /\ \A t \in Starters :
               IF connectContinuation = t /\ connectContinuation' = NoTask
               THEN \/ continuation'[t] = "error"
                    \/ continuation'[t] = "ok" /\ mq' = "connected"
               ELSE continuation'[t] = continuation[t]
         /\ \A t \in Closers :
               continuation'[t] = IF shutdownContinuation = t /\ shutdownContinuation' = NoTask
                                  THEN "ok"
                                  ELSE continuation[t]
         /\ trapped' => \/ trapped
                        \/ \E t \in {connectContinuation, shutdownContinuation} \ {NoTask} :
                              continuation[t] # "pending"
         /\ MayCallBack
         /\ connectionState' \in {connectionState, "connected", "closed"}
<1> USE TasksAssumption
    DEF TypeOK, Tasks, slots, resumed, MayCallBack
<1>1. CASE OnConnected(vetoed)
  BY <1>1 DEF OnConnected, Enter, Skip, Resume, SlotAfterConnected, StartOutcome
<1>2. CASE OnShutdownInitiated(vetoed)
  BY <1>2 DEF OnShutdownInitiated, Enter, Skip, Resume, StartOutcome
<1>3. CASE OnPeerStream(vetoed)
  BY <1>3 DEF OnPeerStream, Enter, Skip
<1>4. CASE OnShutdownComplete(vetoed)
  BY <1>4 DEF OnShutdownComplete, Enter, Skip, TakenAtShutdown, StartOutcome
<1> QED
  BY <1>1, <1>2, <1>3, <1>4

(* What the other steps leave alone. *)
LEMMA QuietEffect ==
  ASSUME Lifetime \/ Handling \/ CallbackReturn
  PROVE  UNCHANGED <<connectContinuation, shutdownContinuation, pc, resumed>>
BY DEF Lifetime, OpenClient, WrapServer, OpenFails, AppDrop, Deinit, Handling, SetStreamHandler,
   SetEventHandler, HandlerReturns, CallbackReturn, slots, resumed

(* start() succeeds only with a connection that was established: no event  *)
(* that ends the connection tells a waiting start() of success, whatever   *)
(* calls overlap.                                                          *)
THEOREM SuccessIsEstablished == Spec => StartedIsEstablished
<1>1. TypeOK /\ [Next]_vars =>
        [\A t \in Starters : continuation[t] = "pending" /\ continuation'[t] = "ok"
                               => mq' = "connected"]_vars
  <2> SUFFICES ASSUME TypeOK, Next, NEW t \in Starters,
                      continuation[t] = "pending", continuation'[t] = "ok"
               PROVE  mq' = "connected"
    OBVIOUS
  <2> USE TasksAssumption DEF TypeOK, Tasks, resumed
  <2>1. CASE Lifetime \/ Handling \/ CallbackReturn
    BY <2>1, QuietEffect
  <2>2. CASE Starting
    BY <2>2 DEF Starting, StartCheck, StartStore, StartApi, StartFail, Resume
  <2>3. CASE Closing
    BY <2>3 DEF Closing, ShutdownMark, ShutdownStore, ShutdownApi
  <2>4. CASE Waking
    BY <2>4 DEF Waking, Return
  <2>5. ASSUME NEW vetoed \in BOOLEAN,
               \/ OnConnected(vetoed) \/ OnShutdownInitiated(vetoed)
               \/ OnPeerStream(vetoed) \/ OnShutdownComplete(vetoed)
        PROVE  mq' = "connected"
    BY <2>5, EventEffect
  <2> QED
    BY <2>1, <2>2, <2>3, <2>4, <2>5 DEF Next, Worker
<1> QED
  BY <1>1, TypeCorrect, PTL DEF Spec, StartedIsEstablished

-----------------------------------------------------------------------------
(* The handle: the inductive invariant *)

(* Where a call is tells what its task waits for; a shutdown() is resumed  *)
(* before it calls ConnectionShutdown only by SHUTDOWN_COMPLETE.           *)
Calls ==
  /\ \A t \in Starters : pc[t] \in {"idle", "waiting", "done"} \/ BeforeStart(t)
  /\ \A t \in Closers : pc[t] \in {"idle", "waiting", "done"} \/ BeforeShutdown(t)
  /\ \A s, t \in Starters : InCall(s) /\ InCall(t) => s = t
  /\ \A c \in Closers : pc[c] = "shutdownApi" => continuation[c] = "pending" \/ mq = "shut"

(* Until ConnectionStart answers, MsQuic does not connect; the state, once *)
(* left, is never idle again, and while it is idle no shutdown() has begun.*)
OneStart ==
  /\ \A t \in Starters : BeforeStart(t) =>
        /\ mq = "shut" \/ (mq = "idle" /\ retainedSelf)
        /\ pc[t] # "startChecked" => connectionState # "idle"
  /\ connectionState = "idle" =>
        /\ mq \in {"none", "refused", "idle"} /\ ~mqShut
        /\ \A c \in Closers : ~BeforeShutdown(c)

(* A shutdown() that waits for SHUTDOWN_COMPLETE holds the connection. *)
CloserWaits == \E c \in Closers : pc[c] = "waiting" /\ continuation[c] = "pending"

(* The connection retains itself until SHUTDOWN_COMPLETE, except after a   *)
(* refused start; then MsQuic calls back only because a shutdown() that    *)
(* began before the refusal asked for it, and that task still waits.       *)
SelfReference ==
  /\ mq \in {"idle", "handshaking", "connected"} /\ ~retainedSelf =>
        mq = "idle" /\ connectionState = "closed"
  /\ mqShut => mq \in {"idle", "handshaking", "connected"}
  /\ mqShut /\ mq = "idle" => CloserWaits

(* Without a handle nobody uses the object. *)
UnopenedIsUnused ==
  ~Opened => /\ ~appHolds /\ ~callback /\ handlerTasks = 0
             /\ \A t \in Tasks : ~InCall(t)

HandleInv ==
  /\ TypeOK
  /\ Calls
  /\ OneStart
  /\ SelfReference
  /\ UnopenedIsUnused

LEMMA InitHandle == Init => HandleInv
<1> SUFFICES ASSUME Init PROVE HandleInv
  OBVIOUS
<1> USE DEF Init, BeforeStart, BeforeShutdown, InCall, Tasks
<1>1. Calls /\ OneStart /\ SelfReference /\ UnopenedIsUnused
  BY DEF Calls, OneStart, SelfReference, UnopenedIsUnused
<1> QED
  BY <1>1, InitType DEF HandleInv

(* An event resumes a shutdown() only when it is SHUTDOWN_COMPLETE. *)
LEMMA ShutdownCompleteOnly ==
  ASSUME TypeOK, NEW vetoed \in BOOLEAN,
         OnConnected(vetoed) \/ OnShutdownInitiated(vetoed) \/ OnPeerStream(vetoed)
  PROVE  \A c \in Closers : continuation'[c] = continuation[c]
  BY TasksAssumption DEF TypeOK, Tasks, slots, resumed, OnConnected, OnShutdownInitiated,
     OnPeerStream, Skip, Resume, SlotAfterConnected

LEMMA CallsStep ==
  ASSUME OneStartAtATime, HandleInv, TypeOK', [Next]_vars
  PROVE  Calls'
<1> USE TasksAssumption
    DEF HandleInv, TypeOK, Calls, InCall, BeforeStart, BeforeShutdown, Tasks, slots, resumed,
        OneStartAtATime
<1>1. CASE Lifetime \/ Handling \/ CallbackReturn
  <2>1. CASE Deinit
    BY <2>1, QuietEffect DEF Deinit, Alive
  <2>2. CASE OpenClient \/ WrapServer \/ OpenFails
    BY <2>2 DEF OpenClient, WrapServer, OpenFails
  <2>3. CASE AppDrop \/ Handling \/ CallbackReturn
    BY <2>3 DEF AppDrop, Handling, SetStreamHandler, SetEventHandler, HandlerReturns,
       CallbackReturn, msquic
  <2> QED
    BY <1>1, <2>1, <2>2, <2>3 DEF Lifetime
<1>2. ASSUME NEW t \in Starters, StartCheck(t)
      PROVE  Calls'
  BY <1>2 DEF StartCheck, msquic
<1>3. ASSUME NEW t \in Starters, StartStore(t)
      PROVE  Calls'
  BY <1>3 DEF StartStore, msquic
<1>4. ASSUME NEW t \in Starters, StartApi(t)
      PROVE  Calls'
  BY <1>4 DEF StartApi
<1>5. ASSUME NEW t \in Starters, StartFail(t)
      PROVE  Calls'
  BY <1>5 DEF StartFail, Resume, msquic
<1>6. ASSUME NEW t \in Closers, ShutdownMark(t) \/ ShutdownStore(t) \/ ShutdownApi(t)
      PROVE  Calls'
  BY <1>6 DEF ShutdownMark, ShutdownStore, ShutdownApi, msquic
<1>7. ASSUME NEW t \in Tasks, Return(t)
      PROVE  Calls'
  BY <1>7 DEF Return, msquic
<1>8. ASSUME NEW vetoed \in BOOLEAN,
             OnConnected(vetoed) \/ OnShutdownInitiated(vetoed) \/ OnPeerStream(vetoed)
      PROVE  Calls'
  <2>1. UNCHANGED pc /\ MayCallBack
    BY <1>8, EventEffect
  <2>2. mq # "shut"
    BY <2>1 DEF MayCallBack, SelfReference
  <2> QED
    BY <1>8, <2>1, <2>2, ShutdownCompleteOnly
<1>9. ASSUME NEW vetoed \in BOOLEAN, OnShutdownComplete(vetoed)
      PROVE  Calls'
  <2>1. UNCHANGED pc /\ mq' = "shut"
    BY <1>9, EventEffect DEF OnShutdownComplete
  <2> QED
    BY <2>1
<1>10. CASE UNCHANGED vars
  BY <1>10 DEF vars, msquic
<1> QED
  BY <1>1, <1>2, <1>3, <1>4, <1>5, <1>6, <1>7, <1>8, <1>9, <1>10
     DEF Next, Starting, Closing, Waking, Worker

LEMMA OneStartStep ==
  ASSUME OneStartAtATime, HandleInv, TypeOK', [Next]_vars
  PROVE  OneStart'
<1> USE TasksAssumption
    DEF HandleInv, TypeOK, Calls, OneStart, InCall, BeforeStart, BeforeShutdown, Tasks,
        slots, object, handlers, resumed, msquic, OneStartAtATime
<1>1. CASE OpenClient \/ WrapServer \/ OpenFails
  BY <1>1 DEF OpenClient, WrapServer, OpenFails, UnopenedIsUnused, Opened
<1>2. CASE AppDrop \/ Handling \/ CallbackReturn
  BY <1>2 DEF AppDrop, Handling, SetStreamHandler, SetEventHandler, HandlerReturns, CallbackReturn
<1>3. CASE Deinit
  BY <1>3 DEF Deinit, Alive, Opened, SelfReference
<1>4. ASSUME NEW t \in Starters, StartCheck(t)
      PROVE  OneStart'
  BY <1>4 DEF StartCheck, StateAllowsStart, Opened, SelfReference
<1>5. ASSUME NEW t \in Starters, StartStore(t)
      PROVE  OneStart'
  BY <1>5 DEF StartStore
<1>6. ASSUME NEW t \in Starters, StartApi(t)
      PROVE  OneStart'
  BY <1>6 DEF StartApi
<1>7. ASSUME NEW t \in Starters, StartFail(t)
      PROVE  OneStart'
  BY <1>7 DEF StartFail
<1>8. ASSUME NEW t \in Closers, ShutdownMark(t)
      PROVE  OneStart'
  BY <1>8 DEF ShutdownMark
<1>9. ASSUME NEW t \in Closers, ShutdownStore(t) \/ ShutdownApi(t)
      PROVE  OneStart'
  BY <1>9 DEF ShutdownStore, ShutdownApi
<1>10. ASSUME NEW t \in Tasks, Return(t)
       PROVE  OneStart'
  BY <1>10 DEF Return
<1>11. ASSUME NEW vetoed \in BOOLEAN,
              \/ OnConnected(vetoed) \/ OnShutdownInitiated(vetoed) \/ OnPeerStream(vetoed)
       PROVE  OneStart'
  <2>1. mq \in {"handshaking", "connected"}
    BY <1>11 DEF OnConnected, OnShutdownInitiated, OnPeerStream
  <2>2. UNCHANGED pc /\ connectionState' \in {connectionState, "connected", "closed"}
    BY <1>11, EventEffect
  <2> QED
    BY <2>1, <2>2
<1>12. ASSUME NEW vetoed \in BOOLEAN, OnShutdownComplete(vetoed)
       PROVE  OneStart'
  <2>1. UNCHANGED pc /\ mq' = "shut" /\ connectionState # "idle"
    BY <1>12, EventEffect DEF OnShutdownComplete
  <2>2. connectionState' \in {connectionState, "closed"}
    BY <1>12 DEF OnShutdownComplete, Skip
  <2> QED
    BY <2>1, <2>2
<1>13. CASE UNCHANGED vars
  BY <1>13 DEF vars
<1> QED
  BY <1>1, <1>2, <1>3, <1>4, <1>5, <1>6, <1>7, <1>8, <1>9, <1>10, <1>11, <1>12, <1>13
     DEF Next, Lifetime, Starting, Closing, Waking, Worker

(* A shutdown() that waits is resumed by SHUTDOWN_COMPLETE only. *)
LEMMA CloserWaitsStep ==
  ASSUME TypeOK, SelfReference, CloserWaits, mq' # "shut", [Next]_vars
  PROVE  CloserWaits' \/ mq = "shut"
<1>1. PICK c \in Closers : pc[c] = "waiting" /\ continuation[c] = "pending"
  BY DEF CloserWaits
<1> SUFFICES pc'[c] = "waiting" /\ continuation'[c] = "pending"
  BY DEF CloserWaits
<1> USE <1>1, TasksAssumption DEF TypeOK, Tasks, slots, resumed
<1>2. CASE Lifetime \/ Handling \/ CallbackReturn
  BY <1>2, QuietEffect
<1>3. CASE Starting
  BY <1>3 DEF Starting, StartCheck, StartStore, StartApi, StartFail, Resume
<1>4. CASE Closing
  BY <1>4 DEF Closing, ShutdownMark, ShutdownStore, ShutdownApi
<1>5. CASE Waking
  BY <1>5 DEF Waking, Return
<1>6. ASSUME NEW vetoed \in BOOLEAN,
             OnConnected(vetoed) \/ OnShutdownInitiated(vetoed) \/ OnPeerStream(vetoed)
      PROVE  pc'[c] = "waiting" /\ continuation'[c] = "pending"
  BY <1>6, EventEffect, ShutdownCompleteOnly
<1>7. ASSUME NEW vetoed \in BOOLEAN
      PROVE  ~OnShutdownComplete(vetoed)
  BY DEF OnShutdownComplete
<1>8. CASE UNCHANGED vars
  BY <1>8 DEF vars
<1> QED
  BY <1>2, <1>3, <1>4, <1>5, <1>6, <1>7, <1>8 DEF Next, Worker

LEMMA SelfReferenceStep ==
  ASSUME OneStartAtATime, HandleInv, TypeOK', [Next]_vars
  PROVE  SelfReference'
<1> USE TasksAssumption
    DEF HandleInv, TypeOK, Calls, OneStart, SelfReference, InCall, BeforeStart, BeforeShutdown,
        Tasks, slots, object, handlers, resumed, msquic
<1>0. mqShut /\ mq = "idle" /\ mq' = "idle" => CloserWaits'
  BY CloserWaitsStep
<1>1. CASE Lifetime
  BY <1>0, <1>1 DEF Lifetime, OpenClient, WrapServer, OpenFails, AppDrop, Deinit,
     UnopenedIsUnused, Opened
<1>2. CASE Handling \/ CallbackReturn
  BY <1>0, <1>2 DEF Handling, SetStreamHandler, SetEventHandler, HandlerReturns, CallbackReturn
<1>3. ASSUME NEW t \in Starters, StartCheck(t) \/ StartStore(t)
      PROVE  SelfReference'
  BY <1>0, <1>3 DEF StartCheck, StartStore
<1>4. ASSUME NEW t \in Starters, StartApi(t)
      PROVE  SelfReference'
  BY <1>0, <1>4 DEF StartApi
<1>5. ASSUME NEW t \in Starters, StartFail(t)
      PROVE  SelfReference'
  BY <1>0, <1>5 DEF StartFail
<1>6. ASSUME NEW t \in Closers, ShutdownMark(t)
      PROVE  SelfReference'
  BY <1>0, <1>6 DEF ShutdownMark
<1>7. ASSUME NEW t \in Closers, ShutdownStore(t)
      PROVE  SelfReference'
  BY <1>0, <1>7 DEF ShutdownStore
<1>8. ASSUME NEW t \in Closers, ShutdownApi(t)
      PROVE  SelfReference'
  <2>1. mq \in {"idle", "handshaking", "connected", "shut"}
    BY <1>8 DEF ShutdownApi, UnopenedIsUnused, Opened
  <2>2. mq' # "shut" => CloserWaits'
    BY <1>8 DEF ShutdownApi, CloserWaits
  <2> QED
    BY <1>8, <2>1, <2>2 DEF ShutdownApi
<1>9. ASSUME NEW t \in Tasks, Return(t)
      PROVE  SelfReference'
  BY <1>0, <1>9 DEF Return
<1>10. ASSUME NEW vetoed \in BOOLEAN, OnConnected(vetoed) \/ OnShutdownInitiated(vetoed)
       PROVE  SelfReference'
  BY <1>10 DEF OnConnected, OnShutdownInitiated, Enter, Skip
<1>11. ASSUME NEW vetoed \in BOOLEAN, OnPeerStream(vetoed) \/ OnShutdownComplete(vetoed)
       PROVE  SelfReference'
  BY <1>11 DEF OnPeerStream, OnShutdownComplete, Enter, Skip
<1>12. CASE UNCHANGED vars
  BY <1>0, <1>12 DEF vars
<1> QED
  BY <1>1, <1>2, <1>3, <1>4, <1>5, <1>6, <1>7, <1>8, <1>9, <1>10, <1>11, <1>12
     DEF Next, Starting, Closing, Waking, Worker

LEMMA UnopenedStep ==
  ASSUME HandleInv, TypeOK', [Next]_vars
  PROVE  UnopenedIsUnused'
<1> USE DEF HandleInv, TypeOK, UnopenedIsUnused, Opened, InCall, Tasks, slots, object, handlers,
            resumed, msquic
<1>1. CASE OpenClient \/ WrapServer \/ OpenFails \/ AppDrop
  BY <1>1 DEF OpenClient, WrapServer, OpenFails, AppDrop
<1>2. CASE Deinit
  BY <1>2 DEF Deinit, Alive
<1>3. CASE Handling \/ CallbackReturn
  BY <1>3 DEF Handling, SetStreamHandler, SetEventHandler, HandlerReturns, CallbackReturn
<1>4. ASSUME NEW t \in Tasks,
             \/ t \in Starters /\ (StartCheck(t) \/ StartStore(t) \/ StartApi(t) \/ StartFail(t))
             \/ t \in Closers /\ (ShutdownMark(t) \/ ShutdownStore(t) \/ ShutdownApi(t))
             \/ Return(t)
      PROVE  UnopenedIsUnused'
  <2>1. Opened
    BY <1>4 DEF StartCheck, StartStore, StartApi, StartFail, ShutdownMark, ShutdownStore,
       ShutdownApi, Return
  <2>2. mq' \in {mq, "handshaking"}
    BY <1>4 DEF StartCheck, StartStore, StartApi, StartFail, ShutdownMark, ShutdownStore,
       ShutdownApi, Return
  <2> QED
    BY <2>1, <2>2
<1>5. ASSUME NEW vetoed \in BOOLEAN,
             \/ OnConnected(vetoed) \/ OnShutdownInitiated(vetoed)
             \/ OnPeerStream(vetoed) \/ OnShutdownComplete(vetoed)
      PROVE  UnopenedIsUnused'
  BY <1>5 DEF OnConnected, OnShutdownInitiated, OnPeerStream, OnShutdownComplete
<1>6. CASE UNCHANGED vars
  BY <1>6 DEF vars
<1> QED
  BY <1>1, <1>2, <1>3, <1>4, <1>5, <1>6
     DEF Next, Lifetime, Starting, Closing, Waking, Worker

LEMMA HandleInductive == ASSUME OneStartAtATime PROVE Spec => []HandleInv
<1>1. HandleInv /\ [Next]_vars => HandleInv'
  BY TypeStep, CallsStep, OneStartStep, SelfReferenceStep, UnopenedStep DEF HandleInv
<1> QED
  BY <1>1, InitHandle, PTL DEF Spec

-----------------------------------------------------------------------------
(* The continuations *)

(* A call that waits is past the point where it stored its continuation. *)
PendingInCall ==
  \A t \in Tasks : continuation[t] = "pending" =>
    pc[t] \in {"startApi", "startFailed", "shutdownApi", "waiting"}

(* While nobody disturbs a start(), neither MsQuic nor a shutdown() touches *)
(* the connection before ConnectionStart answers.                          *)
Undisturbed ==
  \A t \in Starters : BeforeStart(t) =>
    /\ mq = "idle" /\ ~mqShut
    /\ \A c \in Closers : ~BeforeShutdown(c)

(* What is in a slot is pending, and a start() that is not answered is in  *)
(* its slot: failing at once, it resumes what nobody else took.            *)
Slots ==
  /\ \A t \in {connectContinuation, shutdownContinuation} \ {NoTask} :
        continuation[t] = "pending"
  /\ \A t \in Starters : pc[t] \in {"startApi", "startFailed"} => connectContinuation = t

LEMMA UndisturbedStep ==
  ASSUME OneStartAtATime, StartUndisturbed, HandleInv, Undisturbed, [Next]_vars
  PROVE  Undisturbed'
<1> USE TasksAssumption
    DEF HandleInv, TypeOK, Calls, OneStart, Undisturbed, InCall, BeforeStart, BeforeShutdown,
        Tasks, slots, object, handlers, resumed, msquic
<1>1. CASE OpenClient \/ WrapServer \/ OpenFails
  BY <1>1 DEF OpenClient, WrapServer, OpenFails
<1>2. CASE Deinit
  BY <1>2 DEF Deinit, Alive
<1>3. CASE AppDrop \/ Handling \/ CallbackReturn
  BY <1>3 DEF AppDrop, Handling, SetStreamHandler, SetEventHandler, HandlerReturns, CallbackReturn
<1>4. ASSUME NEW t \in Starters, StartCheck(t)
      PROVE  Undisturbed'
  BY <1>4 DEF StartCheck, StateAllowsStart, Opened
<1>5. ASSUME NEW t \in Starters, StartStore(t) \/ StartApi(t) \/ StartFail(t)
      PROVE  Undisturbed'
  BY <1>5 DEF StartStore, StartApi, StartFail
<1>6. ASSUME NEW t \in Closers, ShutdownMark(t)
      PROVE  Undisturbed'
  BY <1>6 DEF ShutdownMark, StartUndisturbed
<1>7. ASSUME NEW t \in Closers, ShutdownStore(t) \/ ShutdownApi(t)
      PROVE  Undisturbed'
  BY <1>7 DEF ShutdownStore, ShutdownApi
<1>8. ASSUME NEW t \in Tasks, Return(t)
      PROVE  Undisturbed'
  BY <1>8 DEF Return
<1>9. ASSUME NEW vetoed \in BOOLEAN,
             \/ OnConnected(vetoed) \/ OnShutdownInitiated(vetoed)
             \/ OnPeerStream(vetoed) \/ OnShutdownComplete(vetoed)
      PROVE  Undisturbed'
  BY <1>9, EventEffect DEF MayCallBack
<1>10. CASE UNCHANGED vars
  BY <1>10 DEF vars
<1> QED
  BY <1>1, <1>2, <1>3, <1>4, <1>5, <1>6, <1>7, <1>8, <1>9, <1>10
     DEF Next, Lifetime, Starting, Closing, Waking, Worker

LEMMA PendingInCallStep ==
  ASSUME TypeOK, PendingInCall, [Next]_vars
  PROVE  PendingInCall'
<1> USE TasksAssumption DEF TypeOK, PendingInCall, Tasks, slots, resumed
<1>1. CASE Lifetime \/ Handling \/ CallbackReturn
  BY <1>1, QuietEffect
<1>2. CASE Starting
  BY <1>2 DEF Starting, StartCheck, StartStore, StartApi, StartFail, Resume
<1>3. CASE Closing
  BY <1>3 DEF Closing, ShutdownMark, ShutdownStore, ShutdownApi
<1>4. CASE Waking
  BY <1>4 DEF Waking, Return
<1>5. ASSUME NEW vetoed \in BOOLEAN,
             \/ OnConnected(vetoed) \/ OnShutdownInitiated(vetoed)
             \/ OnPeerStream(vetoed) \/ OnShutdownComplete(vetoed)
      PROVE  PendingInCall'
  <2>1. UNCHANGED pc
    BY <1>5, EventEffect
  <2>2. \A t \in Tasks : continuation'[t] = "pending" => continuation[t] = "pending"
    BY <1>5, EventEffect
  <2> QED
    BY <2>1, <2>2
<1>6. CASE UNCHANGED vars
  BY <1>6 DEF vars
<1> QED
  BY <1>1, <1>2, <1>3, <1>4, <1>5, <1>6 DEF Next, Worker

LEMMA SlotsStep ==
  ASSUME HandleInv, PendingInCall, Undisturbed, Slots, NoDoubleResume, TypeOK', [Next]_vars
  PROVE  Slots' /\ NoDoubleResume'
<1> USE TasksAssumption
    DEF HandleInv, TypeOK, PendingInCall, Slots, NoDoubleResume, BeforeStart, Tasks, slots, resumed
<1>1. CASE Lifetime \/ Handling \/ CallbackReturn
  BY <1>1, QuietEffect
<1>2. ASSUME NEW t \in Starters, StartCheck(t)
      PROVE  Slots' /\ NoDoubleResume'
  BY <1>2 DEF StartCheck
<1>3. ASSUME NEW t \in Starters, StartStore(t)
      PROVE  Slots' /\ NoDoubleResume'
  BY <1>3 DEF StartStore, Calls, InCall
<1>4. ASSUME NEW t \in Starters, StartApi(t)
      PROVE  Slots' /\ NoDoubleResume'
  BY <1>4 DEF StartApi
<1>5. ASSUME NEW t \in Starters, StartFail(t)
      PROVE  Slots' /\ NoDoubleResume'
  BY <1>5 DEF StartFail, Resume, Calls, InCall
<1>6. ASSUME NEW t \in Closers, ShutdownMark(t)
      PROVE  Slots' /\ NoDoubleResume'
  BY <1>6 DEF ShutdownMark
<1>7. ASSUME NEW t \in Closers, ShutdownStore(t) \/ ShutdownApi(t)
      PROVE  Slots' /\ NoDoubleResume'
  BY <1>7 DEF ShutdownStore, ShutdownApi
<1>8. ASSUME NEW t \in Tasks, Return(t)
      PROVE  Slots' /\ NoDoubleResume'
  BY <1>8 DEF Return
<1>9. ASSUME NEW vetoed \in BOOLEAN,
             \/ OnConnected(vetoed) \/ OnShutdownInitiated(vetoed)
             \/ OnPeerStream(vetoed) \/ OnShutdownComplete(vetoed)
      PROVE  Slots' /\ NoDoubleResume'
  <2>1. ~trapped' /\ UNCHANGED pc
    BY <1>9, EventEffect
  <2>2. \A t \in Starters : pc[t] \notin {"startApi", "startFailed"}
    BY <1>9, EventEffect DEF Undisturbed, MayCallBack
  <2>3. \A t \in {connectContinuation', shutdownContinuation'} \ {NoTask} :
           continuation'[t] = "pending"
    BY <1>9, EventEffect
  <2> QED
    BY <2>1, <2>2, <2>3
<1>10. CASE UNCHANGED vars
  BY <1>10 DEF vars
<1> QED
  BY <1>1, <1>2, <1>3, <1>4, <1>5, <1>6, <1>7, <1>8, <1>9, <1>10
     DEF Next, Starting, Closing, Waking, Worker

(* start() failing at once, CONNECTED and the events that end a connection *)
(* resume a caller once in all, also when several shutdown() overlap.      *)
THEOREM ResumedOnce ==
  ASSUME OneStartAtATime, StartUndisturbed
  PROVE  Spec => []NoDoubleResume
<1> DEFINE R == PendingInCall /\ Undisturbed /\ Slots /\ NoDoubleResume
<1>1. Init => R
  BY DEF Init, PendingInCall, Undisturbed, Slots, NoDoubleResume, BeforeStart, Tasks
<1>2. HandleInv /\ HandleInv' /\ R /\ [Next]_vars => R'
  BY PendingInCallStep, UndisturbedStep, SlotsStep DEF HandleInv
<1>3. R => NoDoubleResume
  OBVIOUS
<1> HIDE DEF R
<1> QED
  BY <1>1, <1>2, <1>3, HandleInductive, PTL DEF Spec

-----------------------------------------------------------------------------
(* Who waits *)

(* The start() that waits is the one in the slot. *)
StartHeld == \A s \in Starters : continuation[s] = "pending" => connectContinuation = s

(* So is the shutdown(), of which there is one at a time. *)
ShutdownHeld ==
  /\ \A c, d \in Closers : InCall(c) /\ InCall(d) => c = d
  /\ \A c \in Closers : continuation[c] = "pending" => shutdownContinuation = c

LEMMA StartHeldStep ==
  ASSUME HandleInv, PendingInCall, StartHeld, [Next]_vars
  PROVE  StartHeld'
<1> USE TasksAssumption
    DEF HandleInv, TypeOK, PendingInCall, Calls, InCall, StartHeld, Tasks, slots, resumed
<1>1. CASE Lifetime \/ Handling \/ CallbackReturn
  BY <1>1, QuietEffect
<1>2. ASSUME NEW t \in Starters, StartCheck(t) \/ StartApi(t)
      PROVE  StartHeld'
  BY <1>2 DEF StartCheck, StartApi
<1>3. ASSUME NEW t \in Starters, StartStore(t)
      PROVE  StartHeld'
  BY <1>3 DEF StartStore
<1>4. ASSUME NEW t \in Starters, StartFail(t)
      PROVE  StartHeld'
  BY <1>4 DEF StartFail, Resume
<1>5. CASE Closing \/ Waking
  BY <1>5 DEF Closing, ShutdownMark, ShutdownStore, ShutdownApi, Waking, Return
<1>6. ASSUME NEW vetoed \in BOOLEAN,
             \/ OnConnected(vetoed) \/ OnShutdownInitiated(vetoed)
             \/ OnPeerStream(vetoed) \/ OnShutdownComplete(vetoed)
      PROVE  StartHeld'
  BY <1>6, EventEffect
<1>7. CASE UNCHANGED vars
  BY <1>7 DEF vars
<1> QED
  BY <1>1, <1>2, <1>3, <1>4, <1>5, <1>6, <1>7 DEF Next, Starting, Worker

LEMMA ShutdownHeldStep ==
  ASSUME OneShutdownAtATime, HandleInv, PendingInCall, ShutdownHeld, [Next]_vars
  PROVE  ShutdownHeld'
<1> USE TasksAssumption
    DEF HandleInv, TypeOK, PendingInCall, InCall, ShutdownHeld, Tasks, slots, resumed
<1>1. CASE Lifetime \/ Handling \/ CallbackReturn
  BY <1>1, QuietEffect
<1>2. CASE Starting
  BY <1>2 DEF Starting, StartCheck, StartStore, StartApi, StartFail, Resume
<1>3. ASSUME NEW t \in Closers, ShutdownMark(t)
      PROVE  ShutdownHeld'
  BY <1>3 DEF ShutdownMark, OneShutdownAtATime
<1>4. ASSUME NEW t \in Closers, ShutdownStore(t) \/ ShutdownApi(t)
      PROVE  ShutdownHeld'
  BY <1>4 DEF ShutdownStore, ShutdownApi
<1>5. ASSUME NEW t \in Tasks, Return(t)
      PROVE  ShutdownHeld'
  BY <1>5 DEF Return
<1>6. ASSUME NEW vetoed \in BOOLEAN,
             \/ OnConnected(vetoed) \/ OnShutdownInitiated(vetoed)
             \/ OnPeerStream(vetoed) \/ OnShutdownComplete(vetoed)
      PROVE  ShutdownHeld'
  BY <1>6, EventEffect
<1>7. CASE UNCHANGED vars
  BY <1>7 DEF vars
<1> QED
  BY <1>1, <1>2, <1>3, <1>4, <1>5, <1>6, <1>7 DEF Next, Closing, Waking, Worker

LEMMA StartsAreHeld == ASSUME OneStartAtATime PROVE Spec => [](PendingInCall /\ StartHeld)
<1>1. Init => PendingInCall /\ StartHeld
  BY DEF Init, PendingInCall, StartHeld, Tasks
<1>2. HandleInv /\ PendingInCall /\ StartHeld /\ [Next]_vars => (PendingInCall /\ StartHeld)'
  BY PendingInCallStep, StartHeldStep DEF HandleInv
<1> QED
  BY <1>1, <1>2, HandleInductive, PTL DEF Spec

(* A task that waits on a connection is in the slot of its kind, if calls  *)
(* of one kind do not overlap; start() and shutdown() may.                 *)
THEOREM WaitersAreHeld ==
  ASSUME OneStartAtATime, OneShutdownAtATime
  PROVE  Spec => []PendingIsHeld
<1>1. Init => ShutdownHeld
  BY DEF Init, ShutdownHeld, InCall, Tasks
<1>2. HandleInv /\ PendingInCall /\ ShutdownHeld /\ [Next]_vars => ShutdownHeld'
  BY ShutdownHeldStep
<1>3. StartHeld /\ ShutdownHeld => PendingIsHeld
  BY DEF StartHeld, ShutdownHeld, PendingIsHeld, Tasks
<1> QED
  BY <1>1, <1>2, <1>3, StartsAreHeld, HandleInductive, PTL DEF Spec

-----------------------------------------------------------------------------
(* Answers *)

(* Every task that waits has a step to wait for: a start() the answer of   *)
(* ConnectionStart or the end of the handshake, a shutdown() its own       *)
(* ConnectionShutdown or SHUTDOWN_COMPLETE.  Only a shutdown() that stored *)
(* its continuation after SHUTDOWN_COMPLETE is left out.                   *)
AnswerIsDue ==
  /\ \A s \in Starters : continuation[s] = "pending" => BeforeStart(s) \/ mq = "handshaking"
  /\ \A c \in Closers : continuation[c] = "pending" =>
        pc[c] = "shutdownApi" \/ mqShut \/ mq = "shut"

LEMMA AnswerIsDueStep ==
  ASSUME HandleInv, PendingInCall, StartHeld, eventHandler = "passing", AnswerIsDue, TypeOK',
         [Next]_vars
  PROVE  AnswerIsDue'
<1> USE TasksAssumption
    DEF HandleInv, TypeOK, PendingInCall, BeforeStart, AnswerIsDue, Tasks, slots, resumed, object,
        msquic
<1>1. CASE OpenClient \/ WrapServer \/ OpenFails
  BY <1>1 DEF OpenClient, WrapServer, OpenFails, UnopenedIsUnused, Opened, InCall
<1>2. CASE Deinit
  BY <1>2 DEF Deinit, Alive, InCall
<1>3. CASE AppDrop \/ Handling \/ CallbackReturn
  BY <1>3 DEF AppDrop, Handling, SetStreamHandler, SetEventHandler, HandlerReturns, CallbackReturn
<1>4. ASSUME NEW t \in Starters, StartCheck(t) \/ StartStore(t)
      PROVE  AnswerIsDue'
  BY <1>4 DEF StartCheck, StartStore
<1>5. ASSUME NEW t \in Starters, StartApi(t) \/ StartFail(t)
      PROVE  AnswerIsDue'
  BY <1>5 DEF StartApi, StartFail, Resume
<1>6. ASSUME NEW t \in Closers, ShutdownMark(t) \/ ShutdownStore(t) \/ ShutdownApi(t)
      PROVE  AnswerIsDue'
  BY <1>6 DEF ShutdownMark, ShutdownStore, ShutdownApi
<1>7. ASSUME NEW t \in Tasks, Return(t)
      PROVE  AnswerIsDue'
  BY <1>7 DEF Return
<1>8. ASSUME NEW vetoed \in BOOLEAN, OnConnected(vetoed) \/ OnShutdownComplete(vetoed)
      PROVE  AnswerIsDue'
  <2>1. ~vetoed /\ connectContinuation' = NoTask
    BY <1>8 DEF OnConnected, OnShutdownComplete, MayVeto, SlotAfterConnected
  <2>2. \A s \in Starters : continuation'[s] # "pending"
    BY <1>8, <2>1, EventEffect DEF StartHeld
  <2>3. \A c \in Closers : continuation'[c] = "pending" => continuation[c] = "pending"
    BY <1>8, EventEffect
  <2>4. UNCHANGED pc /\ (mq' = "shut" \/ UNCHANGED mqShut) /\ mq # "shut"
    BY <1>8, EventEffect DEF OnConnected, OnShutdownComplete
  <2> QED
    BY <2>2, <2>3, <2>4
<1>9. ASSUME NEW vetoed \in BOOLEAN, OnShutdownInitiated(vetoed) \/ OnPeerStream(vetoed)
      PROVE  AnswerIsDue'
  <2>1. UNCHANGED pc
    BY <1>9, EventEffect
  <2>2. UNCHANGED mq /\ (mqShut' = TRUE \/ mqShut' = mqShut)
    BY <1>9 DEF OnShutdownInitiated, OnPeerStream
  <2>3. \A t \in Tasks : continuation'[t] = "pending" => continuation[t] = "pending"
    BY <1>9, EventEffect
  <2> QED
    BY <2>1, <2>2, <2>3
<1>10. CASE UNCHANGED vars
  BY <1>10 DEF vars
<1> QED
  BY <1>1, <1>2, <1>3, <1>4, <1>5, <1>6, <1>7, <1>8, <1>9, <1>10
     DEF Next, Lifetime, Starting, Closing, Waking, Worker

LEMMA NeverVetoes == ASSUME NoVeto PROVE Spec => [](eventHandler = "passing")
<1>1. Init => eventHandler = "passing"
  BY DEF Init, NoVeto
<1>2. eventHandler = "passing" /\ [Next]_vars => (eventHandler = "passing")'
  BY DEF NoVeto, Next, Lifetime, OpenClient, WrapServer, OpenFails, AppDrop, Deinit, Starting,
     StartCheck, StartStore, StartApi, StartFail, Closing, ShutdownMark, ShutdownStore,
     ShutdownApi, Waking, Return, Handling, SetStreamHandler, SetEventHandler, HandlerReturns,
     Worker, OnConnected, OnShutdownInitiated, OnPeerStream, OnShutdownComplete, Enter,
     CallbackReturn, handlers, vars
<1> QED
  BY <1>1, <1>2, PTL DEF Spec

(* No wake-up of a start() is lost, though a shutdown() or the loss of the *)
(* connection overtakes it; that of a shutdown() is lost only if it comes  *)
(* before the shutdown() stored its continuation.                          *)
THEOREM WaitersAreAnswered ==
  ASSUME OneStartAtATime, NoVeto
  PROVE  Spec => []AnswerIsDue
<1>1. Init => AnswerIsDue
  BY DEF Init, AnswerIsDue, Tasks
<1>2. /\ HandleInv /\ HandleInv' /\ PendingInCall /\ StartHeld /\ eventHandler = "passing"
      /\ AnswerIsDue /\ [Next]_vars
      => AnswerIsDue'
  BY AnswerIsDueStep DEF HandleInv
<1> QED
  BY <1>1, <1>2, NeverVetoes, StartsAreHeld, HandleInductive, PTL DEF Spec

-----------------------------------------------------------------------------
(* Refinement *)

LEMMA StageInit == Init => CH!Init
  BY DEF Init, CH!Init, ObjectStage, HandleStage, Opened

(* A connection MsQuic may call is alive: it retains itself, or the        *)
(* shutdown() that made MsQuic call it waits.                              *)
LEMMA CalledIsAlive ==
  ASSUME HandleInv, MayCallBack
  PROVE  Alive /\ Opened
<1>1. CASE retainedSelf
  BY <1>1 DEF HandleInv, SelfReference, MayCallBack, Alive, Opened
<1>2. CASE ~retainedSelf
  <2>1. mq = "idle" /\ CloserWaits
    BY <1>2 DEF HandleInv, TypeOK, SelfReference, MayCallBack
  <2> QED
    BY <2>1 DEF CloserWaits, Alive, InCall, Opened, Tasks
<1> QED
  BY <1>1, <1>2 DEF HandleInv, TypeOK

(* Every step of a connection is one step of the life cycle, or none. *)
LEMMA StageStep ==
  ASSUME OneStartAtATime, HandleInv, HandleInv', [Next]_vars
  PROVE  [CH!Next]_(CH!vars)
<1> USE DEF ObjectStage, HandleStage, Opened, MayCallBack
<1>1. CASE OpenClient \/ WrapServer
  <2>1. CH!Create
    BY <1>1 DEF CH!Create, OpenClient, WrapServer, Alive, HandleInv, UnopenedIsUnused, SelfReference
  <2> QED
    BY <2>1 DEF CH!Next
<1>2. CASE OpenFails
  <2>1. CH!CreateFails
    BY <1>2 DEF CH!CreateFails, OpenFails
  <2> QED
    BY <2>1 DEF CH!Next
<1>3. CASE AppDrop \/ HandlerReturns
  <2>1. UNCHANGED <<mq, mqShut, callback, retainedSelf>> /\ UNCHANGED pc
    BY <1>3 DEF AppDrop, HandlerReturns, msquic
  <2>2. Alive
    BY <1>3 DEF AppDrop, HandlerReturns, Alive
  <2>3. MayCallBack' => Alive'
    BY CalledIsAlive, PTL
  <2>4. CH!Die \/ UNCHANGED CH!vars
    BY <2>1, <2>2, <2>3 DEF CH!Die, CH!vars, Alive, HandleInv, TypeOK, UnopenedIsUnused
  <2> QED
    BY <2>4 DEF CH!Next
<1>4. CASE Deinit
  <2>1. ~MayCallBack /\ ~callback
    BY <1>4, CalledIsAlive DEF Deinit, Alive
  <2>2. CH!Close
    BY <1>4, <2>1 DEF Deinit, CH!Close, Alive, object, HandleInv, TypeOK
  <2> QED
    BY <2>2 DEF CH!Next
<1>5. ASSUME NEW t \in Starters, StartCheck(t) \/ StartStore(t) \/ StartApi(t) \/ StartFail(t)
      PROVE  CH!Arm \/ UNCHANGED CH!vars
  <2>1. Alive /\ Opened
    BY <1>5 DEF StartCheck, StartStore, StartApi, StartFail, Alive, Reachable, InCall, Tasks,
       HandleInv, UnopenedIsUnused
  <2>2. pc'[t] \notin {"idle", "done"}
    BY <1>5 DEF StartCheck, StartStore, StartApi, StartFail, HandleInv, TypeOK, Tasks
  <2>3. Alive'
    BY <2>2 DEF Alive, InCall, Tasks
  <2>4. CASE UNCHANGED <<mq, mqShut, callback>>
    BY <2>1, <2>3, <2>4 DEF CH!vars
  <2>5. CASE StartApi(t) /\ mq = "idle" /\ mq' = "handshaking"
    <3>1. UNCHANGED <<callback, mqShut>>
      BY <2>5 DEF StartApi, object
    <3>2. CASE mqShut
      BY <2>1, <2>3, <2>5, <3>1, <3>2 DEF CH!vars
    <3>3. CASE ~mqShut
      BY <2>1, <2>3, <2>5, <3>1, <3>3 DEF CH!Arm
    <3> QED
      BY <3>2, <3>3
  <2> QED
    BY <1>5, <2>4, <2>5 DEF StartCheck, StartStore, StartApi, StartFail, object, msquic
<1>6. ASSUME NEW t \in Closers, ShutdownMark(t) \/ ShutdownStore(t) \/ ShutdownApi(t)
      PROVE  CH!Arm \/ UNCHANGED CH!vars
  <2>1. Alive /\ Opened
    BY <1>6 DEF ShutdownMark, ShutdownStore, ShutdownApi, Alive, Reachable, InCall, Tasks,
       HandleInv, UnopenedIsUnused
  <2>2. pc'[t] \notin {"idle", "done"}
    BY <1>6 DEF ShutdownMark, ShutdownStore, ShutdownApi, HandleInv, TypeOK, Tasks
  <2>3. Alive'
    BY <2>2 DEF Alive, InCall, Tasks
  <2>4. UNCHANGED <<mq, callback>>
    BY <1>6 DEF ShutdownMark, ShutdownStore, ShutdownApi, object, msquic
  <2>5. CASE UNCHANGED mqShut
    BY <2>1, <2>3, <2>4, <2>5 DEF CH!vars
  <2>6. CASE ~mqShut /\ mqShut'
    BY <2>1, <2>3, <2>4, <2>6 DEF CH!Arm, CH!vars
  <2>7. UNCHANGED mqShut \/ (~mqShut /\ mqShut')
    BY <1>6 DEF ShutdownMark, ShutdownStore, ShutdownApi, msquic, HandleInv, TypeOK, SelfReference
  <2> QED
    BY <2>5, <2>6, <2>7
<1>7. ASSUME NEW t \in Tasks, Return(t)
      PROVE  CH!Die \/ UNCHANGED CH!vars
  <2>1. Alive /\ UNCHANGED <<mq, mqShut, callback, retainedSelf>>
    BY <1>7 DEF Return, Alive, InCall, object, msquic
  <2>2. CASE Alive'
    BY <2>1, <2>2 DEF CH!vars
  <2>3. CASE ~Alive'
    <3>1. ~callback /\ ~retainedSelf
      BY <2>1, <2>3 DEF Alive, HandleInv, TypeOK
    <3>2. ~MayCallBack'
      BY <2>3, CalledIsAlive, PTL
    <3>3. Opened
      BY <1>7 DEF Return, InCall, HandleInv, UnopenedIsUnused
    <3> QED
      BY <2>1, <2>3, <3>1, <3>2, <3>3 DEF CH!Die
  <2> QED
    BY <2>2, <2>3
<1>8. CASE SetStreamHandler \/ SetEventHandler
  BY <1>8 DEF SetStreamHandler, SetEventHandler, CH!vars, Alive, InCall, object, msquic
<1>9. ASSUME NEW vetoed \in BOOLEAN,
             \/ OnConnected(vetoed) \/ OnShutdownInitiated(vetoed)
             \/ OnPeerStream(vetoed) \/ OnShutdownComplete(vetoed)
      PROVE  CH!Enter
  <2>1. Alive /\ ~callback /\ callback' /\ MayCallBack
    BY <1>9, EventEffect DEF HandleInv
  <2>2. Opened /\ Opened'
    BY <1>9 DEF OnConnected, OnShutdownInitiated, OnPeerStream, OnShutdownComplete
  <2> QED
    BY <2>1, <2>2 DEF CH!Enter, Alive, HandleInv, TypeOK
<1>10. CASE CallbackReturn
  <2>1. Alive /\ Opened /\ UNCHANGED <<mq, mqShut, retainedSelf>>
    BY <1>10 DEF CallbackReturn, Alive, msquic, HandleInv, UnopenedIsUnused
  <2>2. MayCallBack' => Alive'
    BY CalledIsAlive, PTL
  <2>3. CH!Leave
    BY <1>10, <2>1, <2>2 DEF CallbackReturn, CH!Leave
  <2> QED
    BY <2>3 DEF CH!Next
<1>11. CASE UNCHANGED vars
  BY <1>11 DEF vars, CH!vars, Alive, InCall, object, msquic
<1> QED
  BY <1>1, <1>2, <1>3, <1>4, <1>5, <1>6, <1>7, <1>8, <1>9, <1>10, <1>11
     DEF Next, Lifetime, Starting, Closing, Waking, Handling, Worker, CH!Next

(* A QuicConnection keeps the promise of every QuicObject, also when its   *)
(* event handler vetoes and when a start is refused: callbacks reach a     *)
(* live object, and ConnectionClose is called once, while none runs on it. *)
THEOREM ConnectionImplementsCallbackHandle ==
  ASSUME OneStartAtATime
  PROVE  Spec => KeepsHandleSafe
<1>1. HandleInv /\ HandleInv' /\ [Next]_vars => [CH!Next]_(CH!vars)
  BY StageStep
<1> QED
  BY <1>1, StageInit, HandleInductive, PTL DEF Spec, KeepsHandleSafe, CH!Spec

(* What follows from the life cycle (CallbackHandleProofs), for this module. *)
Promise == INSTANCE CallbackHandleProofs
             WITH object <- ObjectStage, handle <- HandleStage,
                  frame <- callback

(* MsQuic calls a connection back only while its object is alive, and      *)
(* ConnectionClose is called once, by deinit, with no handler running.     *)
THEOREM ConnectionClosedOnce ==
  ASSUME OneStartAtATime
  PROVE  Spec => []Promise!Safe /\ [][Promise!ClosedIsTheEnd]_(Promise!vars)
<1>1. CH!Init => Promise!Init
  BY DEF CH!Init, Promise!Init
<1>2. [CH!Next]_(CH!vars) => [Promise!Next]_(Promise!vars)
  BY DEF CH!vars, Promise!vars, CH!Next, Promise!Next,
         CH!Create, CH!CreateFails, CH!Arm, CH!Enter, CH!Leave, CH!Die, CH!Close,
         Promise!Create, Promise!CreateFails, Promise!Arm, Promise!Enter,
         Promise!Leave, Promise!Die, Promise!Close
<1>3. CH!Spec => Promise!Spec
  BY <1>1, <1>2, PTL DEF CH!Spec, Promise!Spec
<1> QED
  BY <1>3, ConnectionImplementsCallbackHandle, Promise!HandleIsSafe, Promise!ClosedOnce, PTL
     DEF KeepsHandleSafe
===============================================================================
