-------------------------- MODULE QuicListenerProofs --------------------------
(***************************************************************************)
(* A listener closes no connection twice, whatever the application does;   *)
(* it accepts none after stop(), and implements the life cycle of a C      *)
(* handle, if the application does not start it again.                     *)
(***************************************************************************)
EXTENDS QuicListener, FiniteSetTheorems, TLAPS

(* start() is not called after stop(). *)
StartedOnce == "restart" \notin Usage

(* The slot holds a stop() that waits, and a task has a continuation from  *)
(* its first step on.                                                      *)
Slot ==
  /\ stopContinuation # NoTask => continuation[stopContinuation] = "pending"
  /\ \A t \in Stoppers : pc[t] = "idle" <=> continuation[t] = "none"

(* Who may close a connection follows from the verdict on it. *)
Verdicts ==
  \A c \in Connections :
    /\ offer[c] = "offered" => c \in running /\ wrapper[c] = "none"
    /\ offer[c] = "none" => c \notin running /\ wrapper[c] = "none"
    /\ "msquic" \in closedBy[c] => offer[c] = "refused"
    /\ "wrapper" \in closedBy[c] \/ wrapper[c] \in {"loose", "gone"} => offer[c] = "accepted"

(* Handlers run only between start() and STOP_COMPLETE, and after the      *)
(* STOP_COMPLETE that resumed a stop() the listener does not listen again. *)
Stopped ==
  /\ running # {} => mq \in {"listening", "stopping"}
  /\ mq = "stopping" => \E t \in Stoppers : pc[t] # "idle"
  /\ \A t \in Stoppers : continuation[t] = "ok" => mq \in {"idle", "closed"}

(* The listener retains itself until STOP_COMPLETE; before it is opened    *)
(* and after it is closed nobody has it.                                   *)
SelfReference ==
  /\ mq \in {"listening", "stopping"} \/ (mq = "idle" /\ \A t \in Stoppers : pc[t] = "idle")
       => retainedSelf /\ ~stopFrame
  /\ ~Opened => ~Alive

IInv == TypeOK /\ Slot /\ Stopped /\ SelfReference
-----------------------------------------------------------------------------
(* Whatever the application does *)

LEMMA InitSafe == Init => TypeOK /\ Slot /\ Verdicts
  BY StoppersAssumption DEF Init, TypeOK, Slot, Verdicts

LEMMA SafeStep ==
  ASSUME TypeOK, Slot, [Next]_vars
  PROVE  TypeOK' /\ Slot'
<1> USE StoppersAssumption DEF TypeOK, Slot, InCall, calls, frames, offered
<1>1. CASE Application
  BY <1>1 DEF Application, Open, OnNewConnection, Start, AppDrop, Deinit, SelfAfterInit, Opened
<1>2. ASSUME NEW t \in Stoppers, StopStore(t)
      PROVE  TypeOK' /\ Slot'
  BY <1>2 DEF StopStore, ContinuationAtStop
<1>3. ASSUME NEW t \in Stoppers, StopApi(t)
      PROVE  TypeOK' /\ Slot'
  BY <1>3 DEF StopApi
<1>4. ASSUME NEW t \in Stoppers, Return(t)
      PROVE  TypeOK' /\ Slot'
  BY <1>4 DEF Return
<1>5. ASSUME NEW c \in Connections, NewConnection(c) \/ NewConnectionReturns(c)
      PROVE  TypeOK' /\ Slot'
  <2>1. NewConnectionReturns(c) => closedBy' \in [Connections -> SUBSET {"msquic", "wrapper"}]
    BY DEF NewConnectionReturns
  <2> QED
    BY <1>5, <2>1 DEF NewConnection, NewConnectionReturns
<1>6. ASSUME NEW c \in Connections, Accept(c) \/ Refuse(c)
      PROVE  TypeOK' /\ Slot'
  BY <1>6 DEF Accept, Refuse, WrapperAfterRefusal
<1>7. CASE Completing
  <2>1. CASE StopComplete
    <3>1. /\ continuation' \in [Stoppers -> {"none", "pending", "ok"}]
          /\ \A t \in Stoppers : continuation'[t] = "none" <=> continuation[t] = "none"
      BY <2>1 DEF StopComplete, ResumedAtStop
    <3> QED
      BY <2>1, <3>1 DEF StopComplete, SlotAfterStop, SelfAfterStop
  <2> QED
    BY <1>7, <2>1 DEF Completing, StopCompleteReturns
<1>8. ASSUME NEW c \in Connections, ConnectionEnds(c) \/ ConnectionDeinit(c)
      PROVE  TypeOK' /\ Slot'
  BY <1>8 DEF ConnectionEnds, ConnectionDeinit
<1>9. CASE UNCHANGED vars
  BY <1>9 DEF vars
<1> QED
  BY <1>1, <1>2, <1>3, <1>4, <1>5, <1>6, <1>7, <1>8, <1>9
     DEF Next, Stopping, Offering, Deciding, Connecting

LEMMA VerdictsStep ==
  ASSUME TypeOK, Verdicts, [Next]_vars
  PROVE  Verdicts'
<1> USE DEF TypeOK, Verdicts, frames, offered
<1>1. CASE Application
  BY <1>1 DEF Application, Open, OnNewConnection, Start, AppDrop, Deinit
<1>2. CASE Stopping
  BY <1>2 DEF Stopping, StopStore, StopApi, Return
<1>3. ASSUME NEW c \in Connections, NewConnection(c)
      PROVE  Verdicts'
  BY <1>3 DEF NewConnection
<1>4. ASSUME NEW c \in Connections, NewConnectionReturns(c)
      PROVE  Verdicts'
  BY <1>4 DEF NewConnectionReturns
<1>5. ASSUME NEW c \in Connections, Accept(c) \/ Refuse(c)
      PROVE  Verdicts'
  BY <1>5 DEF Accept, Refuse, WrapperAfterRefusal
<1>6. CASE Completing
  BY <1>6 DEF Completing, StopComplete, StopCompleteReturns
<1>7. ASSUME NEW c \in Connections, ConnectionEnds(c) \/ ConnectionDeinit(c)
      PROVE  Verdicts'
  BY <1>7 DEF ConnectionEnds, ConnectionDeinit
<1>8. CASE UNCHANGED vars
  BY <1>8 DEF vars
<1> QED
  BY <1>1, <1>2, <1>3, <1>4, <1>5, <1>6, <1>7, <1>8 DEF Next, Offering, Deciding, Connecting

(* Every variable of a listener has its type, for any number of tasks and  *)
(* connections and any use; an accepted connection has its QuicConnection. *)
THEOREM TypeCorrect == Spec => []TypeOK
<1>1. Spec => [](TypeOK /\ Slot)
  BY InitSafe, SafeStep, PTL DEF Spec
<1> QED
  BY <1>1, PTL

(* "Do NOT call ConnectionClose here when returning failure": the handle   *)
(* of an offered connection is closed by MsQuic or by its QuicConnection,  *)
(* never by both, for any use of the listener.                             *)
THEOREM NoDoubleClose == Spec => []ClosedByOne
<1>1. TypeOK /\ Verdicts => ClosedByOne
  <2> SUFFICES ASSUME TypeOK, Verdicts, NEW c \in Connections
               PROVE  Cardinality(closedBy[c]) <= 1
    BY DEF ClosedByOne
  <2>1. closedBy[c] \in {{}, {"msquic"}, {"wrapper"}}
    <3>1. closedBy[c] \subseteq {"msquic", "wrapper"}
      BY DEF TypeOK
    <3>2. ~("msquic" \in closedBy[c] /\ "wrapper" \in closedBy[c])
      BY DEF Verdicts
    <3> QED
      BY <3>1, <3>2
  <2>2. /\ Cardinality({}) = 0
        /\ Cardinality({"msquic"}) = 1
        /\ Cardinality({"wrapper"}) = 1
    BY FS_EmptySet, FS_Singleton
  <2>3. Cardinality(closedBy[c]) \in {0, 1}
    BY <2>1, <2>2
  <2> QED
    BY <2>3
<1>2. Spec => []Verdicts
  <2>1. Spec => [](TypeOK /\ Slot)
    BY InitSafe, SafeStep, PTL DEF Spec
  <2> QED
    BY <2>1, InitSafe, VerdictsStep, PTL DEF Spec
<1> QED
  BY <1>1, <1>2, TypeCorrect, PTL
-----------------------------------------------------------------------------
(* Answers *)

(* stop() is called of a listener that listens. *)
StopsListening == "stopIdle" \notin Usage

(* The stop() in the slot is about to call ListenerStop, or STOP_COMPLETE  *)
(* is due; it is the only one that waits, unless another came in between.  *)
AnswerIsDue ==
  /\ stopContinuation # NoTask => pc[stopContinuation] = "stopApi" \/ mq = "stopping"
  /\ "concurrentStop" \notin Usage =>
        \A t \in Stoppers : continuation[t] = "pending" => stopContinuation = t

(* Nobody is in the slot of a listener that does not listen, and a stop()  *)
(* that returned was resumed.                                              *)
SlotIsListening ==
  /\ stopContinuation # NoTask => mq \in {"listening", "stopping"}
  /\ \A t \in Stoppers : pc[t] = "done" => continuation[t] = "ok"

LEMMA AnswerIsDueStep ==
  ASSUME StopsListening, TypeOK, Slot, SlotIsListening, AnswerIsDue, [Next]_vars
  PROVE  (SlotIsListening /\ AnswerIsDue)'
<1> USE StoppersAssumption
    DEF TypeOK, Slot, SlotIsListening, AnswerIsDue, InCall, calls, frames, offered
<1>1. CASE Open \/ OnNewConnection \/ Start \/ AppDrop
  BY <1>1 DEF Open, OnNewConnection, Start, AppDrop
<1>2. CASE Deinit
  BY <1>2 DEF Deinit, Alive
<1>3. ASSUME NEW t \in Stoppers, StopStore(t)
      PROVE  (SlotIsListening /\ AnswerIsDue)'
  BY <1>3 DEF StopStore, ContinuationAtStop, StopsListening
<1>4. ASSUME NEW t \in Stoppers, StopApi(t)
      PROVE  (SlotIsListening /\ AnswerIsDue)'
  BY <1>4 DEF StopApi
<1>5. ASSUME NEW t \in Stoppers, Return(t)
      PROVE  (SlotIsListening /\ AnswerIsDue)'
  BY <1>5 DEF Return
<1>6. CASE StopComplete
  BY <1>6 DEF StopComplete, SlotAfterStop, ResumedAtStop
<1>7. CASE StopCompleteReturns \/ Offering \/ Deciding \/ Connecting
  BY <1>7 DEF StopCompleteReturns, Offering, NewConnection, NewConnectionReturns, Deciding,
     Accept, Refuse, Connecting, ConnectionEnds, ConnectionDeinit
<1>8. CASE UNCHANGED vars
  BY <1>8 DEF vars
<1> QED
  BY <1>1, <1>2, <1>3, <1>4, <1>5, <1>6, <1>7, <1>8
     DEF Next, Application, Stopping, Completing

(* No wake-up of stop() is lost, also when connections are offered while   *)
(* it waits, when several stop() overlap and when the listener is started  *)
(* again.                                                                  *)
THEOREM StopIsAnswered == ASSUME StopsListening PROVE Spec => []AnswerIsDue
<1>1. Spec => [](TypeOK /\ Slot)
  BY InitSafe, SafeStep, PTL DEF Spec
<1>2. Init => SlotIsListening /\ AnswerIsDue
  BY DEF Init, SlotIsListening, AnswerIsDue
<1> QED
  BY <1>1, <1>2, AnswerIsDueStep, PTL DEF Spec
-----------------------------------------------------------------------------
(* A listener that is started once *)

LEMMA InitOnce == Init => IInv
<1>1. Init => Stopped /\ SelfReference
  BY DEF Init, Stopped, SelfReference, Opened, Alive, InCall
<1> QED
  BY <1>1, InitSafe DEF IInv

LEMMA StoppedStep ==
  ASSUME StartedOnce, IInv, [Next]_vars
  PROVE  Stopped'
<1> USE DEF IInv, TypeOK, Slot, Stopped, InCall, calls, frames, offered
<1>1. CASE Open \/ OnNewConnection \/ AppDrop
  BY <1>1 DEF Open, OnNewConnection, AppDrop
<1>2. CASE Start
  BY <1>2 DEF Start, StartedOnce
<1>3. CASE Deinit
  BY <1>3 DEF Deinit, Alive
<1>4. ASSUME NEW t \in Stoppers, StopStore(t)
      PROVE  Stopped'
  BY <1>4 DEF StopStore, ContinuationAtStop
<1>5. ASSUME NEW t \in Stoppers, StopApi(t)
      PROVE  Stopped'
  BY <1>5 DEF StopApi
<1>6. ASSUME NEW t \in Stoppers, Return(t)
      PROVE  Stopped'
  BY <1>6 DEF Return
<1>7. ASSUME NEW c \in Connections, NewConnection(c) \/ NewConnectionReturns(c)
      PROVE  Stopped'
  BY <1>7 DEF NewConnection, NewConnectionReturns
<1>8. CASE StopComplete
  BY <1>8 DEF StopComplete
<1>9. CASE StopCompleteReturns \/ Deciding \/ Connecting
  BY <1>9 DEF StopCompleteReturns, Deciding, Accept, Refuse, Connecting, ConnectionEnds,
     ConnectionDeinit
<1>10. CASE UNCHANGED vars
  BY <1>10 DEF vars
<1> QED
  BY <1>1, <1>2, <1>3, <1>4, <1>5, <1>6, <1>7, <1>8, <1>9, <1>10
     DEF Next, Application, Stopping, Offering, Completing

LEMMA SelfReferenceStep ==
  ASSUME StartedOnce, IInv, [Next]_vars
  PROVE  SelfReference'
<1> USE DEF IInv, TypeOK, SelfReference, Opened, Alive, InCall, calls, frames, offered
<1>1. CASE Open
  BY <1>1 DEF Open, SelfAfterInit
<1>2. CASE OnNewConnection \/ Start \/ AppDrop \/ Deinit
  BY <1>2 DEF OnNewConnection, Start, AppDrop, Deinit, StartedOnce
<1>3. ASSUME NEW t \in Stoppers, StopStore(t)
      PROVE  SelfReference'
  BY <1>3 DEF StopStore
<1>4. ASSUME NEW t \in Stoppers, StopApi(t) \/ Return(t)
      PROVE  SelfReference'
  BY <1>4 DEF StopApi, Return
<1>5. ASSUME NEW c \in Connections, NewConnection(c) \/ NewConnectionReturns(c)
      PROVE  SelfReference'
  BY <1>5 DEF NewConnection, NewConnectionReturns
<1>6. CASE StopComplete
  BY <1>6 DEF StopComplete, Stopped
<1>7. CASE StopCompleteReturns \/ Deciding \/ Connecting
  BY <1>7 DEF StopCompleteReturns, Deciding, Accept, Refuse, Connecting, ConnectionEnds,
     ConnectionDeinit
<1>8. CASE UNCHANGED vars
  BY <1>8 DEF vars
<1> QED
  BY <1>1, <1>2, <1>3, <1>4, <1>5, <1>6, <1>7, <1>8
     DEF Next, Application, Stopping, Offering, Completing

LEMMA Inductive == ASSUME StartedOnce PROVE Spec => []IInv
<1>1. IInv /\ [Next]_vars => IInv'
  BY SafeStep, StoppedStep, SelfReferenceStep DEF IInv
<1> QED
  BY <1>1, InitOnce, PTL DEF Spec

(* "After this method returns, no new connections will be accepted": once  *)
(* a stop() was resumed no connection becomes accepted, not even one whose *)
(* handler was running when stop() was called.                             *)
THEOREM StopIsFinal == ASSUME StartedOnce PROVE Spec => NothingAcceptedAfterStop
<1>1. IInv /\ Verdicts /\ [Next]_vars =>
        [(\E t \in Stoppers : continuation[t] = "ok") =>
           \A c \in Connections : offer'[c] = "accepted" => offer[c] = "accepted"]_vars
  <2> SUFFICES ASSUME IInv, Verdicts, Next,
                      NEW t \in Stoppers, continuation[t] = "ok",
                      NEW c \in Connections, offer'[c] = "accepted"
               PROVE  offer[c] = "accepted"
    OBVIOUS
  <2>1. running = {}
    BY DEF IInv, Stopped
  <2>2. offer[c] # "offered"
    BY <2>1 DEF Verdicts
  <2>3. ASSUME NEW d \in Connections, NewConnection(d)
        PROVE  offer[c] = "accepted"
    BY <2>3 DEF NewConnection, IInv, TypeOK
  <2>4. ASSUME NEW d \in Connections, Accept(d) \/ Refuse(d)
        PROVE  offer[c] = "accepted"
    BY <2>2, <2>4 DEF Accept, Refuse, IInv, TypeOK
  <2>5. CASE Application \/ Stopping \/ Completing \/ Connecting
    BY <2>5 DEF Application, Open, OnNewConnection, Start, AppDrop, Deinit, Stopping, StopStore,
       StopApi, Return, Completing, StopComplete, StopCompleteReturns, Connecting,
       ConnectionEnds, ConnectionDeinit, offered
  <2>6. ASSUME NEW d \in Connections, NewConnectionReturns(d)
        PROVE  offer[c] = "accepted"
    BY <2>6 DEF NewConnectionReturns
  <2> QED
    BY <2>3, <2>4, <2>5, <2>6 DEF Next, Offering, Deciding
<1>2. Spec => []Verdicts
  BY TypeCorrect, InitSafe, VerdictsStep, PTL DEF Spec
<1> QED
  BY <1>1, <1>2, Inductive, PTL DEF Spec, NothingAcceptedAfterStop
-----------------------------------------------------------------------------
(* Refinement *)

LEMMA StageInit == Init => CH!Init
  BY DEF Init, CH!Init, ObjectStage, HandleStage, Opened

(* Every step of a listener is one step of the life cycle, or none. *)
LEMMA StageStep ==
  ASSUME StartedOnce, IInv, IInv', [Next]_vars
  PROVE  [CH!Next]_(CH!vars)
<1> USE DEF ObjectStage, HandleStage, Opened, MayCallBack
<1>1. CASE Open
  <2>1. CH!Create \/ CH!CreateFails
    BY <1>1 DEF CH!Create, CH!CreateFails, Open, Alive, SelfAfterInit, frames, IInv,
       SelfReference
  <2> QED
    BY <2>1 DEF CH!Next
<1>2. CASE OnNewConnection
  BY <1>2 DEF OnNewConnection, CH!vars, Alive, InCall, calls, frames
<1>3. CASE Start
  <2>1. Alive /\ Alive' /\ UNCHANGED <<running, stopFrame>>
    BY <1>3 DEF Start, Alive, frames
  <2>2. running = {} /\ ~stopFrame
    BY <1>3, <2>1 DEF Start, IInv, Stopped, SelfReference, StartedOnce
  <2>3. CH!Arm
    BY <1>3, <2>1 DEF Start, CH!Arm
  <2> QED
    BY <2>3 DEF CH!Next
<1>4. CASE AppDrop
  <2>1. CH!Die \/ UNCHANGED CH!vars
    BY <1>4 DEF AppDrop, CH!Die, CH!vars, Alive, InCall, calls, frames, IInv, SelfReference, TypeOK
  <2> QED
    BY <2>1 DEF CH!Next
<1>5. CASE Deinit
  <2>1. CH!Close
    BY <1>5 DEF Deinit, CH!Close, Alive, frames, IInv, SelfReference, TypeOK
  <2> QED
    BY <2>1 DEF CH!Next
<1>6. ASSUME NEW t \in Stoppers, StopStore(t)
      PROVE  UNCHANGED CH!vars
  BY <1>6 DEF StopStore, CH!vars, Alive, frames
<1>7. ASSUME NEW t \in Stoppers, StopApi(t)
      PROVE  UNCHANGED CH!vars
  <2>1. InCall(t) /\ InCall(t)'
    BY <1>7 DEF StopApi, InCall, IInv, TypeOK
  <2>2. Alive /\ Alive'
    BY <2>1 DEF Alive
  <2> QED
    BY <1>7, <2>2 DEF StopApi, CH!vars, frames
<1>8. ASSUME NEW t \in Stoppers, Return(t)
      PROVE  CH!Die \/ UNCHANGED CH!vars
  <2>1. Alive
    BY <1>8 DEF Return, Alive, InCall
  <2>2. UNCHANGED <<running, stopFrame, mq, retainedSelf>>
    BY <1>8 DEF Return, frames
  <2>3. CASE Alive'
    BY <2>1, <2>2, <2>3 DEF CH!vars
  <2>4. CASE ~Alive'
    <3>1. running = {} /\ ~stopFrame /\ ~retainedSelf
      BY <2>2, <2>4 DEF Alive, IInv, TypeOK
    <3> QED
      BY <2>1, <2>2, <2>4, <3>1 DEF CH!Die, IInv, SelfReference, TypeOK
  <2> QED
    BY <2>3, <2>4
<1>9. ASSUME NEW c \in Connections, NewConnection(c)
      PROVE  CH!Enter \/ UNCHANGED CH!vars
  <2>1. Alive /\ Alive' /\ running' # {} /\ mq = "listening" /\ UNCHANGED <<mq, stopFrame>>
    BY <1>9 DEF NewConnection, Alive
  <2>2. ~stopFrame
    BY <2>1 DEF IInv, SelfReference
  <2> QED
    BY <2>1, <2>2 DEF CH!Enter, CH!vars
<1>10. ASSUME NEW c \in Connections, NewConnectionReturns(c)
       PROVE  CH!Leave \/ UNCHANGED CH!vars
  <2>1. /\ running # {} /\ mq \in {"listening", "stopping"}
        /\ UNCHANGED <<mq, stopFrame, retainedSelf>>
    BY <1>10 DEF NewConnectionReturns, IInv, Stopped
  <2>2. retainedSelf /\ ~stopFrame /\ Alive /\ Alive'
    BY <2>1 DEF IInv, SelfReference, Alive
  <2> QED
    BY <2>1, <2>2 DEF CH!Leave, CH!vars
<1>11. CASE StopComplete
  <2>1. CH!Enter
    BY <1>11 DEF StopComplete, CH!Enter, Alive, IInv, SelfReference
  <2> QED
    BY <2>1 DEF CH!Next
<1>12. CASE StopCompleteReturns
  <2>1. Alive /\ Opened
    BY <1>12 DEF StopCompleteReturns, Alive, IInv, SelfReference
  <2>2. running = {} /\ ~MayCallBack
    BY <1>12 DEF StopCompleteReturns, IInv, SelfReference, Stopped
  <2>3. CH!Leave
    BY <1>12, <2>1, <2>2 DEF StopCompleteReturns, CH!Leave
  <2> QED
    BY <2>3 DEF CH!Next
<1>13. CASE Deciding \/ Connecting
  BY <1>13 DEF Deciding, Accept, Refuse, Connecting, ConnectionEnds, ConnectionDeinit, CH!vars,
     Alive, InCall, calls, frames
<1>14. CASE UNCHANGED vars
  BY <1>14 DEF vars, CH!vars, Alive, InCall, calls, frames
<1> QED
  BY <1>1, <1>2, <1>3, <1>4, <1>5, <1>6, <1>7, <1>8, <1>9, <1>10, <1>11, <1>12, <1>13, <1>14
     DEF Next, Application, Stopping, Offering, Completing, CH!Next

(* A QuicListener keeps the promise of every QuicObject although its       *)
(* callbacks run in parallel: it outlives them all, and its handle is      *)
(* closed once, after STOP_COMPLETE returned.                              *)
THEOREM ListenerImplementsCallbackHandle ==
  ASSUME StartedOnce
  PROVE  Spec => KeepsHandleSafe
<1>1. IInv /\ IInv' /\ [Next]_vars => [CH!Next]_(CH!vars)
  BY StageStep
<1> QED
  BY <1>1, StageInit, Inductive, PTL DEF Spec, KeepsHandleSafe, CH!Spec

(* What follows from the life cycle (CallbackHandleProofs), for this module. *)
Promise == INSTANCE CallbackHandleProofs
             WITH object <- ObjectStage, handle <- HandleStage,
                  frame <- running # {} \/ stopFrame

(* MsQuic calls a listener back only while its object is alive, and        *)
(* ListenerClose is called once, by deinit, with no handler running.       *)
THEOREM ListenerClosedOnce ==
  ASSUME StartedOnce
  PROVE  Spec => []Promise!Safe /\ [][Promise!ClosedIsTheEnd]_(Promise!vars)
<1>1. CH!Init => Promise!Init
  BY DEF CH!Init, Promise!Init
<1>2. [CH!Next]_(CH!vars) => [Promise!Next]_(Promise!vars)
  BY DEF CH!vars, Promise!vars, CH!Next, Promise!Next,
         CH!Create, CH!CreateFails, CH!Arm, CH!Enter, CH!Leave, CH!Die, CH!Close,
         Promise!Create, Promise!CreateFails, Promise!Arm, Promise!Enter,
         Promise!Leave, Promise!Die, Promise!Close
<1>3. CH!Spec => Promise!Spec
  BY <1>1, <1>2, PTL DEF CH!Spec, Promise!Spec
<1> QED
  BY <1>3, ListenerImplementsCallbackHandle, Promise!HandleIsSafe, Promise!ClosedOnce, PTL
     DEF KeepsHandleSafe
===============================================================================
