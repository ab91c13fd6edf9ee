--------------------------- MODULE QuicStreamProofs ---------------------------
(***************************************************************************)
(* Theorems about QuicStream, for any numbers of tasks and any bound on    *)
(* the data received.                                                      *)
(***************************************************************************)
EXTENDS QuicStream, TLAPS

(* The application starts a stream once.  It may shut it down before or     *)
(* during that start(), from any number of tasks, and pass flags MsQuic    *)
(* refuses.                                                                *)
StartedOnce == "restart" \notin Usage

(* Moreover it does not shut the stream down before start() returned. *)
WithinContract == Usage \subseteq {"rejectedFlags"}

-----------------------------------------------------------------------------
(* The inductive invariant *)

(* No handle, no reference: nothing runs before the handle is opened or    *)
(* after it was closed.                                                    *)
UnopenedIsUnused == ~Opened => ~Alive /\ ~ShutDue

(* start() is called once.  Until StreamStart answers the stream is not    *)
(* started, but a shutdown() may have ended it.                            *)
OneStart ==
  /\ \A s, u \in Starters : pc[s] # "idle" /\ pc[u] # "idle" => s = u
  /\ \A s \in Starters : pc[s] \in {"startApi", "startFailed"} =>
        mq \in {"idle", "shut"} /\ startContinuation = s

(* The start slot holds the pending continuation of the start() whose      *)
(* StreamStart has not answered.                                           *)
StartSlot ==
  /\ startContinuation # NoTask =>
        /\ continuation[startContinuation] = "pending"
        /\ pc[startContinuation] = "waiting" => mq = "starting"
  /\ \A s \in Starters : continuation[s] = "pending" => startContinuation = s

(* Whoever is in the shutdown slot still waits. *)
ShutdownSlot ==
  shutdownContinuation # NoTask => continuation[shutdownContinuation] = "pending"

(* MsQuic holds the context of every pending send, and of no other. *)
SendContexts == \A t \in Senders : t \in mqSends <=> continuation[t] = "pending"

PendingInCall == \A t \in Tasks : continuation[t] = "pending" => InCall(t)

(* A shutdown() whose continuation another shutdown() pushed out of the    *)
(* slot: nobody can resume it any more.                                    *)
PushedOut(c) == continuation[c] = "pending" /\ c # shutdownContinuation
Forgotten == \E c \in Closers : PushedOut(c)

(* A shutdown() that keeps waiting until SHUTDOWN_COMPLETE: MsQuic has     *)
(* taken its StreamShutdown, or it was pushed out.                         *)
CloserWaits ==
  \E c \in Closers : continuation[c] = "pending" /\ (pc[c] = "waiting" \/ PushedOut(c))

(* As long as nobody was pushed out, the shutdown() that has still to hear *)
(* from StreamShutdown is the one in the slot: no roll back takes another  *)
(* one's continuation.                                                     *)
OneCloser ==
  \/ mq = "shut"
  \/ Forgotten
  \/ \A c \in Closers : pc[c] \in {"shutdownApi", "shutdownFailed"} => shutdownContinuation = c

(* The receive direction was ended by a shutdown() that waits. *)
ShutAsked == "receive" \in mqEnded /\ mq # "shut" => CloserWaits

(* Beside a start() that is not answered only a shutdown() that waits can  *)
(* have ended the receive direction (a send ends the other one at most).   *)
EndedByCloser == (\E s \in Starters : pc[s] \in {"startApi", "startFailed"}) => ShutAsked

(* The self-reference is gone only after SHUTDOWN_COMPLETE, or after       *)
(* StreamStart refused; then MsQuic still calls back only if a shutdown()  *)
(* asked for it, and that task holds the stream: it waits.                 *)
SelfReference ==
  Opened /\ ~retainedSelf =>
    \/ mq = "shut"
    \/ /\ mq = "idle"
       /\ \E s \in Starters : pc[s] \in {"waiting", "done"}
       /\ ShutAsked

IInv ==
  /\ TypeOK
  /\ UnopenedIsUnused
  /\ OneStart
  /\ StartSlot
  /\ ShutdownSlot
  /\ SendContexts
  /\ PendingInCall
  /\ OneCloser
  /\ EndedByCloser
  /\ SelfReference
  /\ NoDoubleResume

-----------------------------------------------------------------------------
(* Types *)

(* Resume writes a typed outcome. *)
LEMMA ResumeType ==
  ASSUME CallsOK, NEW c, NEW how \in {"ok", "error"}, Resume(c, how)
  PROVE  /\ continuation' \in [Tasks -> {"none", "pending", "ok", "error"}]
         /\ trapped' \in BOOLEAN
  BY DEF Resume, CallsOK

(* The slots hold tasks of their kind; the roll back restores a state. *)
LEMMA SlotsType ==
  ASSUME TypeOK, [Next]_vars
  PROVE  SlotsOK'
<1> USE DEF TypeOK, SlotsOK, slots, object, calls, resumed, reception, msquic
<1>1. CASE Lifetime
  BY <1>1 DEF Lifetime, OpenLocal, OpenFails, WrapPeer, AppDrop, Deinit, States, SelfAfterInit
<1>2. CASE Starting
  BY <1>2 DEF Starting, StartBegin, StartApi, StartFail, States
<1>3. CASE Closing
  BY <1>3 DEF Closing, ShutdownBegin, ShutdownApi, ShutdownFail, SlotAfterTake,
     CallsOK, Tasks, States
<1>4. CASE Worker
  BY <1>4 DEF Worker, OnStartComplete, OnReceive, OnSendComplete, OnPeerSend,
     OnShutdownComplete, CallbackReturn, MsQuicShuts, OnPeerReceiveAborted, States, SlotAfterTake
<1>5. CASE Sending \/ Waking \/ Reading
  BY <1>5 DEF Sending, Send, Waking, Return, Reading, ReaderStart, ReaderNext,
     ReaderEnd
<1>6. CASE UNCHANGED vars
  BY <1>6 DEF vars
<1> QED
  BY <1>1, <1>2, <1>3, <1>4, <1>5, <1>6 DEF Next

(* References are flags. *)
LEMMA ObjectType ==
  ASSUME TypeOK, [Next]_vars
  PROVE  ObjectOK'
<1> USE DEF TypeOK, ObjectOK, slots, object, calls, resumed, reception, msquic
<1>1. CASE Lifetime
  BY <1>1 DEF Lifetime, OpenLocal, OpenFails, WrapPeer, AppDrop,
     Deinit, SelfAfterInit
<1>2. CASE Waking
  BY <1>2 DEF Waking, Return
<1>3. CASE Reading
  BY <1>3 DEF Reading, ReaderStart, ReaderNext, ReaderEnd
<1>4. CASE Worker
  <2>1. ASSUME NEW ok \in BOOLEAN, OnStartComplete(ok)
        PROVE  ObjectOK'
    BY <2>1 DEF OnStartComplete, Enter
  <2>2. CASE OnReceive
    BY <2>2 DEF OnReceive, Enter
  <2>3. ASSUME NEW t \in Senders, NEW canceled \in BOOLEAN, OnSendComplete(t, canceled)
        PROVE  ObjectOK'
    BY <2>3 DEF OnSendComplete, Enter
  <2>4. ASSUME NEW how \in {"finished", "aborted"}, OnPeerSend(how)
        PROVE  ObjectOK'
    BY <2>4 DEF OnPeerSend, Enter
  <2>5. CASE OnShutdownComplete
    BY <2>5 DEF OnShutdownComplete, Enter, SelfAfterShutdown
  <2>6. CASE CallbackReturn \/ MsQuicShuts \/ OnPeerReceiveAborted
    BY <2>6 DEF CallbackReturn, MsQuicShuts, OnPeerReceiveAborted, Enter
  <2> QED
    BY <1>4, <2>1, <2>2, <2>3, <2>4, <2>5, <2>6 DEF Worker
<1>5. CASE Starting \/ Closing \/ Sending
  BY <1>5 DEF Starting, StartBegin, StartApi, StartFail, Closing,
     ShutdownBegin, ShutdownApi, ShutdownFail, ShutdownReturnsAtOnce,
     SlotAfterTake, Sending, Send
<1>6. CASE UNCHANGED vars
  BY <1>6 DEF vars
<1> QED
  BY <1>1, <1>2, <1>3, <1>4, <1>5, <1>6 DEF Next

(* Program counters and continuations. *)
LEMMA CallsType ==
  ASSUME TypeOK, [Next]_vars
  PROVE  CallsOK'
<1> USE DEF TypeOK, CallsOK, slots, object, calls, resumed, reception, msquic
<1>1. CASE Lifetime
  BY <1>1, ResumeType DEF Lifetime, OpenLocal, OpenFails, WrapPeer, AppDrop, Deinit, SelfAfterInit
<1>2. CASE Starting
  BY <1>2, ResumeType DEF Starting, StartBegin, StartApi, StartFail
<1>3. CASE Closing
  BY <1>3, ResumeType DEF Closing, ShutdownBegin, ShutdownApi, ShutdownFail, SlotsOK
<1>4. CASE Sending
  BY <1>4 DEF Sending, Send, Tasks
<1>5. CASE Worker
  BY <1>5, ResumeType DEF Worker, Enter, OnStartComplete, OnReceive, OnSendComplete,
     OnPeerSend, OnShutdownComplete, CallbackReturn, MsQuicShuts, OnPeerReceiveAborted
<1>6. CASE Waking \/ Reading
  BY <1>6 DEF Waking, Return, Reading, ReaderStart, ReaderNext, ReaderEnd
<1>7. CASE UNCHANGED vars
  BY <1>7 DEF vars
<1> QED
  BY <1>1, <1>2, <1>3, <1>4, <1>5, <1>6, <1>7 DEF Next

(* The counters of the data stream stay natural numbers. *)
LEMMA ReceptionType ==
  ASSUME TypeOK, [Next]_vars
  PROVE  ReceptionOK'
<1> USE DEF TypeOK, ReceptionOK, slots, object, calls, resumed, reception,
        msquic
<1>1. CASE Lifetime
  BY <1>1 DEF Lifetime, OpenLocal, OpenFails, WrapPeer, AppDrop, Deinit,
     FinishedByDeinit, SelfAfterInit
<1>2. CASE Worker
  BY <1>2 DEF Worker, OnStartComplete, OnReceive, OnSendComplete, OnPeerSend,
     OnShutdownComplete, CallbackReturn, MsQuicShuts, OnPeerReceiveAborted, Finish
<1>3. CASE Starting \/ Closing \/ Sending \/ Waking \/ Reading
  BY <1>3 DEF Starting, StartBegin, StartApi, StartFail, Closing, ShutdownBegin,
     ShutdownApi, ShutdownFail, Sending, Send, Waking, Return, Reading, ReaderStart,
     ReaderNext, ReaderEnd
<1>4. CASE UNCHANGED vars
  BY <1>4 DEF vars
<1> QED
  BY <1>1, <1>2, <1>3, <1>4 DEF Next

(* The handle, as MsQuic sees it. *)
LEMMA MsQuicType ==
  ASSUME TypeOK, [Next]_vars
  PROVE  MsQuicOK'
<1> USE DEF TypeOK, MsQuicOK, Directions, slots, object, calls, resumed, reception, msquic
<1>1. CASE Closing
  BY <1>1 DEF Closing, ShutdownBegin, ShutdownApi, ShutdownFail,
     ShutdownReturnsAtOnce, SlotAfterTake
<1>2. CASE Sending
  BY <1>2 DEF Sending, Send
<1>3. CASE Worker
  <2>1. ASSUME NEW ok \in BOOLEAN, OnStartComplete(ok)
        PROVE  MsQuicOK'
    BY <2>1 DEF OnStartComplete, Enter
  <2>2. CASE OnReceive
    BY <2>2, MaxReceivesAssumption DEF OnReceive, Enter
  <2>3. ASSUME NEW t \in Senders, NEW canceled \in BOOLEAN, OnSendComplete(t, canceled)
        PROVE  MsQuicOK'
    BY <2>3 DEF OnSendComplete, Enter
  <2>4. ASSUME NEW how \in {"finished", "aborted"}, OnPeerSend(how)
        PROVE  MsQuicOK'
    BY <2>4 DEF OnPeerSend, Enter
  <2>5. CASE OnShutdownComplete
    BY <2>5 DEF OnShutdownComplete, Enter
  <2>6. CASE CallbackReturn \/ MsQuicShuts \/ OnPeerReceiveAborted
    BY <2>6 DEF CallbackReturn, MsQuicShuts, OnPeerReceiveAborted
  <2> QED
    BY <1>3, <2>1, <2>2, <2>3, <2>4, <2>5, <2>6 DEF Worker
<1>4. CASE Lifetime \/ Starting \/ Waking \/ Reading
  BY <1>4 DEF Lifetime, OpenLocal, OpenFails, WrapPeer, AppDrop, Deinit,
     Starting, StartBegin, StartApi, StartFail, Waking, Return, Reading,
     ReaderStart, ReaderNext, ReaderEnd, SelfAfterInit
<1>5. CASE UNCHANGED vars
  BY <1>5 DEF vars
<1> QED
  BY <1>1, <1>2, <1>3, <1>4, <1>5 DEF Next

(* Every step keeps the types. *)
LEMMA TypeStep ==
  ASSUME TypeOK, [Next]_vars
  PROVE  TypeOK'
  BY SlotsType, ObjectType, CallsType, ReceptionType, MsQuicType DEF TypeOK

LEMMA InitType == Init => TypeOK
<1> SUFFICES ASSUME Init PROVE TypeOK
  OBVIOUS
<1>1. SlotsOK /\ CallsOK
  BY DEF Init, SlotsOK, CallsOK, States, Tasks
<1>2. ObjectOK /\ ReceptionOK
  BY DEF Init, ObjectOK, ReceptionOK
<1>3. mqReceived \in 0 .. MaxReceives
  BY MaxReceivesAssumption DEF Init
<1>4. MsQuicOK
  BY <1>3, Zenon DEF Init, MsQuicOK
<1> QED
  BY <1>1, <1>2, <1>4 DEF TypeOK

(* Every variable of a stream keeps its type, whatever the application     *)
(* does with the stream.                                                   *)
THEOREM TypeCorrect == Spec => []TypeOK
<1>1. TypeOK /\ [Next]_vars => TypeOK'
  BY TypeStep
<1> QED
  BY <1>1, InitType, PTL DEF Spec

-----------------------------------------------------------------------------
(* Each conjunct of the invariant survives every step *)

(* A call or a loop needs an object; deinit runs when nobody has one. *)
LEMMA UnopenedStep ==
  ASSUME StartedOnce, IInv, TypeOK', [Next]_vars
  PROVE  UnopenedIsUnused'
<1> USE DEF IInv, TypeOK, SlotsOK, ObjectOK, CallsOK, MsQuicOK, Tasks, slots,
        object, calls, resumed, reception, msquic, ShutDue, Directions, UnopenedIsUnused, Opened,
        Alive, InCall
<1>1. CASE Starting
  BY <1>1 DEF Starting, StartBegin, StartApi, StartFail
<1>2. CASE Closing
  BY <1>2 DEF Closing, ShutdownBegin, ShutdownApi, ShutdownFail
<1>3. CASE Sending
  BY <1>3 DEF Sending, Send
<1>4. CASE Lifetime \/ Waking \/ Reading \/ Worker
  BY <1>4 DEF Lifetime, OpenLocal, OpenFails, WrapPeer, AppDrop, Deinit, Waking,
     Return, Reading, ReaderStart, ReaderNext, ReaderEnd, Worker, OnStartComplete,
     OnReceive, OnSendComplete, OnPeerSend, OnShutdownComplete, CallbackReturn,
     MsQuicShuts, OnPeerReceiveAborted, SelfAfterInit
<1>5. CASE UNCHANGED vars
  BY <1>5 DEF vars
<1> QED
  BY <1>1, <1>2, <1>3, <1>4, <1>5 DEF Next

(* MayStart and shutdown()'s guard keep a start() alone. *)
LEMMA OneStartStep ==
  ASSUME StartedOnce, IInv, TypeOK', [Next]_vars
  PROVE  OneStart'
<1> USE DEF IInv, TypeOK, SlotsOK, ObjectOK, CallsOK, MsQuicOK, Tasks, slots,
        object, calls, resumed, reception, msquic, ShutDue, Directions, OneStart, InCall
<1>1. CASE Lifetime
  BY <1>1 DEF Lifetime, OpenLocal, OpenFails, WrapPeer, AppDrop, Deinit, Alive, SelfAfterInit
<1>2. CASE Starting
  BY <1>2, TasksAssumption DEF Starting, StartBegin, StartApi, StartFail,
     StartedOnce, MayStart
<1>3. CASE Closing
  BY <1>3, TasksAssumption DEF Closing, ShutdownBegin, ShutdownApi, ShutdownFail,
     StartInFlight, StartedOnce
<1>4. CASE Sending
  BY <1>4, TasksAssumption DEF Sending, Send, MayStart, StartedOnce
<1>5. CASE Worker
  BY <1>5 DEF Worker, Enter, OnStartComplete, OnReceive, OnSendComplete, OnPeerSend,
     OnShutdownComplete, CallbackReturn, MsQuicShuts, OnPeerReceiveAborted
<1>6. CASE Waking \/ Reading
  BY <1>6 DEF Waking, Return, Reading, ReaderStart, ReaderNext, ReaderEnd
<1>7. CASE UNCHANGED vars
  BY <1>7 DEF vars
<1> QED
  BY <1>1, <1>2, <1>3, <1>4, <1>5, <1>6, <1>7 DEF Next

(* The slot is filled by the one start() and emptied by whoever resumes it. *)
LEMMA StartSlotStep ==
  ASSUME StartedOnce, IInv, TypeOK', [Next]_vars
  PROVE  StartSlot'
<1> USE DEF IInv, TypeOK, SlotsOK, ObjectOK, CallsOK, MsQuicOK, Tasks, slots,
        object, calls, resumed, reception, msquic, ShutDue, Directions, StartSlot
<1>1. CASE Lifetime
  BY <1>1, TasksAssumption DEF Lifetime, OpenLocal, OpenFails, WrapPeer, AppDrop,
     Deinit, Resume, InCall, Alive, SelfAfterInit
<1>2. CASE Starting
  BY <1>2 DEF Starting, StartBegin, StartApi, StartFail, Resume, OneStart, MayStart,
     StartedOnce, PendingInCall, InCall
<1>3. CASE Closing
  BY <1>3, TasksAssumption DEF Closing, ShutdownBegin, ShutdownApi, ShutdownFail,
     Resume
<1>4. CASE Sending
  BY <1>4, TasksAssumption DEF Sending, Send
<1>5. CASE Worker
  <2>1. ASSUME NEW ok \in BOOLEAN, OnStartComplete(ok)
        PROVE  StartSlot'
    BY <2>1, TasksAssumption DEF OnStartComplete, Enter, Resume, StartCompletes
  <2>2. ASSUME NEW t \in Senders, NEW canceled \in BOOLEAN, OnSendComplete(t, canceled)
        PROVE  StartSlot'
    BY <2>2, TasksAssumption DEF OnSendComplete, Enter, Resume, SendCompletes
  <2>3. ASSUME NEW how \in {"finished", "aborted"}, OnPeerSend(how)
        PROVE  StartSlot'
    BY <2>3 DEF OnPeerSend, Enter
  <2>4. CASE OnShutdownComplete
    BY <2>4, TasksAssumption DEF OnShutdownComplete, Enter, Resume
  <2>5. CASE OnReceive \/ CallbackReturn \/ MsQuicShuts \/ OnPeerReceiveAborted
    BY <2>5 DEF OnReceive, Enter, CallbackReturn, MsQuicShuts, OnPeerReceiveAborted
  <2> QED
    BY <1>5, <2>1, <2>2, <2>3, <2>4, <2>5 DEF Worker
<1>6. CASE Waking \/ Reading
  BY <1>6 DEF Waking, Return, Reading, ReaderStart, ReaderNext, ReaderEnd
<1>7. CASE UNCHANGED vars
  BY <1>7 DEF vars
<1> QED
  BY <1>1, <1>2, <1>3, <1>4, <1>5, <1>6, <1>7 DEF Next

(* The slot is emptied by whoever resumes it. *)
LEMMA ShutdownSlotStep ==
  ASSUME StartedOnce, IInv, TypeOK', [Next]_vars
  PROVE  ShutdownSlot'
<1> USE DEF IInv, TypeOK, SlotsOK, ObjectOK, CallsOK, MsQuicOK, Tasks, slots,
        object, calls, resumed, reception, msquic, ShutDue, Directions, ShutdownSlot
<1>1. CASE Lifetime
  BY <1>1 DEF Lifetime, OpenLocal, OpenFails, WrapPeer, AppDrop, Deinit, Resume,
     UnopenedIsUnused, PendingInCall, Alive, Opened, SelfAfterInit
<1>2. CASE Starting
  BY <1>2, TasksAssumption DEF Starting, StartBegin, StartApi, StartFail, Resume,
     OneStart, InCall, PendingInCall, MayStart, StartedOnce
<1>3. CASE Closing
  BY <1>3, TasksAssumption DEF Closing, ShutdownBegin, ShutdownApi, ShutdownFail,
     ShutdownReturnsAtOnce, SlotAfterTake, Resume, PendingInCall, InCall
<1>4. CASE Sending
  BY <1>4, TasksAssumption DEF Sending, Send
<1>5. CASE Worker
  BY <1>5, TasksAssumption DEF Worker, OnStartComplete, OnReceive, OnSendComplete,
     OnPeerSend, OnShutdownComplete, CallbackReturn, MsQuicShuts, OnPeerReceiveAborted, Resume,
     StartCompletes, SendCompletes, SlotAfterTake, OneStart, PendingInCall, InCall
<1>6. CASE Waking \/ Reading
  BY <1>6 DEF Waking, Return, Reading, ReaderStart, ReaderNext, ReaderEnd
<1>7. CASE UNCHANGED vars
  BY <1>7 DEF vars
<1> QED
  BY <1>1, <1>2, <1>3, <1>4, <1>5, <1>6, <1>7 DEF Next

(* A send's continuation is pending from StreamSend to SEND_COMPLETE. *)
LEMMA SendContextsStep ==
  ASSUME StartedOnce, IInv, TypeOK', [Next]_vars
  PROVE  SendContexts'
<1> USE DEF IInv, TypeOK, SlotsOK, ObjectOK, CallsOK, MsQuicOK, Tasks, slots,
        object, calls, resumed, reception, msquic, ShutDue, Directions, SendContexts
<1>1. CASE Lifetime
  BY <1>1, TasksAssumption DEF Lifetime, OpenLocal, OpenFails, WrapPeer, AppDrop,
     Deinit, Resume, SelfAfterInit
<1>2. CASE Starting
  BY <1>2, TasksAssumption DEF Starting, StartBegin, StartApi, StartFail, Resume
<1>3. CASE Closing
  BY <1>3, TasksAssumption DEF Closing, ShutdownBegin, ShutdownApi, ShutdownFail,
     Resume
<1>4. CASE Sending
  BY <1>4 DEF Sending, Send, PendingInCall, InCall
<1>5. CASE Worker
  <2>1. ASSUME NEW ok \in BOOLEAN, OnStartComplete(ok)
        PROVE  SendContexts'
    BY <2>1, TasksAssumption DEF OnStartComplete, Resume, StartCompletes
  <2>2. ASSUME NEW t \in Senders, NEW canceled \in BOOLEAN, OnSendComplete(t, canceled)
        PROVE  SendContexts'
    BY <2>2 DEF OnSendComplete, Resume, SendCompletes
  <2>3. ASSUME NEW how \in {"finished", "aborted"}, OnPeerSend(how)
        PROVE  SendContexts'
    BY <2>3 DEF OnPeerSend
  <2>4. CASE OnShutdownComplete
    BY <2>4, TasksAssumption DEF OnShutdownComplete, Resume
  <2>5. CASE OnReceive \/ CallbackReturn \/ MsQuicShuts \/ OnPeerReceiveAborted
    BY <2>5 DEF OnReceive, CallbackReturn, MsQuicShuts, OnPeerReceiveAborted
  <2> QED
    BY <1>5, <2>1, <2>2, <2>3, <2>4, <2>5 DEF Worker
<1>6. CASE Waking \/ Reading
  BY <1>6 DEF Waking, Return, Reading, ReaderStart, ReaderNext, ReaderEnd
<1>7. CASE UNCHANGED vars
  BY <1>7 DEF vars
<1> QED
  BY <1>1, <1>2, <1>3, <1>4, <1>5, <1>6, <1>7 DEF Next

(* A task leaves a call only after it was resumed. *)
LEMMA PendingInCallStep ==
  ASSUME StartedOnce, IInv, TypeOK', [Next]_vars
  PROVE  PendingInCall'
<1> USE DEF IInv, TypeOK, SlotsOK, ObjectOK, CallsOK, MsQuicOK, Tasks, slots,
        object, calls, resumed, reception, msquic, ShutDue, Directions, PendingInCall, InCall
<1>1. CASE Lifetime
  BY <1>1 DEF Lifetime, OpenLocal, OpenFails, WrapPeer, AppDrop, Deinit, Resume, SelfAfterInit
<1>2. CASE Starting
  BY <1>2 DEF Starting, StartBegin, StartApi, StartFail, Resume
<1>3. CASE Closing
  BY <1>3 DEF Closing, ShutdownBegin, ShutdownApi, ShutdownFail, Resume
<1>4. CASE Sending
  BY <1>4 DEF Sending, Send
<1>5. CASE Waking
  BY <1>5 DEF Waking, Return
<1>6. CASE Worker
  BY <1>6 DEF Worker, Enter, OnStartComplete, OnReceive, OnSendComplete, OnPeerSend,
     OnShutdownComplete, CallbackReturn, MsQuicShuts, OnPeerReceiveAborted, Resume
<1>7. CASE Reading
  BY <1>7 DEF Reading, ReaderStart, ReaderNext, ReaderEnd
<1>8. CASE UNCHANGED vars
  BY <1>8 DEF vars
<1> QED
  BY <1>1, <1>2, <1>3, <1>4, <1>5, <1>6, <1>7, <1>8 DEF Next

(* A shutdown() that finds the slot taken pushes the one in it out for     *)
(* good; one that finds it empty is alone with StreamShutdown.             *)
LEMMA OneCloserStep ==
  ASSUME StartedOnce, IInv, TypeOK', [Next]_vars
  PROVE  OneCloser'
<1> USE DEF IInv, TypeOK, SlotsOK, CallsOK, MsQuicOK, Tasks, slots, object, calls, resumed,
        reception, msquic, ShutDue, Directions, OneCloser, Forgotten, PushedOut, ShutdownSlot
<1>1. CASE Lifetime
  BY <1>1, TasksAssumption DEF Lifetime, OpenLocal, OpenFails, WrapPeer, AppDrop, Deinit,
     Resume, PendingInCall, InCall, Alive
<1>2. CASE Starting
  BY <1>2, TasksAssumption DEF Starting, StartBegin, StartApi, StartFail, Resume
<1>3. ASSUME NEW t \in Closers, ShutdownBegin(t)
      PROVE  OneCloser'
  <2>1. CASE shutdownContinuation = NoTask \/ UNCHANGED slots
    BY <1>3, <2>1, TasksAssumption DEF ShutdownBegin, PendingInCall, InCall
  <2>2. CASE shutdownContinuation # NoTask /\ ~UNCHANGED slots
    <3>1. shutdownContinuation \in Closers /\ shutdownContinuation # t
      BY <1>3, <2>2, TasksAssumption DEF ShutdownBegin, PendingInCall, InCall
    <3> QED
      BY <1>3, <2>2, <3>1, TasksAssumption DEF ShutdownBegin
  <2> QED
    BY <2>1, <2>2
<1>4. ASSUME NEW t \in Closers, ShutdownApi(t)
      PROVE  OneCloser'
  BY <1>4 DEF ShutdownApi
<1>5. ASSUME NEW t \in Closers, ShutdownFail(t)
      PROVE  OneCloser'
  BY <1>5, TasksAssumption DEF ShutdownFail, SlotAfterTake, Resume
<1>6. CASE Sending
  BY <1>6, TasksAssumption DEF Sending, Send, PendingInCall, InCall
<1>7. ASSUME NEW ok \in BOOLEAN, OnStartComplete(ok)
      PROVE  OneCloser'
  BY <1>7, TasksAssumption DEF OnStartComplete, Enter, Resume, StartCompletes
<1>8. ASSUME NEW t \in Senders, NEW canceled \in BOOLEAN, OnSendComplete(t, canceled)
      PROVE  OneCloser'
  BY <1>8, TasksAssumption DEF OnSendComplete, Enter, Resume, SendCompletes
<1>9. CASE OnShutdownComplete
  BY <1>9 DEF OnShutdownComplete
<1>10. CASE Waking
  BY <1>10 DEF Waking, Return
<1>11. ASSUME NEW how \in {"finished", "aborted"}, OnPeerSend(how)
       PROVE  OneCloser'
  BY <1>11 DEF OnPeerSend, Enter
<1>12. CASE Reading \/ OnReceive \/ CallbackReturn \/ MsQuicShuts \/ OnPeerReceiveAborted
  BY <1>12 DEF Reading, ReaderStart, ReaderNext, ReaderEnd, OnReceive, Enter, CallbackReturn,
     MsQuicShuts, OnPeerReceiveAborted
<1>13. CASE UNCHANGED vars
  BY <1>13 DEF vars
<1> QED
  BY <1>1, <1>2, <1>3, <1>4, <1>5, <1>6, <1>7, <1>8, <1>9, <1>10, <1>11, <1>12, <1>13
     DEF Next, Closing, Worker

(* A shutdown() that asked MsQuic keeps waiting until SHUTDOWN_COMPLETE.   *)
LEMMA ShutAskedStep ==
  ASSUME StartedOnce, IInv, TypeOK', [Next]_vars, ShutAsked, mq = "idle", mq' = "idle"
  PROVE  ShutAsked'
<1> USE TasksAssumption
    DEF IInv, TypeOK, SlotsOK, CallsOK, MsQuicOK, Tasks, slots, object, calls, resumed,
        reception, msquic, ShutDue, Directions, ShutAsked, CloserWaits, PushedOut
<1>1. CASE Lifetime
  BY <1>1 DEF Lifetime, OpenLocal, OpenFails, WrapPeer, AppDrop, Deinit
<1>2. ASSUME NEW t \in Starters, StartBegin(t) \/ StartApi(t)
      PROVE  ShutAsked'
  BY <1>2 DEF StartBegin, StartApi
<1>3. ASSUME NEW t \in Starters, StartFail(t)
      PROVE  ShutAsked'
  BY <1>3 DEF StartFail, Resume
<1>4. ASSUME NEW t \in Closers, ShutdownBegin(t)
      PROVE  ShutAsked'
  BY <1>4 DEF ShutdownBegin, PendingInCall, InCall
<1>5. ASSUME NEW t \in Closers, ShutdownApi(t)
      PROVE  ShutAsked'
  BY <1>5 DEF ShutdownApi, OneCloser, Forgotten, ShutdownSlot
<1>6. ASSUME NEW t \in Closers, ShutdownFail(t)
      PROVE  ShutAsked'
  <2>1. CASE Forgotten
    BY <1>6, <2>1 DEF ShutdownFail, Resume, Forgotten, SlotAfterTake
  <2>2. CASE ~Forgotten
    <3>1. shutdownContinuation = t
      BY <1>6, <2>2 DEF OneCloser, ShutdownFail
    <3> QED
      BY <1>6, <2>2, <3>1 DEF ShutdownFail, Resume, Forgotten, SlotAfterTake
  <2> QED
    BY <2>1, <2>2
<1>7. CASE Sending
  BY <1>7 DEF Sending, Send
<1>8. ASSUME NEW t \in Senders, NEW canceled \in BOOLEAN, OnSendComplete(t, canceled)
      PROVE  ShutAsked'
  BY <1>8 DEF OnSendComplete, Enter, Resume, SendCompletes
<1>9. ASSUME NEW ok \in BOOLEAN, OnStartComplete(ok)
      PROVE  ShutAsked'
  BY <1>9 DEF OnStartComplete
<1>10. ASSUME NEW how \in {"finished", "aborted"}, OnPeerSend(how)
       PROVE  ShutAsked'
  BY <1>10 DEF OnPeerSend
<1>11. CASE OnReceive \/ OnShutdownComplete \/ CallbackReturn \/ MsQuicShuts \/ OnPeerReceiveAborted
  BY <1>11 DEF OnReceive, OnShutdownComplete, CallbackReturn, MsQuicShuts, OnPeerReceiveAborted
<1>12. CASE Waking
  BY <1>12 DEF Waking, Return
<1>13. CASE Reading
  BY <1>13 DEF Reading, ReaderStart, ReaderNext, ReaderEnd
<1>14. CASE UNCHANGED vars
  BY <1>14 DEF vars
<1> QED
  BY <1>1, <1>2, <1>3, <1>4, <1>5, <1>6, <1>7, <1>8, <1>9, <1>10, <1>11, <1>12, <1>13, <1>14
     DEF Next, Starting, Closing, Worker

(* MsQuic never takes a handle back from "shut", and from "idle" it goes   *)
(* on only with a start, an implicit start or SHUTDOWN_COMPLETE.           *)
LEMMA HandleStep ==
  ASSUME TypeOK, [Next]_vars
  PROVE  /\ mq = "shut" => mq' \in {"shut", "closed"}
         /\ mq = "idle" =>
              \/ mq' \in {"idle", "shut", "closed"}
              \/ \E t \in Starters : StartApi(t)
              \/ MayStart
<1> USE DEF TypeOK, MsQuicOK, slots, object, calls, resumed, reception, msquic, ShutDue, Directions
<1>1. CASE Lifetime
  BY <1>1 DEF Lifetime, OpenLocal, OpenFails, WrapPeer, AppDrop, Deinit
<1>2. CASE Starting
  BY <1>2 DEF Starting, StartBegin, StartApi, StartFail
<1>3. CASE Closing
  BY <1>3 DEF Closing, ShutdownBegin, ShutdownApi, ShutdownFail
<1>4. CASE Sending
  BY <1>4 DEF Sending, Send
<1>5. CASE Worker
  BY <1>5 DEF Worker, OnStartComplete, OnReceive, OnSendComplete, OnPeerSend,
     OnShutdownComplete, CallbackReturn, MsQuicShuts, OnPeerReceiveAborted
<1>6. CASE Waking \/ Reading
  BY <1>6 DEF Waking, Return, Reading, ReaderStart, ReaderNext, ReaderEnd
<1>7. CASE UNCHANGED vars
  BY <1>7 DEF vars
<1> QED
  BY <1>1, <1>2, <1>3, <1>4, <1>5, <1>6, <1>7 DEF Next

(* A start() that begins finds a handle nobody is shutting down; until it  *)
(* is answered only a shutdown() that waits changes that.                  *)
LEMMA EndedByCloserStep ==
  ASSUME StartedOnce, IInv, TypeOK', OneStart', [Next]_vars
  PROVE  EndedByCloser'
<1> SUFFICES ASSUME NEW s \in Starters, pc'[s] \in {"startApi", "startFailed"}, mq' # "shut"
             PROVE  ShutAsked'
  BY DEF EndedByCloser, ShutAsked
<1>1. mq' = "idle"
  BY DEF OneStart
<1>2. CASE pc[s] \in {"startApi", "startFailed"}
  <2>1. mq \in {"idle", "shut"} /\ ShutAsked
    BY <1>2 DEF IInv, OneStart, EndedByCloser
  <2>2. mq = "idle"
    BY <1>1, <2>1, HandleStep DEF IInv
  <2> QED
    BY <1>1, <2>1, <2>2, ShutAskedStep
<1>3. CASE pc[s] \notin {"startApi", "startFailed"}
  <2>1. StartBegin(s)
    BY <1>3, TasksAssumption
       DEF IInv, TypeOK, CallsOK, Tasks, slots, object, calls, resumed, reception, msquic, Next,
       Lifetime, OpenLocal, OpenFails, WrapPeer, AppDrop, Deinit, Starting, StartBegin,
       StartApi, StartFail, Closing, ShutdownBegin, ShutdownApi, ShutdownFail, Sending, Send,
       Worker, OnStartComplete, OnReceive, OnSendComplete, OnPeerSend, OnPeerReceiveAborted,
       OnShutdownComplete, Enter, CallbackReturn, MsQuicShuts, Waking, Return, Reading,
       ReaderStart, ReaderNext, ReaderEnd, vars
  <2>2. mqEnded' = {}
    BY <2>1 DEF StartBegin, MayStart, StartedOnce, msquic
  <2> QED
    BY <2>2 DEF ShutAsked
<1> QED
  BY <1>2, <1>3

(* The self-reference is released by a refused StreamStart and by          *)
(* SHUTDOWN_COMPLETE.                                                      *)
LEMMA ReleaseStep ==
  ASSUME TypeOK, [Next]_vars, retainedSelf, ~retainedSelf'
  PROVE  mq' = "shut" \/ \E t \in Starters : StartFail(t)
<1> USE DEF TypeOK, MsQuicOK, slots, object, calls, resumed, reception, msquic, ShutDue, Directions
<1>1. CASE Lifetime
  BY <1>1 DEF Lifetime, OpenLocal, OpenFails, WrapPeer, AppDrop, Deinit, SelfAfterInit
<1>2. CASE Starting
  BY <1>2 DEF Starting, StartBegin, StartApi
<1>3. CASE Closing \/ Sending \/ Waking \/ Reading
  BY <1>3 DEF Closing, ShutdownBegin, ShutdownApi, ShutdownFail, Sending, Send, Waking, Return,
     Reading, ReaderStart, ReaderNext, ReaderEnd
<1>4. CASE Worker
  BY <1>4 DEF Worker, OnStartComplete, OnReceive, OnSendComplete, OnPeerSend,
     OnShutdownComplete, CallbackReturn, MsQuicShuts, OnPeerReceiveAborted
<1>5. CASE UNCHANGED vars
  BY <1>5 DEF vars
<1> QED
  BY <1>1, <1>2, <1>3, <1>4, <1>5 DEF Next

(* A start() that was answered stays answered. *)
LEMMA AnsweredStep ==
  ASSUME TypeOK, [Next]_vars, NEW s \in Starters, pc[s] \in {"waiting", "done"}
  PROVE  pc'[s] \in {"waiting", "done"}
  BY TasksAssumption
     DEF TypeOK, CallsOK, Tasks, slots, object, calls, resumed, reception, msquic, Next,
     Lifetime, OpenLocal, OpenFails, WrapPeer, AppDrop, Deinit, Starting, StartBegin, StartApi,
     StartFail, Closing, ShutdownBegin, ShutdownApi, ShutdownFail, Sending, Send, Worker,
     OnStartComplete, OnReceive, OnSendComplete, OnPeerSend, OnShutdownComplete, Enter,
     CallbackReturn, MsQuicShuts, OnPeerReceiveAborted, Waking, Return, Reading, ReaderStart, ReaderNext, ReaderEnd,
     vars

(* A handle is opened with the object retained. *)
LEMMA HandleOpens ==
  ASSUME TypeOK, [Next]_vars, Opened', ~retainedSelf'
  PROVE  Opened
<1> USE DEF TypeOK, MsQuicOK, slots, object, calls, resumed, reception, msquic, ShutDue, Directions, Opened
<1>1. CASE Lifetime
  BY <1>1 DEF Lifetime, OpenLocal, OpenFails, WrapPeer, AppDrop, Deinit, SelfAfterInit
<1>2. CASE Starting \/ Closing \/ Sending
  BY <1>2 DEF Starting, StartBegin, StartApi, StartFail, Closing, ShutdownBegin, ShutdownApi,
     ShutdownFail, Sending, Send
<1>3. CASE Worker \/ Waking \/ Reading
  BY <1>3 DEF Worker, OnStartComplete, OnReceive, OnSendComplete, OnPeerSend,
     OnShutdownComplete, CallbackReturn, MsQuicShuts, OnPeerReceiveAborted, Waking, Return, Reading, ReaderStart,
     ReaderNext, ReaderEnd
<1>4. CASE UNCHANGED vars
  BY <1>4 DEF vars
<1> QED
  BY <1>1, <1>2, <1>3, <1>4 DEF Next

(* Both releases of the self-reference come when nobody but a task that    *)
(* waits in the stream can make MsQuic call back.                          *)
LEMMA SelfReferenceStep ==
  ASSUME StartedOnce, IInv, TypeOK', [Next]_vars
  PROVE  SelfReference'
<1> SUFFICES ASSUME Opened', ~retainedSelf', mq' # "shut"
             PROVE  /\ mq' = "idle"
                    /\ \E s \in Starters : pc'[s] \in {"waiting", "done"}
                    /\ ShutAsked'
  BY DEF SelfReference
<1> USE DEF IInv
<1>1. CASE retainedSelf
  <2>1. PICK t \in Starters : StartFail(t)
    BY <1>1, ReleaseStep
  <2>2. mq = "idle" /\ UNCHANGED mq
    BY <2>1 DEF StartFail, OneStart, msquic
  <2>3. ShutAsked
    BY <2>1 DEF StartFail, EndedByCloser
  <2>4. pc'[t] \in {"waiting", "done"}
    BY <2>1 DEF StartFail, TypeOK, CallsOK, Tasks
  <2> QED
    BY <2>2, <2>3, <2>4, ShutAskedStep
<1>2. CASE ~retainedSelf
  <2>1. Opened
    BY HandleOpens, <1>2
  <2>2. mq = "idle" /\ ShutAsked
    BY <1>2, <2>1, HandleStep DEF SelfReference, Opened
  <2>3. PICK s \in Starters : pc[s] \in {"waiting", "done"}
    BY <1>2, <2>1, <2>2 DEF SelfReference
  <2>4. pc'[s] \in {"waiting", "done"}
    BY <2>3, AnsweredStep
  <2>5. ~MayStart
    BY <2>3 DEF MayStart, StartedOnce
  <2>6. \A t \in Starters : ~StartApi(t)
    BY <2>3 DEF OneStart, StartApi
  <2>7. mq' = "idle"
    BY <2>2, <2>5, <2>6, HandleStep DEF Opened
  <2> QED
    BY <2>2, <2>4, <2>7, ShutAskedStep
<1> QED
  BY <1>1, <1>2

(* Whatever is taken from a slot, or from MsQuic, is still pending. *)
LEMMA ResumeStep ==
  ASSUME StartedOnce, IInv, TypeOK', [Next]_vars
  PROVE  NoDoubleResume'
<1> USE DEF IInv, TypeOK, SlotsOK, ObjectOK, CallsOK, MsQuicOK, Tasks, slots,
        object, calls, resumed, reception, msquic, ShutDue, Directions, NoDoubleResume
<1>1. CASE Lifetime
  BY <1>1 DEF Lifetime, OpenLocal, OpenFails, WrapPeer, AppDrop, Deinit, Resume,
     ShutdownSlot, SelfAfterInit
<1>2. CASE Starting
  BY <1>2 DEF Starting, StartBegin, StartApi, StartFail, Resume, OneStart, StartSlot
<1>3. CASE Closing
  BY <1>3 DEF Closing, ShutdownBegin, ShutdownApi, ShutdownFail, Resume, ShutdownSlot
<1>4. CASE Worker
  BY <1>4 DEF Worker, OnStartComplete, OnReceive, OnSendComplete, OnPeerSend,
     OnShutdownComplete, CallbackReturn, MsQuicShuts, OnPeerReceiveAborted, Resume, StartSlot, ShutdownSlot,
     SendContexts, StartCompletes, SendCompletes
<1>5. CASE Sending \/ Waking \/ Reading
  BY <1>5 DEF Sending, Send, Waking, Return, Reading, ReaderStart, ReaderNext,
     ReaderEnd
<1>6. CASE UNCHANGED vars
  BY <1>6 DEF vars
<1> QED
  BY <1>1, <1>2, <1>3, <1>4, <1>5, <1>6 DEF Next

-----------------------------------------------------------------------------
(* The theorems *)

LEMMA Inductive == ASSUME StartedOnce PROVE Spec => []IInv
<1>1. Init => IInv
  <2> SUFFICES ASSUME Init PROVE IInv
    OBVIOUS
  <2> QED
    BY InitType DEF Init, IInv, UnopenedIsUnused, OneStart, StartSlot, ShutdownSlot,
       SendContexts, PendingInCall, OneCloser, EndedByCloser, SelfReference, NoDoubleResume,
       Opened, Alive, InCall, Tasks, ShutDue, Directions
<1>2. IInv /\ [Next]_vars => IInv'
  <2> SUFFICES ASSUME IInv, [Next]_vars PROVE IInv'
    OBVIOUS
  <2>1. TypeOK'
    BY TypeStep DEF IInv
  <2>2. OneStart' /\ UnopenedIsUnused'
    BY <2>1, OneStartStep, UnopenedStep
  <2> QED
    BY <2>1, <2>2, StartSlotStep, ShutdownSlotStep, SendContextsStep, PendingInCallStep,
       OneCloserStep, EndedByCloserStep, SelfReferenceStep, ResumeStep DEF IInv
<1> QED
  BY <1>1, <1>2, PTL DEF Spec

(* While MsQuic may call back somebody references the object. *)
LEMMA CalledIsAlive == IInv => CallbackLifetime
<1> SUFFICES ASSUME IInv, MayCallBack
             PROVE  Alive
  BY DEF CallbackLifetime
<1> USE DEF IInv, TypeOK, MsQuicOK
<1>1. Opened
  BY DEF UnopenedIsUnused, MayCallBack, Opened
<1>2. CASE retainedSelf
  BY <1>2 DEF Alive
<1>3. CASE ~retainedSelf
  <2>1. CloserWaits
    BY <1>1, <1>3 DEF SelfReference, EndedByCloser, ShutAsked, MayCallBack, ShutDue, Directions
  <2> QED
    BY <2>1 DEF CloserWaits, PendingInCall, Alive, Tasks
<1> QED
  BY <1>2, <1>3

(* No checked continuation of a stream is ever resumed twice: start()      *)
(* failing at once and START_COMPLETE, shutdown()'s roll back,             *)
(* SHUTDOWN_COMPLETE and deinit never resume the same one.                 *)
THEOREM ResumedOnce == ASSUME StartedOnce PROVE Spec => []NoDoubleResume
<1>1. IInv => NoDoubleResume
  BY DEF IInv
<1> QED
  BY <1>1, Inductive, PTL

(* As long as MsQuic may call quicStreamCallback, the object whose address *)
(* it passes as the context is alive.                                      *)
THEOREM ContextIsAlive == ASSUME StartedOnce PROVE Spec => []CallbackLifetime
  BY CalledIsAlive, Inductive, PTL

-----------------------------------------------------------------------------
(* The documented sequence *)

(* shutdown() never runs beside a start(), explicit or implicit, and a     *)
(* second one returns at once: nobody is pushed out of the slot, which is  *)
(* filled only while the state says so.                                    *)
NoOverlap ==
  /\ \A c \in Closers : pc[c] # "idle" => mq # "starting" /\ \A s \in Starters : ~InCall(s)
  /\ shutdownContinuation # NoTask => streamState = "shuttingDown"
  /\ \A c \in Closers : continuation[c] = "pending" => shutdownContinuation = c

LEMMA NoOverlapStep ==
  ASSUME WithinContract, IInv, NoOverlap, [Next]_vars
  PROVE  NoOverlap'
<1> USE TasksAssumption
    DEF IInv, TypeOK, SlotsOK, CallsOK, MsQuicOK, Tasks, slots, object, calls, resumed,
        reception, msquic, ShutDue, Directions, NoOverlap, WithinContract
<1>1. CASE Lifetime
  <2>1. ~Alive => shutdownContinuation = NoTask /\ \A t \in Tasks : ~InCall(t)
    BY DEF Alive, PendingInCall, ShutdownSlot
  <2>2. CASE OpenLocal \/ OpenFails \/ WrapPeer
    BY <2>1, <2>2 DEF OpenLocal, OpenFails, WrapPeer, UnopenedIsUnused, Opened, InCall
  <2>3. CASE AppDrop
    BY <2>3 DEF AppDrop, InCall
  <2>4. CASE Deinit
    BY <2>1, <2>4 DEF Deinit, Resume, InCall
  <2> QED
    BY <1>1, <2>2, <2>3, <2>4 DEF Lifetime
<1>2. ASSUME NEW t \in Starters, StartBegin(t)
      PROVE  NoOverlap'
  <2>1. \A c \in Closers : pc[c] = "idle"
    BY <1>2 DEF StartBegin, MayStart
  <2>2. shutdownContinuation = NoTask /\ \A c \in Closers : continuation[c] # "pending"
    BY <2>1 DEF PendingInCall, InCall, ShutdownSlot
  <2>3. /\ UNCHANGED shutdownContinuation
        /\ \A c \in Closers : UNCHANGED <<pc[c], continuation[c]>>
    BY <1>2 DEF StartBegin
  <2> QED
    BY <2>1, <2>2, <2>3
<1>3. ASSUME NEW t \in Starters, StartApi(t)
      PROVE  NoOverlap'
  BY <1>3 DEF StartApi, InCall
<1>4. ASSUME NEW t \in Starters, StartFail(t)
      PROVE  NoOverlap'
  BY <1>4 DEF StartFail, Resume, InCall, ShutdownSlot, PendingInCall
<1>5. ASSUME NEW t \in Closers, ShutdownBegin(t)
      PROVE  NoOverlap'
  BY <1>5 DEF ShutdownBegin, ShutdownReturnsAtOnce, StartInFlight, InCall
<1>6. ASSUME NEW t \in Closers, ShutdownApi(t) \/ ShutdownFail(t)
      PROVE  NoOverlap'
  BY <1>6 DEF ShutdownApi, ShutdownFail, SlotAfterTake, Resume, InCall
<1>7. ASSUME NEW t \in Senders, Send(t)
      PROVE  NoOverlap'
  BY <1>7 DEF Send, MayStart, InCall
<1>8. CASE Waking
  BY <1>8 DEF Waking, Return, InCall
<1>9. ASSUME NEW ok \in BOOLEAN, OnStartComplete(ok)
      PROVE  NoOverlap'
  BY <1>9 DEF OnStartComplete, Enter, Resume, StartCompletes, ShutdownSlot, PendingInCall, InCall
<1>10. ASSUME NEW t \in Senders, NEW canceled \in BOOLEAN, OnSendComplete(t, canceled)
       PROVE  NoOverlap'
  BY <1>10 DEF OnSendComplete, Enter, Resume, SendCompletes, InCall
<1>11. ASSUME NEW how \in {"finished", "aborted"}, OnPeerSend(how)
       PROVE  NoOverlap'
  BY <1>11 DEF OnPeerSend, Enter, InCall
<1>12. CASE OnShutdownComplete
  BY <1>12 DEF OnShutdownComplete, Enter, SlotAfterTake, Resume, InCall
<1>13. CASE Reading \/ OnReceive \/ CallbackReturn \/ MsQuicShuts \/ OnPeerReceiveAborted
  BY <1>13 DEF Reading, ReaderStart, ReaderNext, ReaderEnd, OnReceive, Enter, CallbackReturn,
     MsQuicShuts, OnPeerReceiveAborted, InCall
<1>14. CASE UNCHANGED vars
  BY <1>14 DEF vars, InCall
<1> QED
  BY <1>1, <1>2, <1>3, <1>4, <1>5, <1>6, <1>7, <1>8, <1>9, <1>10, <1>11, <1>12, <1>13, <1>14
     DEF Next, Starting, Closing, Sending, Worker

LEMMA CallsDoNotOverlap == ASSUME WithinContract PROVE Spec => [](IInv /\ NoOverlap)
<1>1. StartedOnce
  BY DEF WithinContract, StartedOnce
<1>2. Spec => []IInv
  BY <1>1, Inductive
<1>3. Init => NoOverlap
  BY DEF Init, NoOverlap, Tasks
<1>4. IInv /\ NoOverlap /\ [Next]_vars => NoOverlap'
  BY NoOverlapStep
<1> QED
  BY <1>2, <1>3, <1>4, PTL DEF Spec

(* A task of a stream that waits is in the slot of its kind or in a send   *)
(* MsQuic holds: no call loses its continuation.                           *)
THEOREM WaitersAreHeld == ASSUME WithinContract PROVE Spec => []PendingIsHeld
<1>1. IInv /\ NoOverlap => PendingIsHeld
  BY DEF IInv, NoOverlap, PendingIsHeld, StartSlot, SendContexts, Tasks
<1> QED
  BY <1>1, CallsDoNotOverlap, PTL

(* A stream that says it is open is not being shut down. *)
THEOREM OpenIsUsable == ASSUME WithinContract PROVE Spec => []OpenMeansUsable
<1>1. IInv /\ NoOverlap => OpenMeansUsable
  BY DEF NoOverlap, OpenMeansUsable
<1> QED
  BY <1>1, CallsDoNotOverlap, PTL

-----------------------------------------------------------------------------
(* Data *)

(* Every RECEIVE is in the sequence or was taken from it, and the sequence *)
(* is not finished before the last one.                                    *)
Delivery ==
  /\ buffered + consumed = mqReceived
  /\ receiveContinuation # "open" => mqPeer # "open" \/ mq = "closed"
  /\ reader = "done" => buffered = 0 /\ receiveContinuation # "open"

LEMMA DeliveryStep ==
  ASSUME TypeOK, Delivery, [Next]_vars
  PROVE  Delivery'
<1> USE DEF TypeOK, ReceptionOK, MsQuicOK, Delivery, slots, object, calls, resumed, reception,
        msquic, ShutDue, Directions
<1>1. CASE Lifetime
  BY <1>1 DEF Lifetime, OpenLocal, OpenFails, WrapPeer, AppDrop, Deinit, FinishedByDeinit
<1>2. CASE Starting \/ Closing \/ Waking
  BY <1>2 DEF Starting, StartBegin, StartApi, StartFail, Closing, ShutdownBegin, ShutdownApi,
     ShutdownFail, Waking, Return
<1>3. CASE Sending
  BY <1>3 DEF Sending, Send
<1>4. CASE ReaderStart \/ ReaderEnd
  BY <1>4 DEF ReaderStart, ReaderEnd
<1>5. CASE ReaderNext
  BY <1>5 DEF ReaderNext
<1>6. CASE OnReceive
  BY <1>6 DEF OnReceive, Yields
<1>7. ASSUME NEW how \in {"finished", "aborted"}, OnPeerSend(how)
      PROVE  Delivery'
  BY <1>7 DEF OnPeerSend, Finish
<1>8. ASSUME NEW ok \in BOOLEAN, OnStartComplete(ok)
      PROVE  Delivery'
  BY <1>8 DEF OnStartComplete
<1>9. ASSUME NEW t \in Senders, NEW canceled \in BOOLEAN, OnSendComplete(t, canceled)
      PROVE  Delivery'
  BY <1>9 DEF OnSendComplete
<1>10. CASE OnShutdownComplete \/ CallbackReturn \/ MsQuicShuts \/ OnPeerReceiveAborted
  BY <1>10 DEF OnShutdownComplete, CallbackReturn, MsQuicShuts, OnPeerReceiveAborted
<1>11. CASE UNCHANGED vars
  BY <1>11 DEF vars
<1> QED
  BY <1>1, <1>2, <1>3, <1>4, <1>5, <1>6, <1>7, <1>8, <1>9, <1>10, <1>11
     DEF Next, Reading, Worker

(* A loop over `receive` that ends because the peer finished has taken     *)
(* everything MsQuic delivered, whatever state the stream was in when it   *)
(* came and whatever the application did with the stream.                  *)
THEOREM NothingIsLost == Spec => []NothingLost
<1>1. Init => Delivery
  BY DEF Init, Delivery
<1>2. Spec => []Delivery
  BY <1>1, TypeCorrect, DeliveryStep, PTL DEF Spec
<1>3. TypeOK /\ Delivery => NothingLost
  BY DEF TypeOK, ReceptionOK, MsQuicOK, Delivery, NothingLost
<1> QED
  BY <1>2, <1>3, TypeCorrect, PTL

-----------------------------------------------------------------------------
(* The closed state *)

(* No call of the application is refused for its flags. *)
NoRefusedFlags == Usage \subseteq {"closeDuringStart"}

(* A closed stream is one MsQuic has shut, or one whose start it refused.  *)
ClosedIsShut ==
  /\ streamState = "closed" =>
        \/ mq \in {"shut", "closed"}
        \/ mq = "idle" /\ \E s \in Starters : pc[s] \in {"waiting", "done"}
  /\ \A c \in Closers : pc[c] # "shutdownFailed"

(* No step leaves the closed state, or closes a stream MsQuic still runs.  *)
LEMMA ClosedStep ==
  ASSUME NoRefusedFlags, IInv, ClosedIsShut, [Next]_vars
  PROVE  ClosedIsShut' /\ (streamState = "closed" => streamState' = "closed")
<1> USE TasksAssumption
    DEF NoRefusedFlags, IInv, TypeOK, SlotsOK, CallsOK, MsQuicOK, ClosedIsShut, OneStart, Tasks,
        slots, object, calls, resumed, reception, msquic, ShutDue, Directions
<1>1. CASE Lifetime
  BY <1>1 DEF Lifetime, OpenLocal, OpenFails, WrapPeer, AppDrop, Deinit
<1>2. ASSUME NEW t \in Starters, StartBegin(t)
      PROVE  ClosedIsShut' /\ (streamState = "closed" => streamState' = "closed")
  BY <1>2 DEF StartBegin, MayStart
<1>3. ASSUME NEW t \in Starters, StartApi(t)
      PROVE  ClosedIsShut' /\ (streamState = "closed" => streamState' = "closed")
  BY <1>3 DEF StartApi
<1>4. ASSUME NEW t \in Starters, StartFail(t)
      PROVE  ClosedIsShut' /\ (streamState = "closed" => streamState' = "closed")
  BY <1>4 DEF StartFail
<1>5. ASSUME NEW t \in Closers, ShutdownBegin(t)
      PROVE  ClosedIsShut' /\ (streamState = "closed" => streamState' = "closed")
  BY <1>5 DEF ShutdownBegin, ShutdownReturnsAtOnce
<1>6. ASSUME NEW t \in Closers, ShutdownApi(t) \/ ShutdownFail(t)
      PROVE  ClosedIsShut' /\ (streamState = "closed" => streamState' = "closed")
  BY <1>6 DEF ShutdownApi, ShutdownFail
<1>7. ASSUME NEW t \in Senders, Send(t)
      PROVE  ClosedIsShut' /\ (streamState = "closed" => streamState' = "closed")
  BY <1>7 DEF Send, MayStart
<1>8. ASSUME NEW t \in Tasks, Return(t)
      PROVE  ClosedIsShut' /\ (streamState = "closed" => streamState' = "closed")
  BY <1>8 DEF Return
<1>9. ASSUME NEW ok \in BOOLEAN, OnStartComplete(ok)
      PROVE  ClosedIsShut' /\ (streamState = "closed" => streamState' = "closed")
  BY <1>9 DEF OnStartComplete, Enter
<1>10. CASE Reading \/ OnReceive \/ CallbackReturn \/ MsQuicShuts \/ OnPeerReceiveAborted
  BY <1>10 DEF Reading, ReaderStart, ReaderNext, ReaderEnd, OnReceive, CallbackReturn,
     MsQuicShuts, OnPeerReceiveAborted, Enter
<1>11. CASE OnShutdownComplete
  BY <1>11 DEF OnShutdownComplete, Enter
<1>12. ASSUME NEW t \in Senders, NEW canceled \in BOOLEAN, OnSendComplete(t, canceled)
       PROVE  ClosedIsShut' /\ (streamState = "closed" => streamState' = "closed")
  BY <1>12 DEF OnSendComplete, Enter
<1>13. ASSUME NEW how \in {"finished", "aborted"}, OnPeerSend(how)
       PROVE  ClosedIsShut' /\ (streamState = "closed" => streamState' = "closed")
  BY <1>13 DEF OnPeerSend, Enter
<1>14. CASE UNCHANGED vars
  BY <1>14 DEF vars
<1> QED
  BY <1>1, <1>2, <1>3, <1>4, <1>5, <1>6, <1>7, <1>8, <1>9, <1>10, <1>11, <1>12, <1>13, <1>14
     DEF Next, Starting, Closing, Sending, Waking, Worker

(* State.closed is final: neither a late START_COMPLETE nor a later call   *)
(* takes the stream out of it, if MsQuic refuses no flags (the roll back   *)
(* of shutdown() would).                                                   *)
THEOREM ClosedStaysClosed == ASSUME NoRefusedFlags PROVE Spec => ClosedIsFinal
<1>1. StartedOnce
  BY DEF NoRefusedFlags, StartedOnce
<1>2. Init => ClosedIsShut
  BY DEF Init, ClosedIsShut, Tasks
<1>3. Spec => []IInv
  BY <1>1, Inductive
<1>4. IInv /\ ClosedIsShut /\ [Next]_vars =>
        ClosedIsShut' /\ [streamState = "closed" => streamState' = "closed"]_vars
  BY ClosedStep
<1> QED
  BY <1>2, <1>3, <1>4, PTL DEF Spec, ClosedIsFinal

-----------------------------------------------------------------------------
(* Answers *)

(* MsQuic has taken a StreamShutdown and not delivered SHUTDOWN_COMPLETE.  *)
ShutPending == mqEnded # {} /\ mq \notin {"shut", "closed"}

(* A stream MsQuic has shut says so and owes nothing to a shutdown() or a  *)
(* send(); otherwise SHUTDOWN_COMPLETE is still to come for whoever is in  *)
(* the shutdown slot, or that task is about to ask for it.                 *)
ShutAnswersAll ==
  /\ mq = "shut" => streamState = "closed" /\ shutdownContinuation = NoTask
  /\ mq \in {"shut", "closed"} => mqSends = {}
  /\ shutdownContinuation # NoTask => ShutPending \/ pc[shutdownContinuation] = "shutdownApi"
  /\ \A s \in Starters : pc[s] \notin {"shutdownApi", "shutdownFailed"}

LEMMA ShutAnswersAllStep ==
  ASSUME NoRefusedFlags, IInv, ClosedIsShut, ShutAnswersAll, [Next]_vars
  PROVE  ShutAnswersAll'
<1> USE TasksAssumption
    DEF IInv, TypeOK, SlotsOK, CallsOK, MsQuicOK, ClosedIsShut, ShutAnswersAll, Tasks,
        slots, object, calls, resumed, reception, msquic, ShutDue, ShutPending, Directions
<1>1. CASE OpenLocal \/ OpenFails \/ WrapPeer \/ AppDrop
  BY <1>1 DEF OpenLocal, OpenFails, WrapPeer, AppDrop
<1>2. CASE Deinit
  <2>1. \A t \in Tasks : continuation[t] # "pending"
    BY <1>2 DEF Deinit, Alive, PendingInCall
  <2>2. shutdownContinuation = NoTask /\ mqSends = {}
    BY <2>1 DEF ShutdownSlot, SendContexts
  <2> QED
    BY <1>2, <2>2 DEF Deinit
<1>3. ASSUME NEW t \in Starters, StartBegin(t) \/ StartApi(t) \/ StartFail(t)
      PROVE  ShutAnswersAll'
  BY <1>3 DEF StartBegin, StartApi, StartFail, NoRefusedFlags, MayStart
<1>4. ASSUME NEW t \in Closers, ShutdownBegin(t)
      PROVE  ShutAnswersAll'
  BY <1>4 DEF ShutdownBegin, ShutdownReturnsAtOnce
<1>5. ASSUME NEW t \in Closers, ShutdownApi(t) \/ ShutdownFail(t)
      PROVE  ShutAnswersAll'
  <2>1. ShutdownApi(t) /\ mq # "closed"
    BY <1>5 DEF ShutdownApi, ShutdownFail, NoRefusedFlags, UnopenedIsUnused, Opened, Alive, InCall
  <2>2. mqEnded' # {} /\ UNCHANGED <<mq, mqSends, slots, continuation>>
    BY <2>1 DEF ShutdownApi, NoRefusedFlags
  <2> QED
    BY <2>1, <2>2 DEF ShutdownApi, NoRefusedFlags
<1>6. ASSUME NEW t \in Senders, Send(t)
      PROVE  ShutAnswersAll'
  BY <1>6 DEF Send, Opened
<1>7. ASSUME NEW t \in Tasks, Return(t)
      PROVE  ShutAnswersAll'
  BY <1>7 DEF Return
<1>8. ASSUME NEW ok \in BOOLEAN, OnStartComplete(ok)
      PROVE  ShutAnswersAll'
  BY <1>8 DEF OnStartComplete, Enter
<1>9. ASSUME NEW t \in Senders, NEW canceled \in BOOLEAN, OnSendComplete(t, canceled)
      PROVE  ShutAnswersAll'
  BY <1>9 DEF OnSendComplete, Enter
<1>10. ASSUME NEW how \in {"finished", "aborted"}, OnPeerSend(how)
       PROVE  ShutAnswersAll'
  BY <1>10 DEF OnPeerSend, Enter
<1>11. CASE OnShutdownComplete
  BY <1>11 DEF OnShutdownComplete, Enter, SlotAfterTake
<1>12. CASE Reading \/ OnReceive \/ CallbackReturn \/ MsQuicShuts \/ OnPeerReceiveAborted
  BY <1>12 DEF Reading, ReaderStart, ReaderNext, ReaderEnd, OnReceive, CallbackReturn,
     MsQuicShuts, OnPeerReceiveAborted, Enter
<1>13. CASE UNCHANGED vars
  BY <1>13 DEF vars
<1> QED
  BY <1>1, <1>2, <1>3, <1>4, <1>5, <1>6, <1>7, <1>8, <1>9, <1>10, <1>11, <1>12, <1>13
     DEF Next, Lifetime, Starting, Closing, Sending, Waking, Worker

(* Every task that waits has a step to wait for: the answer of StreamStart *)
(* or START_COMPLETE, the task's own StreamShutdown or, once MsQuic took   *)
(* it, a SHUTDOWN_COMPLETE that was not delivered yet, a SEND_COMPLETE on  *)
(* a handle that still delivers one.  Only a shutdown() whose place        *)
(* another shutdown() took is left out.                                    *)
AnswerIsDue ==
  /\ \A s \in Starters : continuation[s] = "pending" =>
        pc[s] \in {"startApi", "startFailed"} \/ mq = "starting"
  /\ \A c \in Closers : continuation[c] = "pending" /\ ~PushedOut(c) =>
        pc[c] = "shutdownApi" \/ ShutPending
  /\ \A t \in Senders : continuation[t] = "pending" =>
        t \in mqSends /\ mq \notin {"shut", "closed"}

(* No wake-up is lost: neither a refused start, a shutdown() before or     *)
(* during start(), a failing START_COMPLETE nor the end of the stream      *)
(* leaves a task waiting for an event that was already delivered.          *)
THEOREM WaitersAreAnswered == ASSUME NoRefusedFlags PROVE Spec => []AnswerIsDue
<1>1. StartedOnce
  BY DEF NoRefusedFlags, StartedOnce
<1>2. Init => ClosedIsShut /\ ShutAnswersAll
  BY DEF Init, ClosedIsShut, ShutAnswersAll, Tasks
<1>3. IInv /\ ClosedIsShut /\ ShutAnswersAll /\ [Next]_vars => (ClosedIsShut /\ ShutAnswersAll)'
  BY ClosedStep, ShutAnswersAllStep
<1>4. Spec => [](IInv /\ ClosedIsShut /\ ShutAnswersAll)
  BY <1>1, <1>2, <1>3, Inductive, PTL DEF Spec
<1>5. IInv /\ ShutAnswersAll => AnswerIsDue
  <2> SUFFICES ASSUME IInv, ShutAnswersAll PROVE AnswerIsDue
    OBVIOUS
  <2> USE TasksAssumption DEF IInv, ShutAnswersAll, Tasks
  <2>1. ASSUME NEW s \in Starters, continuation[s] = "pending"
        PROVE  pc[s] \in {"startApi", "startFailed"} \/ mq = "starting"
    <3>1. startContinuation = s
      BY <2>1 DEF StartSlot
    <3>2. pc[s] \in {"startApi", "startFailed", "waiting"}
      BY <2>1 DEF PendingInCall, InCall, TypeOK, CallsOK
    <3> QED
      BY <3>1, <3>2 DEF StartSlot
  <2>2. ASSUME NEW c \in Closers, continuation[c] = "pending", ~PushedOut(c)
        PROVE  pc[c] = "shutdownApi" \/ ShutPending
    BY <2>2 DEF PushedOut
  <2>3. ASSUME NEW t \in Senders, continuation[t] = "pending"
        PROVE  t \in mqSends /\ mq \notin {"shut", "closed"}
    BY <2>3 DEF SendContexts
  <2> QED
    BY <2>1, <2>2, <2>3 DEF AnswerIsDue
<1> QED
  BY <1>4, <1>5, PTL

-----------------------------------------------------------------------------
(* Refinement *)

(* Before a stream is opened there is neither object nor handle. *)
LEMMA StageInit == Init => CH!Init
  BY DEF Init, CH!Init, ObjectStage, HandleStage, Opened

(* Every step of a stream is one step of the life cycle, or none. *)
LEMMA StageStep ==
  ASSUME StartedOnce, IInv, IInv', [Next]_vars
  PROVE  [CH!Next]_(CH!vars)
<1> USE DEF ObjectStage, HandleStage, Opened, MayCallBack, ShutDue
<1>0. CallbackLifetime /\ CallbackLifetime'
  BY CalledIsAlive, PTL
<1>1. CASE OpenLocal
  <2>1. CH!Create
    BY <1>1 DEF CH!Create, OpenLocal, Alive, SelfAfterInit
  <2> QED
    BY <2>1 DEF CH!Next
<1>2. CASE OpenFails
  <2>1. CH!CreateFails
    BY <1>2 DEF CH!CreateFails, OpenFails, Alive, object
  <2> QED
    BY <2>1 DEF CH!Next
<1>3. CASE WrapPeer
  <2>1. CH!Create
    BY <1>3 DEF CH!Create, WrapPeer, Alive, SelfAfterInit
  <2> QED
    BY <2>1 DEF CH!Next
<1>4. CASE AppDrop
  <2>1. CH!Die \/ UNCHANGED CH!vars
    BY <1>0, <1>4 DEF CallbackLifetime, CH!Die, CH!vars, AppDrop, Alive, msquic, InCall, calls,
       reception, IInv, UnopenedIsUnused, SelfReference
  <2> QED
    BY <2>1 DEF CH!Next
<1>5. CASE Deinit
  <2>1. CH!Close
    BY <1>0, <1>5 DEF CallbackLifetime, CH!Close, Deinit, Alive, object, calls, InCall, IInv,
       UnopenedIsUnused, SelfReference
  <2> QED
    BY <2>1 DEF CH!Next
<1>6. CASE Starting
  <2>1. PICK t \in Starters : StartBegin(t) \/ StartApi(t) \/ StartFail(t)
    BY <1>6 DEF Starting
  <2>2. t \in Tasks
    BY DEF Tasks
  <2>3. Alive /\ Alive' /\ UNCHANGED callback
    BY <2>1, <2>2 DEF StartBegin, StartApi, StartFail, Alive, InCall,
       Reachable, IInv, TypeOK, CallsOK, object
  <2>4. CASE UNCHANGED <<mq, mqEnded>>
    BY <2>3, <2>4 DEF CH!vars
  <2>5. CASE StartApi(t) /\ mq = "idle" /\ mq' = "starting"
    <3>1. CH!Arm \/ UNCHANGED CH!vars
      BY <2>3, <2>5 DEF StartApi, CH!Arm, CH!vars
    <3> QED
      BY <3>1 DEF CH!Next
  <2> QED
    BY <2>1, <2>4, <2>5 DEF StartBegin, StartApi, StartFail, msquic
<1>7. CASE Closing
  <2>1. PICK t \in Closers : ShutdownBegin(t) \/ ShutdownApi(t) \/ ShutdownFail(t)
    BY <1>7 DEF Closing
  <2>2. t \in Tasks
    BY DEF Tasks
  <2>3. Alive /\ Alive' /\ UNCHANGED callback
    BY <2>1, <2>2 DEF ShutdownBegin, ShutdownApi, ShutdownFail, Alive, InCall,
       Reachable, IInv, TypeOK, CallsOK, object
  <2>4. CASE UNCHANGED <<mq, mqEnded>>
    BY <2>3, <2>4 DEF CH!vars
  <2>5. CASE ShutdownApi(t)
    <3>1. UNCHANGED mq /\ Opened
      BY <2>2, <2>3, <2>5 DEF ShutdownApi, IInv, UnopenedIsUnused
    <3>2. ShutDue => ShutDue'
      BY <2>5 DEF ShutdownApi, IInv, TypeOK, MsQuicOK, ShutDue, Directions
    <3>3. CH!Arm \/ UNCHANGED CH!vars
      BY <2>3, <3>1, <3>2 DEF CH!Arm, CH!vars
    <3> QED
      BY <3>3 DEF CH!Next
  <2> QED
    BY <2>1, <2>4, <2>5 DEF ShutdownBegin, ShutdownApi, ShutdownFail, msquic
<1>8. CASE Sending
  <2>1. PICK t \in Senders : Send(t)
    BY <1>8 DEF Sending
  <2>2. t \in Tasks
    BY DEF Tasks
  <2>3. Alive /\ Alive' /\ UNCHANGED callback
    BY <2>1, <2>2 DEF Send, Alive, InCall, Reachable, IInv, TypeOK, CallsOK, object
  <2>4. Opened /\ Opened' /\ (MayCallBack => MayCallBack')
    BY <2>1 DEF Send, IInv, TypeOK, MsQuicOK, ShutDue, Directions
  <2>5. CH!Arm \/ UNCHANGED CH!vars
    BY <2>3, <2>4 DEF CH!Arm, CH!vars
  <2> QED
    BY <2>5 DEF CH!Next
<1>9. CASE Waking
  <2>1. CH!Die \/ UNCHANGED CH!vars
    BY <1>0, <1>9 DEF CallbackLifetime, CH!Die, CH!vars, Waking, Return, Alive, InCall, object,
       msquic, reception, IInv, UnopenedIsUnused, SelfReference
  <2> QED
    BY <2>1 DEF CH!Next
<1>10. CASE Reading
  <2>1. CH!Die \/ UNCHANGED CH!vars
    BY <1>0, <1>10 DEF CallbackLifetime, CH!Die, CH!vars, Reading, ReaderStart, ReaderNext,
       ReaderEnd,
       Alive, InCall, object, calls, msquic, IInv, UnopenedIsUnused,
       SelfReference
  <2> QED
    BY <2>1 DEF CH!Next
<1>11. ASSUME NEW ok \in BOOLEAN, OnStartComplete(ok)
      PROVE  [CH!Next]_(CH!vars)
  <2>1. CH!Enter
    BY <1>11 DEF CH!Enter, OnStartComplete, Enter, Alive, MsQuicOK, TypeOK,
       IInv, UnopenedIsUnused, SelfReference
  <2> QED
    BY <2>1 DEF CH!Next
<1>12. CASE OnReceive
  <2>1. CH!Enter
    BY <1>12 DEF CH!Enter, OnReceive, Enter, Alive, IInv, UnopenedIsUnused,
       SelfReference
  <2> QED
    BY <2>1 DEF CH!Next
<1>13. ASSUME NEW t \in Senders, NEW canceled \in BOOLEAN, OnSendComplete(t, canceled)
      PROVE  [CH!Next]_(CH!vars)
  <2>1. CH!Enter
    BY <1>13 DEF CH!Enter, OnSendComplete, Enter, Alive, IInv,
       UnopenedIsUnused, SelfReference
  <2> QED
    BY <2>1 DEF CH!Next
<1>14. ASSUME NEW how \in {"finished", "aborted"}, OnPeerSend(how)
      PROVE  [CH!Next]_(CH!vars)
  <2>1. CH!Enter
    BY <1>14 DEF CH!Enter, OnPeerSend, Enter, Alive, IInv, UnopenedIsUnused,
       SelfReference
  <2> QED
    BY <2>1 DEF CH!Next
<1>15. CASE OnShutdownComplete
  <2>1. CH!Enter
    BY <1>15 DEF CH!Enter, OnShutdownComplete, Enter, Alive, IInv,
       UnopenedIsUnused, SelfReference
  <2> QED
    BY <2>1 DEF CH!Next
<1>16. CASE CallbackReturn
  <2>1. CH!Leave
    BY <1>0, <1>16 DEF CallbackLifetime, CH!Leave, CallbackReturn, Alive, msquic, calls, reception,
       InCall, IInv, UnopenedIsUnused, SelfReference
  <2> QED
    BY <2>1 DEF CH!Next
<1>17. CASE OnPeerReceiveAborted
  <2>1. CH!Enter
    BY <1>17 DEF CH!Enter, OnPeerReceiveAborted, Enter, Alive, IInv, UnopenedIsUnused,
       SelfReference
  <2> QED
    BY <2>1 DEF CH!Next
<1>18. CASE MsQuicShuts
  BY <1>18 DEF CH!vars, MsQuicShuts, object, calls, reception, Alive, InCall, ShutDue
<1>19. CASE UNCHANGED vars
  BY <1>19 DEF CH!vars, vars, ShutDue, object, calls, reception, msquic, Alive, InCall
<1> QED
  BY <1>1, <1>2, <1>3, <1>4, <1>5, <1>6, <1>7, <1>8, <1>9, <1>10, <1>11,
     <1>12, <1>13, <1>14, <1>15, <1>16, <1>17, <1>18, <1>19 DEF Next, Lifetime, Worker

(* A QuicStream implements CallbackHandle: callbacks reach a live object,   *)
(* the object dies only when MsQuic is done with the handle, and deinit     *)
(* closes the handle once, with no handler running.                         *)
THEOREM ImplementsCallbackHandle ==
  ASSUME StartedOnce
  PROVE  Spec => KeepsHandleSafe
<1>1. IInv /\ IInv' /\ [Next]_vars => [CH!Next]_(CH!vars)
  BY StageStep
<1> QED
  BY <1>1, StageInit, Inductive, PTL DEF Spec, KeepsHandleSafe, CH!Spec

(* What follows from the life cycle (CallbackHandleProofs), for this module. *)
Promise == INSTANCE CallbackHandleProofs
             WITH object <- ObjectStage, handle <- HandleStage,
                  frame <- callback

(* MsQuic calls a stream back only while its object is alive, and          *)
(* StreamClose is called once, by deinit, with no handler running.         *)
THEOREM StreamClosedOnce ==
  ASSUME StartedOnce
  PROVE  Spec => []Promise!Safe /\ [][Promise!ClosedIsTheEnd]_(Promise!vars)
<1>1. CH!Init => Promise!Init
  BY DEF CH!Init, Promise!Init
<1>2. [CH!Next]_(CH!vars) => [Promise!Next]_(Promise!vars)
  BY DEF CH!vars, Promise!vars, CH!Next, Promise!Next,
         CH!Create, CH!CreateFails, CH!Arm, CH!Enter, CH!Leave, CH!Die, CH!Close,
         Promise!Create, Promise!CreateFails, Promise!Arm, Promise!Enter,
         Promise!Leave, Promise!Die, Promise!Close
<1>3. CH!Spec => Promise!Spec
  BY <1>1, <1>2, PTL DEF CH!Spec, Promise!Spec
<1> QED
  BY <1>3, ImplementsCallbackHandle, Promise!HandleIsSafe, Promise!ClosedOnce, PTL
     DEF KeepsHandleSafe
===============================================================================
