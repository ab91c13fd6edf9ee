----------------------------- MODULE QuicOwnership -----------------------------
(***************************************************************************)
(* Who holds whom, and which thread runs a deinit: the library, one        *)
(* registration, its configurations, listeners and connections, and their  *)
(* streams (Core/QuicObject.swift, Configuration/, Handlers/).             *)
(*                                                                         *)
(* What one wrapper does with its handle is QuicStream, QuicConnection and *)
(* QuicListener; here each is reduced to the references that keep it.  A   *)
(* deinit closes the handle, then lets go of the parent on the same        *)
(* thread, and RegistrationClose does not return while a child is open or  *)
(* when it is called from a callback.                                      *)
(***************************************************************************)

CONSTANTS
  Registration,
  Configurations, Listeners, Connections,
  LocalStreams,   (* opened by the application: they hold their connection *)
  PeerStreams,    (* opened by the peer: `connection` is nil *)
  ConnectionOf,   (* the connection of each stream *)
  Disciplines     (* when the application lets go of a wrapper, see MayDrop *)

Streams == LocalStreams \cup PeerStreams
Callers == Listeners \cup Connections \cup Streams  (* MsQuic calls them back *)
Objects == {Registration} \cup Configurations \cup Callers

ASSUME ConnectionOfAssumption == ConnectionOf \in [Streams -> Connections]

(* An object is of one kind, and none is a holder of another kind. *)
ASSUME ObjectsAssumption ==
  /\ Registration \notin Configurations \cup Callers
  /\ Configurations \cap Callers = {} /\ Listeners \cap Connections = {}
  /\ Streams \cap (Listeners \cup Connections) = {}
  /\ LocalStreams \cap PeerStreams = {}
  /\ {"app", "self", "thunk", "none"} \cap Objects = {}

ASSUME DisciplinesAssumption == Disciplines \subseteq {"patient", "prompt", "early"}

Parent == [o \in Objects \ {Registration} |->
             IF o \in Streams THEN ConnectionOf[o] ELSE Registration]

VARIABLES
  library,     (* SwiftMsQuicAPI: unopened, open, closed *)
  discipline,  (* the application's, for the whole behaviour *)
  refs,        (* the strong references to each object: who holds it *)
  handle,      (* the C handle of each object *)
  callback,    (* per caller: the thunk of its last event runs, or unwinds *)
  deinitOn     (* the thread that dropped the last reference: "app", or the  *)
               (* caller whose callback it was *)

vars == <<library, discipline, refs, handle, callback, deinitOn>>

(* "app": the application, in a variable, a suspended call or a stream     *)
(* handler's task.  "self": retainSelfForCallback.  "thunk": the reference *)
(* a running callback gets from fromCInteropHandle.  A child: its stored   *)
(* property; a stream of the peer has none.                                *)
MayHold(o) ==
  {"app"} \cup (IF o \in Callers THEN {"self", "thunk"} ELSE {})
          \cup {x \in Objects \ (PeerStreams \cup {Registration}) : Parent[x] = o}

OpenStages == {"idle", "running", "ending", "ended", "vetoed"}

(* refused: a server wrapper whose handle went back to MsQuic.  vetoed: a  *)
(* connection whose event handler answered the last event with a failure.  *)
TypeOK ==
  /\ library \in {"unopened", "open", "closed"}
  /\ discipline \in Disciplines
  /\ DOMAIN refs = Objects /\ \A o \in Objects : refs[o] \subseteq MayHold(o)
  /\ handle \in [Objects -> {"absent", "refused", "closed"} \cup OpenStages]
  /\ callback \in [Callers -> {"none", "running", "returning"}]
  /\ deinitOn \in [Objects -> {"none", "app"} \cup Callers]

-----------------------------------------------------------------------------
(* References and threads *)

(* The streams of a connection and the connection share a worker. *)
WorkerOf(o) == IF o \in Streams THEN ConnectionOf[o] ELSE o

Busy(o) == \E x \in Callers : WorkerOf(x) = WorkerOf(o) /\ callback[x] # "none"

Reachable(o) == "app" \in refs[o]

Dying(o) == handle[o] \in OpenStages /\ refs[o] = {}

(* `thread` leaves the references as `left`; what nobody holds any more is *)
(* deinitialized on that thread.                                           *)
Release(thread, left) ==
  /\ refs' = left
  /\ deinitOn' = [o \in Objects |->
                   IF refs[o] # {} /\ left[o] = {} THEN thread ELSE deinitOn[o]]

(* A patient application lets go of a wrapper when its last callback has   *)
(* returned; a prompt one when shutdown() or stop() returned, as the       *)
(* example does; an early one at any time.                                 *)
MayDrop(o) ==
  o \in Callers =>
    /\ discipline \in {"prompt", "patient"} => handle[o] \in {"ended", "vetoed"}
    /\ discipline = "patient" => callback[o] = "none"

-----------------------------------------------------------------------------
Init ==
  /\ library = "unopened"
  /\ discipline \in Disciplines
  /\ refs = [o \in Objects |-> {}]
  /\ handle = [o \in Objects |-> "absent"]
  /\ callback = [o \in Callers |-> "none"]
  /\ deinitOn = [o \in Objects |-> "none"]

ApiOpen ==
  /\ library = "unopened"
  /\ library' = "open"
  /\ UNCHANGED <<discipline, refs, handle, callback, deinitOn>>

(* SwiftMsQuicAPI.close(), when the application released what it held and  *)
(* the deinits this caused on its threads are over.  An application that   *)
(* lets go sooner than "patient" leaves the library open.                  *)
ApiClose ==
  /\ library = "open" /\ discipline = "patient"
  /\ \A o \in Objects : ~Reachable(o) /\ ~(Dying(o) /\ deinitOn[o] = "app")
  /\ library' = "closed"
  /\ UNCHANGED <<discipline, refs, handle, callback, deinitOn>>

(* Mutants: no self-reference is taken, or one by every QuicObject; a      *)
(* stream does not hold its connection.                                    *)
MutSelfAfterInit(o) == {}
MutRetainsAll(o) == {"self"}
MutKeeps(o) == IF o \in LocalStreams THEN {} ELSE {o}

(* What init leaves besides the caller's reference. *)
SelfAfterInit(o) == IF o \in Callers THEN {"self"} ELSE {}

(* `registration` or `connection`, the property that holds the parent. *)
Keeps(o) == {o}

(* A wrapper o exists, with its handle at `stage`, held by `holders`. *)
Wrap(o, stage, holders) ==
  /\ handle[o] = "absent" /\ library = "open"
  /\ handle' = [handle EXCEPT ![o] = stage]
  /\ refs' = [x \in Objects |->
                IF x = o THEN holders
                ELSE IF o # Registration /\ x = Parent[o] THEN refs[x] \cup Keeps(o)
                ELSE refs[x]]
  /\ UNCHANGED <<library, discipline, callback, deinitOn>>

(* The initializers of an application's objects.  A stream needs a         *)
(* connection that is not shutting down.  When RegistrationOpen, ...,      *)
(* StreamOpen refuses, init throws and leaves nothing behind: a stream     *)
(* gives back its self-reference, the others have not taken theirs.        *)
Open(o) ==
  /\ o \notin PeerStreams
  /\ o # Registration => Reachable(Parent[o])
  /\ o \in Streams => handle[Parent[o]] \in {"idle", "running"}
  /\ Wrap(o, "idle", {"app"} \cup SelfAfterInit(o))

(* QuicConnection.init(handle:configuration:streamHandler:) in a           *)
(* listener's handler, which has a configuration.                          *)
MayAccept == /\ \E l \in Listeners : handle[l] = "running"
             /\ \E k \in Configurations : Reachable(k)

Accept(c) == MayAccept /\ Wrap(c, "running", {"app"} \cup SelfAfterInit(c))

(* ConnectionSetConfiguration fails after the self-reference was taken:    *)
(* the wrapper stays, with its registration, and nobody will release it.   *)
AcceptFails(c) == MayAccept /\ Wrap(c, "refused", {"self"})

(* PEER_STREAM_STARTED: a task runs the application's handler with both    *)
(* objects.                                                                *)
PeerStream(s) ==
  /\ handle[s] = "absent"
  /\ handle[ConnectionOf[s]] = "running" /\ ~Busy(s)
  /\ handle' = [handle EXCEPT ![s] = "running"]
  /\ refs' = [refs EXCEPT ![s] = {"app"} \cup SelfAfterInit(s),
                          ![ConnectionOf[s]] = @ \cup {"app"}]
  /\ UNCHANGED <<library, discipline, callback, deinitOn>>

-----------------------------------------------------------------------------
(* Calls *)

(* start(): a connection needs a configuration. *)
Start(o) ==
  /\ o \notin PeerStreams /\ Reachable(o) /\ handle[o] = "idle"
  /\ o \in Connections => \E k \in Configurations : Reachable(k)
  /\ handle' = [handle EXCEPT ![o] = "running"]
  /\ UNCHANGED <<library, discipline, refs, callback, deinitOn>>

(* ConnectionStart or StreamStart refuses: the self-reference is released. *)
StartFails(o) ==
  /\ o \in Connections \cup LocalStreams /\ Reachable(o) /\ handle[o] = "idle"
  /\ handle' = [handle EXCEPT ![o] = "ended"]
  /\ Release("app", [refs EXCEPT ![o] = @ \ {"self"}])
  /\ UNCHANGED <<library, discipline, callback>>

(* shutdown() of a connection or stream, stop() of a listener that runs.   *)
(* One that ends a single direction of a stream counts when the other has  *)
(* ended too.                                                              *)
Shutdown(o) ==
  /\ Reachable(o)
  /\ handle[o] = "running" \/ (handle[o] = "idle" /\ o \notin Listeners)
  /\ handle' = [handle EXCEPT ![o] = "ending"]
  /\ UNCHANGED <<library, discipline, refs, callback, deinitOn>>

(* QuicRegistration.shutdown(): every connection. *)
RegistrationShutdown ==
  /\ Reachable(Registration)
  /\ \E c \in Connections : handle[c] \in {"idle", "running"}
  /\ handle' = [o \in Objects |->
                  IF o \in Connections /\ handle[o] \in {"idle", "running"}
                  THEN "ending" ELSE handle[o]]
  /\ UNCHANGED <<library, discipline, refs, callback, deinitOn>>

(* stream.connection and .registration give the application a reference    *)
(* to the parent of an object it has.                                      *)
AppTake(o) ==
  /\ ~Reachable(o)
  /\ \E x \in refs[o] \cap Objects : Reachable(x)
  /\ refs' = [refs EXCEPT ![o] = @ \cup {"app"}]
  /\ UNCHANGED <<library, discipline, handle, callback, deinitOn>>

AppDrop(o) ==
  /\ Reachable(o) /\ MayDrop(o)
  /\ Release("app", [refs EXCEPT ![o] = @ \ {"app"}])
  /\ UNCHANGED <<library, discipline, handle, callback>>

-----------------------------------------------------------------------------
(* MsQuic *)

(* The peer or the transport ends a connection or a stream. *)
PeerEnds(o) ==
  /\ o \notin Listeners /\ handle[o] = "running"
  /\ handle' = [handle EXCEPT ![o] = "ending"]
  /\ UNCHANGED <<library, discipline, refs, callback, deinitOn>>

(* The last event is due.  The streams of a connection end with it, and    *)
(* before it.                                                              *)
EndDue(o) ==
  /\ \/ handle[o] = "ending"
     \/ o \in Streams /\ handle[o] = "running" /\ handle[ConnectionOf[o]] = "ending"
  /\ o \in Connections =>
       \A s \in Streams : ConnectionOf[s] = o => handle[s] \notin {"running", "ending"}

(* Mutant: the self-reference is kept. *)
MutSelfAfterLastEvent(o) == refs[o] \cap {"self"}

SelfAfterLastEvent(o) == {}

(* SHUTDOWN_COMPLETE or STOP_COMPLETE: the thunk takes a reference, the    *)
(* handler releases the self-reference and resumes the caller.  A          *)
(* connection asks its event handler first, and does nothing of this when  *)
(* the answer is a failure: the object holds itself for ever.              *)
LastEvent(o) ==
  /\ EndDue(o) /\ ~Busy(o)
  /\ callback' = [callback EXCEPT ![o] = "running"]
  /\ \/ /\ handle' = [handle EXCEPT ![o] = "ended"]
        /\ refs' = [refs EXCEPT ![o] =
                       (@ \ {"self"}) \cup SelfAfterLastEvent(o) \cup {"thunk"}]
     \/ /\ o \in Connections
        /\ handle' = [handle EXCEPT ![o] = "vetoed"]
        /\ refs' = [refs EXCEPT ![o] = @ \cup {"thunk"}]
  /\ UNCHANGED <<library, discipline, deinitOn>>

(* The thunk lets go of the object... *)
ThunkReleases(o) ==
  /\ callback[o] = "running"
  /\ callback' = [callback EXCEPT ![o] = "returning"]
  /\ Release(o, [refs EXCEPT ![o] = @ \ {"thunk"}])
  /\ UNCHANGED <<library, discipline, handle>>

(* ... and returns to MsQuic when the deinits this caused are over. *)
ThunkReturns(o) ==
  /\ callback[o] = "returning"
  /\ \A x \in Objects : Dying(x) => deinitOn[x] # o
  /\ callback' = [callback EXCEPT ![o] = "none"]
  /\ UNCHANGED <<library, discipline, refs, handle, deinitOn>>

(* RegistrationClose "blocks until all child objects are closed" and "can  *)
(* deadlock if called from a callback"; the other closes return.           *)
CloseReturns(o) ==
  o = Registration =>
    /\ deinitOn[o] = "app"
    /\ \A x \in Objects \ (Streams \cup {o}) : handle[x] \notin OpenStages

(* Mutant: a connection's reference to the registration is leaked. *)
MutWithoutStored(o) ==
  [x \in Objects |-> IF o \in Connections THEN refs[x] ELSE refs[x] \ {o}]

(* The stored properties of o are released. *)
WithoutStored(o) == [x \in Objects |-> refs[x] \ {o}]

(* deinit: close the handle, then drop the stored properties. *)
Deinit(o) ==
  /\ Dying(o) /\ CloseReturns(o)
  /\ handle' = [handle EXCEPT ![o] = "closed"]
  /\ Release(deinitOn[o], WithoutStored(o))
  /\ UNCHANGED <<library, discipline, callback>>

-----------------------------------------------------------------------------
Library == ApiOpen \/ ApiClose
Serving == \/ \E c \in Connections : Accept(c) \/ AcceptFails(c)
           \/ \E s \in PeerStreams : PeerStream(s)
Calling == \/ \E o \in Callers : Start(o) \/ StartFails(o) \/ Shutdown(o)
           \/ RegistrationShutdown
Holding == \E o \in Objects : Open(o) \/ AppTake(o) \/ AppDrop(o) \/ Deinit(o)
Worker  == \E o \in Callers : PeerEnds(o) \/ LastEvent(o) \/ ThunkReleases(o) \/ ThunkReturns(o)

Next == Library \/ Serving \/ Calling \/ Holding \/ Worker

Spec == Init /\ [][Next]_vars

(* MsQuic delivers the last event it owes; a thunk and a deinit go on.     *)
(* What the application and the peer decide is not fair.                   *)
Fairness ==
  /\ \A o \in Callers : WF_vars(LastEvent(o)) /\ WF_vars(ThunkReleases(o))
                          /\ WF_vars(ThunkReturns(o))
  /\ \A o \in Objects : WF_vars(Deinit(o))

FairSpec == Spec /\ Fairness

-----------------------------------------------------------------------------
(* Safety *)

(* The handle of a parent is open as long as a child that keeps it is: no  *)
(* StreamClose after ConnectionClose for a stream the application opened,  *)
(* nothing after RegistrationClose, and RegistrationClose never waits for  *)
(* a child.  A peer's stream keeps nothing.                                *)
ClosedBottomUp ==
  \A o \in Objects \ (PeerStreams \cup {Registration}) :
    handle[o] \in OpenStages => handle[Parent[o]] \in OpenStages

(* Nobody will release a self-reference: that of a connection which was    *)
(* refused after its wrapper took it, or whose last event was vetoed.      *)
Leaked == \E o \in Objects : handle[o] \in {"refused", "vetoed"}

(* "All QUIC objects must be released before calling this method": a       *)
(* patient application that released everything has indeed closed every    *)
(* handle when it calls SwiftMsQuicAPI.close(), the registration's too,    *)
(* which it may have let go of long before.                                *)
ClosesInLibrary ==
  library = "closed" /\ ~Leaked => \A o \in Objects : handle[o] \notin OpenStages

(* handleEvent's comment at SHUTDOWN_COMPLETE and STOP_COMPLETE: "The      *)
(* caller still holds a strong reference, so deinit won't fire on the      *)
(* callback thread."                                                       *)
DeinitOffCallbackThread == \A o \in Objects : deinitOn[o] \in {"none", "app"}

(* Every wrapper, wherever it sits in the tree and whoever lets go of it,  *)
(* keeps what QuicObject promises about its handle.                        *)
ObjectStage(o) ==
  IF handle[o] = "absent" THEN "absent"
  ELSE IF handle[o] \notin OpenStages THEN "gone"
  ELSE IF Dying(o) THEN "dying" ELSE "live"

HandleStage(o) ==
  IF handle[o] \in {"idle", "ended", "vetoed"} THEN "quiet"
  ELSE IF handle[o] \in {"running", "ending"} THEN "calling"
  ELSE IF handle[o] = "closed" THEN "closed" ELSE "none"

CH(o) == INSTANCE CallbackHandle
           WITH object <- ObjectStage(o), handle <- HandleStage(o),
                frame <- "thunk" \in refs[o]

KeepsHandleSafe ==
  /\ \A o \in Objects : CH(o)!Init
  /\ [][\A o \in Objects : UNCHANGED CH(o)!vars \/ CH(o)!Next]_vars

-----------------------------------------------------------------------------
(* Liveness *)

(* The application holds nothing and everything it started is ending. *)
Abandoned ==
  \A o \in Objects :
    /\ ~Reachable(o)
    /\ o \in Callers => handle[o] \notin {"idle", "running"}

(* There is no cycle of references and no release is forgotten: what the   *)
(* application let go of is closed, but for a connection whose last event  *)
(* was vetoed and what it holds.  RegistrationClose returns when the       *)
(* application was patient.                                                *)
AllReclaimed ==
  /\ Abandoned ~> \A o \in Objects \ {Registration} :
                    handle[o] \notin OpenStages \ {"vetoed"}
  /\ (Abandoned /\ discipline = "patient" /\ ~Leaked)
       ~> handle[Registration] \notin OpenStages
===============================================================================
