-------------------------- MODULE QuicOwnershipProofs --------------------------
(***************************************************************************)
(* The tree of wrappers, for every number of objects and every discipline. *)
(***************************************************************************)
EXTENDS QuicOwnership, TLAPS

Children == Objects \ (PeerStreams \cup {Registration})

(* Lemma: the kinds of objects and the parents. *)
LEMMA Kinds ==
  /\ Registration \in Objects /\ Callers \subseteq Objects /\ Connections \subseteq Callers
  /\ Configurations \subseteq Objects /\ Listeners \subseteq Callers /\ Streams \subseteq Callers
  /\ LocalStreams \subseteq Streams /\ PeerStreams \subseteq Streams
  /\ \A o \in Objects \ {Registration} : Parent[o] \in Objects /\ Parent[o] # o
  /\ \A o \in Streams : Parent[o] = ConnectionOf[o] /\ ConnectionOf[o] \in Connections
  /\ \A o \in Objects \ ({Registration} \cup Streams) : Parent[o] = Registration
  /\ Children \cap PeerStreams = {} /\ Registration \notin Children
  /\ Children \subseteq Objects
  /\ Connections \subseteq Children /\ Configurations \subseteq Children
  /\ Listeners \subseteq Children /\ LocalStreams \subseteq Children
  BY ObjectsAssumption, ConnectionOfAssumption
     DEF Objects, Callers, Streams, Parent, Children

(* Lemma: Next, one disjunct per action. *)
LEMMA NextActions ==
  ASSUME NEW P, [Next]_vars,
         ApiOpen => P, ApiClose => P, RegistrationShutdown => P, UNCHANGED vars => P,
         \A c \in Connections : (Accept(c) => P) /\ (AcceptFails(c) => P),
         \A s \in PeerStreams : PeerStream(s) => P,
         \A o \in Callers : /\ Start(o) => P
                            /\ StartFails(o) => P
                            /\ Shutdown(o) => P
                            /\ PeerEnds(o) => P
                            /\ LastEvent(o) => P
                            /\ ThunkReleases(o) => P
                            /\ ThunkReturns(o) => P,
         \A o \in Objects : /\ Open(o) => P
                            /\ AppTake(o) => P
                            /\ AppDrop(o) => P
                            /\ Deinit(o) => P
  PROVE  P
  BY DEF Next, Library, Serving, Calling, Holding, Worker

-----------------------------------------------------------------------------
(* Types *)

LEMMA TypeInit == Init => TypeOK
  BY ObjectsAssumption DEF Init, TypeOK, MayHold, OpenStages

(* Lemma: a new wrapper keeps the types. *)
LEMMA TypeWrap ==
  ASSUME TypeOK, NEW o \in Objects \ PeerStreams, NEW stage \in {"refused"} \cup OpenStages,
         NEW holders \in SUBSET MayHold(o), Wrap(o, stage, holders)
  PROVE  TypeOK'
  <1>1. handle' \in [Objects -> {"absent", "refused", "closed"} \cup OpenStages]
    BY DEF Wrap, TypeOK
  <1>2. DOMAIN refs' = Objects
    BY DEF Wrap
  <1>3. ASSUME NEW x \in Objects PROVE refs'[x] \subseteq MayHold(x)
    <2>1. CASE x = o
      BY <2>1 DEF Wrap
    <2>2. CASE o # Registration /\ x # o /\ x = Parent[o]
      <3>1. refs'[x] = refs[x] \cup {o}
        BY <2>2 DEF Wrap, Keeps
      <3>2. o \in MayHold(x)
        BY <2>2 DEF MayHold
      <3> QED
        BY <3>1, <3>2 DEF TypeOK
    <2>3. CASE x # o /\ ~(o # Registration /\ x # o /\ x = Parent[o])
      BY <2>3 DEF Wrap, TypeOK
    <2> QED
      BY <2>1, <2>2, <2>3
  <1> QED
    BY <1>1, <1>2, <1>3 DEF TypeOK, Wrap, MayHold

(* Lemma: a release keeps the types. *)
LEMMA TypeRelease ==
  ASSUME TypeOK, NEW thread \in {"none", "app"} \cup Callers, NEW left,
         DOMAIN left = Objects, \A x \in Objects : left[x] \subseteq refs[x],
         Release(thread, left)
  PROVE  /\ DOMAIN refs' = Objects
         /\ \A x \in Objects : refs'[x] \subseteq MayHold(x)
         /\ deinitOn' \in [Objects -> {"none", "app"} \cup Callers]
  BY DEF Release, TypeOK

(* Lemma: every step keeps the types. *)
LEMMA TypeStep == TypeOK /\ [Next]_vars => TypeOK'
  <1> SUFFICES ASSUME TypeOK, [Next]_vars PROVE TypeOK'
    OBVIOUS
  <1>h. \A o \in Objects : (refs[o] \subseteq MayHold(o))' <=> refs'[o] \subseteq MayHold(o)
    BY DEF MayHold
  <1>1. ApiOpen \/ ApiClose \/ RegistrationShutdown \/ UNCHANGED vars => TypeOK'
    BY DEF ApiOpen, ApiClose, RegistrationShutdown, vars, TypeOK, OpenStages, MayHold
  <1>2. ASSUME NEW c \in Connections PROVE (Accept(c) => TypeOK') /\ (AcceptFails(c) => TypeOK')
    <2>1. {"app"} \cup SelfAfterInit(c) \in SUBSET MayHold(c) /\ {"self"} \in SUBSET MayHold(c)
      BY Kinds DEF SelfAfterInit, MayHold
    <2>2. c \in Objects \ PeerStreams
      BY Kinds
    <2>3. "running" \in {"refused"} \cup OpenStages
      BY DEF OpenStages
    <2>4. Accept(c) => TypeOK'
      BY <2>1, <2>2, <2>3, TypeWrap DEF Accept
    <2> QED
      BY <2>1, <2>2, <2>4, TypeWrap DEF AcceptFails
  <1>3. ASSUME NEW s \in PeerStreams, PeerStream(s) PROVE TypeOK'
    <2>1. s \in Callers /\ s \in Objects /\ ConnectionOf[s] \in Objects /\ ConnectionOf[s] # s
      BY Kinds
    <2>2. {"app"} \cup SelfAfterInit(s) \subseteq MayHold(s)
      BY <2>1 DEF SelfAfterInit, MayHold
    <2>3. \A x \in Objects : "app" \in MayHold(x)
      BY DEF MayHold
    <2>4. DOMAIN refs' = Objects /\ \A x \in Objects : refs'[x] \subseteq MayHold(x)
      BY <1>3, <2>1, <2>2, <2>3 DEF PeerStream, TypeOK
    <2>5. handle' \in [Objects -> {"absent", "refused", "closed"} \cup OpenStages]
      BY <1>3, <2>1 DEF PeerStream, TypeOK, OpenStages
    <2> QED
      BY <1>3, <2>4, <2>5, <1>h DEF PeerStream, TypeOK
  <1>4. ASSUME NEW o \in Callers
        PROVE  Start(o) \/ Shutdown(o) \/ PeerEnds(o) => TypeOK'
    BY Kinds, <1>h DEF Start, Shutdown, PeerEnds, TypeOK, OpenStages
  <1>5. ASSUME NEW o \in Callers, StartFails(o) PROVE TypeOK'
    <2> DEFINE left == [refs EXCEPT ![o] = @ \ {"self"}]
    <2>1. DOMAIN left = Objects /\ \A x \in Objects : left[x] \subseteq refs[x]
      BY DEF TypeOK
    <2>2. Release("app", left)
      BY <1>5 DEF StartFails
    <2>3. handle' \in [Objects -> {"absent", "refused", "closed"} \cup OpenStages]
      BY <1>5, Kinds DEF StartFails, TypeOK, OpenStages
    <2> HIDE DEF left
    <2> QED
      BY <2>1, <2>2, <2>3, <1>5, <1>h, TypeRelease DEF StartFails, TypeOK
  <1>6. ASSUME NEW o \in Callers, LastEvent(o) PROVE TypeOK'
    <2>1. "thunk" \in MayHold(o)
      BY DEF MayHold
    <2>2. DOMAIN refs' = Objects /\ \A x \in Objects : refs'[x] \subseteq MayHold(x)
      BY <1>6, <2>1 DEF LastEvent, SelfAfterLastEvent, TypeOK
    <2> QED
      BY <1>6, <2>2, <1>h, Kinds DEF LastEvent, TypeOK, OpenStages
  <1>7. ASSUME NEW o \in Callers, ThunkReleases(o) PROVE TypeOK'
    <2> DEFINE left == [refs EXCEPT ![o] = @ \ {"thunk"}]
    <2>1. DOMAIN left = Objects /\ \A x \in Objects : left[x] \subseteq refs[x]
      BY DEF TypeOK
    <2>2. Release(o, left)
      BY <1>7 DEF ThunkReleases
    <2> HIDE DEF left
    <2> QED
      BY <2>1, <2>2, <1>7, <1>h, TypeRelease DEF ThunkReleases, TypeOK
  <1>8. ASSUME NEW o \in Callers PROVE ThunkReturns(o) => TypeOK'
    BY <1>h DEF ThunkReturns, TypeOK
  <1>9. ASSUME NEW o \in Objects, Open(o) PROVE TypeOK'
    <2>1. {"app"} \cup SelfAfterInit(o) \in SUBSET MayHold(o)
      BY DEF SelfAfterInit, MayHold
    <2>2. "idle" \in {"refused"} \cup OpenStages /\ o \in Objects \ PeerStreams
      BY <1>9 DEF OpenStages, Open
    <2> QED
      BY <2>1, <2>2, <1>9, TypeWrap DEF Open
  <1>10. ASSUME NEW o \in Objects PROVE AppTake(o) => TypeOK'
    BY <1>h DEF AppTake, TypeOK, MayHold
  <1>11. ASSUME NEW o \in Objects, AppDrop(o) PROVE TypeOK'
    <2> DEFINE left == [refs EXCEPT ![o] = @ \ {"app"}]
    <2>1. DOMAIN left = Objects /\ \A x \in Objects : left[x] \subseteq refs[x]
      BY DEF TypeOK
    <2>2. Release("app", left)
      BY <1>11 DEF AppDrop
    <2> HIDE DEF left
    <2> QED
      BY <2>1, <2>2, <1>11, <1>h, TypeRelease DEF AppDrop, TypeOK
  <1>12. ASSUME NEW o \in Objects, Deinit(o) PROVE TypeOK'
    <2>1. /\ DOMAIN WithoutStored(o) = Objects
          /\ \A x \in Objects : WithoutStored(o)[x] \subseteq refs[x]
      BY DEF WithoutStored
    <2>2. Release(deinitOn[o], WithoutStored(o)) /\ deinitOn[o] \in {"none", "app"} \cup Callers
      BY <1>12 DEF Deinit, TypeOK
    <2>3. handle' \in [Objects -> {"absent", "refused", "closed"} \cup OpenStages]
      BY <1>12 DEF Deinit, TypeOK
    <2> QED
      BY <2>1, <2>2, <2>3, <1>12, <1>h, TypeRelease DEF Deinit, TypeOK
  <1> QED
    BY <1>1, <1>2, <1>3, <1>4, <1>5, <1>6, <1>7, <1>8, <1>9, <1>10, <1>11, <1>12, NextActions

(* Every variable keeps its type; a reference has one of the holders the   *)
(* code has: a caller, the object itself, its thunk or a child.            *)
THEOREM TypeCorrect == Spec => []TypeOK
  BY TypeInit, TypeStep, PTL DEF Spec

-----------------------------------------------------------------------------
(* The inductive invariant *)

(* A wrapper that does not exist is held by nobody. *)
Unheld == \A o \in Objects : handle[o] \in {"absent", "closed"} => refs[o] = {}

(* Only connections are refused or vetoed; the registration and the        *)
(* configurations have no callbacks.                                       *)
Kept ==
  /\ \A o \in Objects : handle[o] \in {"refused", "vetoed"} => o \in Connections
  /\ \A o \in Objects \ Callers : handle[o] \in {"absent", "idle", "closed"}

(* A child holds its parent exactly as long as the child exists. *)
Held ==
  \A o \in Children : o \in refs[Parent[o]] <=> handle[o] \in OpenStages \cup {"refused"}

(* The self-reference is there until the last event or a refused start,    *)
(* and for ever if that event was vetoed.                                  *)
SelfReference ==
  \A o \in Callers :
    "self" \in refs[o] <=> handle[o] \in {"idle", "running", "ending", "vetoed", "refused"}

(* The thunk holds the object while it runs the last event. *)
ThunkReference ==
  \A o \in Callers :
    /\ "thunk" \in refs[o] <=> callback[o] = "running"
    /\ callback[o] = "running" => handle[o] \in {"ended", "vetoed"}

Tree == TypeOK /\ Unheld /\ Kept /\ Held /\ SelfReference /\ ThunkReference

(* Lemma: a parent in use is open, unless it is a refused connection.      *)
LEMMA HeldIsOpen ==
  ASSUME Tree, NEW o \in Objects, refs[o] # {}, handle[o] # "refused"
  PROVE  handle[o] \in OpenStages
  BY DEF Tree, TypeOK, Unheld

(* Lemma: what Wrap changes. *)
LEMMA Wrapped ==
  ASSUME Tree, NEW o \in Objects, NEW stage, NEW holders, Wrap(o, stage, holders)
  PROVE  /\ handle[o] = "absent" /\ handle'[o] = stage /\ refs'[o] = holders
         /\ \A x \in Objects \ {o} :
              /\ handle'[x] = handle[x]
              /\ \A h : h # o => (h \in refs'[x] <=> h \in refs[x])
              /\ refs'[x] # refs[x] => o # Registration /\ x = Parent[o]
         /\ o # Registration => o \in refs'[Parent[o]]
         /\ callback' = callback /\ deinitOn' = deinitOn
         /\ library' = library /\ discipline' = discipline
  <1>1. /\ handle[o] = "absent" /\ handle'[o] = stage /\ refs'[o] = holders
        /\ callback' = callback /\ deinitOn' = deinitOn
        /\ library' = library /\ discipline' = discipline
        /\ \A x \in Objects \ {o} : handle'[x] = handle[x]
    BY DEF Wrap, Tree, TypeOK
  <1>2. ASSUME NEW x \in Objects \ {o}, o # Registration, x = Parent[o]
        PROVE  refs'[x] = refs[x] \cup {o}
    BY <1>2 DEF Wrap, Keeps
  <1>3. ASSUME NEW x \in Objects \ {o}, ~(o # Registration /\ x = Parent[o])
        PROVE  refs'[x] = refs[x]
    BY <1>3 DEF Wrap
  <1>4. o # Registration => Parent[o] \in Objects \ {o}
    BY Kinds
  <1> QED
    BY <1>1, <1>2, <1>3, <1>4

(* Lemma: a new wrapper whose parent is in use keeps the tree. *)
LEMMA TreeWrap ==
  ASSUME Tree, TypeOK', NEW o \in Objects \ PeerStreams,
         NEW stage \in {"idle", "running", "refused"}, NEW holders,
         Wrap(o, stage, holders),
         holders \subseteq {"app", "self"},
         "self" \in holders <=> o \in Callers,
         o # Registration => handle[Parent[o]] \in OpenStages,
         stage = "refused" => o \in Connections,
         o \notin Callers => stage = "idle"
  PROVE  Tree'
  <1>w. /\ handle[o] = "absent" /\ handle'[o] = stage /\ refs'[o] = holders
        /\ \A x \in Objects \ {o} :
             /\ handle'[x] = handle[x]
             /\ \A h : h # o => (h \in refs'[x] <=> h \in refs[x])
             /\ refs'[x] # refs[x] => o # Registration /\ x = Parent[o]
        /\ o # Registration => o \in refs'[Parent[o]]
        /\ callback' = callback
    BY Wrapped
  <1>1. Unheld'
    <2> SUFFICES ASSUME NEW x \in Objects, handle'[x] \in {"absent", "closed"} PROVE refs'[x] = {}
      BY DEF Unheld
    <2>1. x # o /\ handle[x] = handle'[x] /\ refs[x] = {}
      BY <1>w DEF Tree, Unheld
    <2> QED
      BY <2>1, <1>w DEF OpenStages
  <1>2. Kept'
    BY <1>w, Kinds DEF Tree, Kept
  <1>3. Held'
    <2> SUFFICES ASSUME NEW x \in Children
                 PROVE  x \in refs'[Parent[x]] <=> handle'[x] \in OpenStages \cup {"refused"}
      BY DEF Held
    <2>1. x \in Objects /\ Parent[x] \in Objects /\ x \notin {"app", "self"} /\ Parent[x] # x
      BY Kinds, ObjectsAssumption
    <2>2. CASE x = o
      <3>1. x \in refs'[Parent[x]]
        BY <2>1, <2>2, <1>w, Kinds
      <3> QED
        BY <3>1, <2>2, <1>w DEF OpenStages
    <2>3. CASE x # o
      <3>1. handle'[x] = handle[x]
        BY <2>1, <2>3, <1>w
      <3>2. x \in refs'[Parent[x]] <=> x \in refs[Parent[x]]
        <4>1. CASE Parent[x] = o
          <5>1. refs[o] = {} /\ x \notin refs'[o]
            BY <2>1, <1>w DEF Tree, Unheld
          <5> QED
            BY <4>1, <5>1
        <4>2. CASE Parent[x] # o
          BY <4>2, <2>1, <2>3, <1>w
        <4> QED
          BY <4>1, <4>2
      <3> QED
        BY <3>1, <3>2 DEF Tree, Held
    <2> QED
      BY <2>2, <2>3
  <1>4. SelfReference' /\ ThunkReference'
    <2> SUFFICES ASSUME NEW x \in Callers
                 PROVE  /\ "self" \in refs'[x] <=>
                             handle'[x] \in {"idle", "running", "ending", "vetoed", "refused"}
                        /\ "thunk" \in refs'[x] <=> callback'[x] = "running"
                        /\ callback'[x] = "running" => handle'[x] \in {"ended", "vetoed"}
      BY DEF SelfReference, ThunkReference
    <2>1. x \in Objects /\ o \notin {"self", "thunk"}
      BY Kinds, ObjectsAssumption
    <2>2. CASE x = o
      <3>1. callback[x] # "running"
        BY <2>2, <1>w DEF Tree, ThunkReference
      <3> QED
        BY <2>2, <3>1, <1>w
    <2>3. CASE x # o
      <3>1. handle'[x] = handle[x] /\ callback'[x] = callback[x]
        BY <2>1, <2>3, <1>w
      <3>2. ("self" \in refs'[x] <=> "self" \in refs[x]) /\ ("thunk" \in refs'[x] <=> "thunk" \in refs[x])
        BY <2>1, <2>3, <1>w
      <3> QED
        BY <3>1, <3>2 DEF Tree, SelfReference, ThunkReference
    <2> QED
      BY <2>2, <2>3
  <1> QED
    BY <1>1, <1>2, <1>3, <1>4 DEF Tree

(* Lemma: a step that keeps the children's references and who exists. *)
LEMMA TreeCall ==
  ASSUME Tree, TypeOK',
         \A x \in Objects : handle'[x] = handle[x]
            \/ (x \in Callers /\ handle[x] \in OpenStages /\ handle'[x] \in OpenStages),
         \A x \in Objects : handle'[x] = "vetoed" => handle[x] = "vetoed" \/ x \in Connections,
         \A x \in Objects : \A h : h \notin {"app", "self", "thunk"} => (h \in refs'[x] <=> h \in refs[x]),
         \A x \in Objects : handle[x] \in {"absent", "closed"} => refs'[x] = {},
         SelfReference', ThunkReference'
  PROVE  Tree'
  <1>1. Unheld' /\ Kept'
    BY DEF Tree, Unheld, Kept, OpenStages
  <1>2. Held'
    <2> SUFFICES ASSUME NEW x \in Children
                 PROVE  x \in refs'[Parent[x]] <=> handle'[x] \in OpenStages \cup {"refused"}
      BY DEF Held
    <2>1. x \in Objects /\ Parent[x] \in Objects /\ x \notin {"app", "self", "thunk"}
      BY Kinds, ObjectsAssumption
    <2> QED
      BY <2>1 DEF Tree, Held
  <1> QED
    BY <1>1, <1>2 DEF Tree

(* Lemma: a listener that takes a connection has an open registration. *)
LEMMA AcceptHasRegistration ==
  ASSUME Tree, MayAccept
  PROVE  handle[Registration] \in OpenStages /\ refs[Registration] # {}
  <1>1. PICK k \in Configurations : Reachable(k)
    BY DEF MayAccept
  <1>2. k \in Objects \ Callers /\ k \in Children /\ Parent[k] = Registration
    BY Kinds, ObjectsAssumption DEF Streams, Callers
  <1>3. handle[k] \in OpenStages
    BY <1>1, <1>2 DEF Tree, Unheld, Kept, Reachable, OpenStages
  <1>4. refs[Registration] # {}
    BY <1>2, <1>3 DEF Tree, Held
  <1>5. Registration \notin Connections
    BY ObjectsAssumption DEF Callers
  <1> QED
    BY <1>4, <1>5, Kinds, HeldIsOpen DEF Tree, Kept

(* Lemma: every step keeps the tree. *)
LEMMA TreeStep == Tree /\ [Next]_vars => Tree'
  <1> SUFFICES ASSUME Tree, [Next]_vars PROVE Tree'
    OBVIOUS
  <1>t. TypeOK /\ TypeOK'
    BY TypeStep DEF Tree
  <1>s. SelfReference /\ ThunkReference
    BY DEF Tree
  <1>k. Connections \cap (Configurations \cup Listeners \cup Streams \cup {Registration}) = {}
    BY ObjectsAssumption DEF Callers
  <1>1. ApiOpen \/ ApiClose \/ UNCHANGED vars => Tree'
    BY <1>t DEF ApiOpen, ApiClose, vars, Tree, Unheld, Kept, Held, SelfReference, ThunkReference
  <1>2. RegistrationShutdown => Tree'
    <2> SUFFICES ASSUME RegistrationShutdown PROVE Tree'
      OBVIOUS
    <2>1. \A x \in Objects : handle'[x] = handle[x]
            \/ (x \in Callers /\ handle[x] \in {"idle", "running"} /\ handle'[x] = "ending")
      <3> SUFFICES ASSUME NEW x \in Objects
                   PROVE  handle'[x] = handle[x]
                          \/ (x \in Callers /\ handle[x] \in {"idle", "running"} /\ handle'[x] = "ending")
        OBVIOUS
      <3>1. handle'[x] = IF x \in Connections /\ handle[x] \in {"idle", "running"}
                         THEN "ending" ELSE handle[x]
        BY DEF RegistrationShutdown
      <3>2. Connections \subseteq Callers
        BY Kinds
      <3>3. CASE x \in Connections /\ handle[x] \in {"idle", "running"}
        BY <3>1, <3>2, <3>3
      <3>4. CASE ~(x \in Connections /\ handle[x] \in {"idle", "running"})
        BY <3>1, <3>4
      <3> QED
        BY <3>3, <3>4
    <2>2. SelfReference' /\ ThunkReference'
      BY <2>1, <1>s, Kinds DEF RegistrationShutdown, SelfReference, ThunkReference
    <2>3. refs' = refs
      BY DEF RegistrationShutdown
    <2> QED
      BY <1>t, <2>1, <2>2, <2>3, TreeCall DEF OpenStages, Tree, Unheld
  <1>3. ASSUME NEW c \in Connections, Accept(c) \/ AcceptFails(c) PROVE Tree'
    <2>1. c \in Objects \ PeerStreams /\ c \in Callers /\ Parent[c] = Registration
      BY Kinds, <1>k
    <2>2. handle[Registration] \in OpenStages
      BY <1>3, AcceptHasRegistration DEF Accept, AcceptFails
    <2>3. CASE Accept(c)
      <3>1. Wrap(c, "running", {"app", "self"})
        <4>1. {"app"} \cup SelfAfterInit(c) = {"app", "self"}
          BY <2>1 DEF SelfAfterInit
        <4> QED
          BY <2>3, <4>1 DEF Accept
      <3> QED
        BY <2>1, <2>2, <3>1, <1>t, TreeWrap
    <2>4. CASE AcceptFails(c)
      <3>1. Wrap(c, "refused", {"self"})
        BY <2>4 DEF AcceptFails
      <3> QED
        BY <2>1, <2>2, <3>1, <1>t, TreeWrap
    <2> QED
      BY <1>3, <2>3, <2>4
  <1>4. ASSUME NEW o \in Objects, Open(o) PROVE Tree'
    <2> DEFINE holders == {"app"} \cup SelfAfterInit(o)
    <2>1. o \in Objects \ PeerStreams /\ Wrap(o, "idle", holders)
      BY <1>4 DEF Open
    <2>2. holders \subseteq {"app", "self"} /\ ("self" \in holders <=> o \in Callers)
      BY DEF SelfAfterInit
    <2>3. o # Registration => handle[Parent[o]] \in OpenStages
      <3>1. CASE o \in Streams
        BY <1>4, <3>1 DEF Open, OpenStages
      <3>2. CASE o \notin Streams /\ o # Registration
        <4>1. Parent[o] = Registration /\ Registration \in Objects \ Connections
          BY <3>2, Kinds, <1>k
        <4>2. refs[Registration] # {} /\ handle[Registration] # "refused"
          BY <1>4, <4>1, <3>2 DEF Open, Reachable, Tree, Kept
        <4> QED
          BY <4>1, <4>2, HeldIsOpen
      <3> QED
        BY <3>1, <3>2
    <2> HIDE DEF holders
    <2> QED
      BY <2>1, <2>2, <2>3, <1>t, TreeWrap
  <1>5. ASSUME NEW s \in PeerStreams, PeerStream(s) PROVE Tree'
    <2> DEFINE p == ConnectionOf[s]
    <2>1. s \in Callers /\ s \in Objects /\ p \in Callers /\ p \in Objects /\ p # s
          /\ s \notin Children
      BY Kinds
    <2>2. SelfAfterInit(s) = {"self"}
      BY <2>1 DEF SelfAfterInit
    <2>3. /\ handle[s] = "absent" /\ handle'[s] = "running" /\ handle[p] = "running"
          /\ refs[s] = {} /\ refs'[s] = {"app", "self"}
          /\ refs'[p] = refs[p] \cup {"app"}
          /\ \A x \in Objects \ {s} : handle'[x] = handle[x]
          /\ \A x \in Objects \ {s, p} : refs'[x] = refs[x]
          /\ callback' = callback
      BY <1>5, <2>1, <2>2, <1>t DEF PeerStream, TypeOK, Tree, Unheld
    <2> HIDE DEF p
    <2>4. Unheld' /\ Kept'
      BY <2>1, <2>3 DEF Tree, Unheld, Kept, OpenStages
    <2>5. SelfReference' /\ ThunkReference'
      BY <2>1, <2>3, <1>s, Kinds DEF SelfReference, ThunkReference
    <2>6. Held'
      <3> SUFFICES ASSUME NEW x \in Children
                   PROVE  x \in refs'[Parent[x]] <=> handle'[x] \in OpenStages \cup {"refused"}
        BY DEF Held
      <3>1. x \in Objects /\ x # s /\ Parent[x] \in Objects /\ x \notin {"app", "self"}
        BY <2>1, Kinds, ObjectsAssumption
      <3>2. x \in refs'[Parent[x]] <=> x \in refs[Parent[x]]
        BY <2>3, <3>1
      <3> QED
        BY <2>3, <3>1, <3>2 DEF Tree, Held
    <2> QED
      BY <2>4, <2>5, <2>6, <1>t DEF Tree
  <1>6. ASSUME NEW o \in Callers, Start(o) \/ Shutdown(o) \/ PeerEnds(o) PROVE Tree'
    <2>1. /\ refs' = refs /\ callback' = callback
          /\ handle[o] \in {"idle", "running"} /\ handle'[o] \in {"running", "ending"}
          /\ \A x \in Objects \ {o} : handle'[x] = handle[x]
      BY <1>6, <1>t, Kinds DEF Start, Shutdown, PeerEnds, TypeOK
    <2>2. SelfReference' /\ ThunkReference'
      BY <2>1, <1>s, Kinds DEF SelfReference, ThunkReference
    <2>3. \A x \in Objects : handle'[x] = handle[x]
            \/ (x \in Callers /\ handle[x] \in OpenStages /\ handle'[x] \in OpenStages)
      <3>1. handle[o] \in OpenStages /\ handle'[o] \in OpenStages
        BY <2>1 DEF OpenStages
      <3> QED
        BY <2>1, <3>1
    <2>4. \A x \in Objects : handle[x] \in {"absent", "closed"} => refs'[x] = {}
      BY <2>1 DEF Tree, Unheld
    <2> QED
      BY <2>1, <2>2, <2>3, <2>4, <1>t, TreeCall
  <1>7. ASSUME NEW o \in Callers, StartFails(o) \/ LastEvent(o) PROVE Tree'
    <2>0. o \in Objects
      BY Kinds
    <2>1. /\ handle[o] \in {"idle", "running", "ending"}
          /\ \A x \in Objects \ {o} : handle'[x] = handle[x] /\ refs'[x] = refs[x]
      BY <1>7, <1>t, <2>0 DEF StartFails, Release, LastEvent, EndDue, TypeOK
    <2>2. \/ /\ handle'[o] = "ended" /\ refs'[o] = refs[o] \ {"self"}
             /\ callback' = callback
          \/ /\ handle'[o] = "ended" /\ refs'[o] = (refs[o] \ {"self"}) \cup {"thunk"}
             /\ callback' = [callback EXCEPT ![o] = "running"]
          \/ /\ handle'[o] = "vetoed" /\ refs'[o] = refs[o] \cup {"thunk"}
             /\ o \in Connections
             /\ callback' = [callback EXCEPT ![o] = "running"]
      BY <1>7, <1>t, <2>0 DEF StartFails, Release, LastEvent, SelfAfterLastEvent, TypeOK
    <2>3. SelfReference'
      BY <2>0, <2>1, <2>2, <1>s, Kinds DEF SelfReference
    <2>4. ThunkReference'
      BY <2>0, <2>1, <2>2, <1>s, <1>t, Kinds DEF ThunkReference, TypeOK
    <2>5. \A x \in Objects : \A h : h \notin {"app", "self", "thunk"} => (h \in refs'[x] <=> h \in refs[x])
      BY <2>1, <2>2
    <2>6. \A x \in Objects : handle[x] \in {"absent", "closed"} => refs'[x] = {}
      BY <2>1 DEF Tree, Unheld
    <2>7. \A x \in Objects : handle'[x] = handle[x]
            \/ (x \in Callers /\ handle[x] \in OpenStages /\ handle'[x] \in OpenStages)
      <3>1. handle[o] \in OpenStages /\ handle'[o] \in OpenStages
        BY <2>1, <2>2 DEF OpenStages
      <3> QED
        BY <2>1, <3>1
    <2>8. \A x \in Objects : handle'[x] = "vetoed" => handle[x] = "vetoed" \/ x \in Connections
      BY <2>1, <2>2
    <2> QED
      BY <2>3, <2>4, <2>5, <2>6, <2>7, <2>8, <1>t, TreeCall
  <1>8. ASSUME NEW o \in Callers, ThunkReleases(o) PROVE Tree'
    <2>0. o \in Objects
      BY Kinds
    <2>1. /\ handle' = handle /\ refs'[o] = refs[o] \ {"thunk"} /\ callback[o] = "running"
          /\ \A x \in Objects \ {o} : refs'[x] = refs[x]
          /\ callback' = [callback EXCEPT ![o] = "returning"]
      BY <1>8, <1>t, <2>0 DEF ThunkReleases, Release, TypeOK
    <2>2. SelfReference'
      BY <2>0, <2>1, <1>s, Kinds DEF SelfReference
    <2>3. ThunkReference'
      BY <2>0, <2>1, <1>s, <1>t, Kinds DEF ThunkReference, TypeOK
    <2>4. \A x \in Objects : \A h : h \notin {"app", "self", "thunk"} => (h \in refs'[x] <=> h \in refs[x])
      BY <2>1
    <2>5. \A x \in Objects : handle[x] \in {"absent", "closed"} => refs'[x] = {}
      BY <2>1 DEF Tree, Unheld
    <2>6. \A x \in Objects : handle'[x] = handle[x]
            \/ (x \in Callers /\ handle[x] \in OpenStages /\ handle'[x] \in OpenStages)
      BY <2>1
    <2> QED
      BY <2>1, <2>2, <2>3, <2>4, <2>5, <2>6, <1>t, TreeCall
  <1>9. ASSUME NEW o \in Callers, ThunkReturns(o) PROVE Tree'
    <2>1. handle' = handle /\ refs' = refs /\ callback[o] = "returning"
          /\ callback' = [callback EXCEPT ![o] = "none"]
      BY <1>9 DEF ThunkReturns
    <2>2. SelfReference' /\ ThunkReference'
      BY <2>1, <1>s, <1>t DEF SelfReference, ThunkReference, TypeOK
    <2>3. \A x \in Objects : handle[x] \in {"absent", "closed"} => refs'[x] = {}
      BY <2>1 DEF Tree, Unheld
    <2>4. \A x \in Objects : handle'[x] = handle[x]
            \/ (x \in Callers /\ handle[x] \in OpenStages /\ handle'[x] \in OpenStages)
      BY <2>1
    <2>5. \A x \in Objects : \A h : h \notin {"app", "self", "thunk"} => (h \in refs'[x] <=> h \in refs[x])
      BY <2>1
    <2> QED
      BY <2>1, <2>2, <2>3, <2>4, <2>5, <1>t, TreeCall
  <1>10. ASSUME NEW o \in Objects, AppTake(o) \/ AppDrop(o) PROVE Tree'
    <2>1. /\ handle' = handle /\ callback' = callback /\ refs[o] # {}
          /\ refs'[o] = refs[o] \cup {"app"} \/ refs'[o] = refs[o] \ {"app"}
          /\ \A x \in Objects \ {o} : refs'[x] = refs[x]
      BY <1>10, <1>t DEF AppTake, AppDrop, Release, Reachable, TypeOK
    <2>2. SelfReference' /\ ThunkReference'
      BY <2>1, <1>s, Kinds DEF SelfReference, ThunkReference
    <2>3. \A x \in Objects : \A h : h \notin {"app", "self", "thunk"} => (h \in refs'[x] <=> h \in refs[x])
      BY <2>1
    <2>4. \A x \in Objects : handle[x] \in {"absent", "closed"} => refs'[x] = {}
      BY <2>1 DEF Tree, Unheld
    <2>5. \A x \in Objects : handle'[x] = handle[x]
            \/ (x \in Callers /\ handle[x] \in OpenStages /\ handle'[x] \in OpenStages)
      BY <2>1
    <2> QED
      BY <2>1, <2>2, <2>3, <2>4, <2>5, <1>t, TreeCall
  <1>11. ASSUME NEW o \in Objects, Deinit(o) PROVE Tree'
    <2>1. /\ handle[o] \in OpenStages /\ refs[o] = {} /\ handle'[o] = "closed"
          /\ \A x \in Objects \ {o} : handle'[x] = handle[x]
          /\ \A x \in Objects : refs'[x] = refs[x] \ {o}
          /\ callback' = callback
      BY <1>11, <1>t DEF Deinit, Dying, Release, WithoutStored, TypeOK
    <2>2. o \notin {"app", "self", "thunk"}
      BY ObjectsAssumption
    <2>3. Unheld' /\ Kept'
      BY <2>1 DEF Tree, Unheld, Kept
    <2>4. SelfReference' /\ ThunkReference'
      BY <2>1, <2>2, <1>s, Kinds DEF SelfReference, ThunkReference, OpenStages
    <2>5. Held'
      <3> SUFFICES ASSUME NEW x \in Children
                   PROVE  x \in refs'[Parent[x]] <=> handle'[x] \in OpenStages \cup {"refused"}
        BY DEF Held
      <3>1. x \in Objects /\ Parent[x] \in Objects
        BY Kinds
      <3> QED
        BY <2>1, <3>1 DEF Tree, Held, OpenStages
    <2> QED
      BY <2>3, <2>4, <2>5, <1>t DEF Tree
  <1> QED
    BY <1>1, <1>2, <1>3, <1>4, <1>5, <1>6, <1>7, <1>8, <1>9, <1>10, <1>11, NextActions

LEMMA TreeInit == Init => Tree
  <1>1. Init => Unheld /\ Kept /\ SelfReference /\ ThunkReference
    BY ObjectsAssumption, Kinds DEF Init, Unheld, Kept, SelfReference, ThunkReference
  <1>2. Init => Held
    BY Kinds DEF Init, Held, OpenStages
  <1> QED
    BY <1>1, <1>2, TypeInit DEF Tree

LEMMA TreeAlways == Spec => []Tree
  BY TreeInit, TreeStep, PTL DEF Spec

-----------------------------------------------------------------------------
(* The order of closes *)

(* Lemma: how a handle may change in a step. *)
LEMMA Moves ==
  ASSUME Tree, [Next]_vars, NEW x \in Objects, handle'[x] # handle[x]
  PROVE  \/ /\ handle[x] = "absent"
            /\ library = "open" \/ \E c \in Connections : handle[c] = "running"
            /\ x \in LocalStreams => handle[ConnectionOf[x]] \in {"idle", "running"}
         \/ handle[x] \in OpenStages \ {"vetoed"} /\ handle'[x] \in OpenStages \cup {"closed"}
  <1> DEFINE New == /\ handle[x] = "absent"
                    /\ library = "open" \/ \E c \in Connections : handle[c] = "running"
                    /\ x \in LocalStreams => handle[ConnectionOf[x]] \in {"idle", "running"}
             Open2 == /\ handle[x] \in OpenStages \ {"vetoed"}
                      /\ handle'[x] \in OpenStages \cup {"closed"}
  <1>t. handle \in [Objects -> {"absent", "refused", "closed"} \cup OpenStages]
    BY DEF Tree, TypeOK
  <1>k. Connections \cap LocalStreams = {}
    BY ObjectsAssumption DEF Streams
  <1>1. ApiOpen \/ ApiClose \/ UNCHANGED vars => New \/ Open2
    BY DEF ApiOpen, ApiClose, vars
  <1>2. RegistrationShutdown => New \/ Open2
    BY DEF RegistrationShutdown, OpenStages
  <1>3. ASSUME NEW c \in Connections, Accept(c) \/ AcceptFails(c) PROVE New \/ Open2
    <2>1. handle[c] = "absent" /\ library = "open" /\ \E h : handle' = [handle EXCEPT ![c] = h]
      BY <1>3 DEF Accept, AcceptFails, Wrap
    <2>2. x = c
      BY <2>1, <1>t
    <2> QED
      BY <2>1, <2>2, <1>k
  <1>4. ASSUME NEW o \in Objects, Open(o) PROVE New \/ Open2
    <2>1. handle[o] = "absent" /\ library = "open" /\ \E h : handle' = [handle EXCEPT ![o] = h]
      BY <1>4 DEF Open, Wrap
    <2>2. x = o
      BY <2>1, <1>t
    <2>3. x \in LocalStreams => handle[ConnectionOf[x]] \in {"idle", "running"}
      BY <2>2, <1>4, Kinds DEF Open
    <2> QED
      BY <2>1, <2>2, <2>3
  <1>5. ASSUME NEW s \in PeerStreams, PeerStream(s) PROVE New \/ Open2
    <2>1. x = s /\ handle[s] = "absent" /\ handle[ConnectionOf[s]] = "running"
      BY <1>5, <1>t DEF PeerStream
    <2>2. x \notin LocalStreams /\ ConnectionOf[s] \in Connections
      BY <2>1, Kinds, ObjectsAssumption
    <2> QED
      BY <2>1, <2>2
  <1>6. ASSUME NEW o \in Callers,
               Start(o) \/ StartFails(o) \/ Shutdown(o) \/ PeerEnds(o) \/ LastEvent(o)
        PROVE  New \/ Open2
    <2>1. /\ handle[o] \in {"idle", "running", "ending"}
          /\ \E h \in {"running", "ending", "ended", "vetoed"} : handle' = [handle EXCEPT ![o] = h]
      BY <1>6 DEF Start, StartFails, Shutdown, PeerEnds, LastEvent, EndDue
    <2>2. x = o /\ handle'[x] \in {"running", "ending", "ended", "vetoed"}
      BY <2>1, <1>t
    <2> QED
      BY <2>1, <2>2 DEF OpenStages
  <1>7. ASSUME NEW o \in Callers, ThunkReleases(o) \/ ThunkReturns(o) PROVE New \/ Open2
    BY <1>7 DEF ThunkReleases, ThunkReturns
  <1>8. ASSUME NEW o \in Objects, AppTake(o) \/ AppDrop(o) PROVE New \/ Open2
    BY <1>8 DEF AppTake, AppDrop
  <1>9. ASSUME NEW o \in Objects, Deinit(o) PROVE New \/ Open2
    <2>1. x = o /\ handle[x] \in OpenStages /\ refs[x] = {} /\ handle'[x] = "closed"
      BY <1>9, <1>t DEF Deinit, Dying
    <2>2. handle[x] # "vetoed"
      BY <2>1, Kinds DEF Tree, Kept, SelfReference
    <2> QED
      BY <2>1, <2>2
  <1>10. New \/ Open2
    <2> HIDE DEF New, Open2
    <2> QED
      BY <1>1, <1>2, <1>3, <1>4, <1>5, <1>6, <1>7, <1>8, <1>9, NextActions
  <1> QED
    BY <1>10

(* A connection that is not there, or was refused, has no streams. *)
RefusedIsAlone ==
  \A s \in LocalStreams :
    handle[ConnectionOf[s]] \in {"absent", "refused"} => handle[s] = "absent"

LEMMA RefusedIsAloneStep ==
  ASSUME Tree, RefusedIsAlone, [Next]_vars
  PROVE  RefusedIsAlone'
  <1> SUFFICES ASSUME NEW s \in LocalStreams, handle'[ConnectionOf[s]] \in {"absent", "refused"}
               PROVE  handle'[s] = "absent"
    BY DEF RefusedIsAlone
  <1> DEFINE p == ConnectionOf[s]
  <1>1. s \in Objects /\ p \in Objects
    BY Kinds
  <1>2. handle[p] \in {"absent", "refused"}
    <2>1. CASE handle'[p] = handle[p]
      BY <2>1
    <2>2. CASE handle'[p] # handle[p]
      <3>1. handle[p] = "absent" \/ handle'[p] \in OpenStages \cup {"closed"}
        BY <1>1, <2>2, Moves
      <3> QED
        BY <3>1 DEF OpenStages
    <2> QED
      BY <2>1, <2>2
  <1>3. handle[s] = "absent"
    BY <1>2 DEF RefusedIsAlone
  <1>4. ASSUME handle'[s] # handle[s] PROVE FALSE
    <2>1. handle[p] \in {"idle", "running"}
      BY <1>1, <1>3, <1>4, Moves DEF OpenStages
    <2> QED
      BY <1>2, <2>1
  <1> QED
    BY <1>3, <1>4

LEMMA RefusedIsAloneAlways == Spec => []RefusedIsAlone
  <1>1. Init => RefusedIsAlone
    BY Kinds DEF Init, RefusedIsAlone
  <1>2. Tree /\ RefusedIsAlone /\ [Next]_vars => RefusedIsAlone'
    BY RefusedIsAloneStep
  <1> QED
    BY <1>1, <1>2, TreeAlways, PTL DEF Spec

(* Lemma: what is held is open, so that a parent outlives its children. *)
LEMMA TreeIsBottomUp ==
  ASSUME Tree, RefusedIsAlone
  PROVE  ClosedBottomUp
  <1> SUFFICES ASSUME NEW o \in Children, handle[o] \in OpenStages
               PROVE  handle[Parent[o]] \in OpenStages
    BY DEF ClosedBottomUp, Children
  <1>1. o \in Objects /\ Parent[o] \in Objects
    BY Kinds
  <1>2. refs[Parent[o]] # {}
    BY DEF Tree, Held
  <1>3. handle[Parent[o]] # "refused"
    <2>1. CASE o \in LocalStreams
      BY <2>1, Kinds DEF RefusedIsAlone, OpenStages
    <2>2. CASE o \notin LocalStreams
      <3>1. Parent[o] = Registration
        BY <2>2, Kinds DEF Children, Streams
      <3>2. Registration \notin Connections
        BY ObjectsAssumption DEF Callers
      <3> QED
        BY <3>1, <3>2, <1>1 DEF Tree, Kept
    <2> QED
      BY <2>1, <2>2
  <1> QED
    BY <1>1, <1>2, <1>3, HeldIsOpen

(* Handles are closed bottom up, in whatever order the application, the    *)
(* thunks and the peer let go: RegistrationClose never waits for a child,  *)
(* since the child's reference keeps the registration from being closed.   *)
THEOREM BottomUp == Spec => []ClosedBottomUp
  <1>1. Tree /\ RefusedIsAlone => ClosedBottomUp
    BY TreeIsBottomUp
  <1> QED
    BY <1>1, TreeAlways, RefusedIsAloneAlways, PTL

-----------------------------------------------------------------------------
(* The patient application *)

(* A thread is known for every deinit that is due.  The patient application *)
(* holds each wrapper until its last callback has returned, and is          *)
(* therefore the one that drops the last reference.                         *)
Patience ==
  /\ \A x \in Objects : Dying(x) => deinitOn[x] # "none"
  /\ discipline = "patient" =>
       /\ DeinitOffCallbackThread
       /\ \A x \in Callers :
            \/ handle[x] \in {"idle", "running", "ending"}
            \/ handle[x] \in {"ended", "vetoed"} /\ callback[x] # "none"
            => Reachable(x)

(* Lemma: a step that releases references on `thread`. *)
LEMMA PatienceRelease ==
  ASSUME Tree, Patience, NEW thread, NEW left, Release(thread, left), thread # "none",
         \A x \in Objects : handle'[x] \in OpenStages => handle[x] \in OpenStages,
         discipline' = discipline,
         discipline = "patient" =>
           thread = "app" \/ \A x \in Objects : refs[x] # {} => left[x] # {}
  PROVE  /\ \A x \in Objects : Dying(x)' => deinitOn'[x] # "none"
         /\ discipline' = "patient" => DeinitOffCallbackThread'
  <1>1. \A x \in Objects :
          deinitOn'[x] = IF refs[x] # {} /\ left[x] = {} THEN thread ELSE deinitOn[x]
    BY DEF Release
  <1>2. ASSUME NEW x \in Objects, Dying(x)' PROVE deinitOn'[x] # "none"
    <2>1. handle[x] \in OpenStages /\ left[x] = {}
      BY <1>2 DEF Dying, Release
    <2>2. CASE refs[x] = {}
      BY <2>1, <2>2, <1>1 DEF Patience, Dying
    <2>3. CASE refs[x] # {}
      BY <2>1, <2>3, <1>1
    <2> QED
      BY <2>2, <2>3
  <1>3. ASSUME discipline = "patient" PROVE DeinitOffCallbackThread'
    BY <1>1, <1>3 DEF Patience, DeinitOffCallbackThread
  <1> QED
    BY <1>2, <1>3

(* Lemma: a step that releases nothing. *)
LEMMA PatienceKeep ==
  ASSUME Tree, Patience, deinitOn' = deinitOn, discipline' = discipline,
         \A x \in Objects : refs[x] # {} => refs'[x] # {},
         \A x \in Objects : handle'[x] \in OpenStages => handle[x] \in OpenStages \/ refs'[x] # {}
  PROVE  /\ \A x \in Objects : Dying(x)' => deinitOn'[x] # "none"
         /\ discipline' = "patient" => DeinitOffCallbackThread'
  BY DEF Patience, Dying, DeinitOffCallbackThread

(* Lemma: every step keeps Patience. *)
LEMMA PatienceStep ==
  ASSUME Tree, Patience, [Next]_vars
  PROVE  Patience'
  <1> DEFINE Waits(x) == \/ handle[x] \in {"idle", "running", "ending"}
                         \/ handle[x] \in {"ended", "vetoed"} /\ callback[x] # "none"
             Watched == discipline = "patient" => \A x \in Callers : Waits(x) => Reachable(x)
             Threads == /\ \A x \in Objects : Dying(x) => deinitOn[x] # "none"
                        /\ discipline = "patient" => DeinitOffCallbackThread
  <1>p. Threads /\ Watched
    BY DEF Patience
  <1>q. Threads' /\ Watched' => Patience'
    BY DEF Patience
  <1>t. TypeOK
    BY DEF Tree
  <1>1. ApiOpen \/ ApiClose \/ UNCHANGED vars => Patience'
    BY DEF ApiOpen, ApiClose, vars, Patience, Dying, Reachable, DeinitOffCallbackThread
  <1>2. ASSUME RegistrationShutdown PROVE Patience'
    <2>1. /\ refs' = refs /\ callback' = callback /\ deinitOn' = deinitOn /\ discipline' = discipline
          /\ \A x \in Objects : handle'[x] # handle[x] =>
                handle[x] \in {"idle", "running"} /\ handle'[x] = "ending"
      BY <1>2 DEF RegistrationShutdown
    <2>2. Threads'
      BY <2>1, PatienceKeep DEF OpenStages
    <2>3. Watched'
      BY <2>1, <1>p, Kinds DEF Reachable
    <2> QED
      BY <2>2, <2>3, <1>q
  <1>3. ASSUME NEW o \in Objects, NEW stage, NEW holders, Wrap(o, stage, holders),
               holders # {}, stage # "refused" => "app" \in holders
        PROVE  Patience'
    <2>1. /\ handle'[o] = stage /\ refs'[o] = holders
          /\ \A x \in Objects \ {o} :
               /\ handle'[x] = handle[x]
               /\ \A h : h # o => (h \in refs'[x] <=> h \in refs[x])
               /\ refs'[x] # refs[x] => o # Registration /\ x = Parent[o]
          /\ o # Registration => o \in refs'[Parent[o]]
          /\ callback' = callback /\ deinitOn' = deinitOn /\ discipline' = discipline
      BY <1>3, Wrapped
    <2>2. ASSUME NEW x \in Objects, refs[x] # {} PROVE refs'[x] # {}
      <3>1. CASE x = o
        BY <2>1, <3>1, <1>3
      <3>2. CASE x # o /\ refs'[x] # refs[x]
        BY <2>1, <3>2
      <3>3. CASE refs'[x] = refs[x]
        BY <2>2, <3>3
      <3> QED
        BY <3>1, <3>2, <3>3
    <2>3. Threads'
      BY <2>1, <2>2, <1>3, PatienceKeep
    <2>4. o # "app"
      BY ObjectsAssumption
    <2>5. \A x \in Callers : Waits(x)' => (Waits(x) \/ x = o) /\ (x = o => stage # "refused")
      <3> SUFFICES ASSUME NEW x \in Callers, Waits(x)'
                   PROVE  (Waits(x) \/ x = o) /\ (x = o => stage # "refused")
        OBVIOUS
      <3>1. x \in Objects
        BY Kinds
      <3> QED
        BY <2>1, <3>1
    <2>6. Watched'
      <3> SUFFICES ASSUME discipline = "patient", NEW x \in Callers, Waits(x)'
                   PROVE  "app" \in refs'[x]
        BY <2>1 DEF Reachable
      <3>1. x \in Objects
        BY Kinds
      <3>2. CASE x = o
        BY <2>1, <2>5, <3>2, <1>3
      <3>3. CASE x # o
        <4>1. "app" \in refs[x]
          BY <2>5, <3>3, <1>p DEF Reachable
        <4>2. \A h : h # o => (h \in refs'[x] <=> h \in refs[x])
          BY <2>1, <3>1, <3>3
        <4> QED
          BY <2>4, <4>1, <4>2
      <3> QED
        BY <3>2, <3>3
    <2> QED
      BY <2>3, <2>6, <1>q
  <1>4. ASSUME NEW c \in Connections, Accept(c) \/ AcceptFails(c) PROVE Patience'
    <2>1. c \in Objects
      BY Kinds
    <2>2. CASE Accept(c)
      BY <2>1, <2>2, <1>3 DEF Accept
    <2>3. CASE AcceptFails(c)
      BY <2>1, <2>3, <1>3 DEF AcceptFails
    <2> QED
      BY <1>4, <2>2, <2>3
  <1>5. ASSUME NEW o \in Objects, Open(o) PROVE Patience'
    BY <1>5, <1>3 DEF Open
  <1>6. ASSUME NEW s \in PeerStreams, PeerStream(s) PROVE Patience'
    <2>1. s \in Callers /\ s \in Objects /\ ConnectionOf[s] \in Objects /\ ConnectionOf[s] # s
      BY Kinds
    <2>2. /\ handle'[s] = "running" /\ "app" \in refs'[s]
          /\ \A x \in Objects \ {s} : handle'[x] = handle[x] /\ refs[x] \subseteq refs'[x]
          /\ callback' = callback /\ deinitOn' = deinitOn /\ discipline' = discipline
      BY <1>6, <2>1, <1>t DEF PeerStream, TypeOK
    <2>3. Threads'
      BY <2>2, PatienceKeep
    <2>4. Watched'
      BY <2>1, <2>2, <1>p, Kinds DEF Reachable
    <2> QED
      BY <2>3, <2>4, <1>q
  <1>7. ASSUME NEW o \in Callers, Start(o) \/ Shutdown(o) \/ PeerEnds(o) PROVE Patience'
    <2>1. /\ refs' = refs /\ callback' = callback /\ deinitOn' = deinitOn /\ discipline' = discipline
          /\ handle[o] \in {"idle", "running"} /\ handle'[o] \in {"running", "ending"}
          /\ \A x \in Objects \ {o} : handle'[x] = handle[x]
      BY <1>7, <1>t, Kinds DEF Start, Shutdown, PeerEnds, TypeOK
    <2>2. handle[o] \in OpenStages
      BY <2>1 DEF OpenStages
    <2>3. Threads'
      BY <2>1, <2>2, PatienceKeep
    <2>4. Watched'
      BY <2>1, <1>p, Kinds DEF Reachable
    <2> QED
      BY <2>3, <2>4, <1>q
  <1>8. ASSUME NEW o \in Callers, LastEvent(o) PROVE Patience'
    <2>1. o \in Objects
      BY Kinds
    <2>2. /\ handle[o] \in {"running", "ending"} /\ handle'[o] \in {"ended", "vetoed"}
          /\ "thunk" \in refs'[o] /\ ("app" \in refs'[o] <=> "app" \in refs[o])
          /\ \A x \in Objects \ {o} : handle'[x] = handle[x] /\ refs'[x] = refs[x]
          /\ \A x \in Callers \ {o} : callback'[x] = callback[x]
          /\ deinitOn' = deinitOn /\ discipline' = discipline
      BY <1>8, <2>1, <1>t DEF LastEvent, EndDue, SelfAfterLastEvent, TypeOK
    <2>3. Threads'
      BY <2>2, PatienceKeep
    <2>4. Watched'
      BY <2>2, <1>p, Kinds DEF Reachable
    <2> QED
      BY <2>3, <2>4, <1>q
  <1>9. ASSUME NEW o \in Callers, ThunkReleases(o) PROVE Patience'
    <2> DEFINE left == [refs EXCEPT ![o] = @ \ {"thunk"}]
    <2>1. o \in Objects /\ o # "none"
      BY Kinds, ObjectsAssumption
    <2>2. /\ Release(o, left) /\ handle' = handle /\ discipline' = discipline
          /\ left[o] = refs[o] \ {"thunk"} /\ callback[o] = "running"
          /\ \A x \in Objects \ {o} : left[x] = refs[x]
          /\ \A x \in Callers \ {o} : callback'[x] = callback[x]
      BY <1>9, <2>1, <1>t DEF ThunkReleases, TypeOK
    <2>3. discipline = "patient" => "app" \in refs[o]
      BY <2>2, <1>p DEF Tree, ThunkReference, Reachable
    <2>4. refs' = left
      BY <2>2 DEF Release
    <2> HIDE DEF left
    <2>5. Threads'
      BY <2>1, <2>2, <2>3, PatienceRelease
    <2>6. Watched'
      BY <2>2, <2>3, <2>4, <1>p, Kinds DEF Reachable
    <2> QED
      BY <2>5, <2>6, <1>q
  <1>10. ASSUME NEW o \in Callers, ThunkReturns(o) PROVE Patience'
    <2>1. /\ handle' = handle /\ refs' = refs /\ deinitOn' = deinitOn /\ discipline' = discipline
          /\ callback'[o] = "none" /\ \A x \in Callers \ {o} : callback'[x] = callback[x]
      BY <1>10, <1>t DEF ThunkReturns, TypeOK
    <2>2. Threads'
      BY <2>1, PatienceKeep
    <2>3. Watched'
      BY <2>1, <1>p DEF Reachable
    <2> QED
      BY <2>2, <2>3, <1>q
  <1>11. ASSUME NEW o \in Objects, AppTake(o) PROVE Patience'
    <2>1. /\ handle' = handle /\ callback' = callback /\ deinitOn' = deinitOn
          /\ discipline' = discipline /\ \A x \in Objects : refs[x] \subseteq refs'[x]
      BY <1>11, <1>t DEF AppTake, TypeOK
    <2>2. Threads'
      BY <2>1, PatienceKeep
    <2>3. Watched'
      BY <2>1, <1>p, Kinds DEF Reachable
    <2> QED
      BY <2>2, <2>3, <1>q
  <1>12. ASSUME NEW o \in Objects, AppDrop(o) PROVE Patience'
    <2> DEFINE left == [refs EXCEPT ![o] = @ \ {"app"}]
    <2>1. /\ Release("app", left) /\ handle' = handle /\ discipline' = discipline
          /\ callback' = callback /\ MayDrop(o)
          /\ \A x \in Objects \ {o} : left[x] = refs[x]
      BY <1>12, <1>t DEF AppDrop, TypeOK
    <2>2. refs' = left
      BY <2>1 DEF Release
    <2> HIDE DEF left
    <2>3. Threads'
      BY <2>1, PatienceRelease
    <2>4. discipline = "patient" /\ o \in Callers =>
            handle[o] \in {"ended", "vetoed"} /\ callback[o] = "none"
      BY <2>1 DEF MayDrop
    <2>5. Watched'
      BY <2>1, <2>2, <2>4, <1>p, Kinds DEF Reachable
    <2> QED
      BY <2>3, <2>5, <1>q
  <1>13. ASSUME NEW o \in Objects, Deinit(o) PROVE Patience'
    <2>1. /\ Release(deinitOn[o], WithoutStored(o)) /\ discipline' = discipline
          /\ handle[o] \in OpenStages /\ handle'[o] = "closed" /\ Dying(o)
          /\ \A x \in Objects \ {o} : handle'[x] = handle[x]
          /\ callback' = callback /\ o # "app"
      BY <1>13, <1>t, ObjectsAssumption DEF Deinit, Dying, TypeOK
    <2>2. deinitOn[o] # "none" /\ (discipline = "patient" => deinitOn[o] = "app")
      BY <2>1, <1>p DEF DeinitOffCallbackThread
    <2>3. \A x \in Objects : handle'[x] \in OpenStages => handle[x] \in OpenStages
      BY <2>1
    <2>4. Threads'
      BY <2>1, <2>2, <2>3, PatienceRelease
    <2>5. \A x \in Objects : "app" \in refs'[x] <=> "app" \in refs[x]
      BY <2>1 DEF Release, WithoutStored
    <2>6. Watched'
      BY <2>1, <2>5, <1>p, Kinds DEF Reachable
    <2> QED
      BY <2>4, <2>6, <1>q
  <1>14. ASSUME NEW o \in Callers, StartFails(o) PROVE Patience'
    <2> DEFINE left == [refs EXCEPT ![o] = @ \ {"self"}]
    <2>1. o \in Objects
      BY Kinds
    <2>2. /\ Release("app", left) /\ discipline' = discipline /\ callback' = callback
          /\ handle[o] \in OpenStages /\ "app" \in left[o]
          /\ \A x \in Objects \ {o} : left[x] = refs[x] /\ handle'[x] = handle[x]
      BY <1>14, <2>1, <1>t DEF StartFails, Reachable, TypeOK, OpenStages
    <2>3. refs' = left
      BY <2>2 DEF Release
    <2> HIDE DEF left
    <2>4. \A x \in Objects : handle'[x] \in OpenStages => handle[x] \in OpenStages
      BY <2>2
    <2>5. Threads'
      BY <2>2, <2>4, PatienceRelease
    <2>6. Watched'
      BY <2>2, <2>3, <1>p, Kinds DEF Reachable
    <2> QED
      BY <2>5, <2>6, <1>q
  <1> HIDE DEF Waits, Watched, Threads
  <1> QED
    BY <1>1, <1>2, <1>4, <1>5, <1>6, <1>7, <1>8, <1>9, <1>10, <1>11, <1>12, <1>13, <1>14, NextActions

LEMMA PatienceAlways == Spec => []Patience
  <1>1. Init => Patience
    BY Kinds DEF Init, Patience, Dying, DeinitOffCallbackThread, OpenStages
  <1>2. Tree /\ Patience /\ [Next]_vars => Patience'
    BY PatienceStep
  <1> QED
    BY <1>1, <1>2, TreeAlways, PTL DEF Spec

(* What handleEvent's comment says is true of an application that keeps    *)
(* each wrapper until its last callback has returned: no handle is closed  *)
(* on a worker, and RegistrationClose is not called from a callback.       *)
THEOREM PatientClosesOffWorkers ==
  Spec => [](discipline = "patient" => DeinitOffCallbackThread)
  <1>1. Patience => (discipline = "patient" => DeinitOffCallbackThread)
    BY DEF Patience
  <1> QED
    BY <1>1, PatienceAlways, PTL

(* Lemma: a patient application that holds nothing, with no deinit due on  *)
(* its threads, has closed every handle: a wrapper that is left would have *)
(* no holder, bottom up from the streams to the registration.              *)
LEMMA PatientIsDone ==
  ASSUME Tree, Patience, ~Leaked, discipline = "patient",
         \A o \in Objects : ~Reachable(o) /\ ~(Dying(o) /\ deinitOn[o] = "app")
  PROVE  \A o \in Objects : handle[o] \notin OpenStages
  <1>1. ASSUME NEW o \in Objects, handle[o] \in OpenStages,
               \A x \in Children : Parent[x] = o => handle[x] \notin OpenStages
        PROVE  FALSE
    <2>1. \A h \in {"app", "self", "thunk"} : h \notin refs[o]
      <3>1. "app" \notin refs[o]
        BY DEF Reachable
      <3>2. CASE o \in Callers
        <4>1. handle[o] = "ended" /\ callback[o] = "none"
          BY <1>1, <3>2 DEF Patience, OpenStages, Leaked
        <4>2. "self" \notin refs[o] /\ "thunk" \notin refs[o]
          BY <3>2, <4>1 DEF Tree, SelfReference, ThunkReference
        <4> QED
          BY <3>1, <4>2
      <3>3. CASE o \notin Callers
        <4>1. MayHold(o) \cap {"self", "thunk"} = {}
          BY <3>3, ObjectsAssumption DEF MayHold
        <4> QED
          BY <3>1, <4>1 DEF Tree, TypeOK
      <3> QED
        BY <3>2, <3>3
    <2>2. \A x \in Children : Parent[x] = o => x \notin refs[o]
      BY <1>1, Kinds DEF Tree, Held, Leaked
    <2>3. refs[o] = {}
      BY <2>1, <2>2 DEF Tree, TypeOK, MayHold, Children
    <2>4. deinitOn[o] \in {"none", "app"} /\ deinitOn[o] # "none"
      BY <1>1, <2>3 DEF Patience, DeinitOffCallbackThread, Dying
    <2> QED
      BY <1>1, <2>3, <2>4 DEF Dying
  <1>2. ASSUME NEW o \in Streams PROVE handle[o] \notin OpenStages
    <2>1. o \in Objects /\ \A x \in Children : Parent[x] # o
      BY Kinds, ObjectsAssumption DEF Callers, Streams, Children
    <2> QED
      BY <2>1, <1>1
  <1>3. ASSUME NEW o \in Objects \ (Streams \cup {Registration}) PROVE handle[o] \notin OpenStages
    <2>1. \A x \in Children : Parent[x] = o => x \in Streams
      BY Kinds DEF Children
    <2> QED
      BY <2>1, <1>1, <1>2
  <1>4. handle[Registration] \notin OpenStages
    BY <1>1, <1>2, <1>3, Kinds DEF Children
  <1> QED
    BY <1>2, <1>3, <1>4

LEMMA ClosesInLibraryStep ==
  ASSUME Tree, Patience, ClosesInLibrary, [Next]_vars
  PROVE  ClosesInLibrary'
  <1> SUFFICES ASSUME library' = "closed", ~Leaked', NEW o \in Objects, handle'[o] \in OpenStages
               PROVE  FALSE
    BY DEF ClosesInLibrary
  <1>1. ~Leaked
    <2> SUFFICES ASSUME NEW x \in Objects, handle[x] \in {"refused", "vetoed"} PROVE FALSE
      BY DEF Leaked
    <2>1. handle'[x] = handle[x]
      BY Moves DEF OpenStages
    <2> QED
      BY <2>1 DEF Leaked
  <1>2. \A x \in Objects : handle[x] \notin OpenStages
    <2>1. CASE library = "closed"
      BY <1>1, <2>1 DEF ClosesInLibrary
    <2>2. CASE library # "closed"
      <3>1. ApiClose
        BY <2>2 DEF Next, Library, Serving, Calling, Holding, Worker, ApiOpen, Accept, AcceptFails,
             Wrap, PeerStream, Start, StartFails, Shutdown, RegistrationShutdown, Open, AppTake,
             AppDrop, Deinit, PeerEnds, LastEvent, ThunkReleases, ThunkReturns, vars
      <3> QED
        BY <3>1, <1>1, PatientIsDone DEF ApiClose
    <2> QED
      BY <2>1, <2>2
  <1>3. handle'[o] # handle[o]
    BY <1>2
  <1>4. library = "open" \/ \E c \in Connections : handle[c] = "running"
    BY <1>2, <1>3, Moves
  <1>5. library = "open"
    BY <1>2, <1>4, Kinds DEF OpenStages
  <1>6. ApiClose
    BY <1>5 DEF Next, Library, Serving, Calling, Holding, Worker, ApiOpen, Accept, AcceptFails,
         Wrap, PeerStream, Start, StartFails, Shutdown, RegistrationShutdown, Open, AppTake,
         AppDrop, Deinit, PeerEnds, LastEvent, ThunkReleases, ThunkReturns, vars
  <1> QED
    BY <1>2, <1>6 DEF ApiClose

(* A patient application that has released its objects may close the       *)
(* library: every handle, also one that only another object's reference    *)
(* kept open, is closed by then, unless a server connection was refused or *)
(* the last event of a connection was vetoed.                              *)
THEOREM NothingOpenAtClose == Spec => []ClosesInLibrary
  <1>1. Init => ClosesInLibrary
    BY DEF Init, ClosesInLibrary
  <1>2. Tree /\ Patience /\ ClosesInLibrary /\ [Next]_vars => ClosesInLibrary'
    BY ClosesInLibraryStep
  <1> QED
    BY <1>1, <1>2, TreeAlways, PatienceAlways, PTL DEF Spec

-----------------------------------------------------------------------------
(* What is left when nothing goes on by itself *)

(* No fair step is possible: no last event can be delivered, no thunk go   *)
(* on, no deinit proceed.                                                  *)
AtRest ==
  /\ \A o \in Callers :
       /\ ~(EndDue(o) /\ ~Busy(o))
       /\ callback[o] # "running"
       /\ callback[o] = "returning" => \E x \in Objects : Dying(x) /\ deinitOn[x] = o
  /\ \A o \in Objects : ~(Dying(o) /\ CloseReturns(o))

(* What the application let go of is closed, but for a connection whose    *)
(* last event was vetoed, and there are two ways only to keep the          *)
(* registration: such a connection or a refused one, which an application  *)
(* of any discipline may meet, or a deinit on a worker, which a patient    *)
(* one never causes.                                                       *)
AbandonedIsClosed ==
  Abandoned /\ AtRest =>
    /\ \A o \in Objects \ {Registration} : handle[o] \notin OpenStages \ {"vetoed"}
    /\ handle[Registration] \in OpenStages =>
         Leaked \/ (deinitOn[Registration] \in Callers /\ discipline # "patient")

(* A peer's stream, which keeps nothing, comes after its connection has    *)
(* started and has had its last event before the connection has.           *)
PeerWithin ==
  \A s \in PeerStreams :
    /\ handle[s] # "idle"
    /\ handle[ConnectionOf[s]] \in {"absent", "refused", "idle"} => handle[s] = "absent"
    /\ handle[ConnectionOf[s]] \in {"ended", "vetoed", "closed"} =>
         handle[s] \notin {"running", "ending"}

LEMMA PeerWithinStep ==
  ASSUME Tree, PeerWithin, [Next]_vars
  PROVE  PeerWithin'
  <1> SUFFICES ASSUME NEW s \in PeerStreams
               PROVE  /\ handle'[s] # "idle"
                      /\ handle'[ConnectionOf[s]] \in {"absent", "refused", "idle"} => handle'[s] = "absent"
                      /\ handle'[ConnectionOf[s]] \in {"ended", "vetoed", "closed"} =>
                           handle'[s] \notin {"running", "ending"}
    BY DEF PeerWithin
  <1> DEFINE p == ConnectionOf[s]
             Goal == /\ handle'[s] # "idle"
                     /\ handle'[p] \in {"absent", "refused", "idle"} => handle'[s] = "absent"
                     /\ handle'[p] \in {"ended", "vetoed", "closed"} =>
                          handle'[s] \notin {"running", "ending"}
  <1>k. /\ s \in Objects /\ s \in Streams /\ s \in Callers /\ p \in Objects /\ p \in Connections
        /\ p \in Callers /\ p # s /\ p \notin PeerStreams /\ s \notin Connections
        /\ p \notin Listeners
    BY Kinds, ObjectsAssumption
  <1>t. DOMAIN handle = Objects /\ DOMAIN refs = Objects
    BY DEF Tree, TypeOK
  <1>p. /\ handle[s] # "idle"
        /\ handle[p] \in {"absent", "refused", "idle"} => handle[s] = "absent"
        /\ handle[p] \in {"ended", "vetoed", "closed"} => handle[s] \notin {"running", "ending"}
    BY DEF PeerWithin
  <1> HIDE DEF p
  <1>1. ApiOpen \/ ApiClose \/ UNCHANGED vars => Goal
    BY <1>p DEF ApiOpen, ApiClose, vars
  <1>2. RegistrationShutdown => Goal
    BY <1>p, <1>k DEF RegistrationShutdown
  <1>3. ASSUME NEW c \in Connections, Accept(c) \/ AcceptFails(c) PROVE Goal
    BY <1>3, <1>p, <1>k, <1>t DEF Accept, AcceptFails, Wrap
  <1>4. ASSUME NEW o \in Objects, Open(o) PROVE Goal
    BY <1>4, <1>p, <1>k, <1>t DEF Open, Wrap
  <1>5. ASSUME NEW x \in PeerStreams, PeerStream(x) PROVE Goal
    <2>1. x \notin Connections /\ (x = s => ConnectionOf[x] = p)
      BY Kinds, ObjectsAssumption DEF p
    <2> QED
      BY <2>1, <1>5, <1>p, <1>k, <1>t DEF PeerStream
  <1>6. ASSUME NEW o \in Callers, Start(o) \/ StartFails(o) PROVE Goal
    BY <1>6, <1>p, <1>k, <1>t DEF Start, StartFails
  <1>7. ASSUME NEW o \in Callers, Shutdown(o) \/ PeerEnds(o) PROVE Goal
    BY <1>7, <1>p, <1>k, <1>t DEF Shutdown, PeerEnds
  <1>8. ASSUME NEW o \in Callers, LastEvent(o) PROVE Goal
    <2>1. o = p => handle[s] \notin {"running", "ending"}
      BY <1>8, <1>k DEF LastEvent, EndDue, p
    <2> QED
      BY <2>1, <1>8, <1>p, <1>k, <1>t DEF LastEvent, EndDue
  <1>9. ASSUME NEW o \in Callers PROVE ThunkReleases(o) \/ ThunkReturns(o) => Goal
    BY <1>p DEF ThunkReleases, ThunkReturns
  <1>10. ASSUME NEW o \in Objects PROVE AppTake(o) \/ AppDrop(o) => Goal
    BY <1>p DEF AppTake, AppDrop
  <1>11. ASSUME NEW o \in Objects, Deinit(o) PROVE Goal
    <2>1. refs[o] = {} /\ handle[o] \in OpenStages /\ handle' = [handle EXCEPT ![o] = "closed"]
      BY <1>11 DEF Deinit, Dying
    <2>2. o = p => handle[p] = "ended"
      BY <2>1, <1>k DEF Tree, SelfReference, OpenStages
    <2> QED
      BY <2>1, <2>2, <1>p, <1>k, <1>t DEF OpenStages
  <1> HIDE DEF Goal
  <1>12. Goal
    BY <1>1, <1>2, <1>3, <1>4, <1>5, <1>6, <1>7, <1>8, <1>9, <1>10, <1>11, NextActions
  <1> QED
    BY <1>12 DEF Goal, p

(* Lemma: at rest, a worker hangs only in RegistrationClose. *)
LEMMA HangsInClose ==
  ASSUME AtRest, NEW o \in Callers, callback[o] # "none", callback[o] \in {"none", "running", "returning"}
  PROVE  Dying(Registration)
  <1>1. PICK x \in Objects : Dying(x)
    BY DEF AtRest
  <1> QED
    BY <1>1 DEF AtRest, CloseReturns

(* Lemma: an abandoned object at rest has had its last event. *)
LEMMA RestIsOver ==
  ASSUME Tree, RefusedIsAlone, PeerWithin, Abandoned, AtRest, NEW o \in Callers
  PROVE  handle[o] \notin {"idle", "running", "ending"}
  <1>1. handle[o] \notin {"idle", "running"}
    BY Kinds DEF Abandoned
  <1> SUFFICES ASSUME handle[o] = "ending" PROVE FALSE
    BY <1>1
  <1>2. CASE Dying(Registration)
    <2>1. \A x \in Children : Parent[x] = Registration => handle[x] \notin OpenStages \cup {"refused"}
      BY <1>2 DEF Tree, Held, Dying
    <2>2. o \notin Children \/ o \in LocalStreams
      BY <2>1, Kinds, ObjectsAssumption DEF OpenStages, Callers, Streams, Children
    <2>3. o \in Streams
      BY <2>2, Kinds, ObjectsAssumption DEF Callers, Streams, Children
    <2>4. ConnectionOf[o] \in Children /\ Parent[ConnectionOf[o]] = Registration
      BY <2>3, Kinds, ObjectsAssumption DEF Children, Callers
    <2>5. handle[ConnectionOf[o]] \in {"absent", "closed"}
      BY <2>1, <2>4, Kinds DEF Tree, TypeOK
    <2>6. CASE o \in LocalStreams
      <3>1. handle[Parent[o]] \in OpenStages
        BY <2>6, Kinds, TreeIsBottomUp DEF ClosedBottomUp, Children, OpenStages
      <3> QED
        BY <3>1, <2>3, <2>5, Kinds DEF OpenStages
    <2>7. CASE o \in PeerStreams
      BY <2>5, <2>7 DEF PeerWithin
    <2> QED
      BY <2>3, <2>6, <2>7 DEF Streams
  <1>3. CASE ~Dying(Registration)
    <2>1. \A x \in Callers : callback[x] = "none"
      BY <1>3, HangsInClose DEF Tree, TypeOK
    <2>2. \A x \in Callers : ~Busy(x)
      BY <2>1 DEF Busy
    <2>3. ASSUME NEW x \in Streams PROVE handle[x] \notin {"running", "ending"}
      <3>1. x \in Callers /\ x \notin Connections
        BY <2>3, Kinds, ObjectsAssumption
      <3>2. ~EndDue(x)
        BY <3>1, <2>2 DEF AtRest
      <3>3. handle[x] # "running"
        BY <3>1, Kinds DEF Abandoned
      <3> QED
        BY <3>1, <3>2, <3>3 DEF EndDue
    <2>4. EndDue(o)
      BY <2>3 DEF EndDue
    <2> QED
      BY <2>2, <2>4 DEF AtRest
  <1> QED
    BY <1>2, <1>3

(* Lemma: an abandoned object at rest is held by its open children only. *)
LEMMA RestIsUnheld ==
  ASSUME Tree, RefusedIsAlone, PeerWithin, Abandoned, AtRest, NEW o \in Objects,
         handle[o] \in OpenStages \ {"vetoed"},
         \A x \in Children : Parent[x] = o => handle[x] \notin OpenStages \cup {"refused"}
  PROVE  Dying(o)
  <1>1. \A h \in {"app", "self", "thunk"} : h \notin refs[o]
    <2>1. "app" \notin refs[o]
      BY DEF Abandoned, Reachable
    <2>2. CASE o \in Callers
      <3>1. handle[o] = "ended" /\ callback[o] # "running"
        BY <2>2, RestIsOver DEF AtRest, OpenStages
      <3>2. "self" \notin refs[o] /\ "thunk" \notin refs[o]
        BY <2>2, <3>1 DEF Tree, SelfReference, ThunkReference
      <3> QED
        BY <2>1, <3>2
    <2>3. CASE o \notin Callers
      <3>1. MayHold(o) \cap {"self", "thunk"} = {}
        BY <2>3, ObjectsAssumption DEF MayHold
      <3> QED
        BY <2>1, <3>1 DEF Tree, TypeOK
    <2> QED
      BY <2>2, <2>3
  <1>2. \A x \in Children : Parent[x] = o => x \notin refs[o]
    BY DEF Tree, Held
  <1>3. refs[o] = {}
    BY <1>1, <1>2 DEF Tree, TypeOK, MayHold, Children
  <1> QED
    BY <1>3 DEF Dying

(* Lemma: bottom up, from the streams to the registration. *)
LEMMA RestIsClosed ==
  ASSUME Tree, Patience, RefusedIsAlone, PeerWithin
  PROVE  AbandonedIsClosed
  <1> SUFFICES ASSUME Abandoned, AtRest
               PROVE  /\ \A o \in Objects \ {Registration} :
                           handle[o] \notin OpenStages \ {"vetoed"}
                      /\ handle[Registration] \in OpenStages =>
                           \/ Leaked
                           \/ deinitOn[Registration] \in Callers /\ discipline # "patient"
    BY DEF AbandonedIsClosed
  <1>1. ASSUME NEW o \in Objects \ {Registration}, handle[o] \in OpenStages PROVE ~Dying(o)
    BY <1>1 DEF AtRest, CloseReturns
  <1>2. ASSUME NEW o \in Streams PROVE handle[o] \notin OpenStages
    <2>1. o \in Objects \ {Registration} /\ \A x \in Children : Parent[x] # o
      BY Kinds, ObjectsAssumption DEF Callers, Streams, Children
    <2>2. handle[o] # "vetoed"
      BY <2>1, Kinds, ObjectsAssumption DEF Tree, Kept
    <2> QED
      BY <2>1, <2>2, <1>1, RestIsUnheld
  <1>3. ASSUME NEW o \in Objects \ (Streams \cup {Registration})
        PROVE  handle[o] \notin OpenStages \ {"vetoed"}
    <2>1. ASSUME NEW x \in Children, Parent[x] = o
          PROVE  handle[x] \notin OpenStages \cup {"refused"}
      <3>1. x \in Streams
        BY <2>1, Kinds DEF Children
      <3>2. x \in Objects /\ x \notin Connections
        BY <3>1, Kinds, ObjectsAssumption
      <3> QED
        BY <3>1, <3>2, <1>2 DEF Tree, Kept
    <2> QED
      BY <2>1, <1>1, RestIsUnheld
  <1>4. ASSUME handle[Registration] \in OpenStages, ~Leaked
        PROVE  deinitOn[Registration] \in Callers /\ discipline # "patient"
    <2>1. \A x \in Children : handle[x] \notin OpenStages \cup {"refused"}
      BY <1>2, <1>3, <1>4, Kinds DEF Children, Leaked
    <2>2. Dying(Registration)
      BY <1>4, <2>1, Kinds, RestIsUnheld DEF Leaked
    <2>3. deinitOn[Registration] # "app"
      BY <2>2, <1>3, <1>4, Kinds DEF AtRest, CloseReturns, Leaked
    <2>4. deinitOn[Registration] \in Callers
      BY <2>2, <2>3, Kinds DEF Patience, Tree, TypeOK
    <2>5. ~DeinitOffCallbackThread
      BY <2>2, <2>3, Kinds DEF Patience, DeinitOffCallbackThread
    <2> QED
      BY <2>4, <2>5 DEF Patience
  <1> QED
    BY <1>2, <1>3, <1>4

(* There is no cycle of references and no release is forgotten, for every  *)
(* tree: when MsQuic and the threads have nothing left to do, what the     *)
(* application let go of is closed.  This is what AllReclaimed needs       *)
(* besides fairness.                                                       *)
THEOREM NothingForgotten == Spec => []AbandonedIsClosed
  <1>1. Spec => []RefusedIsAlone
    BY RefusedIsAloneAlways
  <1>2. Init => PeerWithin
    BY Kinds DEF Init, PeerWithin
  <1>3. Tree /\ PeerWithin /\ [Next]_vars => PeerWithin'
    BY PeerWithinStep
  <1>4. Tree /\ Patience /\ RefusedIsAlone /\ PeerWithin => AbandonedIsClosed
    BY RestIsClosed
  <1> QED
    BY <1>1, <1>2, <1>3, <1>4, TreeAlways, PatienceAlways, PTL DEF Spec

(* A connection that nobody will release and, with it, the registration:   *)
(* open, held, and so for ever.                                            *)
LeakPins == Leaked => handle[Registration] \in OpenStages /\ refs[Registration] # {}

LEMMA RefusedPins ==
  ASSUME Tree
  PROVE  LeakPins
  <1> SUFFICES ASSUME NEW c \in Objects, handle[c] \in {"refused", "vetoed"}
               PROVE  handle[Registration] \in OpenStages /\ refs[Registration] # {}
    BY DEF LeakPins, Leaked
  <1>1. c \in Connections
    BY DEF Tree, Kept
  <1>2. c \in Children /\ Parent[c] = Registration
    BY <1>1, Kinds, ObjectsAssumption DEF Callers
  <1>3. refs[Registration] # {}
    BY <1>2 DEF Tree, Held, OpenStages
  <1>4. handle[Registration] # "refused"
    BY Kinds, ObjectsAssumption DEF Tree, Kept, Callers
  <1> QED
    BY <1>3, <1>4, HeldIsOpen, Kinds

(* When ConnectionSetConfiguration fails, or an event handler vetoes the   *)
(* SHUTDOWN_COMPLETE of a connection, the wrapper keeps itself and its     *)
(* registration from then on: no later step of the application or of       *)
(* MsQuic closes the registration.                                         *)
THEOREM RefusedForEver == Spec => []LeakPins /\ [][Leaked => Leaked']_vars
  <1>1. Tree => LeakPins
    BY RefusedPins
  <1>2. Tree /\ [Next]_vars => [Leaked => Leaked']_vars
    <2> SUFFICES ASSUME Tree, [Next]_vars, NEW x \in Objects, handle[x] \in {"refused", "vetoed"}
                 PROVE  Leaked'
      BY DEF Leaked
    <2>1. handle'[x] = handle[x]
      BY Moves DEF OpenStages
    <2> QED
      BY <2>1 DEF Leaked
  <1> QED
    BY <1>1, <1>2, TreeAlways, PTL DEF Spec

-----------------------------------------------------------------------------
(* Refinement of CallbackHandle *)

(* Lemma: the stages of a wrapper, before and after a step. *)
LEMMA Stages ==
  ASSUME NEW x \in Objects, Tree, Tree'
  PROVE  /\ handle[x] = "absent" => ObjectStage(x) = "absent" /\ HandleStage(x) = "none"
         /\ handle[x] = "refused" => ObjectStage(x) = "gone" /\ HandleStage(x) = "none"
         /\ handle[x] = "closed" => ObjectStage(x) = "gone" /\ HandleStage(x) = "closed"
         /\ handle[x] \in OpenStages =>
              /\ ObjectStage(x) = IF refs[x] = {} THEN "dying" ELSE "live"
              /\ HandleStage(x) = IF handle[x] \in {"idle", "ended", "vetoed"}
                                THEN "quiet" ELSE "calling"
         /\ handle'[x] = "absent" => ObjectStage(x)' = "absent" /\ HandleStage(x)' = "none"
         /\ handle'[x] = "refused" => ObjectStage(x)' = "gone" /\ HandleStage(x)' = "none"
         /\ handle'[x] = "closed" => ObjectStage(x)' = "gone" /\ HandleStage(x)' = "closed"
         /\ handle'[x] \in OpenStages =>
              /\ ObjectStage(x)' = IF refs'[x] = {} THEN "dying" ELSE "live"
              /\ HandleStage(x)' = IF handle'[x] \in {"idle", "ended", "vetoed"}
                                 THEN "quiet" ELSE "calling"
  BY DEF ObjectStage, HandleStage, OpenStages, Dying

(* Lemma: who must hold a wrapper. *)
LEMMA Holders ==
  ASSUME NEW x \in Objects, Tree
  PROVE  /\ handle[x] \in {"running", "ending"} => x \in Callers /\ "self" \in refs[x]
         /\ "thunk" \in refs[x] => x \in Callers /\ handle[x] \in {"ended", "vetoed"}
         /\ handle[x] = "refused" => "thunk" \notin refs[x]
  <1>1. x \notin Callers => "thunk" \notin refs[x] /\ handle[x] \notin {"running", "ending"}
    BY ObjectsAssumption DEF Tree, TypeOK, Kept, MayHold
  <1> QED
    BY <1>1 DEF Tree, SelfReference, ThunkReference

LEMMA HoldersNext ==
  ASSUME NEW x \in Objects, Tree'
  PROVE  /\ handle'[x] \in {"running", "ending"} => x \in Callers /\ "self" \in refs'[x]
         /\ "thunk" \in refs'[x] => x \in Callers /\ handle'[x] \in {"ended", "vetoed"}
         /\ handle'[x] = "refused" => "thunk" \notin refs'[x]
  <1>1. x \notin Callers => "thunk" \notin refs'[x] /\ handle'[x] \notin {"running", "ending"}
    BY ObjectsAssumption DEF Tree, TypeOK, Kept, MayHold
  <1> QED
    BY <1>1 DEF Tree, SelfReference, ThunkReference

Moved(x) == UNCHANGED CH(x)!vars \/ CH(x)!Next

(* Lemma: a wrapper whose handle stays as it is stutters, or dies. *)
LEMMA MovedByHolders ==
  ASSUME NEW x \in Objects, Tree, Tree', handle'[x] = handle[x],
         "thunk" \in refs'[x] <=> "thunk" \in refs[x],
         refs[x] = {} => refs'[x] = {} \/ handle[x] = "refused"
  PROVE  Moved(x)
  <1>t. handle[x] \in {"absent", "refused", "closed"} \cup OpenStages
    BY DEF Tree, TypeOK
  <1>1. CASE handle[x] \notin OpenStages
    <2>1. ObjectStage(x)' = ObjectStage(x) /\ HandleStage(x)' = HandleStage(x)
      BY <1>1, <1>t, Stages
    <2> QED
      BY <2>1 DEF Moved, CH!vars
  <1>2. CASE handle[x] \in OpenStages /\ (refs[x] = {} <=> refs'[x] = {})
    <2>1. ObjectStage(x)' = ObjectStage(x) /\ HandleStage(x)' = HandleStage(x)
      BY <1>2, Stages
    <2> QED
      BY <2>1 DEF Moved, CH!vars
  <1>3. CASE handle[x] \in OpenStages /\ refs[x] # {} /\ refs'[x] = {}
    <2>1. handle[x] \in {"idle", "ended", "vetoed"}
      BY <1>3, HoldersNext DEF OpenStages
    <2>2. /\ ObjectStage(x) = "live" /\ ObjectStage(x)' = "dying"
          /\ HandleStage(x) = "quiet" /\ HandleStage(x)' = "quiet"
      BY <1>3, <2>1, Stages
    <2>3. "thunk" \notin refs[x]
      BY <1>3
    <2> QED
      BY <2>2, <2>3, <1>3 DEF Moved, CH!Next, CH!Die
  <1> QED
    BY <1>1, <1>2, <1>3 DEF OpenStages

(* Lemma: a wrapper that keeps a holder and goes on through its stages. *)
LEMMA MovedByCall ==
  ASSUME NEW x \in Objects, Tree, Tree', refs[x] # {}, refs'[x] # {},
         "thunk" \notin refs[x] /\ "thunk" \notin refs'[x],
         handle[x] \in OpenStages, handle'[x] \in OpenStages,
         handle[x] \in {"running", "ending"} => handle'[x] \in {"running", "ending"}
  PROVE  Moved(x)
  <1>1. ObjectStage(x) = "live" /\ ObjectStage(x)' = "live"
    BY Stages
  <1>2. \/ HandleStage(x)' = HandleStage(x)
        \/ HandleStage(x) = "quiet" /\ HandleStage(x)' = "calling"
    BY Stages DEF OpenStages
  <1> QED
    BY <1>1, <1>2 DEF Moved, CH!vars, CH!Next, CH!Arm

(* Lemma: a new wrapper. *)
LEMMA MovedByInit ==
  ASSUME NEW x \in Objects, Tree, Tree', handle[x] = "absent",
         handle'[x] = "refused" \/ (handle'[x] \in {"idle", "running"} /\ refs'[x] # {})
  PROVE  Moved(x)
  <1>1. "thunk" \notin refs[x] /\ "thunk" \notin refs'[x]
    BY Holders, HoldersNext
  <1>2. ObjectStage(x) = "absent" /\ HandleStage(x) = "none"
    BY Stages
  <1>3. CASE handle'[x] = "refused"
    BY <1>1, <1>2, <1>3, Stages DEF Moved, CH!Next, CH!CreateFails
  <1>4. CASE handle'[x] \in {"idle", "running"} /\ refs'[x] # {}
    <2>1. ObjectStage(x)' = "live" /\ HandleStage(x)' \in {"quiet", "calling"}
      BY <1>4, Stages DEF OpenStages
    <2> QED
      BY <1>1, <1>2, <2>1 DEF Moved, CH!Next, CH!Create
  <1> QED
    BY <1>3, <1>4

(* Lemma: an initializer moves its own wrapper and leaves the others. *)
LEMMA MovedByWrap ==
  ASSUME Tree, Tree', NEW o \in Objects, NEW stage \in {"idle", "running", "refused"}, NEW holders,
         Wrap(o, stage, holders), holders # {},
         o # Registration => refs[Parent[o]] # {}, NEW x \in Objects
  PROVE  Moved(x)
  <1>w. /\ handle[o] = "absent" /\ handle'[o] = stage /\ refs'[o] = holders
        /\ \A y \in Objects \ {o} :
             /\ handle'[y] = handle[y]
             /\ \A h : h # o => (h \in refs'[y] <=> h \in refs[y])
             /\ refs'[y] # refs[y] => o # Registration /\ y = Parent[o]
    BY Wrapped
  <1>1. CASE x = o
    BY <1>1, <1>w, MovedByInit
  <1>2. CASE x # o
    <2>1. o # "thunk"
      BY ObjectsAssumption
    <2>2. handle'[x] = handle[x] /\ ("thunk" \in refs'[x] <=> "thunk" \in refs[x])
      BY <1>2, <1>w, <2>1
    <2>3. refs[x] = {} => refs'[x] = {}
      BY <1>2, <1>w
    <2> QED
      BY <2>2, <2>3, MovedByHolders
  <1> QED
    BY <1>1, <1>2

(* Lemma: every step moves every wrapper as CallbackHandle allows. *)
LEMMA StageStep ==
  ASSUME Tree, Tree', [Next]_vars, NEW x \in Objects
  PROVE  Moved(x)
  <1>t. TypeOK /\ TypeOK'
    BY DEF Tree
  <1>1. ApiOpen \/ ApiClose \/ UNCHANGED vars => Moved(x)
    BY MovedByHolders DEF ApiOpen, ApiClose, vars
  <1>2. ASSUME RegistrationShutdown PROVE Moved(x)
    <2>1. refs' = refs
      BY <1>2 DEF RegistrationShutdown
    <2>2. CASE handle'[x] = handle[x]
      BY <2>1, <2>2, MovedByHolders
    <2>3. CASE handle'[x] # handle[x]
      <3>1. handle[x] \in {"idle", "running"} /\ handle'[x] = "ending"
        BY <1>2, <2>3 DEF RegistrationShutdown
      <3>2. "self" \in refs'[x] /\ "thunk" \notin refs'[x]
        BY <3>1, HoldersNext
      <3>3. handle[x] \in OpenStages /\ handle'[x] \in OpenStages /\ handle'[x] \in {"running", "ending"}
        BY <3>1 DEF OpenStages
      <3>4. refs[x] # {} /\ refs'[x] # {} /\ "thunk" \notin refs[x]
        BY <2>1, <3>2
      <3> QED
        BY <3>2, <3>3, <3>4, MovedByCall
    <2> QED
      BY <2>2, <2>3
  <1>3. ASSUME NEW c \in Connections, Accept(c) \/ AcceptFails(c) PROVE Moved(x)
    <2>1. c \in Objects /\ c # Registration /\ Parent[c] = Registration
      BY Kinds, ObjectsAssumption DEF Streams, Callers
    <2>2. refs[Parent[c]] # {}
      BY <1>3, <2>1, AcceptHasRegistration DEF Accept, AcceptFails
    <2>3. CASE Accept(c)
      BY <2>1, <2>2, <2>3, MovedByWrap DEF Accept
    <2>4. CASE AcceptFails(c)
      BY <2>1, <2>2, <2>4, MovedByWrap DEF AcceptFails
    <2> QED
      BY <1>3, <2>3, <2>4
  <1>4. ASSUME NEW o \in Objects, Open(o) PROVE Moved(x)
    <2>1. o # Registration => refs[Parent[o]] # {}
      BY <1>4 DEF Open, Reachable
    <2> QED
      BY <1>4, <2>1, MovedByWrap DEF Open
  <1>5. ASSUME NEW s \in PeerStreams, PeerStream(s) PROVE Moved(x)
    <2> DEFINE p == ConnectionOf[s]
    <2>1. s \in Callers /\ s \in Objects /\ p \in Callers /\ p \in Objects /\ p # s
      BY Kinds
    <2>2. /\ handle[s] = "absent" /\ handle'[s] = "running" /\ handle[p] = "running"
          /\ "app" \in refs'[s] /\ refs'[p] = refs[p] \cup {"app"}
          /\ \A y \in Objects \ {s} : handle'[y] = handle[y]
          /\ \A y \in Objects \ {s, p} : refs'[y] = refs[y]
      BY <1>5, <2>1, <1>t DEF PeerStream, TypeOK
    <2> HIDE DEF p
    <2>3. CASE x = s
      BY <2>2, <2>3, MovedByInit
    <2>4. CASE x = p
      <3>1. "self" \in refs[p]
        BY <2>1, <2>2, Holders
      <3> QED
        BY <2>1, <2>2, <2>4, <3>1, MovedByHolders
    <2>5. CASE x \notin {s, p}
      BY <2>2, <2>5, MovedByHolders
    <2> QED
      BY <2>3, <2>4, <2>5
  <1>6. ASSUME NEW o \in Callers, Start(o) \/ StartFails(o) \/ Shutdown(o) \/ PeerEnds(o)
        PROVE  Moved(x)
    <2>0. o \in Objects
      BY Kinds
    <2>1. /\ handle[o] \in {"idle", "running"}
          /\ handle'[o] \in {"running", "ending"} \/ (handle[o] = "idle" /\ handle'[o] = "ended")
          /\ refs'[o] = refs[o] \/ (refs'[o] = refs[o] \ {"self"} /\ "app" \in refs[o])
          /\ \A y \in Objects \ {o} : handle'[y] = handle[y] /\ refs'[y] = refs[y]
      BY <1>6, <2>0, <1>t DEF Start, StartFails, Shutdown, PeerEnds, Release, Reachable, TypeOK
    <2>2. CASE x = o
      <3>1. "self" \in refs[o] /\ "thunk" \notin refs[o]
        BY <2>0, <2>1, Holders DEF Tree, SelfReference
      <3>2. handle[o] \in OpenStages /\ handle'[o] \in OpenStages
        BY <2>1 DEF OpenStages
      <3>3. refs[o] # {} /\ refs'[o] # {} /\ "thunk" \notin refs'[o]
        BY <2>1, <3>1
      <3>4. handle[o] \in {"running", "ending"} => handle'[o] \in {"running", "ending"}
        BY <2>1
      <3> QED
        BY <2>2, <3>1, <3>2, <3>3, <3>4, MovedByCall
    <2>3. CASE x # o
      BY <2>1, <2>3, MovedByHolders
    <2> QED
      BY <2>2, <2>3
  <1>7. ASSUME NEW o \in Callers, LastEvent(o) PROVE Moved(x)
    <2>0. o \in Objects
      BY Kinds
    <2>1. /\ handle[o] \in {"running", "ending"} /\ handle'[o] \in {"ended", "vetoed"}
          /\ "thunk" \in refs'[o]
          /\ \A y \in Objects \ {o} : handle'[y] = handle[y] /\ refs'[y] = refs[y]
      BY <1>7, <2>0, <1>t DEF LastEvent, EndDue, TypeOK
    <2>2. CASE x = o
      <3>1. "self" \in refs[o] /\ "thunk" \notin refs[o]
        BY <2>0, <2>1, Holders
      <3>2. refs[o] # {} /\ refs'[o] # {} /\ handle[o] \in OpenStages /\ handle'[o] \in OpenStages
        BY <2>1, <3>1 DEF OpenStages
      <3>3. /\ ObjectStage(o) = "live" /\ ObjectStage(o)' = "live"
            /\ HandleStage(o) = "calling" /\ HandleStage(o)' = "quiet"
        BY <2>0, <2>1, <3>2, Stages
      <3> QED
        BY <2>1, <2>2, <3>1, <3>3 DEF Moved, CH!Next, CH!Enter
    <2>3. CASE x # o
      BY <2>1, <2>3, MovedByHolders
    <2> QED
      BY <2>2, <2>3
  <1>8. ASSUME NEW o \in Callers, ThunkReleases(o) PROVE Moved(x)
    <2>0. o \in Objects
      BY Kinds
    <2>1. /\ handle' = handle /\ callback[o] = "running" /\ refs'[o] = refs[o] \ {"thunk"}
          /\ \A y \in Objects \ {o} : refs'[y] = refs[y]
      BY <1>8, <2>0, <1>t DEF ThunkReleases, Release, TypeOK
    <2>2. CASE x = o
      <3>1. "thunk" \in refs[o] /\ handle[o] \in {"ended", "vetoed"}
        BY <2>1 DEF Tree, ThunkReference
      <3>2. /\ ObjectStage(o) = "live" /\ ObjectStage(o)' \in {"live", "dying"}
            /\ HandleStage(o) = "quiet" /\ HandleStage(o)' = "quiet"
        BY <2>0, <2>1, <3>1, Stages DEF OpenStages
      <3> QED
        BY <2>1, <2>2, <3>1, <3>2 DEF Moved, CH!Next, CH!Leave
    <2>3. CASE x # o
      BY <2>1, <2>3, MovedByHolders
    <2> QED
      BY <2>2, <2>3
  <1>9. ASSUME NEW o \in Callers PROVE ThunkReturns(o) => Moved(x)
    BY MovedByHolders DEF ThunkReturns
  <1>10. ASSUME NEW o \in Objects, AppTake(o) \/ AppDrop(o) PROVE Moved(x)
    <2>1. /\ handle' = handle /\ refs[o] # {}
          /\ refs'[o] = refs[o] \cup {"app"} \/ refs'[o] = refs[o] \ {"app"}
          /\ \A y \in Objects \ {o} : refs'[y] = refs[y]
      BY <1>10, <1>t DEF AppTake, AppDrop, Release, Reachable, TypeOK
    <2>2. refs[x] = {} => refs'[x] = {}
      BY <2>1
    <2>3. "thunk" \in refs'[x] <=> "thunk" \in refs[x]
      BY <2>1
    <2> QED
      BY <2>1, <2>2, <2>3, MovedByHolders
  <1>11. ASSUME NEW o \in Objects, Deinit(o) PROVE Moved(x)
    <2>1. /\ handle[o] \in OpenStages /\ refs[o] = {} /\ handle'[o] = "closed"
          /\ \A y \in Objects \ {o} : handle'[y] = handle[y]
          /\ \A y \in Objects : refs'[y] = refs[y] \ {o}
      BY <1>11, <1>t DEF Deinit, Dying, Release, WithoutStored, TypeOK
    <2>2. CASE x = o
      <3>1. handle[o] \in {"idle", "ended", "vetoed"}
        BY <2>1, Holders DEF OpenStages
      <3>2. /\ ObjectStage(o) = "dying" /\ ObjectStage(o)' = "gone"
            /\ HandleStage(o) = "quiet" /\ HandleStage(o)' = "closed"
        BY <2>1, <3>1, Stages
      <3> QED
        BY <2>1, <2>2, <3>2 DEF Moved, CH!Next, CH!Close
    <2>3. CASE x # o
      <3>1. o # "thunk"
        BY ObjectsAssumption
      <3> QED
        BY <2>1, <2>3, <3>1, MovedByHolders
    <2> QED
      BY <2>2, <2>3
  <1> QED
    BY <1>1, <1>2, <1>3, <1>4, <1>5, <1>6, <1>7, <1>8, <1>9, <1>10, <1>11, NextActions

(* Every wrapper of the tree keeps what QuicObject promises: no callback   *)
(* finds a dead object, and each handle is closed once, when MsQuic will   *)
(* not call it again, whoever else holds or lets go of its relatives.      *)
THEOREM TreeImplementsCallbackHandle == Spec => KeepsHandleSafe
  <1>1. ASSUME Init, NEW x \in Objects PROVE CH(x)!Init
    <2>1. "thunk" \notin refs[x] /\ handle[x] = "absent"
      BY <1>1 DEF Init
    <2>2. ObjectStage(x) = "absent" /\ HandleStage(x) = "none"
      BY <2>1 DEF ObjectStage, HandleStage, OpenStages
    <2> QED
      BY <2>1, <2>2 DEF CH!Init
  <1>2. Init => \A o \in Objects : CH(o)!Init
    BY <1>1
  <1>3. Tree /\ Tree' /\ [Next]_vars =>
          [\A o \in Objects : UNCHANGED CH(o)!vars \/ CH(o)!Next]_vars
    BY StageStep DEF Moved
  <1> QED
    BY <1>2, <1>3, TreeAlways, PTL DEF Spec, KeepsHandleSafe
===============================================================================
