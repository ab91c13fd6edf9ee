------------------------- MODULE CallbackHandleProofs -------------------------
(***************************************************************************)
(* What the life cycle CallbackHandle guarantees, and with it every        *)
(* wrapper that is shown to implement it.                                  *)
(***************************************************************************)
EXTENDS CallbackHandle, TLAPS

(* MsQuic may call, or a handler runs: the object is there to receive it.  *)
CalledIsLive == handle = "calling" \/ frame => object = "live"

(* deinit runs beside no handler, on a handle that is open and quiet. *)
DyingIsQuiet == object = "dying" => handle = "quiet" /\ ~frame

(* A handle is closed with its object and not before; what is gone leaves  *)
(* no open handle, and an object exists exactly while it has one.          *)
OpenWithObject ==
  /\ object = "absent" => handle = "none"
  /\ object = "live" => handle \in {"quiet", "calling"}
  /\ object = "gone" => handle \in {"none", "closed"}

Safe == CalledIsLive /\ DyingIsQuiet /\ OpenWithObject

(* Close happens once, by the object's deinit, and is the end. *)
ClosedIsTheEnd ==
  /\ handle = "closed" => UNCHANGED vars
  /\ handle' = "closed" /\ handle # "closed" => object = "dying" /\ object' = "gone"

(* Every variable of the life cycle keeps its type. *)
THEOREM TypeCorrect == Spec => []TypeOK
  <1>1. Init => TypeOK
    BY DEF Init, TypeOK
  <1>2. TypeOK /\ [Next]_vars => TypeOK'
    BY DEF TypeOK, Next, vars, Create, CreateFails, Arm, Enter, Leave, Die, Close
  <1> QED
    BY <1>1, <1>2, PTL DEF Spec

(* No use after free: a callback finds its object alive, and deinit closes *)
(* the handle when MsQuic will not use it again.                           *)
THEOREM HandleIsSafe == Spec => []Safe
  <1>1. Init => Safe
    BY DEF Init, Safe, CalledIsLive, DyingIsQuiet, OpenWithObject
  <1>2. Safe /\ [Next]_vars => Safe'
    BY DEF Safe, CalledIsLive, DyingIsQuiet, OpenWithObject, Next, vars,
           Create, CreateFails, Arm, Enter, Leave, Die, Close
  <1> QED
    BY <1>1, <1>2, PTL DEF Spec

(* No double close: only a deinit closes the handle, and nothing happens   *)
(* to it afterwards.                                                       *)
THEOREM ClosedOnce == Spec => [][ClosedIsTheEnd]_vars
  <1>1. Safe /\ [Next]_vars => [ClosedIsTheEnd]_vars
    BY DEF Safe, CalledIsLive, DyingIsQuiet, OpenWithObject, ClosedIsTheEnd, Next, vars,
           Create, CreateFails, Arm, Enter, Leave, Die, Close
  <1> QED
    BY <1>1, HandleIsSafe, PTL DEF Spec
===============================================================================
