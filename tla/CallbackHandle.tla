---------------------------- MODULE CallbackHandle ----------------------------
(***************************************************************************)
(* What QuicObject promises about the C handle a wrapper owns              *)
(* (Core/QuicObject.swift: "Retain self for callback lifetime to avoid     *)
(* use-after-free", and the deinit of every subclass closes the handle).   *)
(*                                                                         *)
(* This is the abstract specification; QuicStream, QuicConnection,         *)
(* QuicListener and every object of QuicOwnership are shown to implement   *)
(* it.  It says nothing about continuations or states:                     *)
(*   - the library runs a callback only against an object that is live;    *)
(*   - an object dies only when the library will not call it again;        *)
(*   - the handle is closed once, by the deinit of its own object, while no *)
(*     handler runs on that object.                                        *)
(***************************************************************************)

VARIABLES
  object,   (* the Swift object: absent, live, dying (deinit due), gone *)
  handle,   (* the C handle: none, quiet, calling (callbacks due), closed *)
  frame     (* a handler of this object is running; it holds the object *)

vars == <<object, handle, frame>>

TypeOK ==
  /\ object \in {"absent", "live", "dying", "gone"}
  /\ handle \in {"none", "quiet", "calling", "closed"}
  /\ frame \in BOOLEAN

Init == object = "absent" /\ handle = "none" /\ frame = FALSE

(* The constructor opens a handle or wraps one the library handed out. *)
Create ==
  /\ object = "absent"
  /\ object' = "live"
  /\ handle' \in {"quiet", "calling"}
  /\ UNCHANGED frame

(* The constructor throws: no handle, and nothing to close. *)
CreateFails ==
  /\ object = "absent"
  /\ object' = "gone"
  /\ UNCHANGED <<handle, frame>>

(* A call on the handle makes the library owe it callbacks. *)
Arm ==
  /\ object = "live"
  /\ handle = "quiet"
  /\ handle' = "calling"
  /\ UNCHANGED <<object, frame>>

(* The library calls back; the call may be its last one. *)
Enter ==
  /\ object = "live"
  /\ handle = "calling"
  /\ ~frame
  /\ frame' = TRUE
  /\ handle' \in {"calling", "quiet"}
  /\ UNCHANGED object

(* The callback returns; its frame may have held the last reference. *)
Leave ==
  /\ frame
  /\ frame' = FALSE
  /\ \/ UNCHANGED object
     \/ object = "live" /\ handle = "quiet" /\ object' = "dying"
  /\ UNCHANGED handle

(* The last reference goes away on another thread. *)
Die ==
  /\ object = "live"
  /\ handle = "quiet"
  /\ ~frame
  /\ object' = "dying"
  /\ UNCHANGED <<handle, frame>>

(* deinit. *)
Close ==
  /\ object = "dying"
  /\ handle = "quiet"
  /\ ~frame
  /\ object' = "gone"
  /\ handle' = "closed"
  /\ UNCHANGED frame

Next == Create \/ CreateFails \/ Arm \/ Enter \/ Leave \/ Die \/ Close

Spec == Init /\ [][Next]_vars
===============================================================================
