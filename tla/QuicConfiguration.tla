--------------------------- MODULE QuicConfiguration ---------------------------
(***************************************************************************)
(* The buffers QuicConfiguration hands to MsQuic                           *)
(* (Configuration/QuicConfiguration.swift, QuicCredentialConfig.swift,     *)
(* Core/QuicBuffer.swift).  init and loadCredential nest one scope per     *)
(* buffer around one C call; the scopes close in reverse order whether the *)
(* call succeeds or throws.                                                *)
(***************************************************************************)
EXTENDS QuicStatus, Sequences

CONSTANTS
  Alpns,     (* sequence of the protocol names an application may pass *)
  Statuses   (* what the C calls may return *)

ASSUME StatusesAssumption == Statuses \subseteq Int

(* A call: init with the first n names, or loadCredential. *)
Opens == [op : {"open"}, type : {"alpn"}, n : 0 .. Len(Alpns), given : BOOLEAN,
          async : {FALSE}]
Loads == [op : {"load"}, type : {"none", "file", "pkcs12", "pem"}, n : {0},
          given : BOOLEAN, async : BOOLEAN]
Calls == Opens \cup Loads  (* given: settings, or the password, are not nil *)

VARIABLES
  call,       (* the call being made *)
  pc,         (* idle, entering, calling, leaving *)
  depth,      (* how many scopes are open *)
  allocated,  (* secure buffers on the heap *)
  plain,      (* heap memory that still has a secret in it *)
  reading,    (* MsQuic reads the buffers *)
  outcome,    (* of the last call: an error, or kind "ok" *)
  handle      (* the configuration is open *)

vars == <<call, pc, depth, allocated, plain, reading, outcome, handle>>

ok == Plain("ok")

(* The scopes of a call, in the order they are entered. *)
Layout(c) ==
  IF c.type = "alpn" THEN SubSeq(Alpns, 1, c.n) \o <<"array", "settings">>
  ELSE IF c.type = "none" THEN <<>>
  ELSE IF c.type = "file" THEN <<"certPath", "keyPath", "certFile">>
  ELSE IF c.type = "pkcs12" THEN <<"blob", "password", "pkcs12">>
  ELSE <<"key", "cert", "password", "pem">>

Secure == {"key", "cert", "password"}

(* withSecureBuffer copies what it is given; a password that is nil gets   *)
(* no memory.  A PKCS#12 password is a plain C string.                     *)
Copies(c) ==
  IF c.type = "pem" THEN Secure \ (IF c.given THEN {} ELSE {"password"}) ELSE {}

(* What the C structure points to: NULL for nil settings or password. *)
Points(c) ==
  {Layout(c)[i] : i \in 1 .. Len(Layout(c))}
    \ (IF c.given THEN {} ELSE {"settings", "password"})

(* The buffers whose scopes are open, and the one inside all others. *)
Live == {Layout(call)[i] : i \in 1 .. depth}
Innermost == Layout(call)[depth]

(* Mutant: asynchronous loading is let through. *)
MutSupported(c) == TRUE

(* "Async credential loading requires the credential buffers to live       *)
(* beyond this call."                                                      *)
Supported(c) == ~c.async

Init ==
  /\ call = [op |-> "open", type |-> "alpn", n |-> 0, given |-> FALSE, async |-> FALSE]
  /\ pc = "idle" /\ depth = 0
  /\ allocated = {} /\ plain = {} /\ reading = FALSE
  /\ outcome = ok /\ handle = FALSE

(* init(registration:alpnBuffers:settings:) once, then loadCredential(_:). *)
Begin(c) ==
  /\ pc = "idle" /\ handle = (c.op = "load")
  /\ call' = c
  /\ \/ /\ Supported(c)
        /\ pc' = "entering"
        /\ UNCHANGED outcome
     \/ /\ ~Supported(c)
        /\ outcome' = Plain("notSupported")
        /\ UNCHANGED pc
  /\ UNCHANGED <<depth, allocated, plain, reading, handle>>

(* withUnsafeBytes, withCString, withUnsafeMutablePointer, withSecureBuffer *)
EnterScope ==
  /\ pc = "entering" /\ depth < Len(Layout(call))
  /\ depth' = depth + 1
  /\ allocated' = allocated \cup ({Layout(call)[depth + 1]} \cap Copies(call))
  /\ plain' = plain \cup ({Layout(call)[depth + 1]} \cap Copies(call))
  /\ UNCHANGED <<call, pc, reading, outcome, handle>>

(* ConfigurationOpen or ConfigurationLoadCredential *)
CallMsQuic ==
  /\ pc = "entering" /\ depth = Len(Layout(call))
  /\ pc' = "calling" /\ reading' = TRUE
  /\ UNCHANGED <<call, depth, allocated, plain, outcome, handle>>

(* MsQuic has copied what it needs: before the call returns, if it was not *)
(* asked to load asynchronously.                                           *)
MsQuicReads ==
  /\ reading
  /\ reading' = FALSE
  /\ UNCHANGED <<call, pc, depth, allocated, plain, outcome, handle>>

(* The call returns; throwIfFailed, and init stores the handle. *)
MsQuicReturns(x) ==
  /\ pc = "calling" /\ (reading => call.async)
  /\ pc' = "leaving"
  /\ outcome' = IF Failed(x) THEN ErrorOf(x) ELSE ok
  /\ handle' = (handle \/ (call.op = "open" /\ ~Failed(x)))
  /\ UNCHANGED <<call, depth, allocated, plain, reading>>

(* Mutant: the wipe is not in a defer; an error skips it. *)
MutWiped(b) == IF outcome = ok THEN {b} ELSE {}

(* What `defer` zero-fills before it frees b. *)
Wiped(b) == {b}

(* The innermost scope closes. *)
LeaveScope ==
  /\ pc = "leaving" /\ depth > 0
  /\ depth' = depth - 1
  /\ plain' = plain \ Wiped(Innermost)
  /\ allocated' = allocated \ {Innermost}
  /\ UNCHANGED <<call, pc, reading, outcome, handle>>

Return ==
  /\ pc = "leaving" /\ depth = 0
  /\ pc' = "idle"
  /\ UNCHANGED <<call, depth, allocated, plain, reading, outcome, handle>>

Next ==
  \/ \E c \in Calls : Begin(c)
  \/ EnterScope \/ CallMsQuic \/ MsQuicReads
  \/ \E x \in Statuses : MsQuicReturns(x)
  \/ LeaveScope \/ Return

Spec == Init /\ [][Next]_vars

-----------------------------------------------------------------------------
(* MsQuic never reads a buffer whose scope is closed: every pointer in the *)
(* C structures, and what they point to, outlives the use of it.           *)
BuffersOutliveUse == reading => Points(call) \subseteq Live

(* "Use secure buffers that are zero-filled after use": the PEM key, its   *)
(* certificate and its password are never left in freed memory, and        *)
(* nothing stays allocated, on the paths that throw as well.  (A PKCS#12   *)
(* blob and its password are not put into secure buffers.)                 *)
SecretsWiped ==
  /\ plain \subseteq allocated
  /\ pc = "idle" => allocated = {}
===============================================================================
