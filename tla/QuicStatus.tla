------------------------------- MODULE QuicStatus -------------------------------
(***************************************************************************)
(* Status codes and the errors thrown for them (Core/QuicStatus.swift,     *)
(* Core/QuicError.swift).  A status is 32 bits wide; it is written here as *)
(* the signed number with those bits.                                      *)
(***************************************************************************)
EXTENDS Integers

CONSTANT Code  (* the errno of each named error on this platform *)

(* The errors QuicError(status:) has a case of their own for. *)
Named ==
  {"invalidParameter", "invalidState", "outOfMemory", "connectionRefused",
   "connectionTimeout", "handshakeFailure", "aborted", "addressInUse", "unreachable",
   "connectionIdle", "internalError", "protocolError", "streamLimitReached",
   "notSupported"}

errorBase     == 200000000
tlsErrorBase  == 256 + errorBase
certErrorBase == 512 + errorBase

(* Error numbers are positive, small and distinct. *)
ASSUME CodeAssumption ==
  /\ Code \in [Named -> 1 .. errorBase]
  /\ \A m, n \in Named : Code[m] = Code[n] => m = n

success == 0
pending == -2

Failed(x) == x > 0

(* raw >= base and raw < base compare the bits as an unsigned number. *)
AtLeast(x, base) == x < 0 \/ x >= base

tlsAlert(alert) == (alert % 256) + tlsErrorBase

CertErrors == {"certExpired", "certUntrustedRoot", "certNoCert"}

CertValue == [certExpired |-> 1, certUntrustedRoot |-> 2, certNoCert |-> 3]

Plain(kind) == [kind |-> kind, value |-> 0]

(* QuicError(status:) *)
ErrorOf(x) ==
  IF \E n \in Named : Code[n] = x THEN Plain(CHOOSE n \in Named : Code[n] = x)
  ELSE IF AtLeast(x, tlsErrorBase) /\ ~AtLeast(x, certErrorBase)
    THEN [kind |-> "tlsError", value |-> x - tlsErrorBase]
  ELSE IF \E c \in CertErrors : x = certErrorBase + CertValue[c]
    THEN Plain(CHOOSE c \in CertErrors : x = certErrorBase + CertValue[c])
  ELSE IF AtLeast(x, certErrorBase)
    THEN [kind |-> "certUnknown", value |-> x - certErrorBase]
  ELSE [kind |-> "unknown", value |-> x]

(* Reference: the status that an error stands for. *)
StatusOf(error) ==
  IF error.kind \in Named THEN Code[error.kind]
  ELSE IF error.kind = "tlsError" THEN error.value + tlsErrorBase
  ELSE IF error.kind \in CertErrors THEN certErrorBase + CertValue[error.kind]
  ELSE IF error.kind = "certUnknown" THEN error.value + certErrorBase
  ELSE error.value
===============================================================================
