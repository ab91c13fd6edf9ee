-------------------------- MODULE MCQuicConfiguration --------------------------
(* A small instance of QuicConfiguration for TLC: two protocol names, and  *)
(* statuses from each range an error is made of.                           *)
EXTENDS QuicConfiguration, TLC

TwoAlpns == <<"alpn1", "alpn2">>

(* The error numbers of macOS. *)
DarwinCode ==
  [invalidParameter |-> 22, invalidState |-> 1, outOfMemory |-> 12,
   connectionRefused |-> 61, connectionTimeout |-> 60, handshakeFailure |-> 53,
   aborted |-> 89, addressInUse |-> 48, unreachable |-> 65, connectionIdle |-> 101,
   internalError |-> 5, protocolError |-> 100, streamLimitReached |-> 86,
   notSupported |-> 102]

OneOfEachRange ==
  {success, pending, 2, 22, tlsErrorBase, tlsAlert(42), certErrorBase + 2,
   certErrorBase + 9}
===============================================================================
