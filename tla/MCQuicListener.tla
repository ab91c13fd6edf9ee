---------------------------- MODULE MCQuicListener ----------------------------
(* Small instances of QuicListener for TLC. *)
EXTENDS QuicListener, TLC

CONSTANTS p1, p2, k1, k2

TwoStoppers == {p1, p2}
TwoConnections == {k1, k2}

Documented == {}
Restart == {"restart"}
ConcurrentStop == {"concurrentStop"}
StopIdle == {"stopIdle"}
===============================================================================
