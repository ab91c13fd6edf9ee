----------------------------- MODULE MCQuicStream -----------------------------
(* Small instances of QuicStream for TLC. *)
EXTENDS QuicStream, TLC

CONSTANTS s1, s2, c1, c2, w1

OneStarter == {s1}
TwoStarters == {s1, s2}
OneCloser == {c1}
TwoClosers == {c1, c2}
OneSender == {w1}
None == {}

Documented == {}
RejectedFlags == {"rejectedFlags"}
CloseDuringStart == {"closeDuringStart"}
Restart == {"restart"}
===============================================================================
