--------------------------- MODULE MCQuicConnection ---------------------------
(* Small instances of QuicConnection for TLC. *)
EXTENDS QuicConnection, TLC

CONSTANTS s1, s2, c1, c2

OneStarter == {s1}
TwoStarters == {s1, s2}
OneCloser == {c1}
TwoClosers == {c1, c2}
None == {}

Documented == {}
ConcurrentStart == {"concurrentStart"}
ConcurrentShutdown == {"concurrentShutdown"}
CloseDuringStart == {"closeDuringStart"}
VetoOrNoHandler == {"veto", "noStreamHandler"}
===============================================================================
