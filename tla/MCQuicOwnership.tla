---------------------------- MODULE MCQuicOwnership ----------------------------
(* Small instances of QuicOwnership for TLC. *)
EXTENDS QuicOwnership, TLC

CONSTANTS k, l, c, s, p

OneConfiguration == {k}
OneListener == {l}
OneConnection == {c}
OneLocal == {s}
OnePeer == {p}
None == {}

StreamsOnOne == [x \in LocalStreams \cup PeerStreams |-> c]

PatientOrEarly == {"patient", "early"}
Prompt == {"prompt"}
===============================================================================
