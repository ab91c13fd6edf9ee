---------------------------- MODULE MCQuicDatagram ----------------------------
(* Small instances of QuicDatagram for TLC. *)
EXTENDS QuicDatagram, TLC

CONSTANTS w1, w2, w3, a1, a2

ThreeSenders == {w1, w2, w3}
TwoSenders == {w1, w2}
TwoAddresses == {a1, a2}

Passing == {}
Veto == {"veto"}
===============================================================================
