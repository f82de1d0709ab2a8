---------------------------- MODULE MCHeartbeat -----------------------------
(* A small instance of Heartbeat for TLC.                                  *)
EXTENDS Heartbeat, TLC

CONSTANTS p1, p2, sic, t1

Plain == [auto |-> FALSE, reason |-> FALSE, jump |-> 0]
PipeModes == {Plain, AutoRound}

SameAgent == [p \in {p1, p2} |-> sic]
=============================================================================
