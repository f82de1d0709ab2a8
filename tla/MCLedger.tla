------------------------------ MODULE MCLedger ------------------------------
(* Small instances of Ledger for TLC.                                      *)
EXTENDS Ledger, TLC

CONSTANTS p1, p2, sic, sit, t1, t2

Plain == [auto |-> FALSE, reason |-> FALSE, jump |-> 0]
Auto == [auto |-> TRUE, reason |-> FALSE, jump |-> 0]
Forced == [auto |-> FALSE, reason |-> TRUE, jump |-> 0]
Restart == [auto |-> FALSE, reason |-> TRUE, jump |-> -1]

\* Every way to call append.
AllModes == {Plain, Auto, Forced, Restart}
\* What a tick and a plain derive | append do.
PipeModes == {Plain, Auto}
AutoOnly == {Auto}

SameAgent == [p \in {p1, p2} |-> sic]

Alike == Permutations({p1, p2})
=============================================================================
