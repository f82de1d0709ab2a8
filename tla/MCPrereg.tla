------------------------------ MODULE MCPrereg ------------------------------
(* A small instance of Prereg for TLC.                                     *)
EXTENDS Prereg, TLC

CONSTANTS c1, c2, c3, s1, s2

Alike == Permutations(Sealer) \cup Permutations(Call \ Judged)

\* Bound: the calls of other gates share no file with the sealers, so they are over
\* when the user writes, and of their outcomes one that leaves nothing behind is enough.
OthersEarly ==
  edits' = 0 \/ \A c \in Call \ Judged : (At(c, "done") /\ call[c].verdict = "mute")'
=============================================================================
