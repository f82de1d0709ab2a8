------------------------------ MODULE MCForget ------------------------------
(* A small instance of Forget for TLC.                                     *)
EXTENDS Forget, TLC

CONSTANTS p1, p2, d1, d2, none

Alike == Permutations(Process) \cup Permutations(Db)
=============================================================================
