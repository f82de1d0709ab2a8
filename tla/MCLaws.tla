------------------------------- MODULE MCLaws -------------------------------
(* A small instance of Laws for TLC.                                       *)
EXTENDS Laws, TLC

CONSTANTS p1, p2

Alike == Permutations(Process)
=============================================================================
