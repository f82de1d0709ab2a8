----------------------------- MODULE MCPending ------------------------------
(* A small instance of Pending for TLC.                                    *)
EXTENDS Pending, TLC

CONSTANTS i1, i2, c1

Alike == Permutations(Item)
=============================================================================
