---------------------------- MODULE MCTombstone -----------------------------
(* Small instances of Tombstone for TLC.                                   *)
EXTENDS Tombstone, TLC

CONSTANTS p1, p2, x1, x2, e1, e2, e3

\* Processes and entries are alike; paths are not, when one is elsewhere.
Alike == Permutations(Process) \cup Permutations(Entry)
=============================================================================
