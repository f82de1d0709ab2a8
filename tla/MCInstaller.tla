---------------------------- MODULE MCInstaller ----------------------------
(* A small instance of Installer for TLC.                                  *)
EXTENDS Installer, TLC

CONSTANTS p1, p2, sic, sic2, none

\* .../sic and .../sic2
Prefix == [r \in Root |-> IF r = sic THEN {sic, sic2} ELSE {r}]

Alike == Permutations(Process)
=============================================================================
