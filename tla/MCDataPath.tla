------------------------------- MODULE MCDataPath -------------------------------
(* Small instances of DataPath for TLC.                                    *)
EXTENDS DataPath, TLC

CONSTANTS p1, p2, n1, n2, o1, o2

\* Nodes do not differ, nor do the numbers of container ports.
Symmetry == Permutations(Nodes) \cup Permutations(Numbers)
=============================================================================
