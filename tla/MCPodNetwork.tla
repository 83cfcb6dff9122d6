----------------------------- MODULE MCPodNetwork -----------------------------
(* Small instances of PodNetwork for TLC.                                  *)
EXTENDS PodNetworkAttach, TLC

CONSTANTS c1, c2, c3, p1, p2

\* c2 is the sandbox that follows c1 for the same pod.
MCPodOf == [c \in Containers |-> IF c = c3 THEN p2 ELSE p1]

\* A pod's host interface is named after the pod: the pod stands for it.
MCNameOf == [p \in Pods |-> p]

\* Addresses and DEL slots are interchangeable (not used with liveness).
Symmetric == Permutations(IPs) \cup Permutations(Dels)
=============================================================================
