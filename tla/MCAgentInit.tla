------------------------------ MODULE MCAgentInit ------------------------------
(* Small instances of AgentInit for TLC.                                   *)
EXTENDS AgentInit

CONSTANTS p1, n1, n2
=============================================================================
