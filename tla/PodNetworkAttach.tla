---------------------------- MODULE PodNetworkAttach ----------------------------
(***************************************************************************)
(* CmdAdd and CmdDel (module PodNetwork) as an implementation of PodAttach *)
(* where the runtime waits for its answers and the agent stays up.         *)
(***************************************************************************)
EXTENDS PodNetwork

\* What the node keeps for a container, in the order CmdAdd makes it.
Kept(c) ==
  {p \in {"addr", "veth", "port", "entry"} :
    \/ p = "addr" /\ ipam[c] # None
    \/ p = "veth" /\ c \in veth
    \/ p = "port" /\ Plugged(c)
    \/ p = "entry" /\ cache[Name(c)] = c}

Promise == INSTANCE PodAttach WITH
  Addresses <- IPs,
  phase <- sandbox,
  address <- addr,
  holds <- [c \in Containers |-> Kept(c)]

\* Each request of CmdAdd and CmdDel, with the roll-backs of configureInterface,
\* takes its own sandbox through the life of PodAttach, however the requests
\* of the node's pods interleave: success is all or nothing, and no request
\* adds to, or takes from, what another sandbox has.
AttachesAlone == Promise!Spec
=============================================================================
