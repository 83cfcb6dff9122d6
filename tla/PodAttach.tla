------------------------------- MODULE PodAttach -------------------------------
(***************************************************************************)
(* What the CNI server promises a runtime that waits for its answers: each *)
(* sandbox goes through its life alone.  The node keeps four things for    *)
(* it, the veth pair, the OVS port, the entry of the interface cache and   *)
(* the reserved address.  An ADD that is answered well leaves all four, one *)
(* that is refused leaves no more than the address, a DEL leaves nothing,  *)
(* and nobody touches what another sandbox has.                            *)
(***************************************************************************)
CONSTANTS
  Containers,  \* container (sandbox) IDs
  PodOf,       \* the pod a container is a sandbox of
  Addresses,   \* addresses of the node's pod subnet
  None         \* no address

VARIABLES
  phase,    \* where a container is in its life
  address,  \* the address the runtime was or will be told
  holds     \* what the node keeps for it

vars == <<phase, address, holds>>

Parts == {"veth", "port", "entry", "addr"}

Init ==
  /\ phase = [c \in Containers |-> "none"]
  /\ address = [c \in Containers |-> None]
  /\ holds = [c \in Containers |-> {}]

Enter(c, p) == phase' = [phase EXCEPT ![c] = p]
Hold(c, parts) == holds' = [holds EXCEPT ![c] = parts]
Forget(c) == address' = [address EXCEPT ![c] = None]

\* The runtime asks for a sandbox when the pod's earlier ones are gone.
Request(c) ==
  /\ phase[c] = "none"
  /\ \A e \in Containers \ {c} :
       PodOf[e] = PodOf[c] => phase[e] \in {"none", "gone"}
  /\ Enter(c, "adding")
  /\ UNCHANGED <<address, holds>>

\* An address no other container was told.
Reserve(c) ==
  /\ phase[c] = "adding"
  /\ address[c] = None
  /\ \E a \in Addresses \ {address[e] : e \in Containers} :
       address' = [address EXCEPT ![c] = a]
  /\ Hold(c, holds[c] \cup {"addr"})
  /\ UNCHANGED phase

Make(c) ==
  /\ phase[c] = "adding"
  /\ \E p \in {"veth", "port"} : Hold(c, holds[c] \cup {p})
  /\ UNCHANGED <<phase, address>>

Attach(c) ==
  /\ phase[c] = "adding"
  /\ holds[c] = Parts \ {"entry"}
  /\ address[c] # None
  /\ Enter(c, "ready")
  /\ Hold(c, Parts)
  /\ UNCHANGED address

Refuse(c) ==
  /\ phase[c] = "adding"
  /\ Enter(c, "failed")
  /\ Hold(c, holds[c] \cap {"addr"})
  /\ Forget(c)

Teardown(c) ==
  /\ phase[c] \in {"ready", "failed"}
  /\ Enter(c, "deleting")
  /\ Forget(c)
  /\ UNCHANGED holds

\* An ADD that rolls back, or a DEL, takes one thing away.
Unmake(c) ==
  /\ \/ phase[c] = "adding" /\ \E p \in {"veth", "port"} : Hold(c, holds[c] \ {p})
     \/ phase[c] = "deleting" /\ \E p \in Parts : Hold(c, holds[c] \ {p})
  /\ UNCHANGED <<phase, address>>

Detach(c) ==
  /\ phase[c] = "deleting"
  /\ holds[c] \subseteq {"entry"}
  /\ Enter(c, "gone")
  /\ Hold(c, {})
  /\ UNCHANGED address

\* A DEL that fails can be asked for again.
Deny(c) ==
  /\ phase[c] = "deleting"
  /\ Enter(c, "failed")
  /\ UNCHANGED <<address, holds>>

Next ==
  \E c \in Containers :
    \/ Request(c) \/ Reserve(c) \/ Make(c) \/ Attach(c) \/ Refuse(c)
    \/ Teardown(c) \/ Unmake(c) \/ Detach(c) \/ Deny(c)

Spec == Init /\ [][Next]_vars
=============================================================================
