------------------------------- MODULE AgentInit -------------------------------
(***************************************************************************)
(* The start of the node agent: run of cmd/ciccni-agent and Initialize of  *)
(* pkg/agent, against the OVS bridge it finds.                             *)
(*                                                                         *)
(* Any error ends the process, and the DaemonSet starts it again.  What    *)
(* the attempt did to the bridge, to the kernel and to the switch stays;   *)
(* the interface cache is lost.  When the agent serves, CmdAdd and CmdDel  *)
(* plug and unplug pods: of each its call that changes the bridge and the  *)
(* one that changes the cache.  Calls for one pod do not overlap here; in  *)
(* module PodNetwork they do.                                              *)
(***************************************************************************)
EXTENDS Naturals

CONSTANTS
  Pods,        \* names of container ports
  Nodes,       \* the other nodes of the cluster
  Faults,      \* what may fail
  Resets,      \* whether an operator deletes the bridge of a stopped agent
  MaxFaults    \* bound on failed calls and crashes

\* ovsdb: a transaction; api: the API server; rules: iptables; link: netlink
\* on the gateway; switch: ovs-ofctl; crash: the process, for any other reason.
ASSUME FaultsAssumption ==
  Faults \subseteq {"ovsdb", "api", "rules", "link", "switch", "crash"}
ASSUME BoundsAssumption == MaxFaults \in Nat /\ Resets \in BOOLEAN

Tun == "tun0"
Gw == "gw0"
BaseFlows == 4   \* arpNormal and the three tables' defaults

ASSUME NamesAssumption == Tun \notin Pods /\ Gw \notin Pods

VARIABLES
  pc,       \* the next step of the start, "serving" or "down"
  cache,    \* interfaceCache: names of cached ports
  known,    \* the node list the start works with
  calls,    \* of each pod: the ADD that has made its port, the DEL that has
            \* deleted it, until the cache has, or has lost, its entry
  bridge,   \* OVSDB: whether the bridge exists
  ports,    \* OVSDB: names of its ports
  gwAddr,   \* kernel: whether the gateway link has its address
  base,     \* switch: how many of the basic flows are there, in their order
  tunnels,  \* switch: nodes with a tunnel flow
  arp,      \* switch: nodes the ARP flows output to
  nodes,    \* API server: the other nodes
  faults    \* how many there were

memory == <<cache, known, calls>>
switch == <<base, tunnels, arp>>
vars == <<pc, cache, known, calls, bridge, ports, gwAddr, base, tunnels, arp,
          nodes, faults>>

NoCalls == [p \in Pods |-> "none"]

Steps == {"bridge", "node", "rules", "ports", "tunnel", "gateway", "link",
          "address", "base", "list", "flows"}

TypeOK ==
  /\ pc \in Steps \cup {"down", "serving"}
  /\ cache \subseteq Pods \cup {Tun, Gw}
  /\ known \subseteq Nodes
  /\ calls \in [Pods -> {"none", "add", "del"}]
  /\ bridge \in BOOLEAN
  /\ ports \subseteq Pods \cup {Tun, Gw}
  /\ gwAddr \in BOOLEAN
  /\ base \in 0 .. BaseFlows
  /\ tunnels \subseteq Nodes
  /\ arp \subseteq Nodes
  /\ nodes \subseteq Nodes
  /\ faults \in 0 .. MaxFaults

\* The node has never run the agent.
Init ==
  /\ pc = "down"
  /\ cache = {} /\ known = {} /\ calls = NoCalls
  /\ bridge = FALSE
  /\ ports = {}
  /\ gwAddr = FALSE
  /\ base = 0 /\ tunnels = {} /\ arp = {}
  /\ nodes \in SUBSET Nodes
  /\ faults = 0

-----------------------------------------------------------------------------
(* The steps of the start, in their order.                                 *)

Goto(s) == pc' = s /\ UNCHANGED <<nodes, faults>>

Exit ==
  /\ pc' = "down"
  /\ cache' = {} /\ known' = {} /\ calls' = NoCalls
  /\ UNCHANGED nodes

Fault(f) ==
  /\ f \in Faults
  /\ faults < MaxFaults
  /\ faults' = faults + 1

\* Step s meets the fault f, changes nothing, and the agent exits.
Fails(s, f) ==
  /\ pc = s
  /\ Fault(f)
  /\ Exit
  /\ UNCHANGED <<bridge, ports, gwAddr, switch>>

Start ==
  /\ pc = "down"
  /\ Goto("bridge")
  /\ UNCHANGED <<memory, bridge, ports, gwAddr, switch>>

\* OVSBridge.Create: looked up by name, made if it is not there.
CreateBridge ==
  /\ pc = "bridge"
  /\ bridge' = TRUE
  /\ Goto("node")
  /\ UNCHANGED <<memory, ports, gwAddr, switch>>

\* initNodeLocalConfig reads the node and the cluster's configuration.
LoadNode ==
  /\ pc = "node"
  /\ Goto("rules")
  /\ UNCHANGED <<memory, bridge, ports, gwAddr, switch>>

\* SetUpRules of pkg/iptables.
SetUpRules ==
  /\ pc = "rules"
  /\ Goto("ports")
  /\ UNCHANGED <<memory, bridge, ports, gwAddr, switch>>

\* Mutation: the gateway's port is read back too.
InitCacheKeepsGateway ==
  /\ pc = "ports"
  /\ cache' = ports \cap {Tun, Gw}
  /\ Goto("tunnel")
  /\ UNCHANGED <<known, calls, bridge, ports, gwAddr, switch>>

\* interfaceCache.Initialize: of all ports only the tunnel's gets an entry.
InitCache ==
  /\ pc = "ports"
  /\ cache' = ports \cap {Tun}
  /\ Goto("tunnel")
  /\ UNCHANGED <<known, calls, bridge, ports, gwAddr, switch>>

\* Mutation: the gateway's link is waited for before its port is made.
SetUpTunnelThenLink ==
  /\ pc = "tunnel"
  /\ ports' = ports \cup {Tun}
  /\ cache' = cache \cup {Tun}
  /\ Goto("link")
  /\ UNCHANGED <<known, calls, bridge, gwAddr, switch>>

\* setUpTunnelInterface: made unless cached.
SetUpTunnel ==
  /\ pc = "tunnel"
  /\ Tun \in cache \/ Tun \notin ports
  /\ ports' = ports \cup {Tun}
  /\ cache' = cache \cup {Tun}
  /\ Goto("gateway")
  /\ UNCHANGED <<known, calls, bridge, gwAddr, switch>>

\* setupGatewayInterface: made unless cached, and it never is.
SetUpGateway ==
  /\ pc = "gateway"
  /\ Gw \in cache \/ Gw \notin ports
  /\ ports' = ports \cup {Gw}
  /\ cache' = cache \cup {Gw}
  /\ Goto("link")
  /\ UNCHANGED <<known, calls, bridge, gwAddr, switch>>

\* OVSDB refuses a second port of that name.
GatewayRefused ==
  /\ pc = "gateway"
  /\ Gw \notin cache /\ Gw \in ports
  /\ Exit
  /\ UNCHANGED <<faults, bridge, ports, gwAddr, switch>>

\* The gateway's link, which vswitchd makes for its port, is looked up at
\* most maxRetryForHostLink times, a second apart, and brought up.
WaitLink ==
  /\ pc = "link"
  /\ Gw \in ports
  /\ Goto("address")
  /\ UNCHANGED <<memory, bridge, ports, gwAddr, switch>>

\* Mutation: a link that does not show up is only logged.
WaitLinkFailsLogged ==
  /\ pc = "link"
  /\ Fault("link")
  /\ pc' = "base"
  /\ UNCHANGED <<nodes, memory, bridge, ports, gwAddr, switch>>

WaitLinkFails ==
  /\ pc = "link"
  /\ Fault("link")
  /\ Exit
  /\ UNCHANGED <<bridge, ports, gwAddr, switch>>

\* The address is added unless the link has it.
SetAddress ==
  /\ pc = "address"
  /\ gwAddr' = TRUE
  /\ Goto("base")
  /\ UNCHANGED <<memory, bridge, ports, switch>>

\* client.Initialize of pkg/openflow adds the basic flows one by one.
InstallBase ==
  /\ pc = "base"
  /\ base' = BaseFlows
  /\ Goto("list")
  /\ UNCHANGED <<memory, bridge, ports, gwAddr, tunnels, arp>>

\* One is refused; what was sent before it, now or earlier, stays.
InstallBaseFails ==
  /\ pc = "base"
  /\ Fault("switch")
  /\ base' \in base .. IF base = BaseFlows THEN base ELSE BaseFlows - 1
  /\ Exit
  /\ UNCHANGED <<bridge, ports, gwAddr, tunnels, arp>>

\* Mutation: the agent's own node is not skipped.
ListNodesWithSelf ==
  /\ pc = "list"
  /\ known' = nodes \cup {"self"}
  /\ Goto("flows")
  /\ UNCHANGED <<cache, calls, bridge, ports, gwAddr, switch>>

\* The nodes but the agent's own.
ListNodes ==
  /\ pc = "list"
  /\ known' = nodes
  /\ Goto("flows")
  /\ UNCHANGED <<cache, calls, bridge, ports, gwAddr, switch>>

\* constructArpOpenflow and constructIPTunFlow.  The cache of flows is empty,
\* so each flow is sent; a flow that is refused is skipped, at most logged.
InstallNodes ==
  /\ pc = "flows"
  /\ \E refused \in SUBSET known :
       /\ refused # {} => "switch" \in Faults
       /\ tunnels' = tunnels \cup (known \ refused)
  /\ \/ arp' = IF known = {} THEN arp ELSE known
     \/ "switch" \in Faults /\ arp' = arp
  /\ Goto("serving")
  /\ UNCHANGED <<memory, bridge, ports, gwAddr, base>>

Fail ==
  \/ \E s \in {"bridge", "ports", "tunnel", "gateway"} : Fails(s, "ovsdb")
  \/ \E s \in {"node", "list"} : Fails(s, "api")
  \/ Fails("rules", "rules")
  \/ Fails("address", "link")
  \/ WaitLinkFails
  \/ InstallBaseFails
  \/ GatewayRefused

Initialize ==
  \/ CreateBridge \/ LoadNode \/ SetUpRules \/ InitCache \/ SetUpTunnel
  \/ SetUpGateway \/ WaitLink \/ SetAddress \/ InstallBase \/ ListNodes
  \/ InstallNodes

-----------------------------------------------------------------------------
(* What goes on around it.                                                 *)

Call(p, from, to) ==
  /\ pc = "serving"
  /\ calls[p] = from
  /\ calls' = [calls EXCEPT ![p] = to]
  /\ UNCHANGED <<pc, known, bridge, gwAddr, nodes, faults>>

\* configureInterface makes the port; OVSDB refuses a second of the name.
PlugPod(p) ==
  /\ Call(p, "none", "add")
  /\ p \notin ports
  /\ ports' = ports \cup {p}
  /\ UNCHANGED <<cache, switch>>

\* Its last step is AddInterface.
PlugDone(p) ==
  /\ Call(p, "add", "none")
  /\ cache' = cache \cup {p}
  /\ UNCHANGED <<ports, switch>>

\* A step between them fails: the deferred DeletePort, which may fail too.
PlugFails(p) ==
  /\ Call(p, "add", "none")
  /\ ports' \in {ports, ports \ {p}}
  /\ UNCHANGED <<cache, switch>>

\* removeInterfaces finds the port in the cache: DeletePort ...
UnplugPod(p) ==
  /\ Call(p, "none", "del")
  /\ p \in cache
  /\ ports' = ports \ {p}
  /\ UNCHANGED <<cache, switch>>

\* Mutation: the entry is left in the cache.
UnplugDoneKeepsEntry(p) ==
  /\ Call(p, "del", "none")
  /\ UNCHANGED <<cache, ports, switch>>

\* ... and DeleteInterface.
UnplugDone(p) ==
  /\ Call(p, "del", "none")
  /\ cache' = cache \ {p}
  /\ UNCHANGED <<ports, switch>>

Crash ==
  /\ pc # "down"
  /\ Fault("crash")
  /\ Exit
  /\ UNCHANGED <<bridge, ports, gwAddr, switch>>

\* A node joins or leaves the cluster: nothing in the agent notices.
NodeChange(n) ==
  /\ nodes' = IF n \in nodes THEN nodes \ {n} ELSE nodes \cup {n}
  /\ UNCHANGED <<pc, memory, bridge, ports, gwAddr, switch, faults>>

DeleteBridge ==
  /\ Resets
  /\ pc = "down"
  /\ bridge
  /\ bridge' = FALSE
  /\ ports' = {}
  /\ gwAddr' = FALSE
  /\ base' = 0 /\ tunnels' = {} /\ arp' = {}
  /\ UNCHANGED <<pc, memory, nodes, faults>>

Next ==
  \/ Start \/ Initialize \/ Fail \/ Crash \/ DeleteBridge
  \/ \E p \in Pods :
       \/ PlugPod(p) \/ PlugDone(p) \/ PlugFails(p)
       \/ UnplugPod(p) \/ UnplugDone(p)
  \/ \E n \in Nodes : NodeChange(n)

Spec == Init /\ [][Next]_vars

\* The DaemonSet restarts the agent and the agent runs.  An operator who
\* deletes bridges does so for an agent that keeps failing.
Fairness ==
  /\ WF_vars(Start)
  /\ WF_vars(Initialize \/ Fail)
  /\ SF_vars(DeleteBridge)

FairSpec == Spec /\ Fairness

-----------------------------------------------------------------------------
(* Properties.                                                             *)

\* An agent that answers CNI requests has finished every step: the bridge,
\* the tunnel and the gateway port exist, the gateway has its address and the
\* basic flows are there, whatever earlier attempts left behind.
ServingIsWired ==
  pc = "serving" =>
    /\ bridge
    /\ {Tun, Gw} \subseteq ports
    /\ gwAddr
    /\ base = BaseFlows

\* A serving agent's switch sends to nodes the start listed and to no others.
\* The start deletes no flows: that none is left of a node that went away
\* between two starts hangs on the gateway port, which keeps the agent from
\* coming up on the bridge of an earlier start.
NoStaleNodeFlows ==
  pc = "serving" => tunnels \subseteq known /\ arp \subseteq known

\* The interface cache names no port the bridge does not have, so that neither
\* a port nor the gateway is taken to be there when it is not, but for the port
\* of a DEL between its DeletePort and its DeleteInterface.
CacheInPorts ==
  \A p \in cache : p \in ports \/ (p \in Pods /\ calls[p] = "del")

\* An agent that fails or crashes serves again in the end, once the calls of
\* the start stop failing.  (The gateway port is created "if it does not
\* exist", setupGatewayInterface.)
ServesAgain == pc = "down" ~> pc = "serving"
=============================================================================
