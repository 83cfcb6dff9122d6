-------------------------------- MODULE DataPath --------------------------------
(***************************************************************************)
(* The node's data path as the agent builds it: the flows of the switch    *)
(* (module Pipeline) and the rules of the host (module Iptables), under    *)
(* the start of the agent (module AgentInit), its failures and restarts,   *)
(* and pods that come and go.                                              *)
(*                                                                         *)
(* The steps of the start that change neither are those of AgentInit.      *)
(***************************************************************************)
EXTENDS Pipeline, Iptables

CONSTANTS
  Pods,        \* names of container ports
  DnsPods,     \* those of CoreDNS pods
  Faults, Resets, MaxFaults    \* as in AgentInit

Tun == "tun0"
Gw == "gw0"

ASSUME PodsAssumption == DnsPods \subseteq Pods /\ Tun \notin Pods /\ Gw \notin Pods

\* Those of AgentInit.
ASSUME AgentAssumption ==
  /\ Faults \subseteq {"ovsdb", "api", "rules", "link", "switch", "crash"}
  /\ MaxFaults \in Nat /\ Resets \in BOOLEAN

VARIABLES
  pc, cache, known, calls, bridge, ports, gwAddr, nodes, faults,  \* as in AgentInit
  ofport,   \* OVSDB: the OpenFlow number of each pod's port, 0 if it has none
  flows,    \* the switch's flows
  chains,   \* the host's iptables chains
  ensured   \* how many calls of ensureChain and ensureRule SetUpRules made

agentVars == <<pc, cache, known, calls, bridge, ports, gwAddr, nodes, faults>>
vars == <<agentVars, ofport, flows, chains, ensured>>

\* The nodes the flow for ARP requests outputs to.
ArpTargets ==
  UNION {f.action.outputs : f \in {g \in flows : g.match.kind = {"arpRequest"}}}

Agent == INSTANCE AgentInit WITH
  base <- Cardinality(ToSet(BasicFlows) \cap flows),
  tunnels <- {n \in Nodes : TunFlow(n) \in flows},
  arp <- ArpTargets

RuleChains == {r.chain : r \in ToSet(PresetRules)}

TypeOK ==
  /\ Agent!TypeOK
  /\ ofport \in [Pods -> Numbers \cup {0}]
  /\ \A f \in flows :
       /\ f.table \in {Classifier, ClusterForward, CoreDnsSNAT}
       /\ f.priority \in {Normal, Low, Miss}
       /\ Within(f.match, AnyPacket)
       /\ f.action.outputs \subseteq Nodes \cup {Untunnelled}
  /\ DOMAIN chains \subseteq RuleChains
  /\ \A c \in DOMAIN chains : ToSet(chains[c]) \subseteq ToSet(PresetRules)
  /\ ensured \in 0 .. 2 * Len(PresetRules)

NoPorts == [p \in Pods |-> 0]

Init ==
  /\ ofport = NoPorts
  /\ flows = {}
  /\ chains = EmptyChains
  /\ ensured = 0
  /\ Agent!Init

-----------------------------------------------------------------------------
(* The host.                                                               *)

\* Steps of AgentInit that leave the switch and the rules alone.  A start that
\* ends, ends SetUpRules too.
HostStep ==
  /\ UNCHANGED <<ofport, flows, chains>>
  /\ \/ Agent!Start \/ Agent!CreateBridge \/ Agent!LoadNode
     \/ Agent!InitCache \/ Agent!SetUpTunnel \/ Agent!SetUpGateway
     \/ Agent!WaitLink \/ Agent!SetAddress \/ Agent!ListNodes
     \/ Agent!Fail \/ Agent!Crash
     \/ \E n \in Nodes : Agent!NodeChange(n)
  /\ ensured' = IF pc' = "rules" THEN ensured ELSE 0

\* The next call of SetUpRules: ensureChain for each rule, then ensureRule.
\* A call may fail (Fail of AgentInit): what was added before it stays.
EnsureNext ==
  /\ pc = "rules"
  /\ ensured < 2 * Len(PresetRules)
  /\ ensured' = ensured + 1
  /\ chains' = IF ensured < Len(PresetRules)
               THEN EnsureChain(chains, PresetRules[ensured'].chain)
               ELSE EnsureRule(chains, PresetRules[ensured' - Len(PresetRules)])
  /\ UNCHANGED <<ofport, flows, agentVars>>

RulesDone ==
  /\ ensured = 2 * Len(PresetRules)
  /\ UNCHANGED <<ofport, flows, chains>>
  /\ ensured' = 0
  /\ Agent!SetUpRules

-----------------------------------------------------------------------------
(* The switch.                                                             *)

\* The first k flows of a sequence.
Sent(fs, k) == {fs[i] : i \in 1 .. k}

InstallBase ==
  /\ pc = "base"
  /\ flows' = AddFlows(flows, ToSet(BasicFlows))
  /\ Agent!Goto("list")
  /\ UNCHANGED <<cache, known, calls, bridge, ports, gwAddr, ofport, chains, ensured>>

\* One is refused; what was sent before it stays.
InstallBaseFails ==
  /\ pc = "base"
  /\ \E k \in 0 .. Len(BasicFlows) - 1 :
       flows' = AddFlows(flows, Sent(BasicFlows, k))
  /\ Agent!Fault("switch")
  /\ Agent!Exit
  /\ UNCHANGED <<bridge, ports, gwAddr, ofport, chains, ensured>>

\* InstallARPFlow, for no node none; the second flow is not sent if the first
\* is refused.
ArpFlows ==
  IF known = {} THEN <<>>
  ELSE <<ArpToNodes("arpRequest", known), ArpToNodes("arpReply", known)>>

\* InstallTunFlow, for each node by itself.
TunFlows == {TunFlow(n) : n \in known}

SubnetFlows == {LocalFlow} \cup TunFlows

\* constructArpOpenflow and constructIPTunFlow.  The cache of flows is empty,
\* so each is sent; that it is refused is ignored or only logged.
InstallNodes ==
  /\ pc = "flows"
  /\ \E k \in 0 .. Len(ArpFlows), fs \in SUBSET SubnetFlows :
       /\ "switch" \notin Faults => k = Len(ArpFlows) /\ fs = SubnetFlows
       /\ flows' = AddFlows(flows, Sent(ArpFlows, k) \cup fs)
  /\ Agent!Goto("serving")
  /\ UNCHANGED <<cache, known, calls, bridge, ports, gwAddr, ofport, chains, ensured>>

\* CmdAdd makes the port, and the switch gives it a number no other port has,
\* though a port that is gone may have had it.
PlugPod(p) ==
  /\ UNCHANGED flows
  /\ Agent!PlugPod(p)
  /\ \E n \in Numbers \ {ofport[q] : q \in Pods} : ofport' = [ofport EXCEPT ![p] = n]
  /\ UNCHANGED <<chains, ensured>>

\* For a CoreDNS pod it sends the flows of the port's number, one by one.
InstallDns(p) ==
  /\ calls[p] = "add" /\ p \in DnsPods
  /\ \E k \in 1 .. 2 : flows' = AddFlows(flows, Sent(DnsFlows(ofport[p]), k))
  /\ UNCHANGED <<agentVars, ofport, chains, ensured>>

PlugDone(p) ==
  /\ p \in DnsPods => ToSet(DnsFlows(ofport[p])) \subseteq flows
  /\ UNCHANGED flows
  /\ Agent!PlugDone(p)
  /\ UNCHANGED <<ofport, chains, ensured>>

\* The rollback of CmdAdd.  It deletes a CoreDNS pod's flows if both were sent:
\* deleteFlows goes through them in any order and stops at one that is refused.
\* The port's deletion may fail too.
PlugFails(p) ==
  /\ Agent!Call(p, "add", "none")
  /\ \E fs \in SUBSET ToSet(DnsFlows(ofport[p])) :
       /\ fs # {} => p \in DnsPods /\ ToSet(DnsFlows(ofport[p])) \subseteq flows
       /\ flows' = DelFlows(flows, fs)
  /\ \/ UNCHANGED <<ports, ofport>>
     \/ ports' = ports \ {p} /\ ofport' = [ofport EXCEPT ![p] = 0]
  /\ UNCHANGED <<cache, chains, ensured>>

\* CmdDel deletes the port, whose number is free again, and leaves its flows.
UnplugPod(p) ==
  /\ UNCHANGED flows
  /\ Agent!UnplugPod(p)
  /\ ofport' = [ofport EXCEPT ![p] = 0]
  /\ UNCHANGED <<chains, ensured>>

UnplugDone(p) ==
  /\ UNCHANGED flows
  /\ Agent!UnplugDone(p)
  /\ UNCHANGED <<ofport, chains, ensured>>

\* By an operator, or by a reboot, which also takes the host's rules.
DeleteBridge ==
  /\ flows' = {}
  /\ ofport' = NoPorts
  /\ Agent!DeleteBridge
  /\ chains' \in {chains, EmptyChains}
  /\ UNCHANGED ensured

Next ==
  \/ HostStep \/ EnsureNext \/ RulesDone
  \/ InstallBase \/ InstallBaseFails \/ InstallNodes
  \/ \E p \in Pods :
       \/ PlugPod(p) \/ InstallDns(p) \/ PlugDone(p) \/ PlugFails(p)
       \/ UnplugPod(p) \/ UnplugDone(p)
  \/ DeleteBridge

Spec == Init /\ [][Next]_vars

-----------------------------------------------------------------------------
(* A container's routes.                                                   *)

\* updateResultIfaceConfig: the IPAM plugin returns none as it is configured,
\* so that both the default route and the cluster's subnet are added.
Routes == {
  [to |-> Dests, via |-> "gateway"],
  [to |-> Nodes \cup {"local"}, via |-> "link"]}

\* The narrowest route to the subnet.
NextHop(dst) ==
  (CHOOSE r \in Routes :
     /\ dst \in r.to
     /\ \A q \in Routes : dst \in q.to => r.to \subseteq q.to).via

-----------------------------------------------------------------------------
(* Properties.                                                             *)

\* The agent's start and the pods' requests on the switch do what AgentInit
\* says of their counts and sets: no add-flow replaces, and no loose del-flows
\* takes, a flow of another owner, and SetUpRules step by step is one step.
ImplementsAgentInit == Agent!Spec

\* No two flows of one priority in a table match the same packet, between which
\* OpenFlow leaves the choice open, whichever flows were refused, rolled back
\* or left by pods that are gone.
NoAmbiguousMatch == \A f \in flows, g \in flows : f # g => ~Overlap(f, g)

\* Where a flow to a node's pods is, every packet to them from this node's pods
\* and gateway goes to that node and nowhere else, on a CoreDNS pod's number and
\* on one with flows left on it too, while packets to this node's pods and to
\* the outside are not tunnelled and none of them is lost.  ARP goes where the
\* ARP flows send it, and what comes from a tunnel stays here.
PodToPod ==
  pc = "serving" => \A p \in Packets :
    /\ p.in # tunOFPort /\ p.kind \in IPKinds =>
         IF TunFlow(p.dst) \in flows
         THEN Outputs(flows, p) = {p.dst} /\ NextHop(p.dst) = "link"
         ELSE Outputs(flows, p) = {Untunnelled}
    /\ p.in # tunOFPort /\ p.kind = "arpRequest" =>
         Outputs(flows, p) = IF ArpTargets = {} THEN {Untunnelled} ELSE ArpTargets
    /\ p.in = tunOFPort => Outputs(flows, p) = {Untunnelled}

\* "Pod to external ... by SNAT of iptables" (README): the host of a serving
\* agent accepts what leaves and enters by the gateway and masquerades what
\* leaves, and no traffic between pods, whatever starts failed half way
\* through SetUpRules before.
PodToExternal ==
  pc = "serving" =>
    /\ NextHop("outside") = "gateway"
    /\ \A path \in Paths :
         /\ Accepted(chains, path)
         /\ Masqueraded(chains, path) <=> path \in Outward

\* The answers of a CoreDNS pod that is attached get the service's address as
\* their source; whatever flows are left of pods that are gone, nothing but
\* packets from port 53 does, and nothing that comes in by the tunnel or the
\* gateway.  (That another pod with a CoreDNS pod's old number has its packets
\* from port 53 rewritten too is DnsFlowsForDnsOnly of module PodNetwork.)
DnsRepliesRewritten ==
  pc = "serving" => \A p \in Packets :
    /\ p.kind = "dns" /\ (\E q \in cache \cap DnsPods : p.in = ofport[q]) =>
         Rewritten(flows, p)
    /\ Rewritten(flows, p) => p.kind = "dns" /\ p.in \in Numbers

\* While the bridge is there, a port number's packets from port 53 start or stop
\* being rewritten only at the hand of the CmdAdd of a CoreDNS pod whose port has the
\* number: no start of the agent, no other pod and no rollback for another
\* number changes that of a pod that is attached.
RewritingChanges ==
  [][flows' # flows /\ bridge' =>
       \A p \in Packets :
         p.kind = "dns" /\ Rewritten(flows, p) # Rewritten(flows', p) =>
           \E q \in DnsPods : calls[q] = "add" /\ p.in = ofport[q]]_vars
=============================================================================
