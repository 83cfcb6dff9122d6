-------------------------------- MODULE Pipeline --------------------------------
(***************************************************************************)
(* The flow tables pkg/openflow sets up on the node's switch, and what the *)
(* switch does with a packet.                                              *)
(*                                                                         *)
(* A match is the fields' admitted values, so that a wildcard is the set   *)
(* of all values and a more specific match is a subset.  A flow either     *)
(* hands the packet to another table, with its source rewritten or not, or *)
(* outputs it NORMALly, once for each tunnel destination it sets.          *)
(***************************************************************************)
EXTENDS Naturals, FiniteSets, Sequences

CONSTANTS
  Numbers,   \* OpenFlow port numbers the switch gives to container ports
  Nodes      \* the other nodes of the cluster, each with its pod subnet

\* The ports of the tunnel and of the gateway ask for their numbers.
tunOFPort == 1
hostGatewayOFPort == 2

InPorts == Numbers \cup {tunOFPort, hostGatewayOFPort}
IPKinds == {"ip", "dns"}                    \* dns: UDP from port 53
Kinds == IPKinds \cup {"arpRequest", "arpReply"}
Dests == Nodes \cup {"local", "outside"}    \* the subnet an address is in

\* A container port has a number of its own; 0 is none.  The model's own names
\* are none of the cluster's.
ASSUME NamesAssumption ==
  /\ {0, tunOFPort, hostGatewayOFPort} \cap Numbers = {}
  /\ "local" \notin Nodes /\ "outside" \notin Nodes

Packets == [in: InPorts, kind: Kinds, dst: Dests]

Classifier == 0
ClusterForward == 1
CoreDnsSNAT == 2

Normal == 200
Low == 190
Miss == 80

\* No tunnel destination: NORMAL sends such a packet to local ports only.
Untunnelled == "untunnelled"

-----------------------------------------------------------------------------
(* Flows.                                                                  *)

AnyPacket == [in |-> InPorts, kind |-> Kinds, dst |-> Dests]

Resubmit(table) == [next |-> table, rewrite |-> FALSE, outputs |-> {}]

Output(tunnels) == [next |-> ClusterForward, rewrite |-> FALSE, outputs |-> tunnels]

Flow(table, priority, match, action) ==
  [table |-> table, priority |-> priority, match |-> match, action |-> action]

ArpNormal == Flow(ClusterForward, Low,
  [AnyPacket EXCEPT !.kind = {"arpRequest", "arpReply"}], Output({Untunnelled}))

ClassifierDefault == Flow(Classifier, Miss, AnyPacket, Resubmit(ClusterForward))
SNATDefault == Flow(CoreDnsSNAT, Miss, AnyPacket, Resubmit(ClusterForward))
ForwardDefault == Flow(ClusterForward, Miss, AnyPacket, Output({Untunnelled}))

\* client.Initialize adds them in this order.
BasicFlows == <<ArpNormal, ClassifierDefault, SNATDefault, ForwardDefault>>

\* Mutation: ARP to the nodes is not put before arpNormalFlow.
ArpToNodesLower(kind, ns) == Flow(ClusterForward, Miss,
  [AnyPacket EXCEPT !.kind = {kind}], Output(ns))

\* One flow with an output for each node.
ArpToNodes(kind, ns) == Flow(ClusterForward, Normal,
  [AnyPacket EXCEPT !.kind = {kind}], Output(ns))

LocalFlow == Flow(ClusterForward, Normal,
  [AnyPacket EXCEPT !.kind = IPKinds, !.dst = {"local"}], Output({Untunnelled}))

\* Mutation: the flow is put in the classifier, as ipTunFlow is.
TunFlowInClassifier(n) == Flow(Classifier, Normal,
  [AnyPacket EXCEPT !.kind = IPKinds, !.dst = {n}], Output({n}))

TunFlow(n) == Flow(ClusterForward, Normal,
  [AnyPacket EXCEPT !.kind = IPKinds, !.dst = {n}], Output({n}))

DnsClassifier(n) == Flow(Classifier, Normal,
  [AnyPacket EXCEPT !.in = {n}], Resubmit(CoreDnsSNAT))

\* Mutation: the source port is not matched.
DnsSNATAnySource(n) == Flow(CoreDnsSNAT, Normal,
  [AnyPacket EXCEPT !.in = {n}, !.kind = IPKinds],
  [Resubmit(ClusterForward) EXCEPT !.rewrite = TRUE])

\* The source becomes the DNS service's address.
DnsSNAT(n) == Flow(CoreDnsSNAT, Normal,
  [AnyPacket EXCEPT !.in = {n}, !.kind = {"dns"}],
  [Resubmit(ClusterForward) EXCEPT !.rewrite = TRUE])

\* InstallCorednsFlow adds them in this order.
DnsFlows(n) == <<DnsClassifier(n), DnsSNAT(n)>>

Within(m, n) == m.in \subseteq n.in /\ m.kind \subseteq n.kind /\ m.dst \subseteq n.dst

\* ovs-ofctl add-flow replaces the flow of the same match and priority.  The
\* flows of fs are told apart by their matches, so that their order is all one.
AddFlows(flows, fs) ==
  {g \in flows : \A f \in fs : ~ /\ g.table = f.table
                                 /\ g.priority = f.priority
                                 /\ g.match = f.match} \cup fs

\* Mutation: the flows are formatted without their matchers.
DelFlowsUnmatched(flows, fs) == {g \in flows : \A f \in fs : g.table # f.table}

\* ovs-ofctl del-flows, not --strict and without a priority, takes every flow
\* of the table whose match is as narrow or narrower.
DelFlows(flows, fs) ==
  {g \in flows : \A f \in fs : ~(g.table = f.table /\ Within(g.match, f.match))}

-----------------------------------------------------------------------------
(* Packets.                                                                *)

Matching(flows, table, p) ==
  {f \in flows : /\ f.table = table
                 /\ p.in \in f.match.in
                 /\ p.kind \in f.match.kind
                 /\ p.dst \in f.match.dst}

Best(flows, table, p) ==
  LET ms == Matching(flows, table, p)
  IN  {f \in ms : \A g \in ms : g.priority <= f.priority}

\* The flows that handle the packet after those in fs.
Then(flows, fs, p) ==
  UNION {Best(flows, f.action.next, p) : f \in {g \in fs : g.action.outputs = {}}}

\* Those that handle it from the classifier on; no path has more than three.
Handling(flows, p) ==
  LET first == Best(flows, Classifier, p)
      second == Then(flows, first, p)
  IN  first \cup second \cup Then(flows, second, p)

\* The tunnel destinations the packet leaves with.  NORMAL never sends a packet
\* out of the port it came in by.
Outputs(flows, p) ==
  {IF p.in = tunOFPort THEN Untunnelled ELSE o :
    o \in UNION {f.action.outputs : f \in Handling(flows, p)}}

Rewritten(flows, p) == \E f \in Handling(flows, p) : f.action.rewrite

\* Some packet matches both flows, and the switch may take either.
Overlap(f, g) ==
  /\ f.table = g.table /\ f.priority = g.priority
  /\ f.match.in \cap g.match.in # {}
  /\ f.match.kind \cap g.match.kind # {}
  /\ f.match.dst \cap g.match.dst # {}
=============================================================================
