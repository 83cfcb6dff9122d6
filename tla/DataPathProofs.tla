----------------------------- MODULE DataPathProofs -----------------------------
(***************************************************************************)
(* Proofs about the node's data path, for any pods, nodes and faults.      *)
(*                                                                         *)
(* The properties speak of packets; they hang on which flows there can be  *)
(* at all (KnownFlows), that no two of them have one match, and that what  *)
(* is sent for one purpose is neither replaced nor deleted for another:    *)
(* FlowInv.  Of the host's chains each is the first of its rules at any    *)
(* time: RuleInv.  From FlowInv also follows, command by command, that the *)
(* start of the agent is the one of AgentInit.                             *)
(***************************************************************************)
EXTENDS DataPath, FiniteSetTheorems, SequenceTheorems, TLAPS

ArpKinds == {"arpRequest", "arpReply"}

\* Those of client.Initialize.
Basics == {ArpNormal, ClassifierDefault, SNATDefault, ForwardDefault}

\* The flows for ARP, to any nodes.
ArpFlowSet == {ArpToNodes(k, ns) : k \in ArpKinds, ns \in (SUBSET Nodes) \ {{}}}

\* The flows to this node and the others.
ToNodes == {LocalFlow} \cup {TunFlow(n) : n \in Nodes} \cup ArpFlowSet

\* Every flow the agent ever sends.
KnownFlows ==
  Basics \cup ToNodes
  \cup {DnsClassifier(p) : p \in Numbers}
  \cup {DnsSNAT(p) : p \in Numbers}

-----------------------------------------------------------------------------
(* The flows, field by field.                                              *)

LEMMA BaseFields ==
  /\ ArpNormal.table = ClusterForward /\ ArpNormal.priority = Low
  /\ ArpNormal.match = [in |-> InPorts, kind |-> ArpKinds, dst |-> Dests]
  /\ ArpNormal.match.in = InPorts /\ ArpNormal.match.kind = ArpKinds
  /\ ArpNormal.match.dst = Dests
  /\ ArpNormal.action = Output({Untunnelled})
  /\ ClassifierDefault.table = Classifier /\ ClassifierDefault.priority = Miss
  /\ ClassifierDefault.match = AnyPacket
  /\ ClassifierDefault.action = Resubmit(ClusterForward)
  /\ SNATDefault.table = CoreDnsSNAT /\ SNATDefault.priority = Miss
  /\ SNATDefault.match = AnyPacket
  /\ SNATDefault.action = Resubmit(ClusterForward)
  /\ ForwardDefault.table = ClusterForward /\ ForwardDefault.priority = Miss
  /\ ForwardDefault.match = AnyPacket
  /\ ForwardDefault.action = Output({Untunnelled})
BY DEF ArpNormal, ClassifierDefault, SNATDefault, ForwardDefault, Flow,
       AnyPacket, ArpKinds

LEMMA NodeFields ==
  /\ LocalFlow.table = ClusterForward /\ LocalFlow.priority = Normal
  /\ LocalFlow.match = [in |-> InPorts, kind |-> IPKinds, dst |-> {"local"}]
  /\ LocalFlow.match.in = InPorts /\ LocalFlow.match.kind = IPKinds
  /\ LocalFlow.match.dst = {"local"}
  /\ LocalFlow.action = Output({Untunnelled})
  /\ \A k, ns :
       /\ ArpToNodes(k, ns).table = ClusterForward
       /\ ArpToNodes(k, ns).priority = Normal
       /\ ArpToNodes(k, ns).match = [in |-> InPorts, kind |-> {k}, dst |-> Dests]
       /\ ArpToNodes(k, ns).match.in = InPorts /\ ArpToNodes(k, ns).match.kind = {k}
       /\ ArpToNodes(k, ns).match.dst = Dests
       /\ ArpToNodes(k, ns).action = Output(ns)
  /\ \A n :
       /\ TunFlow(n).table = ClusterForward /\ TunFlow(n).priority = Normal
       /\ TunFlow(n).match = [in |-> InPorts, kind |-> IPKinds, dst |-> {n}]
       /\ TunFlow(n).match.in = InPorts /\ TunFlow(n).match.kind = IPKinds
       /\ TunFlow(n).match.dst = {n}
       /\ TunFlow(n).action = Output({n})
BY DEF LocalFlow, ArpToNodes, TunFlow, Flow, AnyPacket

LEMMA DnsFields ==
  \A p :
    /\ DnsClassifier(p).table = Classifier /\ DnsClassifier(p).priority = Normal
    /\ DnsClassifier(p).match = [in |-> {p}, kind |-> Kinds, dst |-> Dests]
    /\ DnsClassifier(p).match.in = {p}
    /\ DnsClassifier(p).match.kind = Kinds /\ DnsClassifier(p).match.dst = Dests
    /\ DnsClassifier(p).action = Resubmit(CoreDnsSNAT)
    /\ DnsSNAT(p).table = CoreDnsSNAT /\ DnsSNAT(p).priority = Normal
    /\ DnsSNAT(p).match = [in |-> {p}, kind |-> {"dns"}, dst |-> Dests]
    /\ DnsSNAT(p).match.in = {p}
    /\ DnsSNAT(p).match.kind = {"dns"} /\ DnsSNAT(p).match.dst = Dests
    /\ DnsSNAT(p).action = [next |-> ClusterForward, rewrite |-> TRUE, outputs |-> {}]
BY DEF DnsClassifier, DnsSNAT, Flow, AnyPacket, Resubmit

\* The table and the priority tell which flow it is, but for the flows to the
\* nodes and those of the CoreDNS pods.
LEMMA ByPriority ==
  ASSUME NEW f \in KnownFlows
  PROVE  /\ f.priority = Miss \/ f.priority = Low \/ f.priority = Normal
         /\ f.table = Classifier \/ f.table = CoreDnsSNAT \/ f.table = ClusterForward
         /\ f.table = Classifier /\ f.priority # Normal => f = ClassifierDefault
         /\ f.table = CoreDnsSNAT /\ f.priority # Normal => f = SNATDefault
         /\ f.table = ClusterForward /\ f.priority = Miss => f = ForwardDefault
         /\ f.table = ClusterForward /\ f.priority = Low => f = ArpNormal
         /\ f.table = Classifier /\ f.priority = Normal =>
              \E p \in Numbers : f = DnsClassifier(p)
         /\ f.table = CoreDnsSNAT /\ f.priority = Normal =>
              \E p \in Numbers : f = DnsSNAT(p)
         /\ f.table = ClusterForward /\ f.priority = Normal => f \in ToNodes
<1>0. /\ Classifier # CoreDnsSNAT /\ Classifier # ClusterForward
      /\ CoreDnsSNAT # ClusterForward
      /\ Normal # Low /\ Normal # Miss /\ Low # Miss
  BY DEF Classifier, CoreDnsSNAT, ClusterForward, Normal, Low, Miss
<1>1. CASE f \in {ArpNormal, ClassifierDefault, SNATDefault, ForwardDefault}
  BY <1>0, <1>1, BaseFields
<1>2. CASE f \in ToNodes
  <2>1. f.table = ClusterForward /\ f.priority = Normal
    BY <1>2, NodeFields DEF ToNodes, ArpFlowSet
  <2> QED
    BY <2>1, <1>0, <1>2
<1>3. CASE \E p \in Numbers : f = DnsClassifier(p)
  <2>1. f.table = Classifier /\ f.priority = Normal
    BY <1>3, DnsFields
  <2> QED
    BY <2>1, <1>0, <1>3
<1>4. CASE \E p \in Numbers : f = DnsSNAT(p)
  <2>1. f.table = CoreDnsSNAT /\ f.priority = Normal
    BY <1>4, DnsFields
  <2> QED
    BY <2>1, <1>0, <1>4
<1> QED
  BY <1>1, <1>2, <1>3, <1>4, Zenon DEF KnownFlows, Basics

\* What del-flows and add-flow tell flows by.
SameKey(f, g) == f.table = g.table /\ f.priority = g.priority /\ f.match = g.match

\* Two known flows of one table and one priority that a packet matches have the
\* same match.
LEMMA OverlapIsSameKey ==
  ASSUME NEW f \in KnownFlows, NEW g \in KnownFlows, Overlap(f, g)
  PROVE  f.match = g.match
<1> USE DEF Overlap
<1>0. \A x, y, z : [in |-> x, kind |-> y, dst |-> z].in = x
         /\ [in |-> x, kind |-> y, dst |-> z].kind = y
         /\ [in |-> x, kind |-> y, dst |-> z].dst = z
  OBVIOUS
<1>1. CASE f.table = Classifier /\ f.priority = Normal
  <2>1. PICK p \in Numbers : f = DnsClassifier(p)
    BY <1>1, ByPriority
  <2>2. PICK q \in Numbers : g = DnsClassifier(q)
    BY <1>1, ByPriority
  <2>3. f.match.in = {p} /\ g.match.in = {q}
    BY <2>1, <2>2, DnsFields
  <2>4. p = q
    BY <2>3
  <2> QED
    BY <2>1, <2>2, <2>4
<1>2. CASE f.table = CoreDnsSNAT /\ f.priority = Normal
  <2>1. PICK p \in Numbers : f = DnsSNAT(p)
    BY <1>2, ByPriority
  <2>2. PICK q \in Numbers : g = DnsSNAT(q)
    BY <1>2, ByPriority
  <2>3. f.match.in = {p} /\ g.match.in = {q}
    BY <2>1, <2>2, DnsFields
  <2>4. p = q
    BY <2>3
  <2> QED
    BY <2>1, <2>2, <2>4
<1>3. CASE f.table = ClusterForward /\ f.priority = Normal
  <2>1. f \in ToNodes /\ g \in ToNodes
    BY <1>3, ByPriority
  <2>2. ASSUME NEW h \in ToNodes
        PROVE  \/ \E d : h.match = [in |-> InPorts, kind |-> IPKinds, dst |-> {d}]
               \/ \E k \in ArpKinds :
                    h.match = [in |-> InPorts, kind |-> {k}, dst |-> Dests]
    <3>1. CASE h = LocalFlow
      <4>1. h.match = [in |-> InPorts, kind |-> IPKinds, dst |-> {"local"}]
        BY <3>1, NodeFields
      <4> QED
        BY <4>1, Zenon
    <3>2. CASE \E n \in Nodes : h = TunFlow(n)
      <4>1. PICK n \in Nodes : h = TunFlow(n)
        BY <3>2
      <4>2. h.match = [in |-> InPorts, kind |-> IPKinds, dst |-> {n}]
        BY <4>1, NodeFields
      <4> QED
        BY <4>2, Zenon
    <3>3. CASE \E k \in ArpKinds : \E ns \in (SUBSET Nodes) \ {{}} : h = ArpToNodes(k, ns)
      <4>1. PICK k \in ArpKinds, ns \in (SUBSET Nodes) \ {{}} : h = ArpToNodes(k, ns)
        BY <3>3
      <4>2. h.match = [in |-> InPorts, kind |-> {k}, dst |-> Dests]
        BY <4>1, NodeFields
      <4> QED
        BY <4>2, Zenon
    <3> QED
      <4>1. \/ h = LocalFlow \/ \E n \in Nodes : h = TunFlow(n)
            \/ \E k \in ArpKinds : \E ns \in (SUBSET Nodes) \ {{}} :
                 h = ArpToNodes(k, ns)
        BY <2>2 DEF ToNodes, ArpFlowSet
      <4> QED
        BY <4>1, <3>1, <3>2, <3>3, Zenon
  <2>3. CASE \E d : f.match = [in |-> InPorts, kind |-> IPKinds, dst |-> {d}]
    <3>1. PICK d : f.match = [in |-> InPorts, kind |-> IPKinds, dst |-> {d}]
      BY <2>3
    <3>2. ~ \E k \in ArpKinds :
               g.match = [in |-> InPorts, kind |-> {k}, dst |-> Dests]
      BY <3>1 DEF IPKinds, ArpKinds
    <3>3. PICK e : g.match = [in |-> InPorts, kind |-> IPKinds, dst |-> {e}]
      BY <2>1, <2>2, <3>2
    <3>4. d = e
      BY <3>1, <3>3
    <3> QED
      BY <3>1, <3>3, <3>4
  <2>4. CASE \E k \in ArpKinds : f.match = [in |-> InPorts, kind |-> {k}, dst |-> Dests]
    <3>1. PICK k \in ArpKinds : f.match = [in |-> InPorts, kind |-> {k}, dst |-> Dests]
      BY <2>4
    <3>2. ~ \E e : g.match = [in |-> InPorts, kind |-> IPKinds, dst |-> {e}]
      <4>1. \A e : [in |-> InPorts, kind |-> IPKinds, dst |-> {e}].kind = IPKinds
        OBVIOUS
      <4>2. g.match.kind # IPKinds
        BY <3>1 DEF IPKinds, ArpKinds
      <4> QED
        BY <4>1, <4>2
    <3>3. PICK l \in ArpKinds : g.match = [in |-> InPorts, kind |-> {l}, dst |-> Dests]
      BY <2>1, <2>2, <3>2
    <3>4. k = l
      BY <3>1, <3>3
    <3> QED
      BY <3>1, <3>3, <3>4
  <2> QED
    BY <2>1, <2>2, <2>3, <2>4
<1> QED
  BY <1>1, <1>2, <1>3, ByPriority
-----------------------------------------------------------------------------
(* The invariant.                                                          *)

OnePerMatch(fs) == \A f \in fs, g \in fs : SameKey(f, g) => f = g

FlowsKnown == flows \subseteq KnownFlows

\* The basic flows are sent in their order and stay.
BasicInOrder ==
  /\ ClassifierDefault \in flows => ArpNormal \in flows
  /\ SNATDefault \in flows => ClassifierDefault \in flows
  /\ ForwardDefault \in flows => SNATDefault \in flows

BasicThere == pc \in {"list", "flows", "serving"} => ToSet(BasicFlows) \subseteq flows

\* A CoreDNS pod that is attached has its flows, whatever was sent or deleted
\* for other pods since.
DnsThere ==
  \A p \in cache \cap DnsPods :
    ofport[p] # 0 => ToSet(DnsFlows(ofport[p])) \subseteq flows

\* Two ports have two numbers; the port of an ADD at work is there and is not
\* cached, and a cached port that is not there is one a DEL is removing.
NumberInv ==
  /\ pc = "down" => cache = {} /\ calls = [p \in Pods |-> "none"]
  /\ \A p, q \in Pods : ofport[p] = ofport[q] /\ ofport[p] # 0 => p = q
  /\ \A p \in Pods : calls[p] = "add" => ofport[p] # 0 /\ p \in ports /\ p \notin cache
  /\ \A p \in cache \cap Pods : p \in ports \/ calls[p] = "del"

FlowInv ==
  /\ FlowsKnown
  /\ OnePerMatch(flows)
  /\ BasicInOrder
  /\ BasicThere
  /\ DnsThere

\* What SetUpRules has appended to a chain is the first of its rules.
PrefixesOf(a, b, c, d) ==
  {<<>>, <<a>>, <<a, b>>, <<a, b, c>>, <<a, b, c, d>>}

ForwardPrefixes ==
  PrefixesOf(PresetRules[2], PresetRules[3], PresetRules[4], PresetRules[7])

ChainPrefixes(c) ==
  IF c = "FORWARD" THEN {<<>>, <<PresetRules[1]>>}
  ELSE IF c = "POSTROUTING" THEN {<<>>, <<PresetRules[5]>>}
  ELSE IF c = "CICCNI-POSTROUTING" THEN {<<>>, <<PresetRules[6]>>}
  ELSE ForwardPrefixes

ChainsInOrder ==
  /\ DOMAIN chains \subseteq RuleChains
  /\ \A c \in DOMAIN chains : chains[c] \in ChainPrefixes(c)

\* The steps of the start that come after SetUpRules.
AfterRules == {"ports", "tunnel", "gateway", "link", "address", "base", "list",
               "flows", "serving"}

\* What its calls so far have ensured is there.
RulesThere ==
  \A i \in 1 .. 7 :
    /\ pc \in AfterRules \/ i <= ensured => PresetRules[i].chain \in DOMAIN chains
    /\ pc \in AfterRules \/ i + 7 <= ensured =>
         PresetRules[i] \in ToSet(chains[PresetRules[i].chain])

RuleInv ==
  /\ ChainsInOrder
  /\ RulesThere
  /\ ensured \in 0 .. 14
  /\ pc # "rules" => ensured = 0

-----------------------------------------------------------------------------
(* The switch's commands.                                                  *)

LEMMA BasicSet ==
  ToSet(BasicFlows) = {ArpNormal, ClassifierDefault, SNATDefault, ForwardDefault}
<1> DEFINE s == BasicFlows
<1>1. DOMAIN s = 1 .. 4
  BY DEF BasicFlows
<1>2. s[1] = ArpNormal /\ s[2] = ClassifierDefault /\ s[3] = SNATDefault /\ s[4] = ForwardDefault
  BY DEF BasicFlows
<1>3. 1 .. 4 = {1, 2, 3, 4}
  OBVIOUS
<1> QED
  BY <1>1, <1>2, <1>3 DEF ToSet

LEMMA DnsSet ==
  ASSUME NEW p
  PROVE  ToSet(DnsFlows(p)) = {DnsClassifier(p), DnsSNAT(p)}
<1> DEFINE s == DnsFlows(p)
<1>1. DOMAIN s = 1 .. 2
  BY DEF DnsFlows
<1>2. s[1] = DnsClassifier(p) /\ s[2] = DnsSNAT(p)
  BY DEF DnsFlows
<1>3. 1 .. 2 = {1, 2}
  OBVIOUS
<1> QED
  BY <1>1, <1>2, <1>3 DEF ToSet

\* Only the flow for ARP can take another's place.
LEMMA SameKeyIsSame ==
  ASSUME NEW f \in KnownFlows, NEW g \in KnownFlows, SameKey(f, g)
  PROVE  \/ f = g
         \/ /\ f \in ArpFlowSet /\ g \in ArpFlowSet
<1> USE DEF SameKey
<1>1. CASE f.table = Classifier /\ f.priority = Normal
  <2>1. PICK p \in Numbers : f = DnsClassifier(p)
    BY <1>1, ByPriority
  <2>2. PICK q \in Numbers : g = DnsClassifier(q)
    BY <1>1, ByPriority
  <2>3. f.match.in = {p} /\ g.match.in = {q}
    BY <2>1, <2>2, DnsFields
  <2> QED
    BY <2>1, <2>2, <2>3
<1>2. CASE f.table = CoreDnsSNAT /\ f.priority = Normal
  <2>1. PICK p \in Numbers : f = DnsSNAT(p)
    BY <1>2, ByPriority
  <2>2. PICK q \in Numbers : g = DnsSNAT(q)
    BY <1>2, ByPriority
  <2>3. f.match.in = {p} /\ g.match.in = {q}
    BY <2>1, <2>2, DnsFields
  <2> QED
    BY <2>1, <2>2, <2>3
<1>3. CASE f.table = ClusterForward /\ f.priority = Normal
  <2>1. f \in ToNodes /\ g \in ToNodes
    BY <1>3, ByPriority
  <2>2. ASSUME NEW h \in ToNodes, NEW i \in ToNodes, h.match = i.match, h \notin ArpFlowSet
        PROVE  h = i
    <3>1. h = LocalFlow \/ \E n \in Nodes : h = TunFlow(n)
      BY <2>2 DEF ToNodes, ArpFlowSet
    <3>2. h.match.kind = IPKinds
      BY <3>1, NodeFields
    <3>3. i \notin ArpFlowSet
      <4>1. ASSUME NEW k \in ArpKinds, NEW ns, i = ArpToNodes(k, ns)
            PROVE  FALSE
        <5>1. i.match.kind = {k}
          BY <4>1, NodeFields
        <5> QED
          BY <5>1, <3>2, <2>2 DEF IPKinds, ArpKinds
      <4> QED
        BY <4>1 DEF ArpFlowSet
    <3>4. i = LocalFlow \/ \E n \in Nodes : i = TunFlow(n)
      BY <2>2, <3>3 DEF ToNodes, ArpFlowSet
    <3>5. LocalFlow.match.dst = {"local"} /\ \A n : TunFlow(n).match.dst = {n}
      BY NodeFields
    <3> QED
      BY <3>1, <3>4, <3>5, <2>2, NamesAssumption
  <2> QED
    BY <2>1, <2>2
<1> QED
  BY <1>1, <1>2, <1>3, ByPriority

LEMMA AddSubset ==
  ASSUME NEW F, NEW fs
  PROVE  fs \subseteq AddFlows(F, fs) /\ AddFlows(F, fs) \subseteq F \cup fs
BY DEF AddFlows

LEMMA AddOnePerMatch ==
  ASSUME NEW F, NEW fs, OnePerMatch(F), OnePerMatch(fs)
  PROVE  OnePerMatch(AddFlows(F, fs))
BY DEF AddFlows, OnePerMatch, SameKey

\* What add-flow sends, and what was there before, is there after, but for the
\* flow for ARP.
LEMMA AddKeeps ==
  ASSUME NEW F \in SUBSET KnownFlows, NEW fs \in SUBSET KnownFlows,
         NEW f \in KnownFlows \ ArpFlowSet
  PROVE  f \in AddFlows(F, fs) <=> f \in F \cup fs
BY SameKeyIsSame DEF AddFlows, SameKey

\* The flows of one number go without another flow.
LEMMA DelKeeps ==
  ASSUME NEW F \in SUBSET KnownFlows, NEW p \in Numbers,
         NEW fs \in SUBSET {DnsClassifier(p), DnsSNAT(p)}
  PROVE  DelFlows(F, fs) = F \ fs
<1>1. ASSUME NEW g \in F, g \notin fs, NEW f \in fs,
             g.table = f.table, Within(g.match, f.match)
      PROVE  FALSE
  <2>1. f.match.in = {p} /\ (f.table = Classifier \/ f.table = CoreDnsSNAT)
    BY DnsFields
  <2>2. g.match.in \subseteq {p}
    BY <1>1, <2>1 DEF Within
  <2>3. g \in KnownFlows
    OBVIOUS
  <2>4. tunOFPort \in InPorts /\ tunOFPort # p
    BY NamesAssumption DEF InPorts
  <2>5. g # ClassifierDefault /\ g # SNATDefault
    BY <2>2, <2>4, BaseFields DEF AnyPacket
  <2>6. CASE f = DnsClassifier(p)
    <3>1. g.table = Classifier
      BY <1>1, <2>6, DnsFields
    <3>2. PICK q \in Numbers : g = DnsClassifier(q)
      BY <2>3, <2>5, <3>1, ByPriority
    <3>3. q = p
      BY <3>2, <2>2, DnsFields
    <3> QED
      BY <3>2, <3>3, <2>6, <1>1
  <2>7. CASE f = DnsSNAT(p)
    <3>1. g.table = CoreDnsSNAT
      BY <1>1, <2>7, DnsFields
    <3>2. PICK q \in Numbers : g = DnsSNAT(q)
      BY <2>3, <2>5, <3>1, ByPriority
    <3>3. q = p
      BY <3>2, <2>2, DnsFields
    <3> QED
      BY <3>2, <3>3, <2>7, <1>1
  <2> QED
    BY <2>6, <2>7
<1>2. ASSUME NEW g \in fs
      PROVE  g \notin DelFlows(F, fs)
  BY <1>2 DEF DelFlows, Within
<1> QED
  BY <1>1, <1>2 DEF DelFlows
LEMMA NotArp ==
  /\ Basics \cap ArpFlowSet = {}
  /\ LocalFlow \notin ArpFlowSet
  /\ \A n : TunFlow(n) \notin ArpFlowSet
  /\ \A p : DnsClassifier(p) \notin ArpFlowSet /\ DnsSNAT(p) \notin ArpFlowSet
<1>1. ASSUME NEW f \in ArpFlowSet
      PROVE  /\ f.table = ClusterForward /\ f.priority = Normal
             /\ \E k \in ArpKinds : f.match.kind = {k}
  BY NodeFields DEF ArpFlowSet
<1>2. \A f \in Basics : f.priority # Normal
  BY BaseFields DEF Basics, Normal, Low, Miss
<1>3. \A p : DnsClassifier(p).table # ClusterForward /\ DnsSNAT(p).table # ClusterForward
  BY DnsFields DEF Classifier, CoreDnsSNAT, ClusterForward
<1>4. \A k \in ArpKinds : {k} # IPKinds
  BY DEF ArpKinds, IPKinds
<1>5. LocalFlow.match.kind = IPKinds /\ \A n : TunFlow(n).match.kind = IPKinds
  BY NodeFields
<1>6. LocalFlow \notin ArpFlowSet
  BY <1>1, <1>4, <1>5
<1>7. ASSUME NEW n
      PROVE  TunFlow(n) \notin ArpFlowSet
  BY <1>1, <1>4, <1>5
<1> QED
  BY <1>1, <1>2, <1>3, <1>6, <1>7

\* A set of known flows with one flow for each kind of ARP, at most.
LEMMA KnownOnePerMatch ==
  ASSUME NEW fs \in SUBSET KnownFlows,
         \A f \in fs \cap ArpFlowSet, g \in fs \cap ArpFlowSet :
           f.match = g.match => f = g
  PROVE  OnePerMatch(fs)
<1> SUFFICES ASSUME NEW f \in fs, NEW g \in fs, SameKey(f, g)
             PROVE  f = g
  BY DEF OnePerMatch
<1>1. f.match = g.match
  BY DEF SameKey
<1> QED
  BY <1>1, SameKeyIsSame

LEMMA SentBasic ==
  ASSUME NEW k \in 0 .. Len(BasicFlows) - 1
  PROVE  Sent(BasicFlows, k) \in
           {{}, {ArpNormal}, {ArpNormal, ClassifierDefault},
            {ArpNormal, ClassifierDefault, SNATDefault}}
<1> DEFINE s == BasicFlows
<1>1. Len(s) = 4
  BY DEF BasicFlows
<1>2. s[1] = ArpNormal /\ s[2] = ClassifierDefault /\ s[3] = SNATDefault
  BY DEF BasicFlows
<1> HIDE DEF s
<1>3. Sent(s, k) = {s[i] : i \in 1 .. k}
  BY DEF Sent
<1>4. k = 0 \/ k = 1 \/ k = 2 \/ k = 3
  BY <1>1 DEF s
<1>5. CASE k = 0
  BY <1>3, <1>5 DEF s
<1>6. CASE k = 1
  <2>1. 1 .. k = {1}
    BY <1>6
  <2> QED
    BY SMTT(30), <1>2, <1>3, <2>1 DEF s
<1>7. CASE k = 2
  <2>1. 1 .. k = {1, 2}
    BY <1>7
  <2>2. Sent(s, k) = {s[1], s[2]}
    BY <1>3, <2>1
  <2> QED
    BY <1>2, <2>2 DEF s
<1>8. CASE k = 3
  <2>1. 1 .. k = {1, 2, 3}
    BY <1>8
  <2>2. Sent(s, k) = {s[1], s[2], s[3]}
    BY <1>3, <2>1
  <2> QED
    BY <1>2, <2>2 DEF s
<1> QED
  BY <1>4, <1>5, <1>6, <1>7, <1>8

LEMMA SentDns ==
  ASSUME NEW n, NEW k \in 1 .. 2
  PROVE  Sent(DnsFlows(n), k) \subseteq {DnsClassifier(n), DnsSNAT(n)}
<1>1. DnsFlows(n)[1] = DnsClassifier(n) /\ DnsFlows(n)[2] = DnsSNAT(n)
  BY DEF DnsFlows
<1>2. \A i \in 1 .. k : i = 1 \/ i = 2
  OBVIOUS
<1> QED
  BY <1>1, <1>2 DEF Sent

LEMMA SentArp ==
  ASSUME NEW k \in 0 .. Len(ArpFlows)
  PROVE  /\ known = {} => Sent(ArpFlows, k) = {}
         /\ known # {} => Sent(ArpFlows, k) \in
              {{}, {ArpToNodes("arpRequest", known)},
               {ArpToNodes("arpRequest", known), ArpToNodes("arpReply", known)}}
         /\ k = Len(ArpFlows) /\ known # {} =>
              ArpToNodes("arpRequest", known) \in Sent(ArpFlows, k)
<1> DEFINE a == ArpToNodes("arpRequest", known)
           b == ArpToNodes("arpReply", known)
           s == <<a, b>>
<1>1. CASE known = {}
  <2>1. ArpFlows = <<>>
    BY <1>1 DEF ArpFlows
  <2>2. k = 0
    BY <2>1
  <2> QED
    BY <1>1, <2>2 DEF Sent
<1>2. CASE known # {}
  <2>1. ArpFlows = s
    BY <1>2 DEF ArpFlows
  <2>2. Len(s) = 2 /\ s[1] = a /\ s[2] = b
    OBVIOUS
  <2> HIDE DEF s, a, b
  <2>3. Sent(s, k) = {s[i] : i \in 1 .. k}
    BY DEF Sent
  <2>4. k = 0 \/ k = 1 \/ k = 2
    BY <2>1, <2>2
  <2>5. CASE k = 0
    <3>1. Sent(s, k) = {}
      BY <2>3, <2>5
    <3> QED
      BY <1>2, <2>1, <2>2, <2>5, <3>1 DEF a, b
  <2>6. CASE k = 1
    <3>1. 1 .. k = {1}
      BY <2>6
    <3>2. Sent(s, k) = {a}
      BY <2>2, <2>3, <3>1
    <3> QED
      BY <1>2, <2>1, <2>2, <2>6, <3>2 DEF a, b
  <2>7. CASE k = 2
    <3>1. 1 .. k = {1, 2}
      BY <2>7
    <3>2. Sent(s, k) = {s[1], s[2]}
      BY <2>3, <3>1
    <3> QED
      BY <1>2, <2>1, <2>2, <2>7, <3>2 DEF a, b
  <2> QED
    BY <2>4, <2>5, <2>6, <2>7
<1> QED
  BY <1>1, <1>2
-----------------------------------------------------------------------------
(* The agent's own variables.                                              *)

AgentTypes ==
  /\ pc \in Agent!Steps \cup {"down", "serving"}
  /\ cache \subseteq Pods \cup {Tun, Gw}
  /\ known \subseteq Nodes
  /\ calls \in [Pods -> {"none", "add", "del"}]
  /\ bridge \in BOOLEAN
  /\ ports \subseteq Pods \cup {Tun, Gw}
  /\ gwAddr \in BOOLEAN
  /\ nodes \subseteq Nodes
  /\ faults \in 0 .. MaxFaults
  /\ ofport \in [Pods -> Numbers \cup {0}]

LEMMA AgentTypesInit == Init => AgentTypes
<1>1. 0 \in 0 .. MaxFaults
  BY AgentAssumption
<1>2. Agent!Init => nodes \subseteq Nodes
  BY DEF Agent!Init
<1> QED
  BY <1>1, <1>2, Zenon DEF Init, NoPorts, Agent!Init, Agent!NoCalls, AgentTypes

LEMMA AgentTypesStep == AgentTypes /\ [Next]_vars => AgentTypes'
<1> SUFFICES ASSUME AgentTypes, [Next]_vars
             PROVE  AgentTypes'
  OBVIOUS
<1> USE DEF AgentTypes, Agent!Steps, Agent!memory, agentVars
<1>0. faults < MaxFaults => faults + 1 \in 0 .. MaxFaults
  BY AgentAssumption
<1>1. CASE HostStep
  <2>0. ofport' = ofport
    BY <1>1 DEF HostStep
  <2>1. CASE Agent!Start \/ Agent!CreateBridge \/ Agent!LoadNode
    BY <2>0, <2>1 DEF Agent!Start, Agent!CreateBridge, Agent!LoadNode, Agent!Goto
  <2>2. CASE Agent!InitCache
    BY <2>0, <2>2 DEF Agent!InitCache, Agent!Goto, Agent!Tun, Tun
  <2>3. CASE Agent!SetUpTunnel \/ Agent!SetUpGateway
    BY <2>0, <2>3 DEF Agent!SetUpTunnel, Agent!SetUpGateway, Agent!Goto, Agent!Tun,
                Agent!Gw, Tun, Gw
  <2>4. CASE Agent!WaitLink \/ Agent!SetAddress
    BY <2>0, <2>4 DEF Agent!WaitLink, Agent!SetAddress, Agent!Goto
  <2>5. CASE Agent!ListNodes
    BY <2>0, <2>5 DEF Agent!ListNodes, Agent!Goto
  <2>6. CASE Agent!Fail
    <3>1. ASSUME NEW s, NEW f, Agent!Fails(s, f)
          PROVE  AgentTypes'
      BY <2>0, <3>1, <1>0 DEF Agent!Fails, Agent!Exit, Agent!NoCalls, Agent!Fault
    <3>2. CASE Agent!WaitLinkFails \/ Agent!GatewayRefused
      BY <2>0, <3>2, <1>0 DEF Agent!WaitLinkFails, Agent!GatewayRefused, Agent!Exit, Agent!NoCalls, Agent!Fault
    <3>3. CASE Agent!InstallBaseFails
      BY <2>0, <3>3, <1>0 DEF Agent!InstallBaseFails, Agent!Exit, Agent!NoCalls, Agent!Fault
    <3> QED
      BY <2>6, <3>1, <3>2, <3>3 DEF Agent!Fail
  <2>7. CASE Agent!Crash
    BY <2>0, <2>7, <1>0 DEF Agent!Crash, Agent!Exit, Agent!NoCalls, Agent!Fault
  <2>8. ASSUME NEW n \in Nodes, Agent!NodeChange(n)
        PROVE  AgentTypes'
    BY <2>0, <2>8 DEF Agent!NodeChange
  <2> QED
    BY <1>1, <2>1, <2>2, <2>3, <2>4, <2>5, <2>6, <2>7, <2>8 DEF HostStep
<1>2. CASE EnsureNext
  BY <1>2 DEF EnsureNext
<1>3. CASE RulesDone
  BY <1>3 DEF RulesDone, Agent!SetUpRules, Agent!Goto
<1>4. CASE InstallBase
  BY <1>4 DEF InstallBase, Agent!Goto
<1>5. CASE InstallBaseFails
  BY <1>5, <1>0 DEF InstallBaseFails, Agent!Exit, Agent!NoCalls, Agent!Fault
<1>6. CASE InstallNodes
  BY <1>6 DEF InstallNodes, Agent!Goto
<1>7. ASSUME NEW p \in Pods, PlugPod(p)
      PROVE  AgentTypes'
  <2>1. PICK n \in Numbers : ofport' = [ofport EXCEPT ![p] = n]
    BY <1>7 DEF PlugPod
  <2> QED
    BY <1>7, <2>1 DEF PlugPod, Agent!PlugPod, Agent!Call
<1>8. ASSUME NEW p \in Pods, InstallDns(p) \/ PlugDone(p) \/ PlugFails(p)
      PROVE  AgentTypes'
  <2>1. CASE InstallDns(p)
    BY <2>1 DEF InstallDns
  <2>2. CASE PlugDone(p)
    BY <2>2 DEF PlugDone, Agent!PlugDone, Agent!Call
  <2>3. CASE PlugFails(p)
    BY <2>3 DEF PlugFails, Agent!Call
  <2> QED
    BY <1>8, <2>1, <2>2, <2>3
<1>9. ASSUME NEW p \in Pods, UnplugPod(p) \/ UnplugDone(p)
      PROVE  AgentTypes'
  BY <1>9 DEF UnplugPod, UnplugDone, Agent!UnplugPod, Agent!UnplugDone, Agent!Call
<1>10. CASE DeleteBridge
  BY <1>10, Zenon DEF DeleteBridge, NoPorts, Agent!DeleteBridge
<1>11. CASE UNCHANGED vars
  BY <1>11 DEF vars
<1> QED
  BY <1>1, <1>2, <1>3, <1>4, <1>5, <1>6, <1>7, <1>8, <1>9, <1>10, <1>11 DEF Next
-----------------------------------------------------------------------------
(* The numbers of the ports.                                               *)

LEMMA NumberInit == Init => NumberInv
<1> SUFFICES ASSUME Init
             PROVE  NumberInv
  OBVIOUS
<1>1. cache = {} /\ calls = [p \in Pods |-> "none"]
  BY Zenon DEF Init, Agent!Init, Agent!NoCalls
<1>2. \A p \in Pods : ofport[p] = 0
  BY DEF Init, NoPorts
<1> QED
  BY <1>1, <1>2 DEF NumberInv

LEMMA NumberStep == AgentTypes /\ NumberInv /\ [Next]_vars => NumberInv'
<1> SUFFICES ASSUME AgentTypes, NumberInv, [Next]_vars
             PROVE  NumberInv'
  OBVIOUS
<1> USE DEF NumberInv
<1>0. Tun \notin Pods /\ Gw \notin Pods /\ 0 \notin Numbers
  BY PodsAssumption, NamesAssumption
\* Steps that leave the numbers and the pods' part of the cache.
<1>1. ASSUME ofport' = ofport, calls' = calls, ports \subseteq ports',
             cache' \cap Pods \subseteq cache, pc' # "down"
      PROVE  NumberInv'
  BY <1>1
<1>2. ASSUME ofport' = ofport, Agent!Exit
      PROVE  NumberInv'
  BY <1>2 DEF Agent!Exit, Agent!NoCalls
<1>3. CASE HostStep
  <2>1. ofport' = ofport
    BY <1>3 DEF HostStep
  <2>2. CASE \/ Agent!Start \/ Agent!CreateBridge \/ Agent!LoadNode
             \/ Agent!InitCache \/ Agent!SetUpTunnel \/ Agent!SetUpGateway
             \/ Agent!WaitLink \/ Agent!SetAddress \/ Agent!ListNodes
    BY <1>0, <1>1, <2>1, <2>2 DEF Agent!Start, Agent!CreateBridge, Agent!LoadNode,
       Agent!InitCache, Agent!SetUpTunnel, Agent!SetUpGateway, Agent!WaitLink,
       Agent!SetAddress, Agent!ListNodes, Agent!Goto, Agent!memory, Agent!Tun,
       Agent!Gw, Tun, Gw
  <2>3. CASE Agent!Fail \/ Agent!Crash
    BY <1>2, <2>1, <2>3 DEF Agent!Fail, Agent!Crash, Agent!Fails, Agent!WaitLinkFails,
       Agent!InstallBaseFails, Agent!GatewayRefused
  <2>4. ASSUME NEW n \in Nodes, Agent!NodeChange(n)
        PROVE  NumberInv'
    BY <2>1, <2>4 DEF Agent!NodeChange, Agent!memory
  <2> QED
    BY <1>3, <2>2, <2>3, <2>4 DEF HostStep
<1>4. CASE EnsureNext \/ RulesDone \/ InstallBase \/ InstallNodes
  BY <1>1, <1>4 DEF EnsureNext, RulesDone, InstallBase, InstallNodes, agentVars,
     Agent!SetUpRules, Agent!Goto, Agent!memory
<1>5. CASE InstallBaseFails
  BY <1>2, <1>5 DEF InstallBaseFails
<1>6. ASSUME NEW p \in Pods, PlugPod(p)
      PROVE  NumberInv'
  <2>1. PICK n \in Numbers \ {ofport[q] : q \in Pods} : ofport' = [ofport EXCEPT ![p] = n]
    BY <1>6 DEF PlugPod
  <2>2. /\ \A q \in Pods \ {p} : ofport'[q] = ofport[q] /\ ofport[q] # n
        /\ ofport'[p] = n /\ n # 0
    BY <2>1, <1>0 DEF AgentTypes
  <2>3. /\ \A q \in Pods \ {p} : calls'[q] = calls[q]
        /\ calls[p] = "none" /\ calls'[p] = "add" /\ cache' = cache
        /\ p \notin ports /\ ports' = ports \cup {p} /\ pc' = "serving"
    BY <1>6 DEF PlugPod, Agent!PlugPod, Agent!Call, AgentTypes
  <2>4. p \notin cache
    BY <2>3
  <2>5. \A q, r \in Pods : ofport'[q] = ofport'[r] /\ ofport'[q] # 0 => q = r
    BY <2>2
  <2> QED
    BY <2>2, <2>3, <2>4, <2>5
<1>7. ASSUME NEW p \in Pods, InstallDns(p)
      PROVE  NumberInv'
  BY <1>7 DEF InstallDns, agentVars
<1>8. ASSUME NEW p \in Pods, PlugDone(p)
      PROVE  NumberInv'
  BY <1>8 DEF PlugDone, Agent!PlugDone, Agent!Call, AgentTypes
<1>9. ASSUME NEW p \in Pods, PlugFails(p)
      PROVE  NumberInv'
  <2>1. /\ \A q \in Pods \ {p} : calls'[q] = calls[q]
        /\ calls[p] = "add" /\ calls'[p] = "none" /\ cache' = cache /\ pc' = "serving"
        /\ \A q \in Pods \ {p} : ofport'[q] = ofport[q] /\ (q \in ports' <=> q \in ports)
        /\ ofport'[p] \in {ofport[p], 0}
    BY <1>9 DEF PlugFails, Agent!Call, AgentTypes
  <2>2. \A q, r \in Pods : ofport'[q] = ofport'[r] /\ ofport'[q] # 0 => q = r
    BY <2>1
  <2> QED
    BY <2>1, <2>2
<1>10. ASSUME NEW p \in Pods, UnplugPod(p)
       PROVE  NumberInv'
  <2>1. /\ \A q \in Pods \ {p} : calls'[q] = calls[q]
        /\ calls[p] = "none" /\ calls'[p] = "del" /\ cache' = cache /\ pc' = "serving"
        /\ \A q \in Pods \ {p} : ofport'[q] = ofport[q] /\ (q \in ports' <=> q \in ports)
        /\ ofport'[p] = 0
    BY <1>10 DEF UnplugPod, Agent!UnplugPod, Agent!Call, AgentTypes
  <2>2. \A q, r \in Pods : ofport'[q] = ofport'[r] /\ ofport'[q] # 0 => q = r
    BY <2>1
  <2> QED
    BY <2>1, <2>2
<1>11. ASSUME NEW p \in Pods, UnplugDone(p)
       PROVE  NumberInv'
  BY <1>11 DEF UnplugDone, Agent!UnplugDone, Agent!Call, AgentTypes
<1>12. CASE DeleteBridge
  <2>1. pc' = pc /\ pc = "down" /\ cache' = cache /\ calls' = calls
    BY <1>12, Zenon DEF DeleteBridge, Agent!DeleteBridge, Agent!memory
  <2>2. \A p \in Pods : ofport'[p] = 0
    BY <1>12 DEF DeleteBridge, NoPorts
  <2> QED
    BY <2>1, <2>2
<1>13. CASE UNCHANGED vars
  BY <1>13 DEF vars, agentVars
<1> QED
  BY <1>3, <1>4, <1>5, <1>6, <1>7, <1>8, <1>9, <1>10, <1>11, <1>12, <1>13 DEF Next
-----------------------------------------------------------------------------
(* The flows there can be.                                                 *)

LEMMA FlowInit == Init => FlowInv
<1> SUFFICES ASSUME Init
             PROVE  FlowInv
  OBVIOUS
<1>1. flows = {}
  BY DEF Init
<1>2. pc = "down" /\ cache = {}
  BY Zenon DEF Init, Agent!Init
<1>3. FlowsKnown /\ OnePerMatch(flows) /\ BasicInOrder
  BY <1>1 DEF FlowsKnown, OnePerMatch, BasicInOrder
<1>4. BasicThere /\ DnsThere
  BY <1>2 DEF BasicThere, DnsThere
<1> QED
  BY <1>3, <1>4 DEF FlowInv

\* After an add-flow of known flows: what it can disturb is the order of the
\* basic flows and nothing else.
LEMMA FlowAdd ==
  ASSUME FlowInv, NEW fs \in SUBSET KnownFlows,
         \A f \in fs \cap ArpFlowSet, g \in fs \cap ArpFlowSet :
           f.match = g.match => f = g,
         flows' = AddFlows(flows, fs)
  PROVE  /\ FlowsKnown' /\ OnePerMatch(flows)'
         /\ \A f \in KnownFlows \ ArpFlowSet : f \in flows' <=> f \in flows \cup fs
<1>1. flows \in SUBSET KnownFlows
  BY DEF FlowInv, FlowsKnown
<1>2. FlowsKnown'
  BY <1>1, AddSubset DEF FlowsKnown
<1>3. OnePerMatch(fs)
  BY KnownOnePerMatch
<1>4. OnePerMatch(flows')
  BY <1>3, AddOnePerMatch DEF FlowInv
<1> QED
  BY <1>1, <1>2, <1>4, AddKeeps

LEMMA KnownParts ==
  /\ Basics \subseteq KnownFlows \ ArpFlowSet
  /\ LocalFlow \in KnownFlows \ ArpFlowSet
  /\ \A n \in Nodes : TunFlow(n) \in KnownFlows \ ArpFlowSet
  /\ \A p \in Numbers : DnsClassifier(p) \in KnownFlows \ ArpFlowSet
                     /\ DnsSNAT(p) \in KnownFlows \ ArpFlowSet
  /\ ArpFlowSet \subseteq KnownFlows
<1>1. Basics \subseteq KnownFlows /\ LocalFlow \in KnownFlows /\ ArpFlowSet \subseteq KnownFlows
  BY DEF KnownFlows, ToNodes, Basics, ArpFlowSet
<1>2. \A n \in Nodes : TunFlow(n) \in KnownFlows
  BY DEF KnownFlows, ToNodes
<1>3. \A p \in Numbers : DnsClassifier(p) \in KnownFlows /\ DnsSNAT(p) \in KnownFlows
  BY DEF KnownFlows
<1> QED
  BY <1>1, <1>2, <1>3, NotArp

LEMMA ArpIsFlow ==
  ASSUME NEW k \in ArpKinds, NEW ns \in (SUBSET Nodes) \ {{}}
  PROVE  ArpToNodes(k, ns) \in ArpFlowSet /\ ArpToNodes(k, ns) \in ToNodes
BY DEF ToNodes, ArpFlowSet

\* The sets that are sent.
LEMMA NodeFlowsSent ==
  ASSUME AgentTypes, NEW k \in 0 .. Len(ArpFlows), NEW fs \in SUBSET SubnetFlows
  PROVE  LET sent == Sent(ArpFlows, k) \cup fs
         IN  /\ sent \subseteq KnownFlows
             /\ \A f \in sent \cap ArpFlowSet, g \in sent \cap ArpFlowSet :
                  f.match = g.match => f = g
<1>1. fs \subseteq KnownFlows \ ArpFlowSet
  BY KnownParts DEF SubnetFlows, TunFlows, AgentTypes
<1>2. CASE known = {}
  BY <1>1, <1>2, SentArp
<1>3. CASE known # {}
  <2> DEFINE a == ArpToNodes("arpRequest", known)
             b == ArpToNodes("arpReply", known)
  <2>1. Sent(ArpFlows, k) \subseteq {a, b}
    BY <1>3, SentArp
  <2>2. a \in ArpFlowSet /\ b \in ArpFlowSet
    <3>1. known \in (SUBSET Nodes) \ {{}}
      BY <1>3 DEF AgentTypes
    <3>2. "arpRequest" \in ArpKinds /\ "arpReply" \in ArpKinds
      BY DEF ArpKinds
    <3> QED
      BY <3>1, <3>2, ArpIsFlow
  <2>3. a.match.kind = {"arpRequest"} /\ b.match.kind = {"arpReply"}
    BY NodeFields
  <2>4. a.match # b.match
    BY <2>3
  <2> HIDE DEF a, b
  <2> QED
    BY <1>1, <2>1, <2>2, <2>4, KnownParts
<1> QED
  BY <1>2, <1>3
LEMMA BasicsDistinct ==
  /\ ArpNormal \notin {ClassifierDefault, SNATDefault, ForwardDefault}
  /\ ClassifierDefault \notin {SNATDefault, ForwardDefault}
  /\ SNATDefault # ForwardDefault
BY BaseFields DEF Classifier, CoreDnsSNAT, ClusterForward, Low, Miss

LEMMA BasicsNotToNodes == Basics \cap ToNodes = {}
<1>1. \A f \in ToNodes : f.priority = Normal
  BY NodeFields DEF ToNodes, ArpFlowSet
<1>2. \A f \in Basics : f.priority # Normal
  BY BaseFields DEF Basics, Normal, Low, Miss
<1> QED
  BY <1>1, <1>2

LEMMA NodeFlowsToNodes ==
  ASSUME AgentTypes, NEW k \in 0 .. Len(ArpFlows), NEW fs \in SUBSET SubnetFlows
  PROVE  Sent(ArpFlows, k) \cup fs \subseteq ToNodes
<1>1. fs \subseteq ToNodes
  BY DEF SubnetFlows, TunFlows, AgentTypes, ToNodes
<1>2. CASE known = {}
  BY <1>1, <1>2, SentArp
<1>3. CASE known # {}
  <2> DEFINE a == ArpToNodes("arpRequest", known)
             b == ArpToNodes("arpReply", known)
  <2>1. Sent(ArpFlows, k) \subseteq {a, b}
    BY <1>3, SentArp
  <2>2. known \in (SUBSET Nodes) \ {{}}
    BY <1>3 DEF AgentTypes
  <2>3. "arpRequest" \in ArpKinds /\ "arpReply" \in ArpKinds
    BY DEF ArpKinds
  <2>4. a \in ToNodes /\ b \in ToNodes
    BY <2>2, <2>3, ArpIsFlow
  <2> QED
    BY <1>1, <2>1, <2>4
<1> QED
  BY <1>2, <1>3

\* The flows of different numbers are different flows.
LEMMA DnsDistinct ==
  ASSUME NEW p, NEW q, p # q
  PROVE  {DnsClassifier(q), DnsSNAT(q)} \cap {DnsClassifier(p), DnsSNAT(p)} = {}
<1>1. \A x \in {DnsClassifier(p), DnsSNAT(p)} : x.match.in = {p}
  BY DnsFields
<1>2. \A x \in {DnsClassifier(q), DnsSNAT(q)} : x.match.in = {q}
  BY DnsFields
<1> QED
  BY <1>1, <1>2

LEMMA DnsAdded ==
  ASSUME NEW p \in Numbers, NEW fs \in SUBSET {DnsClassifier(p), DnsSNAT(p)}
  PROVE  /\ fs \subseteq KnownFlows
         /\ fs \cap Basics = {}
         /\ fs \cap ArpFlowSet = {}
<1>1. \A f \in fs : f.match.in = {p}
  BY DnsFields
<1>2. \A f \in Basics : f.match.in = InPorts
  BY BaseFields DEF Basics, AnyPacket
<1>3. InPorts # {p}
  BY DEF InPorts, tunOFPort, hostGatewayOFPort
<1> QED
  BY <1>1, <1>2, <1>3, KnownParts

\* As FlowAdd, of a set of flows that is not the next state's.
LEMMA FlowAddState ==
  ASSUME FlowInv, NEW fs \in SUBSET KnownFlows, fs \cap ArpFlowSet = {}
  PROVE  /\ AddFlows(flows, fs) \subseteq KnownFlows
         /\ OnePerMatch(AddFlows(flows, fs))
         /\ \A f \in KnownFlows \ ArpFlowSet :
              f \in AddFlows(flows, fs) <=> f \in flows \cup fs
<1>1. flows \in SUBSET KnownFlows
  BY DEF FlowInv, FlowsKnown
<1>2. AddFlows(flows, fs) \subseteq KnownFlows
  BY <1>1, AddSubset
<1>3. OnePerMatch(fs)
  BY KnownOnePerMatch
<1>4. OnePerMatch(AddFlows(flows, fs))
  BY <1>3, AddOnePerMatch DEF FlowInv
<1> QED
  BY <1>1, <1>2, <1>4, AddKeeps

\* A step after which no CoreDNS pod is attached that was not, by its number.
SameDns ==
  \A p \in cache' \cap DnsPods :
    ofport'[p] # 0 => p \in cache /\ ofport'[p] = ofport[p]

LEMMA FlowStep == AgentTypes /\ NumberInv /\ FlowInv /\ [Next]_vars => FlowInv'
<1> SUFFICES ASSUME AgentTypes, NumberInv, FlowInv, [Next]_vars
             PROVE  FlowInv'
  OBVIOUS
<1> USE DEF FlowInv
<1>00. DnsPods \subseteq Pods /\ Tun \notin Pods /\ Gw \notin Pods /\ 0 \notin Numbers
  BY PodsAssumption, NamesAssumption
\* Steps that leave the flows.
<1>0. ASSUME flows' = flows,
             pc' \in {"list", "flows", "serving"} => pc \in {"list", "flows", "serving"},
             SameDns
      PROVE  FlowInv'
  <2>1. DnsThere'
    BY <1>0 DEF DnsThere, SameDns
  <2> QED
    BY <1>0, <2>1 DEF FlowsKnown, OnePerMatch, BasicInOrder, BasicThere
<1>1. CASE HostStep
  <2>1. flows' = flows /\ ofport' = ofport
    BY <1>1 DEF HostStep
  <2>2. CASE \/ Agent!Start \/ Agent!CreateBridge \/ Agent!LoadNode
             \/ Agent!InitCache \/ Agent!WaitLink \/ Agent!SetAddress \/ Agent!ListNodes
             \/ Agent!SetUpTunnel \/ Agent!SetUpGateway
    <3>1. cache' \subseteq cache \cup {Tun, Gw}
      BY <2>2 DEF Agent!Start, Agent!CreateBridge, Agent!LoadNode, Agent!InitCache,
         Agent!WaitLink, Agent!SetAddress, Agent!ListNodes, Agent!SetUpTunnel,
         Agent!SetUpGateway, Agent!Goto, Agent!memory, Agent!Tun, Agent!Gw, Tun, Gw
    <3>2. pc' \in {"list", "flows", "serving"} => pc \in {"list", "flows", "serving"}
      BY <2>2 DEF Agent!Start, Agent!CreateBridge, Agent!LoadNode, Agent!InitCache,
         Agent!WaitLink, Agent!SetAddress, Agent!ListNodes, Agent!SetUpTunnel,
         Agent!SetUpGateway, Agent!Goto
    <3>3. SameDns
      BY <1>00, <2>1, <3>1 DEF SameDns
    <3> QED
      BY <1>0, <2>1, <3>2, <3>3
  <2>4. CASE Agent!Fail \/ Agent!Crash
    <3>1. pc' = "down" /\ cache' = {}
      BY <2>4 DEF Agent!Fail, Agent!Crash, Agent!Fails, Agent!WaitLinkFails,
         Agent!InstallBaseFails, Agent!GatewayRefused, Agent!Exit
    <3> QED
      BY <1>0, <2>1, <3>1 DEF SameDns
  <2>5. ASSUME NEW n \in Nodes, Agent!NodeChange(n)
        PROVE  FlowInv'
    BY <1>0, <2>1, <2>5 DEF Agent!NodeChange, Agent!memory, SameDns
  <2> QED
    BY <1>1, <2>2, <2>4, <2>5 DEF HostStep
<1>2. CASE EnsureNext
  BY <1>2, <1>0 DEF EnsureNext, agentVars, SameDns
<1>3. CASE RulesDone
  BY <1>3, <1>0 DEF RulesDone, Agent!SetUpRules, Agent!Goto, Agent!memory, SameDns
<1>4. CASE InstallBase
  <2>1. ToSet(BasicFlows) = Basics
    BY BasicSet DEF Basics
  <2>2. flows' = AddFlows(flows, Basics) /\ cache' = cache /\ ofport' = ofport
    BY <1>4, <2>1 DEF InstallBase
  <2>3. /\ FlowsKnown' /\ OnePerMatch(flows)'
        /\ \A f \in KnownFlows \ ArpFlowSet : f \in flows' <=> f \in flows \cup Basics
    BY <2>2, FlowAdd, KnownParts
  <2>4. Basics \subseteq flows'
    BY <2>3, KnownParts
  <2>5. BasicInOrder' /\ BasicThere'
    BY <2>1, <2>4 DEF BasicInOrder, BasicThere, Basics
  <2>6. DnsThere'
    <3> SUFFICES ASSUME NEW p \in cache' \cap DnsPods, ofport'[p] # 0
                 PROVE  ToSet(DnsFlows(ofport'[p])) \subseteq flows'
      BY DEF DnsThere
    <3>1. ofport[p] \in Numbers /\ {DnsClassifier(ofport[p]), DnsSNAT(ofport[p])} \subseteq flows
      BY <1>00, <2>2, DnsSet DEF DnsThere, AgentTypes
    <3>2. {DnsClassifier(ofport[p]), DnsSNAT(ofport[p])} \subseteq flows'
      BY <2>3, <3>1, KnownParts
    <3> QED
      BY <2>2, <3>2, DnsSet
  <2> QED
    BY <2>3, <2>5, <2>6
<1>5. CASE InstallBaseFails
  <2>1. PICK k \in 0 .. Len(BasicFlows) - 1 :
          flows' = AddFlows(flows, Sent(BasicFlows, k))
    BY <1>5 DEF InstallBaseFails
  <2> DEFINE fs == Sent(BasicFlows, k)
  <2>2. fs \in {{}, {ArpNormal}, {ArpNormal, ClassifierDefault},
                {ArpNormal, ClassifierDefault, SNATDefault}}
    BY SentBasic
  <2>3. cache' = {} /\ pc' = "down"
    BY <1>5 DEF InstallBaseFails, Agent!Exit
  <2>4. fs \subseteq Basics
    BY <2>2 DEF Basics
  <2> HIDE DEF fs
  <2>5. /\ FlowsKnown' /\ OnePerMatch(flows)'
        /\ \A f \in KnownFlows \ ArpFlowSet : f \in flows' <=> f \in flows \cup fs
    <3>1. fs \in SUBSET KnownFlows /\ fs \cap ArpFlowSet = {}
      BY <2>4, KnownParts
    <3>2. flows' = AddFlows(flows, fs)
      BY <2>1 DEF fs
    <3> QED
      BY <3>1, <3>2, FlowAdd
  <2>6. \A f \in Basics : f \in flows' <=> f \in flows \cup fs
    BY <2>5, KnownParts
  <2>7. BasicInOrder'
    BY <2>2, <2>6, BasicsDistinct DEF BasicInOrder, Basics
  <2>8. BasicThere'
    BY <2>3 DEF BasicThere
  <2>9. DnsThere'
    BY <2>3 DEF DnsThere
  <2> QED
    BY <2>5, <2>7, <2>8, <2>9
\* A step that adds none of the basic flows.
<1> DEFINE Added(fs) == /\ fs \subseteq KnownFlows
                        /\ fs \cap Basics = {}
                        /\ \A f \in fs \cap ArpFlowSet, g \in fs \cap ArpFlowSet :
                             f.match = g.match => f = g
<1>6. ASSUME NEW fs, Added(fs), flows' = AddFlows(flows, fs),
             pc' \in {"list", "flows", "serving"} => pc \in {"list", "flows", "serving"},
             SameDns
      PROVE  FlowInv'
  <2>1. /\ FlowsKnown' /\ OnePerMatch(flows)'
        /\ \A f \in KnownFlows \ ArpFlowSet : f \in flows' <=> f \in flows \cup fs
    BY <1>6, FlowAdd
  <2>2. \A f \in Basics : f \in flows' <=> f \in flows
    BY <1>6, <2>1, KnownParts
  <2>3. BasicInOrder' /\ BasicThere'
    BY <1>6, <2>2, BasicSet DEF BasicInOrder, BasicThere, Basics
  <2>4. DnsThere'
    <3> SUFFICES ASSUME NEW p \in cache' \cap DnsPods, ofport'[p] # 0
                 PROVE  ToSet(DnsFlows(ofport'[p])) \subseteq flows'
      BY DEF DnsThere
    <3> DEFINE n == ofport[p]
    <3>1. p \in cache /\ ofport'[p] = n /\ n \in Numbers
      BY <1>6, <1>00 DEF SameDns, AgentTypes
    <3>2. {DnsClassifier(n), DnsSNAT(n)} \subseteq flows
      BY <1>6, <3>1, DnsSet DEF DnsThere
    <3> HIDE DEF n
    <3>3. {DnsClassifier(n), DnsSNAT(n)} \subseteq flows'
      BY <2>1, <3>1, <3>2, KnownParts
    <3> QED
      BY <3>1, <3>3, DnsSet
  <2> QED
    BY <2>1, <2>3, <2>4
<1>7. CASE InstallNodes
  <2>1. PICK k \in 0 .. Len(ArpFlows), fs \in SUBSET SubnetFlows :
          flows' = AddFlows(flows, Sent(ArpFlows, k) \cup fs)
    BY <1>7 DEF InstallNodes
  <2>2. pc = "flows" /\ SameDns
    BY <1>7 DEF InstallNodes, SameDns
  <2> DEFINE sent == Sent(ArpFlows, k) \cup fs
  <2>3. /\ sent \subseteq KnownFlows
        /\ \A f \in sent \cap ArpFlowSet, g \in sent \cap ArpFlowSet :
             f.match = g.match => f = g
    BY NodeFlowsSent
  <2>4. sent \subseteq ToNodes
    BY NodeFlowsToNodes
  <2>5. flows' = AddFlows(flows, sent)
    BY <2>1
  <2> HIDE DEF sent
  <2>6. sent \cap Basics = {}
    BY <2>4, BasicsNotToNodes
  <2> QED
    BY <2>2, <2>3, <2>5, <2>6, <1>6
\* The new port has a number, but it is not cached: only PlugDone does that.
<1>8. ASSUME NEW p \in Pods, PlugPod(p) \/ UnplugPod(p) \/ UnplugDone(p)
      PROVE  FlowInv'
  <2>1. flows' = flows /\ pc' = pc
    BY <1>8 DEF PlugPod, UnplugPod, UnplugDone, Agent!PlugPod, Agent!UnplugPod,
                Agent!UnplugDone, Agent!Call
  <2>2. CASE PlugPod(p)
    <3>1. p \notin ports /\ calls[p] = "none" /\ cache' = cache
      BY <2>2 DEF PlugPod, Agent!PlugPod, Agent!Call
    <3>2. p \notin cache
      BY <3>1 DEF NumberInv
    <3>3. \A q \in Pods \ {p} : ofport'[q] = ofport[q]
      BY <2>2 DEF PlugPod, AgentTypes
    <3>4. SameDns
      BY <1>00, <3>1, <3>2, <3>3 DEF SameDns
    <3> QED
      BY <1>0, <2>1, <3>4
  <2>3. CASE UnplugPod(p)
    <3>1. SameDns
      BY <1>00, <2>3 DEF SameDns, UnplugPod, Agent!UnplugPod, AgentTypes
    <3> QED
      BY <1>0, <2>1, <3>1
  <2>4. CASE UnplugDone(p)
    <3>1. SameDns
      BY <2>4 DEF SameDns, UnplugDone, Agent!UnplugDone
    <3> QED
      BY <1>0, <2>1, <3>1
  <2> QED
    BY <1>8, <2>2, <2>3, <2>4
<1>9. ASSUME NEW p \in Pods, InstallDns(p)
      PROVE  FlowInv'
  <2> DEFINE n == ofport[p]
  <2>1. n \in Numbers
    BY <1>9 DEF InstallDns, NumberInv, AgentTypes
  <2>2. PICK k \in 1 .. 2 : flows' = AddFlows(flows, Sent(DnsFlows(n), k))
    BY <1>9 DEF InstallDns
  <2>3. pc' = pc /\ SameDns
    BY <1>9 DEF InstallDns, agentVars, SameDns
  <2> DEFINE fs == Sent(DnsFlows(n), k)
  <2>4. fs \subseteq {DnsClassifier(n), DnsSNAT(n)}
    BY SentDns
  <2>5. Added(fs)
    BY <2>1, <2>4, DnsAdded
  <2> HIDE DEF fs, n
  <2> QED
    BY <2>2, <2>3, <2>5, <1>6 DEF fs
<1>10. ASSUME NEW p \in Pods, PlugDone(p)
       PROVE  FlowInv'
  <2>1. /\ flows' = flows /\ ofport' = ofport /\ pc' = pc /\ cache' = cache \cup {p}
        /\ p \in DnsPods => ToSet(DnsFlows(ofport[p])) \subseteq flows
    BY <1>10 DEF PlugDone, Agent!PlugDone, Agent!Call
  <2>2. DnsThere'
    BY <2>1 DEF DnsThere
  <2> QED
    BY <2>1, <2>2 DEF FlowsKnown, OnePerMatch, BasicInOrder, BasicThere
\* What is deleted are the flows of this ADD's number, which is no other port's.
<1>13. ASSUME NEW p \in Pods, PlugFails(p)
       PROVE  FlowInv'
  <2> DEFINE n == ofport[p]
  <2>1. /\ n \in Numbers /\ p \notin cache /\ cache' = cache /\ pc' = pc
        /\ \A q \in Pods \ {p} : ofport'[q] = ofport[q]
    BY <1>13 DEF PlugFails, Agent!Call, NumberInv, AgentTypes
  <2>2. PICK fs \in SUBSET {DnsClassifier(n), DnsSNAT(n)} : flows' = DelFlows(flows, fs)
    BY <1>13, DnsSet DEF PlugFails
  <2>3. flows' = flows \ fs
    <3> HIDE DEF n
    <3> QED
      BY <2>1, <2>2, DelKeeps DEF FlowsKnown
  <2>4. FlowsKnown' /\ OnePerMatch(flows)'
    BY <2>3 DEF FlowsKnown, OnePerMatch
  <2>5. \A f \in Basics : f \in flows' <=> f \in flows
    <3> HIDE DEF n
    <3> QED
      BY <2>1, <2>3, DnsAdded
  <2>6. BasicInOrder' /\ BasicThere'
    BY <2>1, <2>5, BasicSet DEF BasicInOrder, BasicThere, Basics
  <2>7. ASSUME NEW q \in cache' \cap DnsPods, ofport'[q] # 0
        PROVE  ToSet(DnsFlows(ofport'[q])) \subseteq flows'
    <3> DEFINE m == ofport[q]
    <3>1. q # p /\ q \in Pods /\ ofport'[q] = m /\ m # 0
      BY <1>00, <2>1, <2>7
    <3>2. {DnsClassifier(m), DnsSNAT(m)} \subseteq flows
      BY <2>1, <2>7, <3>1, DnsSet DEF DnsThere
    <3>3. m # n
      BY <3>1 DEF NumberInv
    <3> HIDE DEF m, n
    <3>4. {DnsClassifier(m), DnsSNAT(m)} \cap {DnsClassifier(n), DnsSNAT(n)} = {}
      BY <3>3, DnsDistinct
    <3>5. {DnsClassifier(m), DnsSNAT(m)} \subseteq flows'
      BY <2>3, <3>2, <3>4
    <3> QED
      BY <3>1, <3>5, DnsSet
  <2> QED
    BY <2>4, <2>6, <2>7 DEF DnsThere
<1>11. CASE DeleteBridge
  <2>1. flows' = {}
    BY <1>11 DEF DeleteBridge
  <2>2. pc' = "down"
    BY <1>11, Zenon DEF DeleteBridge, Agent!DeleteBridge
  <2>3. \A p \in Pods : ofport'[p] = 0
    BY <1>11 DEF DeleteBridge, NoPorts
  <2> QED
    BY <1>00, <2>1, <2>2, <2>3 DEF FlowsKnown, OnePerMatch, BasicInOrder, BasicThere, DnsThere
<1>12. CASE UNCHANGED vars
  BY <1>12, <1>0 DEF vars, agentVars, SameDns
<1> QED
  BY <1>1, <1>2, <1>3, <1>4, <1>5, <1>7, <1>8, <1>9, <1>10, <1>11, <1>12, <1>13 DEF Next
-----------------------------------------------------------------------------
(* A packet's way through the tables.                                      *)

LEMMA ActionFields ==
  /\ \A t : /\ Resubmit(t).next = t /\ Resubmit(t).rewrite = FALSE
            /\ Resubmit(t).outputs = {}
  /\ \A o : /\ Output(o).next = ClusterForward /\ Output(o).rewrite = FALSE
            /\ Output(o).outputs = o
  /\ \A p : /\ DnsSNAT(p).action.next = ClusterForward
            /\ DnsSNAT(p).action.rewrite = TRUE
            /\ DnsSNAT(p).action.outputs = {}
BY DEF Resubmit, Output, DnsSNAT, Flow

LEMMA PriorityNumbers == {Miss, Low, Normal} \subseteq Nat /\ Miss < Low /\ Low < Normal
BY DEF Miss, Low, Normal

\* Only the number of a container port has flows of its own.
LEMMA DnsKnownIn ==
  ASSUME NEW F \in SUBSET KnownFlows, NEW p
  PROVE  DnsClassifier(p) \in F \/ DnsSNAT(p) \in F => p \in Numbers
<1>1. ASSUME DnsClassifier(p) \in F
      PROVE  p \in Numbers
  <2>1. DnsClassifier(p).table = Classifier /\ DnsClassifier(p).priority = Normal
    BY DnsFields
  <2>2. PICK q \in Numbers : DnsClassifier(p) = DnsClassifier(q)
    BY <1>1, <2>1, ByPriority
  <2>3. DnsClassifier(p).match.in = {p} /\ DnsClassifier(q).match.in = {q}
    BY DnsFields
  <2> QED
    BY <2>2, <2>3
<1>2. ASSUME DnsSNAT(p) \in F
      PROVE  p \in Numbers
  <2>1. DnsSNAT(p).table = CoreDnsSNAT /\ DnsSNAT(p).priority = Normal
    BY DnsFields
  <2>2. PICK q \in Numbers : DnsSNAT(p) = DnsSNAT(q)
    BY <1>2, <2>1, ByPriority
  <2>3. DnsSNAT(p).match.in = {p} /\ DnsSNAT(q).match.in = {q}
    BY DnsFields
  <2> QED
    BY <2>2, <2>3
<1> QED
  BY <1>1, <1>2

LEMMA BestClassifier ==
  ASSUME FlowInv, Basics \subseteq flows, NEW p \in Packets
  PROVE  Best(flows, Classifier, p) =
           IF DnsClassifier(p.in) \in flows THEN {DnsClassifier(p.in)}
           ELSE {ClassifierDefault}
<1> DEFINE d == DnsClassifier(p.in)
           ms == Matching(flows, Classifier, p)
<1>0. p.in \in InPorts /\ p.kind \in Kinds /\ p.dst \in Dests
  BY DEF Packets
<1>1. ASSUME NEW f \in ms
      PROVE  f = d \/ f = ClassifierDefault
  <2>1. f \in KnownFlows /\ f.table = Classifier /\ p.in \in f.match.in
    BY <1>1 DEF Matching, FlowInv, FlowsKnown
  <2>2. CASE f.priority = Normal
    <3>1. PICK q \in Numbers : f = DnsClassifier(q)
      BY <2>1, <2>2, ByPriority
    <3>2. f.match.in = {q}
      BY <3>1, DnsFields
    <3> QED
      BY <2>1, <3>1, <3>2
  <2> QED
    BY <2>1, <2>2, ByPriority
<1>2. ClassifierDefault \in ms
  BY <1>0, BaseFields DEF Matching, Basics, AnyPacket
<1>3. d \in ms <=> d \in flows
  BY <1>0, DnsFields DEF Matching
<1>4. d.priority = Normal /\ ClassifierDefault.priority = Miss
  BY DnsFields, BaseFields
<1>5. Best(flows, Classifier, p) = {f \in ms : \A g \in ms : g.priority <= f.priority}
  BY DEF Best
<1> HIDE DEF d, ms
<1>6. CASE d \in flows
  <2>1. ms = {d, ClassifierDefault}
    BY <1>1, <1>2, <1>3, <1>6
  <2> QED
    BY <2>1, <1>4, <1>5, <1>6, PriorityNumbers DEF d
<1>7. CASE d \notin flows
  <2>1. ms = {ClassifierDefault}
    BY <1>1, <1>2, <1>3, <1>7
  <2> QED
    BY <2>1, <1>4, <1>5, <1>7, PriorityNumbers DEF d
<1> QED
  BY <1>6, <1>7

LEMMA BestSNAT ==
  ASSUME FlowInv, Basics \subseteq flows, NEW p \in Packets
  PROVE  Best(flows, CoreDnsSNAT, p) =
           IF DnsSNAT(p.in) \in flows /\ p.kind = "dns" THEN {DnsSNAT(p.in)}
           ELSE {SNATDefault}
<1> DEFINE d == DnsSNAT(p.in)
           ms == Matching(flows, CoreDnsSNAT, p)
<1>0. p.in \in InPorts /\ p.kind \in Kinds /\ p.dst \in Dests
  BY DEF Packets
<1>1. ASSUME NEW f \in ms
      PROVE  f = d \/ f = SNATDefault
  <2>1. f \in KnownFlows /\ f.table = CoreDnsSNAT /\ p.in \in f.match.in
    BY <1>1 DEF Matching, FlowInv, FlowsKnown
  <2>2. CASE f.priority = Normal
    <3>1. PICK q \in Numbers : f = DnsSNAT(q)
      BY <2>1, <2>2, ByPriority
    <3>2. f.match.in = {q}
      BY <3>1, DnsFields
    <3> QED
      BY <2>1, <3>1, <3>2
  <2> QED
    BY <2>1, <2>2, ByPriority
<1>2. SNATDefault \in ms
  BY <1>0, BaseFields DEF Matching, Basics, AnyPacket
<1>3. d \in ms <=> d \in flows /\ p.kind = "dns"
  BY <1>0, DnsFields DEF Matching
<1>4. d.priority = Normal /\ SNATDefault.priority = Miss
  BY DnsFields, BaseFields
<1>5. Best(flows, CoreDnsSNAT, p) = {f \in ms : \A g \in ms : g.priority <= f.priority}
  BY DEF Best
<1> HIDE DEF d, ms
<1>6. CASE d \in flows /\ p.kind = "dns"
  <2>1. ms = {d, SNATDefault}
    BY <1>1, <1>2, <1>3, <1>6
  <2> QED
    BY <2>1, <1>4, <1>5, <1>6, PriorityNumbers DEF d
<1>7. CASE ~(d \in flows /\ p.kind = "dns")
  <2>1. ms = {SNATDefault}
    BY <1>1, <1>2, <1>3, <1>7
  <2> QED
    BY <2>1, <1>4, <1>5, <1>7, PriorityNumbers DEF d
<1> QED
  BY <1>6, <1>7
LEMMA TunKnown ==
  ASSUME FlowsKnown, NEW n, TunFlow(n) \in flows
  PROVE  n \in Nodes
<1>1. TunFlow(n) \in KnownFlows /\ TunFlow(n).table = ClusterForward
      /\ TunFlow(n).priority = Normal /\ TunFlow(n).match.dst = {n}
      /\ TunFlow(n).match.kind = IPKinds /\ TunFlow(n).action.outputs = {n}
  BY ZenonT(40), NodeFields, ActionFields DEF FlowsKnown
<1>2. TunFlow(n) \in ToNodes
  BY <1>1, ByPriority
<1>3. TunFlow(n) # LocalFlow
  BY <1>1, NodeFields, ActionFields DEF Untunnelled
<1>4. PICK m \in Nodes : TunFlow(n) = TunFlow(m)
  BY <1>2, <1>3, NotArp DEF ToNodes, ArpFlowSet
<1>5. TunFlow(m).match.dst = {m}
  BY NodeFields
<1> QED
  BY <1>1, <1>4, <1>5

LEMMA ArpSameKey ==
  ASSUME NEW k, NEW ns, NEW ms
  PROVE  SameKey(ArpToNodes(k, ns), ArpToNodes(k, ms))
<1> DEFINE m == [in |-> InPorts, kind |-> {k}, dst |-> Dests]
<1>1. \A os :
        /\ ArpToNodes(k, os).table = ClusterForward
        /\ ArpToNodes(k, os).priority = Normal
        /\ ArpToNodes(k, os).match = m
  BY NodeFields
<1> HIDE DEF m
<1> QED
  BY <1>1 DEF SameKey

LEMMA ArpByKind ==
  ASSUME NEW f \in KnownFlows, f.match.kind = {"arpRequest"}
  PROVE  \E ns \in (SUBSET Nodes) \ {{}} : f = ArpToNodes("arpRequest", ns)
<1>1. \A x \in Basics : x.match.kind # {"arpRequest"}
  BY BaseFields DEF Basics, AnyPacket, Kinds, IPKinds, ArpKinds
<1>2. \A q : DnsClassifier(q).match.kind # {"arpRequest"} /\ DnsSNAT(q).match.kind # {"arpRequest"}
  BY DnsFields DEF Kinds, IPKinds
<1>3. LocalFlow.match.kind # {"arpRequest"} /\ \A n : TunFlow(n).match.kind # {"arpRequest"}
  BY NodeFields DEF IPKinds
<1>4. f \in ToNodes
  BY <1>1, <1>2 DEF KnownFlows, Basics
<1>5. PICK k \in ArpKinds, ns \in (SUBSET Nodes) \ {{}} : f = ArpToNodes(k, ns)
  BY <1>3, <1>4 DEF ToNodes, ArpFlowSet
<1>6. f.match.kind = {k}
  BY <1>5, NodeFields
<1> QED
  BY <1>5, <1>6

\* The flows of one kind of ARP that are there: at most one.
LEMMA ArpTarget ==
  ASSUME FlowInv
  PROVE  \/ /\ ArpTargets = {}
            /\ \A ns : ns # {} => ArpToNodes("arpRequest", ns) \notin flows
         \/ \E ns \in (SUBSET Nodes) \ {{}} :
              /\ ArpTargets = ns
              /\ ArpToNodes("arpRequest", ns) \in flows
<1> DEFINE fs == {g \in flows : g.match.kind = {"arpRequest"}}
<1>1. ArpTargets = UNION {f.action.outputs : f \in fs}
  BY DEF ArpTargets
<1>2. ASSUME NEW f \in fs
      PROVE  \E ns \in (SUBSET Nodes) \ {{}} : f = ArpToNodes("arpRequest", ns)
  BY ArpByKind DEF FlowInv, FlowsKnown
<1>3. ASSUME NEW ns, ArpToNodes("arpRequest", ns) \in flows
      PROVE  ArpToNodes("arpRequest", ns) \in fs
  BY <1>3, NodeFields
<1>4. \A ns : ArpToNodes("arpRequest", ns).action.outputs = ns
  BY NodeFields, ActionFields
<1>5. ASSUME NEW f \in fs, NEW g \in fs
      PROVE  f = g
  <2>1. PICK ns \in (SUBSET Nodes) \ {{}} : f = ArpToNodes("arpRequest", ns)
    BY <1>2
  <2>2. PICK ms \in (SUBSET Nodes) \ {{}} : g = ArpToNodes("arpRequest", ms)
    BY <1>2
  <2>3. SameKey(f, g)
    BY <2>1, <2>2, ArpSameKey
  <2> QED
    BY <2>3 DEF FlowInv, OnePerMatch
<1> HIDE DEF fs
<1>6. CASE fs = {}
  BY <1>1, <1>3, <1>6
<1>7. CASE fs # {}
  <2>1. PICK f \in fs : TRUE
    BY <1>7
  <2>2. PICK ns \in (SUBSET Nodes) \ {{}} : f = ArpToNodes("arpRequest", ns)
    BY <1>2
  <2>3. fs = {f}
    BY <1>5
  <2>4. ArpTargets = ns
    BY <1>1, <2>3, <2>2, <1>4
  <2>5. f \in flows
    BY DEF fs
  <2> QED
    BY <2>2, <2>4, <2>5
<1> QED
  BY <1>6, <1>7

\* What can match a packet in the last table.
LEMMA ForwardMatching ==
  ASSUME FlowInv, NEW p \in Packets, NEW f \in Matching(flows, ClusterForward, p)
  PROVE  \/ f = ForwardDefault
         \/ f = ArpNormal /\ p.kind \in ArpKinds
         \/ f = LocalFlow /\ p.kind \in IPKinds /\ p.dst = "local"
         \/ f = TunFlow(p.dst) /\ p.kind \in IPKinds /\ p.dst \in Nodes
         \/ /\ p.kind \in ArpKinds
            /\ \E ns \in (SUBSET Nodes) \ {{}} : f = ArpToNodes(p.kind, ns)
<1>1. /\ f \in KnownFlows /\ f.table = ClusterForward
      /\ p.kind \in f.match.kind /\ p.dst \in f.match.dst
  BY DEF Matching, FlowInv, FlowsKnown
<1>2. CASE f.priority = Normal
  <2>1. f \in ToNodes
    BY <1>1, <1>2, ByPriority
  <2>2. CASE f = LocalFlow
    BY <1>1, <2>2, NodeFields
  <2>3. CASE \E n \in Nodes : f = TunFlow(n)
    BY <1>1, <2>3, NodeFields
  <2>4. CASE \E k \in ArpKinds : \E ns \in (SUBSET Nodes) \ {{}} : f = ArpToNodes(k, ns)
    <3>1. PICK k \in ArpKinds, ns \in (SUBSET Nodes) \ {{}} : f = ArpToNodes(k, ns)
      BY <2>4
    <3>2. f.match.kind = {k}
      BY <3>1, NodeFields
    <3> QED
      BY <1>1, <3>1, <3>2
  <2> QED
    BY <2>1, <2>2, <2>3, <2>4 DEF ToNodes, ArpFlowSet
<1>3. CASE f.priority = Low
  BY <1>1, <1>3, ByPriority, BaseFields
<1>4. CASE f.priority = Miss
  BY <1>1, <1>4, ByPriority
<1> QED
  BY <1>1, <1>2, <1>3, <1>4, ByPriority

LEMMA BestForward ==
  ASSUME FlowInv, Basics \subseteq flows, NEW p \in Packets
  PROVE  \E f \in flows :
           /\ Best(flows, ClusterForward, p) = {f}
           /\ f.action.rewrite = FALSE
           /\ f.action.outputs # {}
           /\ p.kind \in IPKinds =>
                f.action.outputs = IF TunFlow(p.dst) \in flows THEN {p.dst}
                                   ELSE {Untunnelled}
           /\ p.kind = "arpRequest" =>
                f.action.outputs = IF ArpTargets = {} THEN {Untunnelled}
                                   ELSE ArpTargets
<1> DEFINE ms == Matching(flows, ClusterForward, p)
<1>0. p.in \in InPorts /\ p.kind \in Kinds /\ p.dst \in Dests
  BY DEF Packets
<1>1. Best(flows, ClusterForward, p) = {f \in ms : \A g \in ms : g.priority <= f.priority}
  BY DEF Best
<1>2. ForwardDefault \in ms /\ ForwardDefault.priority = Miss
  BY <1>0, BaseFields DEF Matching, Basics, AnyPacket
<1>3. ms \subseteq flows
  BY DEF Matching
<1>4. /\ ForwardDefault.action = Output({Untunnelled})
      /\ ArpNormal.action = Output({Untunnelled})
      /\ LocalFlow.action = Output({Untunnelled})
  BY BaseFields, NodeFields
<1>5. CASE p.kind \in IPKinds
  <2>0. p.kind \notin ArpKinds /\ p.kind # "arpRequest"
    BY <1>5 DEF IPKinds, ArpKinds
  <2>1. CASE TunFlow(p.dst) \in flows
    <3> DEFINE t == TunFlow(p.dst)
    <3>1. p.dst \in Nodes /\ p.dst # "local"
      BY <2>1, TunKnown, NamesAssumption DEF FlowInv
    <3>2. t \in ms /\ t.priority = Normal /\ t.action = Output({p.dst})
      BY <1>0, <1>5, <2>1, NodeFields DEF Matching
    <3>3. ms = {t, ForwardDefault}
      BY <1>2, <2>0, <3>1, <3>2, ForwardMatching
    <3> HIDE DEF t, ms
    <3>4. Best(flows, ClusterForward, p) = {t}
      BY <1>1, <1>2, <3>2, <3>3, PriorityNumbers
    <3> QED
      BY <1>3, <2>0, <2>1, <3>2, <3>4, ActionFields
  <2>2. CASE TunFlow(p.dst) \notin flows
    <3>1. ms \subseteq {LocalFlow, ForwardDefault}
      BY <1>3, <2>0, <2>2, ForwardMatching
    <3>2. LocalFlow.priority = Normal
      BY NodeFields
    <3> HIDE DEF ms
    <3>3. \E f \in ms : Best(flows, ClusterForward, p) = {f}
      <4>1. CASE LocalFlow \in ms
        <5>1. ms = {LocalFlow, ForwardDefault}
          BY <3>1, <4>1, <1>2
        <5>2. Best(flows, ClusterForward, p) = {LocalFlow}
          BY <5>1, <1>1, <1>2, <3>2, PriorityNumbers
        <5> QED
          BY <4>1, <5>2
      <4>2. CASE LocalFlow \notin ms
        <5>1. ms = {ForwardDefault}
          BY <3>1, <4>2, <1>2
        <5>2. Best(flows, ClusterForward, p) = {ForwardDefault}
          BY <5>1, <1>1, <1>2, PriorityNumbers
        <5> QED
          BY <1>2, <5>2
      <4> QED
        BY <4>1, <4>2
    <3>4. PICK f \in ms : Best(flows, ClusterForward, p) = {f}
      BY <3>3
    <3>5. f.action = Output({Untunnelled})
      BY <1>4, <3>1
    <3> QED
      BY <1>3, <2>0, <2>2, <3>4, <3>5, ActionFields
  <2> QED
    BY <2>1, <2>2
<1>6. CASE p.kind \in ArpKinds
  <2>0. p.kind \notin IPKinds
    BY <1>6 DEF IPKinds, ArpKinds
  <2>1. ArpNormal \in ms /\ ArpNormal.priority = Low
    BY <1>0, <1>6, BaseFields DEF Matching, Basics
  <2>2. CASE \E ns \in (SUBSET Nodes) \ {{}} : ArpToNodes(p.kind, ns) \in flows
    <3>1. PICK ns \in (SUBSET Nodes) \ {{}} : ArpToNodes(p.kind, ns) \in flows
      BY <2>2
    <3> DEFINE a == ArpToNodes(p.kind, ns)
    <3>2. a \in ms /\ a.priority = Normal /\ a.action = Output(ns)
      BY <1>0, <3>1, NodeFields DEF Matching
    <3>3. ASSUME NEW f \in ms
          PROVE  f \in {a, ArpNormal, ForwardDefault}
      <4>1. ASSUME NEW os, f = ArpToNodes(p.kind, os)
            PROVE  f = a
        <5>1. SameKey(f, a)
          BY <4>1, ArpSameKey
        <5> QED
          BY <5>1, <1>3, <3>2 DEF FlowInv, OnePerMatch
      <4> QED
        BY <2>0, <4>1, ForwardMatching
    <3>4. ms = {a, ArpNormal, ForwardDefault}
      BY <1>2, <2>1, <3>2, <3>3
    <3> HIDE DEF ms
    <3>5. Best(flows, ClusterForward, p) = {a}
      <4> HIDE DEF a
      <4> QED
        BY <1>1, <1>2, <2>1, <3>2, <3>4, PriorityNumbers
    <3>6. ASSUME p.kind = "arpRequest"
          PROVE  ArpTargets = ns
      <4>1. ArpToNodes("arpRequest", ns) \in flows /\ ns # {}
        BY <3>1, <3>6
      <4>2. PICK os \in (SUBSET Nodes) \ {{}} :
              ArpTargets = os /\ ArpToNodes("arpRequest", os) \in flows
        BY <4>1, ArpTarget
      <4>3. SameKey(ArpToNodes("arpRequest", os), ArpToNodes("arpRequest", ns))
        BY ArpSameKey
      <4>4. ArpToNodes("arpRequest", os) = ArpToNodes("arpRequest", ns)
        BY <4>1, <4>2, <4>3 DEF FlowInv, OnePerMatch
      <4>5. \A xs : ArpToNodes("arpRequest", xs).action.outputs = xs
        BY NodeFields, ActionFields
      <4> QED
        BY <4>2, <4>4, <4>5
    <3>7. a.action.outputs = ns /\ a.action.rewrite = FALSE
      BY <3>2, ActionFields
    <3> HIDE DEF a
    <3> QED
      BY <1>3, <2>0, <3>2, <3>5, <3>6, <3>7
  <2>3. CASE \A ns \in (SUBSET Nodes) \ {{}} : ArpToNodes(p.kind, ns) \notin flows
    <3>1. ms = {ArpNormal, ForwardDefault}
      BY <1>2, <1>3, <2>0, <2>1, <2>3, ForwardMatching
    <3> HIDE DEF ms
    <3>2. Best(flows, ClusterForward, p) = {ArpNormal}
      BY <1>1, <1>2, <2>1, <3>1, PriorityNumbers
    <3>3. p.kind = "arpRequest" => ArpTargets = {}
      BY <2>3, ArpTarget
    <3>4. ArpNormal.action.outputs = {Untunnelled} /\ ArpNormal.action.rewrite = FALSE
      BY <1>4, ActionFields
    <3> QED
      BY <1>3, <2>0, <2>1, <3>2, <3>3, <3>4
  <2> QED
    BY <2>2, <2>3
<1> QED
  BY <1>0, <1>5, <1>6 DEF Kinds, ArpKinds
LEMMA ThenOne ==
  ASSUME NEW f, NEW p
  PROVE  /\ f.action.outputs = {} => Then(flows, {f}, p) = Best(flows, f.action.next, p)
         /\ f.action.outputs # {} => Then(flows, {f}, p) = {}
<1>1. CASE f.action.outputs = {}
  <2>1. {g \in {f} : g.action.outputs = {}} = {f}
    BY <1>1
  <2> QED
    BY <1>1, <2>1 DEF Then
<1>2. CASE f.action.outputs # {}
  <2>1. {g \in {f} : g.action.outputs = {}} = {}
    BY <1>2
  <2> QED
    BY <1>2, <2>1 DEF Then
<1> QED
  BY <1>1, <1>2

\* With the basic flows there every packet goes through the last table, by one
\* flow.
LEMMA Path ==
  ASSUME FlowInv, Basics \subseteq flows, NEW p \in Packets,
         NEW f \in flows, Best(flows, ClusterForward, p) = {f},
         f.action.rewrite = FALSE, f.action.outputs # {}
  PROVE  Outputs(flows, p) =
           {IF p.in = tunOFPort THEN Untunnelled ELSE o : o \in f.action.outputs}
<1> DEFINE first == Best(flows, Classifier, p)
           second == Then(flows, first, p)
           third == Then(flows, second, p)
<1>0. Handling(flows, p) = first \cup second \cup third
  BY DEF Handling
<1>1. Then(flows, {f}, p) = {}
  BY ThenOne
<1>2. \A x \in {ClassifierDefault, SNATDefault, DnsSNAT(p.in)} :
        x.action.outputs = {} /\ x.action.next = ClusterForward
  BY BaseFields, ActionFields
<1>3. /\ DnsClassifier(p.in).action.outputs = {}
      /\ DnsClassifier(p.in).action.next = CoreDnsSNAT
  BY DnsFields, ActionFields
<1>5. ASSUME NEW R, R = UNION {g.action.outputs : g \in Handling(flows, p)}
      PROVE  Outputs(flows, p) = {IF p.in = tunOFPort THEN Untunnelled ELSE o : o \in R}
  BY <1>5 DEF Outputs
<1>6. CASE DnsClassifier(p.in) \notin flows
  <2>1. first = {ClassifierDefault}
    BY <1>6, BestClassifier
  <2>2. second = {f}
    BY <2>1, <1>2, ThenOne
  <2>3. third = {}
    BY <2>2, <1>1
  <2>4. Handling(flows, p) = {ClassifierDefault, f}
    BY <1>0, <2>1, <2>2, <2>3
  <2>5. UNION {g.action.outputs : g \in {ClassifierDefault, f}} = f.action.outputs
    BY <1>2
  <2> QED
    BY <1>5, <1>6, <2>4, <2>5
<1>7. CASE DnsClassifier(p.in) \in flows
  <2>1. first = {DnsClassifier(p.in)}
    BY <1>7, BestClassifier
  <2>2. second = Best(flows, CoreDnsSNAT, p)
    BY <2>1, <1>3, ThenOne
  <2>3. CASE DnsSNAT(p.in) \in flows /\ p.kind = "dns"
    <3>1. second = {DnsSNAT(p.in)}
      BY <2>2, <2>3, BestSNAT
    <3>2. third = {f}
      BY <3>1, <1>2, ThenOne
    <3>3. Handling(flows, p) = {DnsClassifier(p.in), DnsSNAT(p.in), f}
      BY <1>0, <2>1, <3>1, <3>2
    <3>4. UNION {g.action.outputs : g \in {DnsClassifier(p.in), DnsSNAT(p.in), f}}
            = f.action.outputs
      BY <1>2, <1>3
    <3> QED
      BY <1>5, <1>7, <2>3, <3>3, <3>4
  <2>4. CASE ~(DnsSNAT(p.in) \in flows /\ p.kind = "dns")
    <3>1. second = {SNATDefault}
      BY <2>2, <2>4, BestSNAT
    <3>2. third = {f}
      BY <3>1, <1>2, ThenOne
    <3>3. Handling(flows, p) = {DnsClassifier(p.in), SNATDefault, f}
      BY <1>0, <2>1, <3>1, <3>2
    <3>4. UNION {g.action.outputs : g \in {DnsClassifier(p.in), SNATDefault, f}}
            = f.action.outputs
      BY <1>2, <1>3
    <3> QED
      BY <1>5, <1>7, <2>4, <3>3, <3>4
  <2> QED
    BY <2>3, <2>4
<1> QED
  BY <1>6, <1>7

-----------------------------------------------------------------------------
(* The properties of the switch.                                           *)

LEMMA ServingHasBasics == FlowInv /\ pc = "serving" => Basics \subseteq flows
BY BasicSet DEF FlowInv, BasicThere, Basics

LEMMA NoAmbiguity == FlowInv => NoAmbiguousMatch
<1> SUFFICES ASSUME FlowInv, NEW f \in flows, NEW g \in flows, Overlap(f, g)
             PROVE  f = g
  BY DEF NoAmbiguousMatch
<1>1. f \in KnownFlows /\ g \in KnownFlows
  BY DEF FlowInv, FlowsKnown
<1>2. f.match = g.match
  BY <1>1, OverlapIsSameKey
<1> QED
  BY <1>2 DEF Overlap, FlowInv, OnePerMatch, SameKey

LEMMA Hops ==
  /\ \A n \in Nodes : NextHop(n) = "link"
  /\ NextHop("outside") = "gateway"
<1> DEFINE d == [to |-> Dests, via |-> "gateway"]
           l == [to |-> Nodes \cup {"local"}, via |-> "link"]
           narrow(r, dst) == /\ dst \in r.to
                             /\ \A q \in Routes : dst \in q.to => r.to \subseteq q.to
<1>1. Routes = {d, l}
  BY DEF Routes
<1>2. d.to = Dests /\ l.to = Nodes \cup {"local"} /\ d.via = "gateway" /\ l.via = "link"
  OBVIOUS
<1>3. "outside" \in Dests /\ "outside" \notin Nodes \cup {"local"}
      /\ Nodes \cup {"local"} \subseteq Dests
  BY NamesAssumption DEF Dests
<1> HIDE DEF d, l
<1>4. ASSUME NEW n \in Nodes
      PROVE  NextHop(n) = "link"
  <2>1. \A r \in Routes : narrow(r, n) <=> r = l
    BY <1>1, <1>2, <1>3
  <2> HIDE DEF narrow
  <2>2. (CHOOSE r \in Routes : narrow(r, n)) = l
    BY <1>1, <2>1
  <2> QED
    BY <1>2, <2>2 DEF NextHop, narrow
<1>5. NextHop("outside") = "gateway"
  <2>1. \A r \in Routes : narrow(r, "outside") <=> r = d
    BY <1>1, <1>2, <1>3
  <2> HIDE DEF narrow
  <2>2. (CHOOSE r \in Routes : narrow(r, "outside")) = d
    BY <1>1, <2>1
  <2> QED
    BY <1>2, <2>2 DEF NextHop, narrow
<1> QED
  BY <1>4, <1>5

LEMMA PodToPodHolds == FlowInv => PodToPod
<1> SUFFICES ASSUME FlowInv, pc = "serving", NEW p \in Packets
             PROVE
    /\ p.in # tunOFPort /\ p.kind \in IPKinds =>
         IF TunFlow(p.dst) \in flows
         THEN Outputs(flows, p) = {p.dst} /\ NextHop(p.dst) = "link"
         ELSE Outputs(flows, p) = {Untunnelled}
    /\ p.in # tunOFPort /\ p.kind = "arpRequest" =>
         Outputs(flows, p) = IF ArpTargets = {} THEN {Untunnelled} ELSE ArpTargets
    /\ p.in = tunOFPort => Outputs(flows, p) = {Untunnelled}
  BY DEF PodToPod
<1>1. Basics \subseteq flows
  BY ServingHasBasics
<1>2. PICK f \in flows :
           /\ Best(flows, ClusterForward, p) = {f}
           /\ f.action.rewrite = FALSE
           /\ f.action.outputs # {}
           /\ p.kind \in IPKinds =>
                f.action.outputs = IF TunFlow(p.dst) \in flows THEN {p.dst}
                                   ELSE {Untunnelled}
           /\ p.kind = "arpRequest" =>
                f.action.outputs = IF ArpTargets = {} THEN {Untunnelled}
                                   ELSE ArpTargets
  BY <1>1, BestForward
<1>3. Outputs(flows, p) = {IF p.in = tunOFPort THEN Untunnelled ELSE o : o \in f.action.outputs}
  BY <1>1, <1>2, Path
<1>4. p.in # tunOFPort => Outputs(flows, p) = f.action.outputs
  BY <1>3
<1>5. p.in = tunOFPort => Outputs(flows, p) = {Untunnelled}
  BY <1>2, <1>3
<1>6. TunFlow(p.dst) \in flows => NextHop(p.dst) = "link"
  BY TunKnown, Hops DEF FlowInv
<1> QED
  BY <1>2, <1>4, <1>5, <1>6

\* A packet is rewritten by its port number's two flows together, whichever
\* others are there.
LEMMA RewrittenIs ==
  ASSUME NEW F \in SUBSET KnownFlows, NEW p \in Packets
  PROVE  Rewritten(F, p) <=> /\ DnsClassifier(p.in) \in F
                             /\ DnsSNAT(p.in) \in F
                             /\ p.kind = "dns"
<1> DEFINE first == Best(F, Classifier, p)
           second == Then(F, first, p)
           third == Then(F, second, p)
<1>0. Handling(F, p) = first \cup second \cup third
  BY DEF Handling
<1>1. ASSUME NEW t, NEW f \in Best(F, t, p)
      PROVE  /\ f \in KnownFlows /\ f \in F /\ f.table = t
             /\ p.in \in f.match.in /\ p.kind \in f.match.kind
  BY DEF Best, Matching
<1>2. ASSUME NEW fs, NEW f \in Then(F, fs, p)
      PROVE  \E g \in fs : g.action.outputs = {} /\ f \in Best(F, g.action.next, p)
  BY DEF Then
<1>3. Classifier # CoreDnsSNAT /\ ClusterForward # CoreDnsSNAT /\ Classifier # ClusterForward
  BY DEF Classifier, CoreDnsSNAT, ClusterForward
\* Of the known flows one kind rewrites, and one kind leads to its table.
<1>4. ASSUME NEW f \in KnownFlows, f \notin Basics, f \notin ToNodes
      PROVE  \E n \in Numbers : f = DnsClassifier(n) \/ f = DnsSNAT(n)
  BY <1>4 DEF KnownFlows
<1>5. ASSUME NEW f \in Basics \cup ToNodes
      PROVE  f.action.rewrite = FALSE /\ f.action.next = ClusterForward
  <2>1. CASE f \in Basics
    BY <2>1, BaseFields, ActionFields DEF Basics
  <2>2. CASE f \in ToNodes
    <3>1. \/ f = LocalFlow \/ \E n \in Nodes : f = TunFlow(n)
          \/ \E k \in ArpKinds : \E ns \in (SUBSET Nodes) \ {{}} : f = ArpToNodes(k, ns)
      BY <2>2 DEF ToNodes, ArpFlowSet
    <3>2. PICK o : f.action = Output(o)
      <4>1. CASE f = LocalFlow
        BY <4>1, NodeFields, Zenon
      <4>2. CASE \E n \in Nodes : f = TunFlow(n)
        <5>1. PICK n \in Nodes : f = TunFlow(n)
          BY <4>2
        <5>2. f.action = Output({n})
          BY <5>1, NodeFields
        <5> QED
          BY <5>2, Zenon
      <4>3. CASE \E k \in ArpKinds : \E ns \in (SUBSET Nodes) \ {{}} : f = ArpToNodes(k, ns)
        <5>1. PICK k \in ArpKinds, ns \in (SUBSET Nodes) \ {{}} : f = ArpToNodes(k, ns)
          BY <4>3
        <5>2. f.action = Output(ns)
          BY <5>1, NodeFields
        <5> QED
          BY <5>2, Zenon
      <4> QED
        BY <3>1, <4>1, <4>2, <4>3
    <3> QED
      BY <3>2, ActionFields
  <2> QED
    BY <2>1, <2>2
<1>6. \A n : /\ DnsClassifier(n).action.rewrite = FALSE
             /\ DnsClassifier(n).action.next = CoreDnsSNAT
             /\ DnsClassifier(n).action.outputs = {}
             /\ DnsSNAT(n).action.next = ClusterForward
             /\ DnsSNAT(n).action.outputs = {} /\ DnsSNAT(n).action.rewrite = TRUE
  BY DnsFields, ActionFields
<1>7. ASSUME Rewritten(F, p)
      PROVE  DnsClassifier(p.in) \in F /\ DnsSNAT(p.in) \in F /\ p.kind = "dns"
  <2>1. PICK f \in Handling(F, p) : f.action.rewrite
    BY <1>7 DEF Rewritten
  <2>2. PICK t : f \in Best(F, t, p)
    BY <1>0, <1>2, <2>1
  <2>3. f \in KnownFlows /\ f \in F /\ p.in \in f.match.in /\ p.kind \in f.match.kind
    BY <1>1, <2>2
  <2>4. PICK n \in Numbers : f = DnsSNAT(n)
    <3>1. f \notin Basics \cup ToNodes
      BY <1>5, <2>1
    <3>2. PICK n \in Numbers : f = DnsClassifier(n) \/ f = DnsSNAT(n)
      BY <1>4, <2>3, <3>1
    <3>3. CASE f = DnsClassifier(n)
      <4>1. f.action.rewrite = FALSE
        BY <1>6, <3>3
      <4> QED
        BY <2>1, <4>1, Zenon
    <3> QED
      BY <3>2, <3>3, Zenon
  <2>5. p.in = n /\ p.kind = "dns" /\ f.table = CoreDnsSNAT
    BY <2>3, <2>4, DnsFields
  <2>6. f \notin first
    BY <1>1, <1>3, <2>5
  <2>7. \E g \in first \cup second : g.action.outputs = {} /\ f \in Best(F, g.action.next, p)
    <3>1. CASE f \in Then(F, first, p)
      BY <1>2, <3>1, Zenon
    <3>2. CASE f \in Then(F, second, p)
      BY <1>2, <3>2, Zenon
    <3> QED
      BY <1>0, <2>1, <2>6, <3>1, <3>2, Zenon
  <2>8. PICK g \in first \cup second : g.action.next = CoreDnsSNAT
    BY <1>1, <2>5, <2>7
  <2>9. PICK u : g \in Best(F, u, p)
    BY <1>2, <2>8
  <2>10. g \in KnownFlows /\ g \in F /\ p.in \in g.match.in
    BY <1>1, <2>9
  <2>11. PICK m \in Numbers : g = DnsClassifier(m)
    <3>1. g \notin Basics \cup ToNodes
      BY <1>3, <1>5, <2>8
    <3> QED
      BY <1>3, <1>4, <1>6, <2>8, <2>10, <3>1
  <2>12. p.in = m
    BY <2>10, <2>11, DnsFields
  <2> QED
    BY <2>3, <2>4, <2>5, <2>10, <2>11, <2>12
<1>8. ASSUME DnsClassifier(p.in) \in F, DnsSNAT(p.in) \in F, p.kind = "dns"
      PROVE  Rewritten(F, p)
  <2> DEFINE c == DnsClassifier(p.in)
             d == DnsSNAT(p.in)
  <2>0. p.in \in InPorts /\ p.kind \in Kinds /\ p.dst \in Dests
    BY DEF Packets
  <2>1. \A f \in KnownFlows : f.priority <= Normal
    BY ByPriority, PriorityNumbers
  <2>2. c \in first
    <3>1. c \in Matching(F, Classifier, p) /\ c.priority = Normal
      BY <1>8, <2>0, DnsFields DEF Matching
    <3>2. Matching(F, Classifier, p) \subseteq KnownFlows
      BY DEF Matching
    <3> HIDE DEF c
    <3> QED
      BY <2>1, <3>1, <3>2 DEF Best
  <2>3. d \in Best(F, CoreDnsSNAT, p)
    <3>1. d \in Matching(F, CoreDnsSNAT, p) /\ d.priority = Normal
      BY <1>8, <2>0, DnsFields DEF Matching
    <3>2. Matching(F, CoreDnsSNAT, p) \subseteq KnownFlows
      BY DEF Matching
    <3> HIDE DEF d
    <3> QED
      BY <2>1, <3>1, <3>2 DEF Best
  <2>4. d \in second
    <3>1. c.action.outputs = {} /\ c.action.next = CoreDnsSNAT
      BY <1>6
    <3> HIDE DEF c, d, first
    <3> QED
      BY <2>2, <2>3, <3>1 DEF Then
  <2>5. d.action.rewrite
    BY <1>6
  <2> HIDE DEF d, second
  <2> QED
    BY <1>0, <2>4, <2>5 DEF Rewritten
<1> QED
  BY <1>7, <1>8

LEMMA DnsRewritten == AgentTypes /\ FlowInv => DnsRepliesRewritten
<1> SUFFICES ASSUME AgentTypes, FlowInv, NEW p \in Packets
             PROVE
    /\ p.kind = "dns" /\ (\E q \in cache \cap DnsPods : p.in = ofport[q]) =>
         Rewritten(flows, p)
    /\ Rewritten(flows, p) => p.kind = "dns" /\ p.in \in Numbers
  BY DEF DnsRepliesRewritten
<1>1. Rewritten(flows, p) <=> /\ DnsClassifier(p.in) \in flows
                              /\ DnsSNAT(p.in) \in flows
                              /\ p.kind = "dns"
  BY RewrittenIs DEF FlowInv, FlowsKnown
<1>2. ASSUME NEW q \in cache \cap DnsPods, p.in = ofport[q]
      PROVE  DnsClassifier(p.in) \in flows /\ DnsSNAT(p.in) \in flows
  <2>1. p.in # 0
    BY NamesAssumption DEF Packets, InPorts, tunOFPort, hostGatewayOFPort
  <2> QED
    BY <1>2, <2>1, DnsSet DEF FlowInv, DnsThere
<1>3. DnsClassifier(p.in) \in flows => p.in \in Numbers
  BY DnsKnownIn DEF FlowInv, FlowsKnown
<1> QED
  BY <1>1, <1>2, <1>3

\* The step's flows are told apart by their numbers: those of the other numbers
\* stay, and stay away.
LEMMA RewritingStep ==
  AgentTypes /\ NumberInv /\ FlowInv /\ [Next]_vars /\ flows' # flows /\ bridge' =>
    \A p \in Packets :
      p.kind = "dns" /\ Rewritten(flows, p) # Rewritten(flows', p) =>
        \E q \in DnsPods : calls[q] = "add" /\ p.in = ofport[q]
<1> SUFFICES ASSUME AgentTypes, NumberInv, FlowInv, [Next]_vars, flows' # flows, bridge',
                    NEW p \in Packets, Rewritten(flows, p) # Rewritten(flows', p)
             PROVE  \E q \in DnsPods : calls[q] = "add" /\ p.in = ofport[q]
  OBVIOUS
<1> DEFINE mine == {DnsClassifier(p.in), DnsSNAT(p.in)}
<1>1. flows \in SUBSET KnownFlows /\ flows' \in SUBSET KnownFlows
  BY FlowStep DEF FlowInv, FlowsKnown
<1>2. PICK f \in mine : ~(f \in flows <=> f \in flows')
  <2>1. ASSUME \A f \in mine : f \in flows <=> f \in flows'
        PROVE  Rewritten(flows, p) <=> Rewritten(flows', p)
    BY <1>1, <2>1, RewrittenIs
  <2>2. Rewritten(flows, p) \in BOOLEAN /\ Rewritten(flows', p) \in BOOLEAN
    BY DEF Rewritten
  <2> QED
    BY <2>1, <2>2
<1>3. p.in \in Numbers
  BY <1>1, <1>2, DnsKnownIn
<1>4. f \in KnownFlows \ ArpFlowSet /\ f \notin Basics /\ f \notin ToNodes
  <2>1. f \in KnownFlows \ ArpFlowSet
    BY <1>3, KnownParts
  <2>2. f.match.in = {p.in} /\ f.table # ClusterForward
    BY DnsFields DEF Classifier, CoreDnsSNAT, ClusterForward
  <2>3. \A g \in ToNodes : g.table = ClusterForward
    BY NodeFields DEF ToNodes, ArpFlowSet
  <2>4. f \notin Basics
    BY <1>3, DnsAdded
  <2> QED
    BY <2>1, <2>2, <2>3, <2>4
<1> HIDE DEF mine
<1>5. ASSUME NEW fs \in SUBSET (Basics \cup ToNodes), flows' = AddFlows(flows, fs)
      PROVE  FALSE
  <2>1. fs \in SUBSET KnownFlows
    BY DEF KnownFlows
  <2>2. f \in flows' <=> f \in flows \cup fs
    BY <1>1, <1>4, <1>5, <2>1, AddKeeps
  <2> QED
    BY <1>2, <1>4, <2>2
<1>6. ~InstallBase
  BY <1>5, BasicSet DEF InstallBase, Basics
<1>7. ~InstallBaseFails
  <2> SUFFICES ASSUME InstallBaseFails
               PROVE  FALSE
    OBVIOUS
  <2>1. PICK k \in 0 .. Len(BasicFlows) - 1 : flows' = AddFlows(flows, Sent(BasicFlows, k))
    BY DEF InstallBaseFails
  <2>2. Sent(BasicFlows, k) \subseteq Basics
    BY SentBasic DEF Basics
  <2> QED
    BY <1>5, <2>1, <2>2
<1>8. ~InstallNodes
  <2> SUFFICES ASSUME InstallNodes
               PROVE  FALSE
    OBVIOUS
  <2>1. PICK k \in 0 .. Len(ArpFlows), fs \in SUBSET SubnetFlows :
          flows' = AddFlows(flows, Sent(ArpFlows, k) \cup fs)
    BY DEF InstallNodes
  <2>2. Sent(ArpFlows, k) \cup fs \subseteq ToNodes
    BY NodeFlowsToNodes
  <2> QED
    BY <1>5, <2>1, <2>2
<1>9. ASSUME NEW q \in Pods, InstallDns(q) \/ PlugFails(q)
      PROVE  q \in DnsPods /\ calls[q] = "add" /\ p.in = ofport[q]
  <2> DEFINE n == ofport[q]
  <2>1. calls[q] = "add" /\ n \in Numbers
    BY <1>9 DEF InstallDns, PlugFails, Agent!Call, NumberInv, AgentTypes
  <2>2. PICK fs \in SUBSET {DnsClassifier(n), DnsSNAT(n)} :
          /\ fs # {} => q \in DnsPods
          /\ flows' = AddFlows(flows, fs) \/ flows' = DelFlows(flows, fs)
    <3>1. CASE InstallDns(q)
      <4>1. PICK k \in 1 .. 2 : flows' = AddFlows(flows, Sent(DnsFlows(n), k))
        BY <3>1 DEF InstallDns
      <4>2. q \in DnsPods
        BY <3>1 DEF InstallDns
      <4> HIDE DEF n
      <4> QED
        BY <4>1, <4>2, SentDns
    <3>2. CASE PlugFails(q)
      BY <3>2, DnsSet DEF PlugFails
    <3> QED
      BY <1>9, <3>1, <3>2
  <2> HIDE DEF n
  <2>3. f \in fs
    <3>1. fs \in SUBSET KnownFlows
      BY <2>1, DnsAdded
    <3>2. DelFlows(flows, fs) = flows \ fs
      BY <1>1, <2>1, DelKeeps
    <3>3. f \in AddFlows(flows, fs) <=> f \in flows \cup fs
      BY <1>1, <1>4, <3>1, AddKeeps
    <3> QED
      BY <1>2, <2>2, <3>2, <3>3
  <2>4. f.match.in = {n} /\ f.match.in = {p.in}
    BY <1>2, <2>3, DnsFields DEF mine
  <2> QED
    BY <2>1, <2>2, <2>3, <2>4 DEF n
<1>10. \/ InstallBase \/ InstallBaseFails \/ InstallNodes
       \/ \E q \in Pods : InstallDns(q) \/ PlugFails(q)
  <2>1. ~HostStep /\ ~EnsureNext /\ ~RulesDone /\ ~(UNCHANGED vars)
    BY DEF HostStep, EnsureNext, RulesDone, vars
  <2>2. \A q \in Pods : ~PlugPod(q) /\ ~PlugDone(q) /\ ~UnplugPod(q) /\ ~UnplugDone(q)
    BY DEF PlugPod, PlugDone, UnplugPod, UnplugDone
  <2>3. ~DeleteBridge
    BY Zenon DEF DeleteBridge, Agent!DeleteBridge
  <2> QED
    BY <2>1, <2>2, <2>3, Zenon DEF Next
<1> QED
  BY <1>6, <1>7, <1>8, <1>9, <1>10
-----------------------------------------------------------------------------
(* The host's rules.                                                       *)

LEMMA Preset ==
  /\ Len(PresetRules) = 7 /\ DOMAIN PresetRules = 1 .. 7
  /\ PresetRules[1] = Rule("FORWARD", Paths, FALSE, "CICCNI-FORWARD")
  /\ PresetRules[2] = Rule("CICCNI-FORWARD", Outward, FALSE, "MARK")
  /\ PresetRules[3] = Rule("CICCNI-FORWARD", Outward, FALSE, "ACCEPT")
  /\ PresetRules[4] = Rule("CICCNI-FORWARD", Inward, FALSE, "ACCEPT")
  /\ PresetRules[5] = Rule("POSTROUTING", Paths, FALSE, "CICCNI-POSTROUTING")
  /\ PresetRules[6] = Rule("CICCNI-POSTROUTING", Paths, TRUE, "MASQUERADE")
  /\ PresetRules[7] = Rule("CICCNI-FORWARD", Paths, FALSE, "ACCEPT")
BY DEF PresetRules

LEMMA RuleFields ==
  ASSUME NEW c, NEW ps, NEW m, NEW t
  PROVE  /\ Rule(c, ps, m, t).chain = c /\ Rule(c, ps, m, t).paths = ps
         /\ Rule(c, ps, m, t).marked = m /\ Rule(c, ps, m, t).target = t
BY DEF Rule

LEMMA PresetChains ==
  /\ PresetRules[1].chain = "FORWARD" /\ PresetRules[5].chain = "POSTROUTING"
  /\ PresetRules[6].chain = "CICCNI-POSTROUTING"
  /\ \A i \in {2, 3, 4, 7} : PresetRules[i].chain = "CICCNI-FORWARD"
  /\ RuleChains = {"FORWARD", "POSTROUTING", "CICCNI-FORWARD", "CICCNI-POSTROUTING"}
<1>1. /\ PresetRules[1].chain = "FORWARD" /\ PresetRules[5].chain = "POSTROUTING"
      /\ PresetRules[6].chain = "CICCNI-POSTROUTING"
      /\ \A i \in {2, 3, 4, 7} : PresetRules[i].chain = "CICCNI-FORWARD"
  <2>1. /\ PresetRules[1].chain = "FORWARD" /\ PresetRules[5].chain = "POSTROUTING"
        /\ PresetRules[6].chain = "CICCNI-POSTROUTING"
    BY Preset DEF Rule
  <2>2. PresetRules[2].chain = "CICCNI-FORWARD" /\ PresetRules[3].chain = "CICCNI-FORWARD"
        /\ PresetRules[4].chain = "CICCNI-FORWARD" /\ PresetRules[7].chain = "CICCNI-FORWARD"
    BY Preset DEF Rule
  <2> QED
    BY <2>1, <2>2
<1>2. 1 .. 7 = {1, 2, 3, 4, 5, 6, 7}
  OBVIOUS
<1>3. ToSet(PresetRules) = {PresetRules[i] : i \in {1, 2, 3, 4, 5, 6, 7}}
  BY Preset, <1>2 DEF ToSet
<1>4. RuleChains = {PresetRules[i].chain : i \in {1, 2, 3, 4, 5, 6, 7}}
  BY <1>3 DEF RuleChains
<1> QED
  BY <1>1, <1>4

LEMMA EnsureChainIs ==
  ASSUME NEW cs, NEW c
  PROVE  /\ DOMAIN EnsureChain(cs, c) = DOMAIN cs \cup {c}
         /\ \A d \in DOMAIN cs : EnsureChain(cs, c)[d] = cs[d]
         /\ c \notin DOMAIN cs => EnsureChain(cs, c)[c] = <<>>
BY DEF EnsureChain

LEMMA EnsureRuleIs ==
  ASSUME NEW cs, NEW r, r.chain \in DOMAIN cs
  PROVE  LET s == cs[r.chain]
             t == EnsureRule(cs, r)
         IN  /\ DOMAIN t = DOMAIN cs
             /\ \A d \in DOMAIN cs \ {r.chain} : t[d] = cs[d]
             /\ t[r.chain] = IF Contains(s, r) THEN s ELSE Append(s, r)
BY DEF EnsureRule
Ensured(s, r) == IF Contains(s, r) THEN s ELSE Append(s, r)

LEMMA EnsuredOne ==
  ASSUME NEW a, NEW s \in {<<>>, <<a>>}
  PROVE  Ensured(s, a) = <<a>>
<1>1. CASE s = <<>>
  <2>1. ~Contains(s, a) /\ Append(s, a) = <<a>>
    BY <1>1 DEF Contains
  <2> QED
    BY <2>1 DEF Ensured
<1>2. CASE s = <<a>>
  <2>1. Contains(s, a)
    BY <1>2 DEF Contains
  <2> QED
    BY <1>2, <2>1 DEF Ensured
<1> QED
  BY <1>1, <1>2

LEMMA SmallToSet ==
  /\ ToSet(<<>>) = {}
  /\ \A a : ToSet(<<a>>) = {a}
  /\ \A a, b : ToSet(<<a, b>>) = {a, b}
  /\ \A a, b, c : ToSet(<<a, b, c>>) = {a, b, c}
  /\ \A a, b, c, d : ToSet(<<a, b, c, d>>) = {a, b, c, d}
<1>1. 1 .. 1 = {1} /\ 1 .. 2 = {1, 2} /\ 1 .. 3 = {1, 2, 3} /\ 1 .. 4 = {1, 2, 3, 4}
  OBVIOUS
<1>2. ToSet(<<>>) = {}
  BY DEF ToSet
<1>3. ASSUME NEW a
      PROVE  ToSet(<<a>>) = {a}
  BY <1>1 DEF ToSet
<1>4. ASSUME NEW a, NEW b
      PROVE  ToSet(<<a, b>>) = {a, b}
  BY <1>1 DEF ToSet
<1>5. ASSUME NEW a, NEW b, NEW c
      PROVE  ToSet(<<a, b, c>>) = {a, b, c}
  BY <1>1 DEF ToSet
<1>6. ASSUME NEW a, NEW b, NEW c, NEW d
      PROVE  ToSet(<<a, b, c, d>>) = {a, b, c, d}
  BY <1>1 DEF ToSet
<1> QED
  BY <1>2, <1>3, <1>4, <1>5, <1>6

\* Whether a rule exists is whether it is among those of the chain.
LEMMA SmallContains ==
  \A x :
    /\ ~Contains(<<>>, x)
    /\ \A a : Contains(<<a>>, x) <=> x \in {a}
    /\ \A a, b : Contains(<<a, b>>, x) <=> x \in {a, b}
    /\ \A a, b, c : Contains(<<a, b, c>>, x) <=> x \in {a, b, c}
    /\ \A a, b, c, d : Contains(<<a, b, c, d>>, x) <=> x \in {a, b, c, d}
<1> SUFFICES ASSUME NEW x
             PROVE
    /\ ~Contains(<<>>, x)
    /\ \A a : Contains(<<a>>, x) <=> x \in {a}
    /\ \A a, b : Contains(<<a, b>>, x) <=> x \in {a, b}
    /\ \A a, b, c : Contains(<<a, b, c>>, x) <=> x \in {a, b, c}
    /\ \A a, b, c, d : Contains(<<a, b, c, d>>, x) <=> x \in {a, b, c, d}
  OBVIOUS
<1>1. 1 .. 1 = {1} /\ 1 .. 2 = {1, 2} /\ 1 .. 3 = {1, 2, 3} /\ 1 .. 4 = {1, 2, 3, 4}
  OBVIOUS
<1>2. ~Contains(<<>>, x)
  BY DEF Contains
<1>3. ASSUME NEW a
      PROVE  Contains(<<a>>, x) <=> x \in {a}
  BY <1>1 DEF Contains
<1>4. ASSUME NEW a, NEW b
      PROVE  Contains(<<a, b>>, x) <=> x \in {a, b}
  BY <1>1 DEF Contains
<1>5. ASSUME NEW a, NEW b, NEW c
      PROVE  Contains(<<a, b, c>>, x) <=> x \in {a, b, c}
  BY <1>1 DEF Contains
<1>6. ASSUME NEW a, NEW b, NEW c, NEW d
      PROVE  Contains(<<a, b, c, d>>, x) <=> x \in {a, b, c, d}
  BY <1>1 DEF Contains
<1> QED
  BY <1>2, <1>3, <1>4, <1>5, <1>6

LEMMA EnsuredFour ==
  ASSUME NEW a, NEW b, NEW c, NEW d,
         a # b, a # c, a # d, b # c, b # d, c # d,
         NEW s \in PrefixesOf(a, b, c, d),
         NEW x \in {a, b, c, d},
         x = b => a \in ToSet(s),
         x = c => {a, b} \subseteq ToSet(s),
         x = d => {a, b, c} \subseteq ToSet(s)
  PROVE  /\ Ensured(s, x) \in PrefixesOf(a, b, c, d)
         /\ ToSet(Ensured(s, x)) = ToSet(s) \cup {x}
<1> DEFINE s0 == <<>>
           s1 == <<a>>
           s2 == <<a, b>>
           s3 == <<a, b, c>>
           s4 == <<a, b, c, d>>
<1>1. /\ ToSet(s0) = {} /\ ToSet(s1) = {a} /\ ToSet(s2) = {a, b}
      /\ ToSet(s3) = {a, b, c} /\ ToSet(s4) = {a, b, c, d}
  BY SmallToSet
<1>2. \A t \in {s0, s1, s2, s3, s4} : Contains(t, x) <=> x \in ToSet(t)
  <2>1. ~Contains(s0, x) /\ (Contains(s1, x) <=> x \in {a})
    BY SmallContains
  <2>2. Contains(s2, x) <=> x \in {a, b}
    BY SmallContains
  <2>3. Contains(s3, x) <=> x \in {a, b, c}
    BY SmallContains
  <2>4. Contains(s4, x) <=> x \in {a, b, c, d}
    BY SmallContains
  <2> HIDE DEF s0, s1, s2, s3, s4
  <2> QED
    BY <1>1, <2>1, <2>2, <2>3, <2>4
<1>3. /\ Append(s0, a) = s1 /\ Append(s1, b) = s2 /\ Append(s2, c) = s3
      /\ Append(s3, d) = s4
  <2> DEFINE S == {a, b, c, d}
  <2>1. s0 \in Seq(S) /\ s1 \in Seq(S) /\ s2 \in Seq(S) /\ s3 \in Seq(S) /\ s4 \in Seq(S)
    OBVIOUS
  <2>2. Len(s0) = 0 /\ Len(s1) = 1 /\ Len(s2) = 2 /\ Len(s3) = 3 /\ Len(s4) = 4
    OBVIOUS
  <2>3. /\ s1[1] = a
        /\ s2[1] = a /\ s2[2] = b
        /\ s3[1] = a /\ s3[2] = b /\ s3[3] = c
        /\ s4[1] = a /\ s4[2] = b /\ s4[3] = c /\ s4[4] = d
    OBVIOUS
  <2> HIDE DEF s0, s1, s2, s3, s4
  <2>4. ASSUME NEW t \in Seq(S), NEW u \in Seq(S), NEW e \in S,
               Len(u) = Len(t) + 1, u[Len(u)] = e,
               \A i \in 1 .. Len(t) : u[i] = t[i]
        PROVE  Append(t, e) = u
    <3>1. /\ Append(t, e) \in Seq(S) /\ Len(Append(t, e)) = Len(u)
          /\ \A i \in 1 .. Len(u) : Append(t, e)[i] = u[i]
      BY <2>4, AppendProperties, LenProperties
    <3> HIDE DEF S
    <3> QED
      BY <3>1, <2>4, SeqEqual
  <2>5. Append(s0, a) = s1
    BY <2>1, <2>2, <2>3, <2>4
  <2>6. Append(s1, b) = s2
    <3>1. \A i \in 1 .. Len(s1) : i = 1
      BY <2>2
    <3>2. \A i \in 1 .. Len(s1) : s2[i] = s1[i]
      BY <2>3, <3>1
    <3>3. Len(s2) = Len(s1) + 1 /\ s2[Len(s2)] = b
      BY <2>2, <2>3
    <3> QED
      BY <2>1, <2>4, <3>2, <3>3
  <2>7. Append(s2, c) = s3
    <3>1. \A i \in 1 .. Len(s2) : i = 1 \/ i = 2
      BY <2>2
    <3>2. \A i \in 1 .. Len(s2) : s3[i] = s2[i]
      BY <2>3, <3>1
    <3>3. Len(s3) = Len(s2) + 1 /\ s3[Len(s3)] = c
      BY <2>2, <2>3
    <3> QED
      BY <2>1, <2>4, <3>2, <3>3
  <2>8. Append(s3, d) = s4
    <3>1. \A i \in 1 .. Len(s3) : i = 1 \/ i = 2 \/ i = 3
      BY <2>2
    <3>2. \A i \in 1 .. Len(s3) : s4[i] = s3[i]
      BY <2>3, <3>1
    <3>3. Len(s4) = Len(s3) + 1 /\ s4[Len(s4)] = d
      BY <2>2, <2>3
    <3> QED
      BY <2>1, <2>4, <3>2, <3>3
  <2> QED
    BY <2>5, <2>6, <2>7, <2>8
<1>4. s \in {s0, s1, s2, s3, s4}
  BY DEF PrefixesOf
<1> HIDE DEF s0, s1, s2, s3, s4
<1>5. Contains(s, x) <=> x \in ToSet(s)
  BY <1>2, <1>4
<1>6. Ensured(s, x) = IF x \in ToSet(s) THEN s ELSE Append(s, x)
  BY <1>5 DEF Ensured
<1>7. /\ Ensured(s, x) \in {s0, s1, s2, s3, s4}
      /\ ToSet(Ensured(s, x)) = ToSet(s) \cup {x}
  <2>1. CASE s = s0
    BY ZenonT(40), <2>1, <1>1, <1>3, <1>6
  <2>2. CASE s = s1
    BY ZenonT(40), <2>2, <1>1, <1>3, <1>6
  <2>3. CASE s = s2
    BY ZenonT(40), <2>3, <1>1, <1>3, <1>6
  <2>4. CASE s = s3
    BY ZenonT(40), <2>4, <1>1, <1>3, <1>6
  <2>5. CASE s = s4
    BY ZenonT(40), <2>5, <1>1, <1>3, <1>6
  <2> QED
    BY <1>4, <2>1, <2>2, <2>3, <2>4, <2>5
<1> QED
  BY <1>7 DEF s0, s1, s2, s3, s4, PrefixesOf

LEMMA RulesDistinct ==
  /\ PresetRules[2] \notin {PresetRules[3], PresetRules[4], PresetRules[7]}
  /\ PresetRules[3] \notin {PresetRules[4], PresetRules[7]}
  /\ PresetRules[4] # PresetRules[7]
<1> DEFINE out == [in |-> "gw", out |-> "other"]
           in == [in |-> "other", out |-> "gw"]
<1>1. out \in Outward /\ out \notin Inward /\ in \notin Outward /\ in \in Inward
      /\ out \in Paths /\ in \in Paths
  BY DEF Outward, Inward, Paths
<1>2. PresetRules[2].target = "MARK" /\ PresetRules[3].target = "ACCEPT"
      /\ PresetRules[4].target = "ACCEPT" /\ PresetRules[7].target = "ACCEPT"
  BY Preset DEF Rule
<1>3. PresetRules[3].paths = Outward /\ PresetRules[4].paths = Inward
      /\ PresetRules[7].paths = Paths
  BY Preset DEF Rule
<1> QED
  BY <1>1, <1>2, <1>3

\* A call of ensureRule in its turn appends the chain's next rule, or none.
LEMMA EnsureInTurn ==
  ASSUME ChainsInOrder, NEW j \in 1 .. 7, PresetRules[j].chain \in DOMAIN chains,
         \A i \in 1 .. 7 : i < j => PresetRules[i] \in ToSet(chains[PresetRules[i].chain])
  PROVE  LET s == chains[PresetRules[j].chain]
             t == Ensured(s, PresetRules[j])
         IN  /\ t \in ChainPrefixes(PresetRules[j].chain)
             /\ ToSet(t) = ToSet(s) \cup {PresetRules[j]}
<1> DEFINE s == chains[PresetRules[j].chain]
<1>1. s \in ChainPrefixes(PresetRules[j].chain)
  BY DEF ChainsInOrder
<1>2. ASSUME NEW r, s \in {<<>>, <<r>>}
      PROVE  Ensured(s, r) \in {<<>>, <<r>>} /\ ToSet(Ensured(s, r)) = ToSet(s) \cup {r}
  BY <1>2, EnsuredOne, SmallToSet
<1>3. CASE j = 1
  <2>1. PresetRules[j].chain = "FORWARD" /\ s \in {<<>>, <<PresetRules[1]>>}
    BY <1>1, <1>3, PresetChains DEF ChainPrefixes
  <2> HIDE DEF s
  <2>2. Ensured(s, PresetRules[1]) \in {<<>>, <<PresetRules[1]>>}
        /\ ToSet(Ensured(s, PresetRules[1])) = ToSet(s) \cup {PresetRules[1]}
    BY <1>2, <2>1
  <2> QED
    BY <1>3, <2>1, <2>2 DEF ChainPrefixes, s
<1>4. CASE j = 5
  <2>1. PresetRules[j].chain = "POSTROUTING" /\ s \in {<<>>, <<PresetRules[5]>>}
    BY <1>1, <1>4, PresetChains DEF ChainPrefixes
  <2> HIDE DEF s
  <2>2. Ensured(s, PresetRules[5]) \in {<<>>, <<PresetRules[5]>>}
        /\ ToSet(Ensured(s, PresetRules[5])) = ToSet(s) \cup {PresetRules[5]}
    BY <1>2, <2>1
  <2> QED
    BY <1>4, <2>1, <2>2 DEF ChainPrefixes, s
<1>5. CASE j = 6
  <2>1. PresetRules[j].chain = "CICCNI-POSTROUTING" /\ s \in {<<>>, <<PresetRules[6]>>}
    BY <1>1, <1>5, PresetChains DEF ChainPrefixes
  <2> HIDE DEF s
  <2>2. Ensured(s, PresetRules[6]) \in {<<>>, <<PresetRules[6]>>}
        /\ ToSet(Ensured(s, PresetRules[6])) = ToSet(s) \cup {PresetRules[6]}
    BY <1>2, <2>1
  <2> QED
    BY <1>5, <2>1, <2>2 DEF ChainPrefixes, s
<1>6. CASE j \in {2, 3, 4, 7}
  <2>1. PresetRules[j].chain = "CICCNI-FORWARD" /\ s \in ForwardPrefixes
    BY <1>1, <1>6, PresetChains DEF ChainPrefixes
  <2>2. \A i \in {2, 3, 4, 7} : i < j => PresetRules[i] \in ToSet(s)
    BY <2>1, PresetChains
  <2> HIDE DEF s
  <2> DEFINE a == PresetRules[2]
             b == PresetRules[3]
             c == PresetRules[4]
             d == PresetRules[7]
             x == PresetRules[j]
  <2>3. x \in {a, b, c, d}
    BY <1>6
  <2>4. /\ x = b => a \in ToSet(s)
        /\ x = c => {a, b} \subseteq ToSet(s)
        /\ x = d => {a, b, c} \subseteq ToSet(s)
    <3>1. (x = b <=> j = 3) /\ (x = c <=> j = 4) /\ (x = d <=> j = 7)
      BY <1>6, RulesDistinct
    <3> QED
      BY <2>2, <3>1
  <2>5. a # b /\ a # c /\ a # d /\ b # c /\ b # d /\ c # d
    BY RulesDistinct
  <2>6. ForwardPrefixes = PrefixesOf(a, b, c, d)
    BY DEF ForwardPrefixes
  <2>7. s \in PrefixesOf(a, b, c, d)
    BY <2>1, <2>6
  <2> HIDE DEF a, b, c, d, x
  <2>8. Ensured(s, x) \in PrefixesOf(a, b, c, d) /\ ToSet(Ensured(s, x)) = ToSet(s) \cup {x}
    BY <2>3, <2>4, <2>5, <2>7, EnsuredFour
  <2>9. ChainPrefixes("CICCNI-FORWARD") = ForwardPrefixes
    BY DEF ChainPrefixes
  <2> QED
    BY <2>1, <2>6, <2>8, <2>9 DEF x, s
<1> QED
  BY <1>3, <1>4, <1>5, <1>6
LEMMA RuleInit == Init => RuleInv
<1> SUFFICES ASSUME Init
             PROVE  RuleInv
  OBVIOUS
<1>1. chains = EmptyChains /\ ensured = 0
  BY DEF Init
<1>2. pc = "down"
  BY Zenon DEF Init, Agent!Init
<1>3. DOMAIN chains = BuiltIn /\ \A c \in BuiltIn : chains[c] = <<>>
  BY <1>1 DEF EmptyChains
<1>4. ChainsInOrder
  BY <1>3, PresetChains DEF ChainsInOrder, BuiltIn, ChainPrefixes
<1>5. RulesThere
  BY <1>1, <1>2 DEF RulesThere, AfterRules
<1> QED
  BY <1>1, <1>4, <1>5 DEF RuleInv

LEMMA RuleEnsure == RuleInv /\ EnsureNext => RuleInv'
<1> SUFFICES ASSUME RuleInv, EnsureNext
             PROVE  RuleInv'
  OBVIOUS
<1>1. pc = "rules" /\ pc' = pc /\ ensured' = ensured + 1 /\ ensured < 14 /\ ensured \in 0 .. 14
  BY Preset DEF EnsureNext, agentVars, RuleInv
<1>2. pc \notin AfterRules
  BY <1>1 DEF AfterRules
<1>3. CASE ensured < 7
  <2> DEFINE i == ensured + 1
             c == PresetRules[i].chain
  <2>1. chains' = EnsureChain(chains, c) /\ i \in 1 .. 7
    BY <1>1, <1>3, Preset DEF EnsureNext
  <2>2. c \in RuleChains
    <3>1. PresetRules[i] \in ToSet(PresetRules)
      BY <2>1, Preset DEF ToSet
    <3> QED
      BY <3>1 DEF RuleChains
  <2>3. /\ DOMAIN chains' = DOMAIN chains \cup {c}
        /\ \A d \in DOMAIN chains : chains'[d] = chains[d]
        /\ c \notin DOMAIN chains => chains'[c] = <<>>
    <3>1. chains' = EnsureChain(chains, c)
      BY <2>1
    <3> HIDE DEF c
    <3>2. /\ DOMAIN EnsureChain(chains, c) = DOMAIN chains \cup {c}
          /\ \A d \in DOMAIN chains : EnsureChain(chains, c)[d] = chains[d]
          /\ c \notin DOMAIN chains => EnsureChain(chains, c)[c] = <<>>
      BY EnsureChainIs
    <3> QED
      BY <3>1, <3>2
  <2>4. <<>> \in ChainPrefixes(c)
    BY DEF ChainPrefixes, ForwardPrefixes, PrefixesOf
  <2>5. ChainsInOrder'
    <3>1. DOMAIN chains' \subseteq RuleChains
      BY <2>2, <2>3 DEF RuleInv, ChainsInOrder
    <3>2. ASSUME NEW d \in DOMAIN chains'
          PROVE  chains'[d] \in ChainPrefixes(d)
      BY <2>3, <2>4 DEF RuleInv, ChainsInOrder
    <3> QED
      BY <3>1, <3>2 DEF ChainsInOrder
  <2>6. RulesThere'
    <3> SUFFICES ASSUME NEW k \in 1 .. 7
                 PROVE  /\ k <= ensured' => PresetRules[k].chain \in DOMAIN chains'
                        /\ ~(k + 7 <= ensured')
      BY <1>1, <1>2 DEF RulesThere
    <3>1. k <= ensured' => k <= ensured \/ k = i
      BY <1>1
    <3>2. k <= ensured => PresetRules[k].chain \in DOMAIN chains
      BY DEF RuleInv, RulesThere
    <3>3. k = i => PresetRules[k].chain = c
      OBVIOUS
    <3>4. ~(k + 7 <= ensured')
      BY <1>1, <1>3
    <3> QED
      BY <2>3, <3>1, <3>2, <3>3, <3>4
  <2> QED
    BY <1>1, <2>5, <2>6 DEF RuleInv
<1>4. CASE ~(ensured < 7)
  <2> DEFINE j == ensured' - 7
             r == PresetRules[j]
  <2>1. chains' = EnsureRule(chains, r) /\ j \in 1 .. 7 /\ ensured' = j + 7
    BY <1>1, <1>4, Preset DEF EnsureNext
  <2>2. \A i \in 1 .. 7 : PresetRules[i].chain \in DOMAIN chains
    BY <1>1, <1>4 DEF RuleInv, RulesThere
  <2>3. \A i \in 1 .. 7 : i < j => PresetRules[i] \in ToSet(chains[PresetRules[i].chain])
    BY <1>1, <2>1 DEF RuleInv, RulesThere
  <2> DEFINE t == Ensured(chains[r.chain], r)
  <2>4. t \in ChainPrefixes(r.chain) /\ ToSet(t) = ToSet(chains[r.chain]) \cup {r}
    BY <2>1, <2>2, <2>3, EnsureInTurn DEF RuleInv
  <2>5. /\ DOMAIN chains' = DOMAIN chains
        /\ \A d \in DOMAIN chains \ {r.chain} : chains'[d] = chains[d]
        /\ chains'[r.chain] = t
    BY <2>1, <2>2, EnsureRuleIs DEF Ensured
  <2>6. ensured' \in 0 .. 14
    BY <1>1
  <2> HIDE DEF t, j
  <2>7. ChainsInOrder'
    BY <2>4, <2>5 DEF RuleInv, ChainsInOrder
  <2>8. RulesThere'
    <3> SUFFICES ASSUME NEW k \in 1 .. 7
                 PROVE  /\ PresetRules[k].chain \in DOMAIN chains'
                        /\ k + 7 <= ensured' =>
                             PresetRules[k] \in ToSet(chains'[PresetRules[k].chain])
      BY <1>1, <1>2 DEF RulesThere
    <3>1. k + 7 <= ensured' => k < j \/ k = j
      BY <2>1
    <3>2. CASE PresetRules[k].chain = r.chain
      BY <2>2, <2>3, <2>4, <2>5, <3>1, <3>2
    <3>3. CASE PresetRules[k].chain # r.chain
      BY <2>2, <2>3, <2>5, <3>1, <3>3
    <3> QED
      BY <3>2, <3>3
  <2> QED
    BY <1>1, <2>6, <2>7, <2>8 DEF RuleInv
<1> QED
  BY <1>3, <1>4

\* Steps that leave the chains.
LEMMA RuleSame ==
  ASSUME RuleInv, chains' = chains, pc' \in AfterRules => pc \in AfterRules,
         ensured' = 0 \/ (ensured' = ensured /\ (pc' = pc \/ ensured = 0))
  PROVE  RuleInv'
<1>1. ChainsInOrder'
  BY DEF RuleInv, ChainsInOrder
<1>2. ensured' \in 0 .. 14 /\ (pc' # "rules" => ensured' = 0)
  BY DEF RuleInv
<1>3. \A i \in 1 .. 7 : i <= ensured' => i <= ensured
  BY DEF RuleInv
<1>4. \A i \in 1 .. 7 : i + 7 <= ensured' => i + 7 <= ensured
  BY DEF RuleInv
<1>5. RulesThere'
  BY <1>3, <1>4 DEF RuleInv, RulesThere
<1> QED
  BY <1>1, <1>2, <1>5 DEF RuleInv

LEMMA RuleStep == RuleInv /\ [Next]_vars => RuleInv'
<1> SUFFICES ASSUME RuleInv, [Next]_vars
             PROVE  RuleInv'
  OBVIOUS
<1>1. CASE HostStep
  <2>1. chains' = chains /\ ensured' = IF pc' = "rules" THEN ensured ELSE 0
    BY <1>1 DEF HostStep
  <2>2. pc' \in AfterRules => pc \in AfterRules
    <3>1. CASE \/ Agent!Start \/ Agent!CreateBridge \/ Agent!LoadNode
               \/ Agent!InitCache \/ Agent!WaitLink \/ Agent!SetAddress \/ Agent!ListNodes
               \/ Agent!SetUpTunnel \/ Agent!SetUpGateway
      BY <3>1 DEF AfterRules, Agent!Start, Agent!CreateBridge, Agent!LoadNode, Agent!InitCache,
         Agent!WaitLink, Agent!SetAddress, Agent!ListNodes, Agent!SetUpTunnel,
         Agent!SetUpGateway, Agent!Goto
    <3>2. CASE Agent!Fail \/ Agent!Crash
      BY <3>2 DEF AfterRules, Agent!Fail, Agent!Crash, Agent!Fails, Agent!WaitLinkFails,
         Agent!InstallBaseFails, Agent!GatewayRefused, Agent!Exit
    <3>3. ASSUME NEW n \in Nodes, Agent!NodeChange(n)
          PROVE  pc' = pc
      BY <3>3 DEF Agent!NodeChange
    <3> QED
      BY <1>1, <3>1, <3>2, <3>3 DEF HostStep
  <2>3. ensured' = 0 \/ (ensured' = ensured /\ (pc' = pc \/ ensured = 0))
    BY <2>1 DEF RuleInv
  <2> QED
    BY <2>1, <2>2, <2>3, RuleSame
<1>2. CASE EnsureNext
  BY <1>2, RuleEnsure
<1>3. CASE RulesDone
  <2>1. ensured = 14 /\ ensured' = 0 /\ chains' = chains /\ pc' = "ports"
    BY <1>3, Preset DEF RulesDone, Agent!SetUpRules, Agent!Goto
  <2>2. ChainsInOrder'
    BY <2>1 DEF RuleInv, ChainsInOrder
  <2>3. \A i \in 1 .. 7 : /\ PresetRules[i].chain \in DOMAIN chains
                          /\ PresetRules[i] \in ToSet(chains[PresetRules[i].chain])
    BY <2>1 DEF RuleInv, RulesThere
  <2>4. RulesThere'
    BY <2>1, <2>3 DEF RulesThere
  <2> QED
    BY <2>1, <2>2, <2>4 DEF RuleInv
<1>4. CASE InstallBase
  <2>1. /\ chains' = chains /\ ensured' = ensured /\ ensured = 0
        /\ pc' \in AfterRules => pc \in AfterRules
    BY <1>4 DEF InstallBase, Agent!Goto, AfterRules, RuleInv
  <2> QED
    BY <2>1, RuleSame
<1>5. CASE InstallBaseFails
  <2>1. /\ chains' = chains /\ ensured' = ensured /\ ensured = 0
        /\ pc' \in AfterRules => pc \in AfterRules
    BY <1>5 DEF InstallBaseFails, Agent!Exit, AfterRules, RuleInv
  <2> QED
    BY <2>1, RuleSame
<1>6. CASE InstallNodes
  <2>1. /\ chains' = chains /\ ensured' = ensured /\ ensured = 0
        /\ pc' \in AfterRules => pc \in AfterRules
    BY <1>6 DEF InstallNodes, Agent!Goto, AfterRules, RuleInv
  <2> QED
    BY <2>1, RuleSame
<1>7. ASSUME NEW p \in Pods,
             \/ PlugPod(p) \/ InstallDns(p) \/ PlugDone(p) \/ PlugFails(p)
             \/ UnplugPod(p) \/ UnplugDone(p)
      PROVE  RuleInv'
  <2>1. chains' = chains /\ ensured' = ensured /\ pc' = pc
    BY <1>7 DEF PlugPod, InstallDns, PlugDone, PlugFails, UnplugPod, UnplugDone,
       Agent!PlugPod, Agent!PlugDone, Agent!UnplugPod, Agent!UnplugDone, Agent!Call,
       agentVars
  <2> QED
    BY <2>1, RuleSame
<1>8. CASE DeleteBridge
  <2>1. pc = "down" /\ pc' = "down" /\ ensured' = ensured /\ chains' \in {chains, EmptyChains}
    BY <1>8, Zenon DEF DeleteBridge, Agent!DeleteBridge
  <2>2. ensured = 0
    BY <2>1 DEF RuleInv
  <2>3. CASE chains' = chains
    BY <2>1, <2>3, RuleSame
  <2>4. CASE chains' = EmptyChains
    <3>1. DOMAIN chains' = BuiltIn /\ \A c \in BuiltIn : chains'[c] = <<>>
      BY <2>4 DEF EmptyChains
    <3>2. ChainsInOrder'
      BY <3>1, PresetChains DEF ChainsInOrder, BuiltIn, ChainPrefixes
    <3>3. RulesThere'
      BY <2>1, <2>2 DEF RulesThere, AfterRules
    <3> QED
      BY <2>1, <2>2, <3>2, <3>3 DEF RuleInv
  <2> QED
    BY <2>1, <2>3, <2>4
<1>9. CASE UNCHANGED vars
  <2>1. chains' = chains /\ ensured' = ensured /\ pc' = pc
    BY <1>9 DEF vars, agentVars
  <2> QED
    BY <2>1, RuleSame
<1> QED
  BY <1>1, <1>2, <1>3, <1>4, <1>5, <1>6, <1>7, <1>8, <1>9 DEF Next
\* The chains of a serving agent's host are complete.
LEMMA AllRules ==
  ASSUME RuleInv, pc = "serving"
  PROVE  /\ RuleChains \subseteq DOMAIN chains
         /\ chains["FORWARD"] = <<PresetRules[1]>>
         /\ chains["POSTROUTING"] = <<PresetRules[5]>>
         /\ chains["CICCNI-POSTROUTING"] = <<PresetRules[6]>>
         /\ chains["CICCNI-FORWARD"] =
              <<PresetRules[2], PresetRules[3], PresetRules[4], PresetRules[7]>>
<1>1. \A i \in 1 .. 7 : /\ PresetRules[i].chain \in DOMAIN chains
                        /\ PresetRules[i] \in ToSet(chains[PresetRules[i].chain])
  BY DEF RuleInv, RulesThere, AfterRules
<1>2. /\ PresetRules[1].chain \in DOMAIN chains
      /\ PresetRules[1] \in ToSet(chains[PresetRules[1].chain])
      /\ PresetRules[5].chain \in DOMAIN chains
      /\ PresetRules[5] \in ToSet(chains[PresetRules[5].chain])
      /\ PresetRules[6].chain \in DOMAIN chains
      /\ PresetRules[6] \in ToSet(chains[PresetRules[6].chain])
      /\ PresetRules[7].chain \in DOMAIN chains
      /\ PresetRules[7] \in ToSet(chains[PresetRules[7].chain])
  BY <1>1
<1>3. \A c \in DOMAIN chains : chains[c] \in ChainPrefixes(c)
  BY DEF RuleInv, ChainsInOrder
<1>4. chains["FORWARD"] = <<PresetRules[1]>>
  <2>1. chains["FORWARD"] \in {<<>>, <<PresetRules[1]>>}
    BY <1>2, <1>3, PresetChains DEF ChainPrefixes
  <2>2. PresetRules[1] \in ToSet(chains["FORWARD"])
    BY <1>2, PresetChains
  <2>3. ToSet(<<>>) = {}
    BY SmallToSet
  <2> QED
    BY <2>1, <2>2, <2>3
<1>5. chains["POSTROUTING"] = <<PresetRules[5]>>
  <2>1. chains["POSTROUTING"] \in {<<>>, <<PresetRules[5]>>}
    BY <1>2, <1>3, PresetChains DEF ChainPrefixes
  <2>2. PresetRules[5] \in ToSet(chains["POSTROUTING"])
    BY <1>2, PresetChains
  <2>3. ToSet(<<>>) = {}
    BY SmallToSet
  <2> QED
    BY <2>1, <2>2, <2>3
<1>6. chains["CICCNI-POSTROUTING"] = <<PresetRules[6]>>
  <2>1. chains["CICCNI-POSTROUTING"] \in {<<>>, <<PresetRules[6]>>}
    BY <1>2, <1>3, PresetChains DEF ChainPrefixes
  <2>2. PresetRules[6] \in ToSet(chains["CICCNI-POSTROUTING"])
    BY <1>2, PresetChains
  <2>3. ToSet(<<>>) = {}
    BY SmallToSet
  <2> QED
    BY <2>1, <2>2, <2>3
<1>7. chains["CICCNI-FORWARD"] =
        <<PresetRules[2], PresetRules[3], PresetRules[4], PresetRules[7]>>
  <2> DEFINE a == PresetRules[2]
             b == PresetRules[3]
             c == PresetRules[4]
             d == PresetRules[7]
             s == chains["CICCNI-FORWARD"]
  <2>1. s \in PrefixesOf(a, b, c, d)
    BY <1>2, <1>3, PresetChains DEF ChainPrefixes, ForwardPrefixes
  <2>2. d \in ToSet(s)
    BY <1>2, PresetChains
  <2>3. d \notin {a, b, c}
    BY RulesDistinct
  <2>4. /\ ToSet(<<>>) = {} /\ ToSet(<<a>>) = {a} /\ ToSet(<<a, b>>) = {a, b}
        /\ ToSet(<<a, b, c>>) = {a, b, c}
    BY SmallToSet
  <2> HIDE DEF a, b, c, d, s
  <2>5. s \in {<<>>, <<a>>, <<a, b>>, <<a, b, c>>, <<a, b, c, d>>}
    BY <2>1 DEF PrefixesOf
  <2>6. s = <<a, b, c, d>>
    BY <2>2, <2>3, <2>4, <2>5
  <2> QED
    BY <2>6 DEF a, b, c, d, s
<1>8. RuleChains \subseteq DOMAIN chains
  BY <1>2, PresetChains
<1> QED
  BY <1>4, <1>5, <1>6, <1>7, <1>8

\* Which rule of CICCNI-FORWARD a path meets.
LEMMA MeetsAll ==
  ASSUME RuleInv, pc = "serving", NEW path \in Paths
  PROVE  /\ Meets(chains, path, "ACCEPT")
         /\ Meets(chains, path, "MARK") <=> path \in Outward
<1> DEFINE rules == chains["CICCNI-FORWARD"]
<1>1. Jumps(chains, "FORWARD", "CICCNI-FORWARD")
  <2>1. PresetRules[1].target = "CICCNI-FORWARD"
    BY Preset DEF Rule
  <2>2. ToSet(chains["FORWARD"]) = {PresetRules[1]}
    BY AllRules, SmallToSet
  <2>3. "CICCNI-FORWARD" \in DOMAIN chains
    BY AllRules, PresetChains
  <2> QED
    BY <2>1, <2>2, <2>3 DEF Jumps
<1>2. DOMAIN rules = {1, 2, 3, 4}
  <2>1. rules = <<PresetRules[2], PresetRules[3], PresetRules[4], PresetRules[7]>>
    BY AllRules
  <2>2. 1 .. 4 = {1, 2, 3, 4}
    OBVIOUS
  <2> QED
    BY <2>1, <2>2
<1>3. /\ rules[1] = PresetRules[2] /\ rules[2] = PresetRules[3]
      /\ rules[3] = PresetRules[4] /\ rules[4] = PresetRules[7]
  BY AllRules
<1>4. PresetRules[2].target = "MARK" /\ PresetRules[3].target = "ACCEPT"
      /\ PresetRules[4].target = "ACCEPT" /\ PresetRules[7].target = "ACCEPT"
  BY Preset DEF Rule
<1>5. PresetRules[2].paths = Outward /\ PresetRules[3].paths = Outward
      /\ PresetRules[4].paths = Inward /\ PresetRules[7].paths = Paths
  BY Preset DEF Rule
<1>6. \A t : Meets(chains, path, t) <=>
        \E i \in DOMAIN rules :
           /\ rules[i].target = t /\ path \in rules[i].paths
           /\ \A j \in 1 .. i - 1 :
                ~(rules[j].target = "ACCEPT" /\ path \in rules[j].paths)
  BY <1>1 DEF Meets
<1>7. 1 .. 0 = {} /\ 1 .. 1 = {1} /\ 1 .. 2 = {1, 2} /\ 1 .. 3 = {1, 2, 3}
  OBVIOUS
<1> HIDE DEF rules
<1>8. rules[1].target = "MARK" /\ rules[2].target = "ACCEPT"
      /\ rules[3].target = "ACCEPT" /\ rules[4].target = "ACCEPT"
      /\ rules[1].paths = Outward /\ rules[2].paths = Outward
      /\ rules[3].paths = Inward /\ rules[4].paths = Paths
  BY <1>3, <1>4, <1>5
<1>9. Meets(chains, path, "MARK") <=> path \in Outward
  <2>1. ASSUME path \in Outward
        PROVE  Meets(chains, path, "MARK")
    <3>1. 1 \in DOMAIN rules /\ \A j \in 1 .. 1 - 1 : FALSE
      BY <1>2
    <3> QED
      BY <2>1, <1>6, <1>8, <3>1
  <2>2. ASSUME Meets(chains, path, "MARK")
        PROVE  path \in Outward
    <3>1. PICK i \in {1, 2, 3, 4} : rules[i].target = "MARK" /\ path \in rules[i].paths
      BY <2>2, <1>2, <1>6
    <3> QED
      BY <3>1, <1>8
  <2> QED
    BY <2>1, <2>2
<1>10. Meets(chains, path, "ACCEPT")
  <2>1. CASE path \in Outward
    <3>1. 2 \in DOMAIN rules /\ \A j \in 1 .. 2 - 1 : j = 1
      BY <1>2
    <3>2. \A j \in 1 .. 2 - 1 : ~(rules[j].target = "ACCEPT" /\ path \in rules[j].paths)
      BY <3>1, <1>8
    <3> QED
      BY <2>1, <1>6, <1>8, <3>1, <3>2
  <2>2. CASE path \notin Outward /\ path \in Inward
    <3>1. 3 \in DOMAIN rules /\ \A j \in 1 .. 3 - 1 : j = 1 \/ j = 2
      BY <1>2
    <3>2. \A j \in 1 .. 3 - 1 : ~(rules[j].target = "ACCEPT" /\ path \in rules[j].paths)
      BY <3>1, <1>8, <2>2
    <3> QED
      BY <2>2, <1>6, <1>8, <3>1, <3>2
  <2>3. CASE path \notin Outward /\ path \notin Inward
    <3>1. 4 \in DOMAIN rules /\ \A j \in 1 .. 4 - 1 : j = 1 \/ j = 2 \/ j = 3
      BY <1>2
    <3>2. \A j \in 1 .. 4 - 1 : ~(rules[j].target = "ACCEPT" /\ path \in rules[j].paths)
      BY <3>1, <1>8, <2>3
    <3> QED
      BY <2>3, <1>6, <1>8, <3>1, <3>2
  <2> QED
    BY <2>1, <2>2, <2>3
<1> QED
  BY <1>9, <1>10

LEMMA PodToExternalHolds == RuleInv => PodToExternal
<1> SUFFICES ASSUME RuleInv, pc = "serving", NEW path \in Paths
             PROVE  /\ Accepted(chains, path)
                    /\ Masqueraded(chains, path) <=> path \in Outward
  BY Hops DEF PodToExternal
<1>1. Accepted(chains, path)
  BY MeetsAll DEF Accepted
<1>2. ToSet(chains["CICCNI-POSTROUTING"]) = {PresetRules[6]}
  BY AllRules, SmallToSet
<1>3. PresetRules[6].target = "MASQUERADE" /\ PresetRules[6].marked
  BY Preset DEF Rule
<1>4. Jumps(chains, "POSTROUTING", "CICCNI-POSTROUTING")
  <2>1. PresetRules[5].target = "CICCNI-POSTROUTING"
    BY Preset DEF Rule
  <2>2. ToSet(chains["POSTROUTING"]) = {PresetRules[5]}
    BY AllRules, SmallToSet
  <2>3. "CICCNI-POSTROUTING" \in DOMAIN chains
    BY AllRules, PresetChains
  <2> QED
    BY <2>1, <2>2, <2>3 DEF Jumps
<1>5. Masqueraded(chains, path) <=> Meets(chains, path, "MARK")
  BY <1>2, <1>3, <1>4 DEF Masqueraded
<1> QED
  BY <1>1, <1>5, MeetsAll
-----------------------------------------------------------------------------
(* The start of the agent, as AgentInit has it.                            *)

LEMMA FourFlows == IsFiniteSet(Basics) /\ Cardinality(Basics) = 4
<1> DEFINE A == {ForwardDefault}
           B == A \cup {SNATDefault}
           C == B \cup {ClassifierDefault}
           D == C \cup {ArpNormal}
<1>1. IsFiniteSet(A) /\ Cardinality(A) = 1
  BY FS_Singleton
<1>2. SNATDefault \notin A /\ ClassifierDefault \notin B /\ ArpNormal \notin C
  BY BasicsDistinct
<1>3. IsFiniteSet(B) /\ Cardinality(B) = 2
  BY <1>1, <1>2, FS_AddElement
<1>4. IsFiniteSet(C) /\ Cardinality(C) = 3
  BY <1>2, <1>3, FS_AddElement
<1>5. IsFiniteSet(D) /\ Cardinality(D) = 4
  BY <1>2, <1>4, FS_AddElement
<1>6. Basics = D
  BY DEF Basics
<1> HIDE DEF D
<1> QED
  BY <1>5, <1>6

\* The number of basic flows there are, of which AgentInit speaks.
Count(F) == Cardinality(ToSet(BasicFlows) \cap F)

LEMMA CountIs ==
  ASSUME NEW F
  PROVE  /\ Count(F) \in 0 .. 4
         /\ Count(F) = 4 <=> Basics \subseteq F
<1>1. ToSet(BasicFlows) = Basics
  BY BasicSet DEF Basics
<1>2. Basics \cap F \subseteq Basics
  OBVIOUS
<1>3. IsFiniteSet(Basics \cap F) /\ Cardinality(Basics \cap F) <= 4
      /\ (Cardinality(Basics \cap F) = 4 => Basics \cap F = Basics)
  BY <1>2, FourFlows, FS_Subset
<1>4. Cardinality(Basics \cap F) \in Nat
  BY <1>3, FS_CardinalityType
<1>5. Basics \subseteq F => Basics \cap F = Basics
  OBVIOUS
<1> QED
  BY SMTT(30), <1>1, <1>3, <1>4, <1>5, FourFlows DEF Count

LEMMA CountMonotone ==
  ASSUME NEW F, NEW G, Basics \cap F \subseteq G
  PROVE  Count(F) <= Count(G)
<1>1. ToSet(BasicFlows) = Basics
  BY BasicSet DEF Basics
<1>2. IsFiniteSet(Basics \cap G)
  BY FourFlows, FS_Subset
<1>3. Basics \cap F \subseteq Basics \cap G
  OBVIOUS
<1> QED
  BY <1>1, <1>2, <1>3, FS_Subset DEF Count

LEMMA CountSame ==
  ASSUME NEW F, NEW G, \A f \in Basics : f \in F <=> f \in G
  PROVE  Count(F) = Count(G)
<1>1. ToSet(BasicFlows) = Basics
  BY BasicSet DEF Basics
<1>2. Basics \cap F = Basics \cap G
  OBVIOUS
<1> QED
  BY <1>1, <1>2 DEF Count

LEMMA CountNone == Count({}) = 0
<1>1. ToSet(BasicFlows) \cap {} = {}
  OBVIOUS
<1> QED
  BY <1>1, FS_EmptySet DEF Count

\* The abstract state of the switch, for any flows.
Tunnels(F) == {n \in Nodes : TunFlow(n) \in F}
ArpOf(F) == UNION {f.action.outputs : f \in {g \in F : g.match.kind = {"arpRequest"}}}

LEMMA AgentTypeOK == AgentTypes /\ FlowInv => Agent!TypeOK
<1> SUFFICES ASSUME AgentTypes, FlowInv
             PROVE  Agent!TypeOK
  OBVIOUS
<1>1. Cardinality(ToSet(BasicFlows) \cap flows) \in 0 .. 4
  BY CountIs DEF Count
<1>2. ArpTargets \subseteq Nodes
  BY ArpTarget
<1>3. {n \in Nodes : TunFlow(n) \in flows} \subseteq Nodes
  OBVIOUS
<1> QED
  BY <1>1, <1>2, <1>3 DEF AgentTypes, Agent!TypeOK, Agent!BaseFlows, Agent!Tun,
     Agent!Gw, Tun, Gw

LEMMA FlowTypes == FlowInv => 
  \A f \in flows :
       /\ f.table \in {Classifier, ClusterForward, CoreDnsSNAT}
       /\ f.priority \in {Normal, Low, Miss}
       /\ Within(f.match, AnyPacket)
       /\ f.action.outputs \subseteq Nodes \cup {Untunnelled}
<1> SUFFICES ASSUME FlowInv, NEW f \in flows
             PROVE  /\ Within(f.match, AnyPacket)
                    /\ f.action.outputs \subseteq Nodes \cup {Untunnelled}
  BY ByPriority DEF FlowInv, FlowsKnown
<1>0. f \in KnownFlows
  BY DEF FlowInv, FlowsKnown
<1>1. AnyPacket.in = InPorts /\ AnyPacket.kind = Kinds /\ AnyPacket.dst = Dests
  BY DEF AnyPacket
<1>2. "local" \in Dests /\ Nodes \subseteq Dests /\ IPKinds \subseteq Kinds
      /\ ArpKinds \subseteq Kinds /\ "dns" \in Kinds /\ Numbers \subseteq InPorts
  BY NamesAssumption DEF Dests, Kinds, IPKinds, ArpKinds, InPorts
<1>3. CASE f \in Basics
  <2>1. CASE f = ArpNormal
    BY <1>1, <1>2, <2>1, BaseFields, ActionFields DEF Within
  <2>2. CASE f \in Basics \ {ArpNormal}
    <3>1. f.match = AnyPacket
      BY <2>2, BaseFields DEF Basics
    <3>2. f.action.outputs \in {{}, {Untunnelled}}
      BY <2>2, BaseFields, ActionFields DEF Basics
    <3> QED
      BY <3>1, <3>2 DEF Within
  <2> QED
    BY <1>3, <2>1, <2>2
<1>4. CASE f = LocalFlow
  <2>1. f.match.in = InPorts /\ f.match.kind = IPKinds /\ f.match.dst = {"local"}
        /\ f.action.outputs = {Untunnelled}
    BY <1>4, NodeFields, ActionFields
  <2> QED
    BY <1>1, <1>2, <2>1 DEF Within
<1>5. CASE \E n \in Nodes : f = TunFlow(n)
  <2>1. PICK n \in Nodes : f = TunFlow(n)
    BY <1>5
  <2>2. f.match.in = InPorts /\ f.match.kind = IPKinds /\ f.match.dst = {n}
        /\ f.action.outputs = {n}
    BY ZenonT(40), <2>1, NodeFields, ActionFields
  <2> QED
    BY <1>1, <1>2, <2>2 DEF Within
<1>6. CASE f \in ArpFlowSet
  <2>1. PICK k \in ArpKinds, ns \in (SUBSET Nodes) \ {{}} : f = ArpToNodes(k, ns)
    BY <1>6 DEF ArpFlowSet
  <2> QED
    BY <1>1, <1>2, <2>1, NodeFields, ActionFields DEF Within
<1>7. CASE \E p \in Numbers : f = DnsClassifier(p) \/ f = DnsSNAT(p)
  <2>1. PICK p \in Numbers : f = DnsClassifier(p) \/ f = DnsSNAT(p)
    BY <1>7
  <2>2. f.match.in = {p} /\ f.match.kind \subseteq Kinds /\ f.match.dst = Dests
        /\ f.action.outputs = {}
    BY <1>2, <2>1, DnsFields, ActionFields
  <2> QED
    BY <1>1, <1>2, <2>2 DEF Within
<1>8. f \in Basics \/ f \in ToNodes \/ \E p \in Numbers : f = DnsClassifier(p) \/ f = DnsSNAT(p)
  BY <1>0 DEF KnownFlows, Basics
<1>9. f \in ToNodes => f = LocalFlow \/ (\E n \in Nodes : f = TunFlow(n)) \/ f \in ArpFlowSet
  BY DEF ToNodes, ArpFlowSet
<1> QED
  BY <1>3, <1>4, <1>5, <1>6, <1>7, <1>8, <1>9

LEMMA ChainTypes == RuleInv =>
  /\ DOMAIN chains \subseteq RuleChains
  /\ \A c \in DOMAIN chains : ToSet(chains[c]) \subseteq ToSet(PresetRules)
<1> SUFFICES ASSUME RuleInv, NEW c \in DOMAIN chains
             PROVE  ToSet(chains[c]) \subseteq ToSet(PresetRules)
  BY DEF RuleInv, ChainsInOrder
<1>1. \A i \in 1 .. 7 : PresetRules[i] \in ToSet(PresetRules)
  BY Preset DEF ToSet
<1>2. /\ PresetRules[1] \in ToSet(PresetRules) /\ PresetRules[2] \in ToSet(PresetRules)
      /\ PresetRules[3] \in ToSet(PresetRules) /\ PresetRules[4] \in ToSet(PresetRules)
      /\ PresetRules[5] \in ToSet(PresetRules) /\ PresetRules[6] \in ToSet(PresetRules)
      /\ PresetRules[7] \in ToSet(PresetRules)
  BY <1>1
<1>3. chains[c] \in ChainPrefixes(c)
  BY DEF RuleInv, ChainsInOrder
<1>4. \A s \in ChainPrefixes(c) : ToSet(s) \subseteq ToSet(PresetRules)
  BY <1>2, SmallToSet DEF ChainPrefixes, ForwardPrefixes, PrefixesOf
<1> QED
  BY <1>3, <1>4
-----------------------------------------------------------------------------
(* What AgentInit counts, before and after the commands.                   *)

LEMMA TunApart ==
  ASSUME NEW n
  PROVE  /\ TunFlow(n) \notin Basics
         /\ \A p \in Numbers : TunFlow(n) \notin {DnsClassifier(p), DnsSNAT(p)}
         /\ \A m : TunFlow(n) = TunFlow(m) => n = m
         /\ \A k \in ArpKinds : \A ns : TunFlow(n) # ArpToNodes(k, ns)
<1>1. TunFlow(n).priority = Normal /\ TunFlow(n).table = ClusterForward
      /\ TunFlow(n).match.kind = IPKinds
  BY NodeFields
<1>2. \A f \in Basics : f.priority # Normal
  BY BaseFields DEF Basics, Normal, Low, Miss
<1>3. \A p : DnsClassifier(p).table # ClusterForward /\ DnsSNAT(p).table # ClusterForward
  BY DnsFields DEF Classifier, CoreDnsSNAT, ClusterForward
<1>4. \A m : TunFlow(m).match.dst = {m}
  BY NodeFields
<1>5. \A m : TunFlow(n) = TunFlow(m) => n = m
  <2> SUFFICES ASSUME NEW m, TunFlow(n) = TunFlow(m)
               PROVE  n = m
    OBVIOUS
  <2>1. {n} = {m}
    BY <1>4
  <2> QED
    BY <2>1
<1>6. \A k \in ArpKinds : \A ns : ArpToNodes(k, ns).match.kind = {k} /\ {k} # IPKinds
  BY NodeFields DEF IPKinds, ArpKinds
<1> QED
  BY <1>1, <1>2, <1>3, <1>5, <1>6

\* Two sets of known flows with the same flow for ARP requests.
LEMMA ArpSame ==
  ASSUME NEW F, NEW G,
         \A f : f.match.kind = {"arpRequest"} => (f \in F <=> f \in G)
  PROVE  ArpOf(F) = ArpOf(G)
BY DEF ArpOf

LEMMA DnsNotArp ==
  \A p : \A f \in {DnsClassifier(p), DnsSNAT(p)} : f.match.kind # {"arpRequest"}
<1>1. "dns" \in Kinds /\ "dns" # "arpRequest"
  BY DEF Kinds, IPKinds
<1>2. \A p : "dns" \in DnsClassifier(p).match.kind /\ "dns" \in DnsSNAT(p).match.kind
  BY <1>1, DnsFields
<1> QED
  BY <1>1, <1>2

LEMMA BasicsNotArp == \A f \in Basics : f.match.kind # {"arpRequest"}
BY BaseFields DEF Basics, AnyPacket, Kinds, IPKinds, ArpKinds

\* A command about flows that are not for ARP leaves the flow for ARP requests.
LEMMA ArpUntouched ==
  ASSUME FlowInv, NEW fs \in SUBSET KnownFlows,
         \A f \in fs : f.match.kind # {"arpRequest"}
  PROVE  ArpOf(AddFlows(flows, fs)) = ArpOf(flows)
<1>1. ASSUME NEW f, f.match.kind = {"arpRequest"}
      PROVE  f \in AddFlows(flows, fs) <=> f \in flows
  BY <1>1 DEF AddFlows
<1> QED
  BY <1>1, ArpSame

\* Commands about a CoreDNS pod's flows leave what AgentInit counts.
LEMMA DnsLeavesCounts ==
  ASSUME FlowInv, NEW p \in Numbers, NEW fs \in SUBSET {DnsClassifier(p), DnsSNAT(p)},
         NEW gs \in SUBSET {DnsClassifier(p), DnsSNAT(p)},
         NEW F, F = AddFlows(flows, fs) \ gs
  PROVE  /\ Count(F) = Count(flows)
         /\ Tunnels(F) = Tunnels(flows)
         /\ ArpOf(F) = ArpOf(flows)
<1>1. /\ fs \subseteq KnownFlows /\ fs \cap Basics = {} /\ fs \cap ArpFlowSet = {}
      /\ gs \cap Basics = {}
  BY DnsAdded
<1>2. \A f \in KnownFlows \ ArpFlowSet : f \in AddFlows(flows, fs) <=> f \in flows \cup fs
  BY <1>1, FlowAddState
<1>3. \A f \in Basics : f \in F <=> f \in flows
  BY <1>1, <1>2, KnownParts
<1>4. \A n \in Nodes : TunFlow(n) \in F <=> TunFlow(n) \in flows
  BY <1>2, KnownParts, TunApart
<1>5. ArpOf(AddFlows(flows, fs)) = ArpOf(flows)
  BY <1>1, DnsNotArp, ArpUntouched
<1>6. ArpOf(F) = ArpOf(AddFlows(flows, fs))
  BY DnsNotArp, ArpSame
<1> QED
  BY <1>3, <1>4, <1>5, <1>6, CountSame DEF Tunnels
LEMMA BasicsNotTun == \A n : TunFlow(n) \notin Basics
BY TunApart

\* Sending the basic flows, all or the first of them, leaves the rest.
LEMMA BasicsLeaveNodes ==
  ASSUME FlowInv, NEW fs \in SUBSET Basics
  PROVE  /\ Tunnels(AddFlows(flows, fs)) = Tunnels(flows)
         /\ ArpOf(AddFlows(flows, fs)) = ArpOf(flows)
         /\ \A f \in Basics : f \in AddFlows(flows, fs) <=> f \in flows \cup fs
<1>1. fs \subseteq KnownFlows /\ fs \cap ArpFlowSet = {}
  BY KnownParts
<1>2. \A f \in KnownFlows \ ArpFlowSet : f \in AddFlows(flows, fs) <=> f \in flows \cup fs
  BY <1>1, FlowAddState
<1>3. \A n \in Nodes : TunFlow(n) \in AddFlows(flows, fs) <=> TunFlow(n) \in flows
  BY <1>2, KnownParts, BasicsNotTun
<1>4. ArpOf(AddFlows(flows, fs)) = ArpOf(flows)
  BY <1>1, BasicsNotArp, ArpUntouched
<1> QED
  BY <1>2, <1>3, <1>4, KnownParts DEF Tunnels

LEMMA InstallBaseImplements == FlowInv /\ InstallBase => Agent!InstallBase
<1> SUFFICES ASSUME FlowInv, InstallBase
             PROVE  Agent!InstallBase
  OBVIOUS
<1>1. ToSet(BasicFlows) = Basics
  BY BasicSet DEF Basics
<1>2. flows' = AddFlows(flows, Basics)
  BY <1>1 DEF InstallBase
<1>3. Basics \subseteq flows'
  BY <1>2, BasicsLeaveNodes
<1>4. Count(flows)' = 4
  BY <1>3, CountIs
<1>5. Tunnels(flows)' = Tunnels(flows) /\ ArpOf(flows)' = ArpOf(flows)
  BY <1>2, BasicsLeaveNodes
<1>6. /\ Cardinality(ToSet(BasicFlows) \cap flows)' = Agent!BaseFlows
      /\ {n \in Nodes : TunFlow(n) \in flows}' = {n \in Nodes : TunFlow(n) \in flows}
      /\ ArpTargets' = ArpTargets
  BY <1>4, <1>5 DEF Count, Tunnels, ArpOf, ArpTargets, Agent!BaseFlows
<1> QED
  BY <1>6 DEF InstallBase, Agent!InstallBase, Agent!memory

LEMMA InstallBaseFailsImplements ==
  FlowInv /\ InstallBaseFails => Agent!InstallBaseFails
<1> SUFFICES ASSUME FlowInv, InstallBaseFails
             PROVE  Agent!InstallBaseFails
  OBVIOUS
<1>1. PICK k \in 0 .. Len(BasicFlows) - 1 :
        flows' = AddFlows(flows, Sent(BasicFlows, k))
  BY DEF InstallBaseFails
<1> DEFINE fs == Sent(BasicFlows, k)
<1>2. fs \subseteq Basics \ {ForwardDefault}
  BY SentBasic, BasicsDistinct DEF Basics
<1>3. flows' = AddFlows(flows, fs)
  BY <1>1
<1> HIDE DEF fs
<1>4. /\ Tunnels(flows)' = Tunnels(flows) /\ ArpOf(flows)' = ArpOf(flows)
      /\ \A f \in Basics : f \in flows' <=> f \in flows \cup fs
  BY <1>2, <1>3, BasicsLeaveNodes
<1>5. Count(flows) <= Count(flows')
  BY <1>4, CountMonotone
<1>6. Count(flows) \in 0 .. 4 /\ Count(flows') \in 0 .. 4
  BY CountIs
<1>7. Count(flows) # 4 => Count(flows') # 4
  <2>1. ASSUME Basics \subseteq flows'
        PROVE  Basics \subseteq flows
    <3>1. ForwardDefault \in flows
      BY <1>2, <1>4, <2>1 DEF Basics
    <3> QED
      BY <3>1 DEF FlowInv, BasicInOrder, Basics
  <2> QED
    BY <2>1, CountIs
<1>8. Count(flows') \in Count(flows) .. IF Count(flows) = 4 THEN Count(flows) ELSE 4 - 1
  <2>1. CASE Count(flows) = 4
    BY <1>5, <1>6, <2>1
  <2>2. CASE Count(flows) # 4
    BY <1>5, <1>6, <1>7, <2>2
  <2> QED
    BY <2>1, <2>2
<1>9. /\ Cardinality(ToSet(BasicFlows) \cap flows)' \in
           Cardinality(ToSet(BasicFlows) \cap flows) ..
             IF Cardinality(ToSet(BasicFlows) \cap flows) = Agent!BaseFlows
             THEN Cardinality(ToSet(BasicFlows) \cap flows) ELSE Agent!BaseFlows - 1
      /\ {n \in Nodes : TunFlow(n) \in flows}' = {n \in Nodes : TunFlow(n) \in flows}
      /\ ArpTargets' = ArpTargets
  BY <1>4, <1>8 DEF Count, Tunnels, ArpOf, ArpTargets, Agent!BaseFlows
<1> QED
  BY <1>9 DEF InstallBaseFails, Agent!InstallBaseFails

LEMMA InstallNodesImplements ==
  AgentTypes /\ FlowInv /\ InstallNodes => Agent!InstallNodes
<1> SUFFICES ASSUME AgentTypes, FlowInv, InstallNodes
             PROVE  Agent!InstallNodes
  OBVIOUS
<1>1. PICK k \in 0 .. Len(ArpFlows), fs \in SUBSET SubnetFlows :
        /\ "switch" \notin Faults => k = Len(ArpFlows) /\ fs = SubnetFlows
        /\ flows' = AddFlows(flows, Sent(ArpFlows, k) \cup fs)
  BY DEF InstallNodes
<1> DEFINE sent == Sent(ArpFlows, k) \cup fs
<1>2. /\ sent \subseteq KnownFlows
      /\ \A f \in sent \cap ArpFlowSet, g \in sent \cap ArpFlowSet :
           f.match = g.match => f = g
  BY NodeFlowsSent
<1>3. sent \cap Basics = {}
  <2>1. sent \subseteq ToNodes
    BY NodeFlowsToNodes
  <2> HIDE DEF sent
  <2> QED
    BY <2>1, BasicsNotToNodes
<1>4. flows' = AddFlows(flows, sent)
  BY <1>1
<1>5. /\ FlowsKnown' /\ OnePerMatch(flows)'
      /\ \A f \in KnownFlows \ ArpFlowSet : f \in flows' <=> f \in flows \cup sent
  <2> HIDE DEF sent
  <2> QED
    BY <1>2, <1>4, FlowAdd
<1>6. Count(flows') = Count(flows)
  <2> HIDE DEF sent
  <2> QED
    BY <1>3, <1>5, KnownParts, CountSame
<1>7. Tunnels(flows') = Tunnels(flows) \cup {n \in known : TunFlow(n) \in fs}
  <2>1. ASSUME NEW n \in Nodes
        PROVE  TunFlow(n) \in sent <=> n \in known /\ TunFlow(n) \in fs
    <3>1. TunFlow(n) \notin Sent(ArpFlows, k)
      <4>1. Sent(ArpFlows, k) \subseteq
              {ArpToNodes("arpRequest", known), ArpToNodes("arpReply", known)}
        BY SentArp
      <4> QED
        BY <4>1, TunApart DEF ArpKinds
    <3>2. TunFlow(n) \in SubnetFlows => n \in known
      <4>1. TunFlow(n) # LocalFlow
        <5>1. TunFlow(n).match.dst = {n} /\ LocalFlow.match.dst = {"local"}
          BY NodeFields
        <5> QED
          BY <5>1, NamesAssumption
      <4> QED
        BY <4>1, TunApart DEF SubnetFlows, TunFlows
    <3> QED
      BY <3>1, <3>2
  <2>2. known \subseteq Nodes
    BY DEF AgentTypes
  <2> HIDE DEF sent
  <2> QED
    BY <1>5, <2>1, <2>2, KnownParts DEF Tunnels
<1> DEFINE refused == {n \in known : TunFlow(n) \notin fs}
<1>8. /\ refused \in SUBSET known
      /\ refused # {} => "switch" \in Faults
      /\ Tunnels(flows') = Tunnels(flows) \cup (known \ refused)
  <2>1. refused # {} => fs # SubnetFlows
    BY DEF SubnetFlows, TunFlows
  <2>2. known \ refused = {n \in known : TunFlow(n) \in fs}
    OBVIOUS
  <2> QED
    BY <1>1, <1>7, <2>1, <2>2
\* The flow for ARP requests: the new one alone, if it was sent.
<1>9. \/ ArpOf(flows') = IF known = {} THEN ArpOf(flows) ELSE known
      \/ "switch" \in Faults /\ ArpOf(flows') = ArpOf(flows)
  <2> DEFINE a == ArpToNodes("arpRequest", known)
             b == ArpToNodes("arpReply", known)
  <2>1. a.match.kind = {"arpRequest"} /\ b.match.kind = {"arpReply"}
    BY NodeFields
  <2>2. \A f \in fs : f.match.kind = IPKinds
    BY NodeFields DEF SubnetFlows, TunFlows
  <2>3. IPKinds # {"arpRequest"} /\ {"arpReply"} # {"arpRequest"}
    BY DEF IPKinds
  <2>4. CASE a \notin sent
    <3>1. \A f \in sent : f.match.kind # {"arpRequest"}
      <4>1. Sent(ArpFlows, k) \subseteq {a, b}
        BY SentArp
      <4> HIDE DEF a, b
      <4> QED
        BY <2>1, <2>2, <2>3, <2>4, <4>1
    <3>2. ArpOf(flows') = ArpOf(flows)
      <4> HIDE DEF sent
      <4> QED
        BY <1>2, <1>4, <3>1, ArpUntouched
    <3>3. known # {} => "switch" \in Faults
      BY <1>1, <2>4, SentArp
    <3> QED
      BY <3>2, <3>3
  <2>5. CASE a \in sent
    <3>1. known # {}
      <4>1. a \notin fs
        BY <2>1, <2>2, <2>3
      <4> QED
        BY <2>5, <4>1, SentArp
    <3>2. a \in flows'
      BY <1>4, <2>5, AddSubset
    <3>3. ASSUME NEW f \in flows', f.match.kind = {"arpRequest"}
          PROVE  f = a
      <4>1. f \in KnownFlows /\ a \in KnownFlows
        BY <1>5, <3>2 DEF FlowsKnown
      <4>2. \E ns : f = ArpToNodes("arpRequest", ns)
        BY <3>3, <4>1, ArpByKind
      <4>3. SameKey(f, a)
        BY <4>2, ArpSameKey
      <4> QED
        BY <1>5, <3>2, <4>3 DEF OnePerMatch
    <3>4. {f \in flows' : f.match.kind = {"arpRequest"}} = {a}
      BY <2>1, <3>2, <3>3
    <3>5. ArpOf(flows') = a.action.outputs
      BY <3>4 DEF ArpOf
    <3>6. a.action.outputs = known
      BY NodeFields, ActionFields
    <3> QED
      BY <3>1, <3>5, <3>6
  <2> QED
    BY <2>4, <2>5
<1> HIDE DEF refused
<1>10. /\ Cardinality(ToSet(BasicFlows) \cap flows)' = Cardinality(ToSet(BasicFlows) \cap flows)
       /\ {n \in Nodes : TunFlow(n) \in flows}' =
            {n \in Nodes : TunFlow(n) \in flows} \cup (known \ refused)
       /\ \/ ArpTargets' = IF known = {} THEN ArpTargets ELSE known
          \/ "switch" \in Faults /\ ArpTargets' = ArpTargets
  BY <1>6, <1>8, <1>9 DEF Count, Tunnels, ArpOf, ArpTargets
<1>11. \E r \in SUBSET known :
         /\ r # {} => "switch" \in Faults
         /\ {n \in Nodes : TunFlow(n) \in flows}' =
              {n \in Nodes : TunFlow(n) \in flows} \cup (known \ r)
  BY <1>8, <1>10
<1> QED
  BY <1>10, <1>11 DEF InstallNodes, Agent!InstallNodes, Agent!memory
\* A CoreDNS pod's flows, which CmdAdd sends and deletes, are none of AgentInit's.
LEMMA DnsCommands ==
  ASSUME AgentTypes, NumberInv, FlowInv, NEW p \in Pods, InstallDns(p) \/ PlugFails(p)
  PROVE  UNCHANGED Agent!switch
<1> DEFINE n == ofport[p]
<1>1. n \in Numbers
  BY DEF InstallDns, PlugFails, Agent!Call, NumberInv, AgentTypes
<1>2. \E fs \in SUBSET {DnsClassifier(n), DnsSNAT(n)},
         gs \in SUBSET {DnsClassifier(n), DnsSNAT(n)} :
           flows' = AddFlows(flows, fs) \ gs
  <2>1. CASE InstallDns(p)
    <3>1. PICK k \in 1 .. 2 : flows' = AddFlows(flows, Sent(DnsFlows(n), k))
      BY <2>1 DEF InstallDns
    <3> DEFINE fs == Sent(DnsFlows(n), k)
    <3>2. fs \subseteq {DnsClassifier(n), DnsSNAT(n)}
      BY SentDns
    <3>3. flows' = AddFlows(flows, fs) \ {}
      BY <3>1
    <3> HIDE DEF fs, n
    <3> QED
      BY <3>2, <3>3
  <2>2. CASE PlugFails(p)
    <3>1. PICK gs \in SUBSET {DnsClassifier(n), DnsSNAT(n)} : flows' = DelFlows(flows, gs)
      BY <2>2, DnsSet DEF PlugFails
    <3> HIDE DEF n
    <3>2. flows' = flows \ gs
      BY <1>1, <3>1, DelKeeps DEF FlowInv, FlowsKnown
    <3>3. flows = AddFlows(flows, {})
      BY DEF AddFlows
    <3> QED
      BY <3>2, <3>3
  <2> QED
    BY <2>1, <2>2
<1>3. /\ Count(flows') = Count(flows)
      /\ Tunnels(flows') = Tunnels(flows)
      /\ ArpOf(flows') = ArpOf(flows)
  <2> HIDE DEF n
  <2> QED
    BY <1>1, <1>2, DnsLeavesCounts
<1> QED
  BY <1>3 DEF Agent!switch, Count, Tunnels, ArpOf, ArpTargets

LEMMA InstallDnsImplements ==
  ASSUME AgentTypes, NumberInv, FlowInv, NEW p \in Pods, InstallDns(p)
  PROVE  UNCHANGED Agent!vars
<1>1. UNCHANGED Agent!switch /\ UNCHANGED agentVars
  BY DnsCommands DEF InstallDns
<1> QED
  BY <1>1 DEF Agent!vars, Agent!switch, agentVars

LEMMA PlugFailsImplements ==
  ASSUME AgentTypes, NumberInv, FlowInv, NEW p \in Pods, PlugFails(p)
  PROVE  Agent!PlugFails(p)
<1>1. UNCHANGED Agent!switch
  BY DnsCommands
<1> QED
  BY <1>1 DEF PlugFails, Agent!PlugFails

LEMMA AgentStep ==
  AgentTypes /\ NumberInv /\ FlowInv /\ [Next]_vars => [Agent!Next]_(Agent!vars)
<1> SUFFICES ASSUME AgentTypes, NumberInv, FlowInv, [Next]_vars
             PROVE  Agent!Next \/ UNCHANGED Agent!vars
  OBVIOUS
<1>1. CASE HostStep
  BY <1>1, Zenon DEF HostStep, Agent!Next, Agent!Initialize
<1>2. CASE EnsureNext
  BY <1>2 DEF EnsureNext, agentVars, Agent!vars, ArpTargets
<1>3. CASE RulesDone
  BY <1>3, Zenon DEF RulesDone, Agent!Next, Agent!Initialize
<1>4. CASE InstallBase
  BY <1>4, InstallBaseImplements, Zenon DEF Agent!Next, Agent!Initialize
<1>5. CASE InstallBaseFails
  BY <1>5, InstallBaseFailsImplements, Zenon DEF Agent!Next, Agent!Fail
<1>6. CASE InstallNodes
  BY <1>6, InstallNodesImplements, Zenon DEF Agent!Next, Agent!Initialize
<1>7. ASSUME NEW p \in Pods,
             PlugPod(p) \/ PlugDone(p) \/ PlugFails(p) \/ UnplugPod(p) \/ UnplugDone(p)
      PROVE  Agent!Next
  <2>1. \/ Agent!PlugPod(p) \/ Agent!PlugDone(p) \/ Agent!PlugFails(p)
        \/ Agent!UnplugPod(p) \/ Agent!UnplugDone(p)
    BY <1>7, PlugFailsImplements, Zenon DEF PlugPod, PlugDone, UnplugPod, UnplugDone
  <2> QED
    BY <2>1, Zenon DEF Agent!Next
<1>8. ASSUME NEW p \in Pods, InstallDns(p)
      PROVE  UNCHANGED Agent!vars
  BY <1>8, InstallDnsImplements
<1>9. CASE DeleteBridge
  BY <1>9, Zenon DEF DeleteBridge, Agent!Next
<1>10. CASE UNCHANGED vars
  BY <1>10 DEF vars, agentVars, Agent!vars, ArpTargets
<1> QED
  BY <1>1, <1>2, <1>3, <1>4, <1>5, <1>6, <1>7, <1>8, <1>9, <1>10, Zenon DEF Next

-----------------------------------------------------------------------------
(* Theorems.                                                               *)

IInv == AgentTypes /\ NumberInv /\ FlowInv /\ RuleInv

LEMMA Invariance == Spec => []IInv
<1>1. Init => IInv
  BY AgentTypesInit, NumberInit, FlowInit, RuleInit DEF IInv
<1>2. IInv /\ [Next]_vars => IInv'
  BY AgentTypesStep, NumberStep, FlowStep, RuleStep DEF IInv
<1> QED
  BY <1>1, <1>2, PTL DEF Spec

\* No step leaves the types of the agent's state, of the switch's flows and of
\* the host's chains (TypeOK).
THEOREM TypeCorrect == Spec => []TypeOK
<1>1. IInv => TypeOK
  <2> SUFFICES ASSUME IInv
               PROVE  TypeOK
    OBVIOUS
  <2>1. ensured \in 0 .. 2 * Len(PresetRules)
    BY Preset DEF IInv, RuleInv
  <2>2. Agent!TypeOK
    BY AgentTypeOK DEF IInv
  <2> QED
    BY <2>1, <2>2, FlowTypes, ChainTypes DEF IInv, AgentTypes, TypeOK
<1> QED
  BY <1>1, Invariance, PTL

\* No two flows of one table and one priority match a packet: what
\* the switch does is fixed by the flows, for any pods and nodes, whichever
\* flows were refused, rolled back or left behind (NoAmbiguousMatch).
THEOREM NoAmbiguousMatchAlways == Spec => []NoAmbiguousMatch
<1>1. IInv => NoAmbiguousMatch
  BY NoAmbiguity DEF IInv
<1> QED
  BY <1>1, Invariance, PTL

\* Traffic between pods goes to the node of its destination when that node's
\* flow is there, and is not tunnelled otherwise (PodToPod).
THEOREM PodToPodAlways == Spec => []PodToPod
<1>1. IInv => PodToPod
  BY PodToPodHolds DEF IInv
<1> QED
  BY <1>1, Invariance, PTL

\* A serving agent's host accepts what passes the gateway and masquerades what
\* leaves the cluster, whatever starts failed within SetUpRules
\* (PodToExternal).
THEOREM PodToExternalAlways == Spec => []PodToExternal
<1>1. IInv => PodToExternal
  BY PodToExternalHolds DEF IInv
<1> QED
  BY <1>1, Invariance, PTL

\* The answers of every attached CoreDNS pod are rewritten, and of all packets
\* those from port 53 on a container port's number alone, whichever numbers
\* ports had before (DnsRepliesRewritten).
THEOREM DnsRepliesRewrittenAlways == Spec => []DnsRepliesRewritten
<1>1. IInv => DnsRepliesRewritten
  BY DnsRewritten DEF IInv
<1> QED
  BY <1>1, Invariance, PTL

\* Of no number does it change whether its answers are rewritten but by the
\* CmdAdd of a CoreDNS pod that has the number, while the bridge is there
\* (RewritingChanges): a rollback that deletes by table or by a shorter match,
\* or a start that replaces flows, would change it for others.
THEOREM RewritingChangesAlways == Spec => RewritingChanges
<1>1. IInv /\ [Next]_vars =>
        (flows' # flows /\ bridge' =>
           \A p \in Packets :
             p.kind = "dns" /\ Rewritten(flows, p) # Rewritten(flows', p) =>
               \E q \in DnsPods : calls[q] = "add" /\ p.in = ofport[q])
  BY RewritingStep DEF IInv
<1> QED
  BY <1>1, Invariance, PTL DEF Spec, RewritingChanges

\* The flows and the rules, command by command, do what AgentInit says of its
\* counts and sets (ImplementsAgentInit).
THEOREM ImplementsAgentInitAlways == Spec => ImplementsAgentInit
<1>1. Init => Agent!Init
  BY DEF Init
<1>2. IInv /\ [Next]_vars => [Agent!Next]_(Agent!vars)
  BY AgentStep DEF IInv
<1> QED
  BY <1>1, <1>2, Invariance, PTL DEF Spec, Agent!Spec, ImplementsAgentInit
=============================================================================
