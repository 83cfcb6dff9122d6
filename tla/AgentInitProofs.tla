---------------------------- MODULE AgentInitProofs ----------------------------
(***************************************************************************)
(* Proofs about the start of the agent, for any pods, nodes and faults.    *)
(*                                                                         *)
(* ServingIsWired looks at the end of the start only.  The inductive       *)
(* invariant says what each step of it may rely on: everything the steps   *)
(* before it set up is there, because what takes it away (an operator who  *)
(* deletes the bridge) meets a stopped agent, whose cache is empty.        *)
(***************************************************************************)
EXTENDS AgentInit, TLAPS

\* A process that does not run has no interface cache and no handlers.
StoppedIsEmpty == pc = "down" => cache = {} /\ calls = NoCalls

\* A step of CmdAdd or CmdDel.
PodStep(p) ==
  PlugPod(p) \/ PlugDone(p) \/ PlugFails(p) \/ UnplugPod(p) \/ UnplugDone(p)

\* The port of an ADD at work is on the bridge and not in the cache.
AddHasPort == \A p \in Pods : calls[p] = "add" => p \in ports /\ p \notin cache
CallsTyped == calls \in [Pods -> {"none", "add", "del"}]

\* What holds from each step of the start on.
BridgeMade == pc \notin {"down", "bridge"} => bridge
AfterTunnel == {"gateway", "link", "address", "base", "list", "flows", "serving"}
TunnelMade == pc \in AfterTunnel => Tun \in ports
GatewayMade == pc \in AfterTunnel \ {"gateway"} => Gw \in ports
AddressSet == pc \in {"base", "list", "flows", "serving"} => gwAddr
BaseInstalled == pc \in {"list", "flows", "serving"} => base = BaseFlows

IInv ==
  /\ StoppedIsEmpty
  /\ BridgeMade
  /\ TunnelMade
  /\ GatewayMade
  /\ AddressSet
  /\ BaseInstalled
  /\ CallsTyped
  /\ AddHasPort
  /\ CacheInPorts

-----------------------------------------------------------------------------

LEMMA TypeInit == Init => TypeOK
<1>1. 0 \in 0 .. BaseFlows /\ 0 \in 0 .. MaxFaults
  BY BoundsAssumption DEF BaseFlows
<1> QED
  BY <1>1, Zenon DEF Init, NoCalls, TypeOK

LEMMA TypeStep == TypeOK /\ [Next]_vars => TypeOK'
<1> SUFFICES ASSUME TypeOK, [Next]_vars
             PROVE  TypeOK'
  OBVIOUS
<1> USE DEF TypeOK, Steps, switch, memory
<1>0. faults < MaxFaults => faults + 1 \in 0 .. MaxFaults
  BY BoundsAssumption
<1>1. CASE Start
  BY <1>1 DEF Start, Goto
<1>2. CASE Initialize
  <2>1. CASE CreateBridge \/ LoadNode \/ SetUpRules
    BY <2>1 DEF CreateBridge, LoadNode, SetUpRules, Goto
  <2>2. CASE InitCache
    BY <2>2 DEF InitCache, Goto
  <2>3. CASE SetUpTunnel \/ SetUpGateway
    BY <2>3 DEF SetUpTunnel, SetUpGateway, Goto
  <2>4. CASE WaitLink \/ SetAddress
    BY <2>4 DEF WaitLink, SetAddress, Goto
  <2>5. CASE InstallBase
    BY <2>5 DEF InstallBase, Goto, BaseFlows
  <2>6. CASE ListNodes
    BY <2>6 DEF ListNodes, Goto
  <2>7. CASE InstallNodes
    BY <2>7 DEF InstallNodes, Goto
  <2> QED
    BY <1>2, <2>1, <2>2, <2>3, <2>4, <2>5, <2>6, <2>7 DEF Initialize
<1>3. CASE Fail
  <2>1. ASSUME NEW s, NEW f, Fails(s, f)
        PROVE  TypeOK'
    BY <2>1, <1>0 DEF Fails, Exit, NoCalls, Fault
  <2>2. CASE WaitLinkFails \/ GatewayRefused
    BY <2>2, <1>0 DEF WaitLinkFails, GatewayRefused, Exit, NoCalls, Fault
  <2>3. CASE InstallBaseFails
    BY <2>3, <1>0 DEF InstallBaseFails, Exit, NoCalls, Fault, BaseFlows
  <2> QED
    BY <1>3, <2>1, <2>2, <2>3 DEF Fail
<1>4. CASE Crash
  BY <1>4, <1>0 DEF Crash, Exit, NoCalls, Fault
<1>5. CASE DeleteBridge
  <2>1. 0 \in 0 .. BaseFlows
    BY DEF BaseFlows
  <2> QED
    BY <1>5, <2>1, Zenon DEF DeleteBridge
<1>6. ASSUME NEW p \in Pods, PodStep(p)
      PROVE  TypeOK'
  BY <1>6 DEF PodStep, PlugPod, PlugDone, PlugFails, UnplugPod, UnplugDone, Call
<1>7. ASSUME NEW n \in Nodes, NodeChange(n)
      PROVE  TypeOK'
  BY <1>7 DEF NodeChange
<1>8. CASE UNCHANGED vars
  BY <1>8 DEF vars
<1> QED
  BY <1>1, <1>2, <1>3, <1>4, <1>5, <1>6, <1>7, <1>8 DEF Next, PodStep

\* No step leaves the types of the agent's, the bridge's and the switch's
\* state (TypeOK).
THEOREM TypeCorrect == Spec => []TypeOK
<1> QED
  BY TypeInit, TypeStep, PTL DEF Spec

-----------------------------------------------------------------------------

LEMMA InvInit == Init => IInv
BY DEF Init, NoCalls, IInv, StoppedIsEmpty, BridgeMade, AfterTunnel, TunnelMade,
       GatewayMade, AddressSet, BaseInstalled, CallsTyped, AddHasPort,
       CacheInPorts

\* A process that ends loses what it had in memory and claims nothing.
LEMMA InvExit == pc' = "down" /\ cache' = {} /\ calls' = NoCalls => IInv'
BY DEF NoCalls, IInv, StoppedIsEmpty, BridgeMade, AfterTunnel, TunnelMade,
       GatewayMade, AddressSet, BaseInstalled, CallsTyped, AddHasPort,
       CacheInPorts

LEMMA InvInitialize == IInv /\ Initialize => IInv'
<1> SUFFICES ASSUME IInv, Initialize
             PROVE  IInv'
  OBVIOUS
<1> USE DEF IInv, StoppedIsEmpty, BridgeMade, AfterTunnel, TunnelMade,
            GatewayMade, AddressSet, BaseInstalled, CallsTyped, AddHasPort,
            CacheInPorts, switch, memory, Goto
<1>0. Tun \notin Pods /\ Gw \notin Pods
  BY NamesAssumption
<1>1. CASE CreateBridge
  BY <1>1 DEF CreateBridge
<1>2. CASE LoadNode
  BY <1>2 DEF LoadNode
<1>3. CASE SetUpRules
  BY <1>3 DEF SetUpRules
<1>4. CASE InitCache
  BY <1>0, <1>4 DEF InitCache
<1>5. CASE SetUpTunnel
  BY <1>0, <1>5 DEF SetUpTunnel
<1>6. CASE SetUpGateway
  BY <1>0, <1>6 DEF SetUpGateway
<1>7. CASE WaitLink
  BY <1>7 DEF WaitLink
<1>8. CASE SetAddress
  BY <1>8 DEF SetAddress
<1>9. CASE InstallBase
  BY <1>9 DEF InstallBase
<1>10. CASE ListNodes
  BY <1>10 DEF ListNodes
<1>11. CASE InstallNodes
  BY <1>11 DEF InstallNodes
<1> QED
  BY <1>1, <1>2, <1>3, <1>4, <1>5, <1>6, <1>7, <1>8, <1>9, <1>10, <1>11
     DEF Initialize

LEMMA InvStep == IInv /\ [Next]_vars => IInv'
<1> SUFFICES ASSUME IInv, [Next]_vars
             PROVE  IInv'
  OBVIOUS
<1>1. CASE Start
  BY <1>1 DEF Start, Goto, IInv, StoppedIsEmpty, BridgeMade, AfterTunnel,
              TunnelMade, GatewayMade, AddressSet, BaseInstalled,
              CallsTyped, AddHasPort, CacheInPorts, switch, memory
<1>2. CASE Initialize
  BY <1>2, InvInitialize
<1>3. CASE Fail
  BY <1>3, InvExit DEF Fail, Fails, WaitLinkFails, InstallBaseFails,
                       GatewayRefused, Exit
<1>4. CASE Crash
  BY <1>4, InvExit DEF Crash, Exit
<1>5. CASE DeleteBridge
  \* The one step that takes ports away from under the cache: it is empty.
  <2>1. pc' = "down" /\ cache' = {} /\ calls' = NoCalls
    BY <1>5 DEF DeleteBridge, IInv, StoppedIsEmpty, memory
  <2> QED
    BY <2>1, InvExit
<1>6. ASSUME NEW p \in Pods, PodStep(p)
      PROVE  IInv'
  <2>1. p # Tun /\ p # Gw
    BY NamesAssumption
  <2>2. pc = "serving" /\ UNCHANGED <<pc, bridge, gwAddr, base>>
    BY <1>6 DEF PodStep, PlugPod, PlugDone, PlugFails, UnplugPod, UnplugDone, Call,
                switch
  <2>3. Tun \in ports' /\ Gw \in ports'
    BY <1>6, <2>1, <2>2 DEF PodStep, PlugPod, PlugDone, PlugFails, UnplugPod,
                            UnplugDone, Call, IInv, TunnelMade, GatewayMade,
                            AfterTunnel
  <2>4. CallsTyped' /\ AddHasPort' /\ CacheInPorts'
    <3> USE DEF IInv, CallsTyped, AddHasPort, CacheInPorts, Call
    <3>1. CASE PlugPod(p)
      BY <1>6, <3>1 DEF PlugPod
    <3>2. CASE PlugDone(p)
      BY <1>6, <3>2 DEF PlugDone
    \* What this takes from the bridge is no cached port: p has an ADD at work.
    <3>3. CASE PlugFails(p)
      BY <1>6, <3>3 DEF PlugFails
    <3>4. CASE UnplugPod(p)
      BY <1>6, <3>4 DEF UnplugPod
    <3>5. CASE UnplugDone(p)
      BY <1>6, <3>5 DEF UnplugDone
    <3> QED
      BY <1>6, <3>1, <3>2, <3>3, <3>4, <3>5 DEF PodStep
  <2> QED
    BY <2>2, <2>3, <2>4 DEF IInv, StoppedIsEmpty, BridgeMade, TunnelMade,
                            GatewayMade, AddressSet, BaseInstalled
<1>7. ASSUME NEW n \in Nodes, NodeChange(n)
      PROVE  IInv'
  BY <1>7 DEF NodeChange, IInv, StoppedIsEmpty, BridgeMade, AfterTunnel,
              TunnelMade, GatewayMade, AddressSet, BaseInstalled,
              CallsTyped, AddHasPort, CacheInPorts, switch, memory
<1>8. CASE UNCHANGED vars
  BY <1>8 DEF vars, IInv, StoppedIsEmpty, BridgeMade, AfterTunnel,
              TunnelMade, GatewayMade, AddressSet, BaseInstalled,
              CallsTyped, AddHasPort, CacheInPorts
<1> QED
  BY <1>1, <1>2, <1>3, <1>4, <1>5, <1>6, <1>7, <1>8 DEF Next, PodStep

LEMMA Invariance == Spec => []IInv
BY InvInit, InvStep, PTL DEF Spec

\* interfaceCache.Initialize, the steps that fill it and the ones that lose
\* it never leave the cache with a port the bridge does not have
\* (CacheInPorts), whatever fails and whenever the bridge is deleted: between
\* removeInterfaces' DeletePort and DeleteInterface, and only there, it names
\* the port being deleted.
THEOREM CacheInPortsAlways == Spec => []CacheInPorts
<1>1. IInv => CacheInPorts
  BY DEF IInv
<1> QED
  BY <1>1, Invariance, PTL

\* CNI requests are served on a complete data path only (ServingIsWired):
\* the start's early returns keep an agent that lacks a part from serving.
THEOREM ServingIsWiredAlways == Spec => []ServingIsWired
<1>1. IInv => ServingIsWired
  BY DEF IInv, BridgeMade, AfterTunnel, TunnelMade, GatewayMade, AddressSet,
         BaseInstalled, ServingIsWired
<1> QED
  BY <1>1, Invariance, PTL

\* Flows to nodes are there only beside a gateway port, and none are there
\* between the making of that port and their installation.
GatewayFirst == Gw \notin ports => tunnels = {} /\ arp = {}
GatewayUncached == pc \notin AfterTunnel \ {"gateway"} => Gw \notin cache
NoFlowsYet ==
  pc \in {"link", "address", "base", "list", "flows"} => tunnels = {} /\ arp = {}

FlowInv == GatewayFirst /\ GatewayUncached /\ NoFlowsYet /\ NoStaleNodeFlows

LEMMA FlowInit == Init => FlowInv
BY DEF Init, FlowInv, GatewayFirst, GatewayUncached, NoFlowsYet,
       NoStaleNodeFlows, AfterTunnel

LEMMA FlowInitialize ==
  ASSUME IInv, FlowInv, Initialize
  PROVE  FlowInv'
<1> USE DEF FlowInv, GatewayFirst, GatewayUncached, NoFlowsYet,
            NoStaleNodeFlows, AfterTunnel, switch, memory, Goto
<1>1. CASE CreateBridge \/ LoadNode \/ SetUpRules
  BY <1>1 DEF CreateBridge, LoadNode, SetUpRules
<1>2. CASE InitCache
  BY <1>2 DEF InitCache, Tun, Gw
<1>3. CASE SetUpTunnel
  BY <1>3 DEF SetUpTunnel, Tun, Gw
\* The gateway's port is made here, so no flow is left of an earlier start.
<1>4. CASE SetUpGateway
  <2>1. Gw \notin ports
    BY <1>4 DEF SetUpGateway
  <2> QED
    BY <1>4, <2>1 DEF SetUpGateway
<1>5. CASE WaitLink \/ SetAddress \/ InstallBase \/ ListNodes
  BY <1>5 DEF WaitLink, SetAddress, InstallBase, ListNodes
<1>6. CASE InstallNodes
  <2>1. Gw \in ports'
    BY <1>6 DEF InstallNodes, IInv, GatewayMade
  <2>2. tunnels' \subseteq known' /\ arp' \subseteq known'
    BY <1>6 DEF InstallNodes
  <2> QED
    BY <1>6, <2>1, <2>2 DEF InstallNodes
<1> QED
  BY <1>1, <1>2, <1>3, <1>4, <1>5, <1>6 DEF Initialize

LEMMA FlowStep ==
  ASSUME IInv, FlowInv, [Next]_vars
  PROVE  FlowInv'
<1> USE DEF FlowInv, GatewayFirst, GatewayUncached, NoFlowsYet,
            NoStaleNodeFlows, AfterTunnel, switch, memory
<1>1. CASE Start
  BY <1>1 DEF Start, Goto
<1>2. CASE Initialize
  BY <1>2, FlowInitialize
<1>3. CASE Fail
  BY <1>3 DEF Fail, Fails, WaitLinkFails, InstallBaseFails, GatewayRefused, Exit
<1>4. CASE Crash
  BY <1>4 DEF Crash, Exit
<1>5. CASE DeleteBridge
  BY <1>5 DEF DeleteBridge
<1>6. ASSUME NEW p \in Pods, PodStep(p)
      PROVE  FlowInv'
  <2>1. p # Gw
    BY NamesAssumption
  <2> QED
    BY <1>6, <2>1 DEF PodStep, PlugPod, PlugDone, PlugFails, UnplugPod, UnplugDone,
                      Call
<1>7. ASSUME NEW n \in Nodes, NodeChange(n)
      PROVE  FlowInv'
  BY <1>7 DEF NodeChange
<1>8. CASE UNCHANGED vars
  BY <1>8 DEF vars
<1> QED
  BY <1>1, <1>2, <1>3, <1>4, <1>5, <1>6, <1>7, <1>8 DEF Next, PodStep

\* A serving agent's switch sends to no node but those its start listed
\* (NoStaleNodeFlows), through any number of restarts and any change of the
\* cluster: a start that gets as far as the flows has made the gateway port
\* itself.
THEOREM NoStaleNodeFlowsAlways == Spec => []NoStaleNodeFlows
<1>1. IInv /\ FlowInv /\ [Next]_vars => FlowInv'
  BY FlowStep
<1>2. FlowInv => NoStaleNodeFlows
  BY DEF FlowInv
<1> QED
  BY <1>1, <1>2, FlowInit, Invariance, PTL DEF Spec
=============================================================================
