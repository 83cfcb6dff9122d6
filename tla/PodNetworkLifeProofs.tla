-------------------------- MODULE PodNetworkLifeProofs --------------------------
(***************************************************************************)
(* What holds of the node for a runtime that waits for its answers.  CmdDel *)
(* finds a port by the pod's name and CmdAdd writes its entry over what is *)
(* there: that both only ever touch their own sandbox's things rests on    *)
(* the runtime, which makes a pod's sandbox when the earlier ones are gone *)
(* and asks for one request of a sandbox at a time.                        *)
(***************************************************************************)
EXTENDS PodNetworkProofs

\* The runtime gets the answer of every request.
RuntimeWaits == "timeout" \notin Faults

\* GenerateContainerInterfaceName gives each pod a name of its own: it ends in
\* a part of a hash of the pod's name and namespace.
HostNamesDistinct == \A p, q \in Pods : NameOf[p] = NameOf[q] => p = q

\* A rollback that fails leaves its port without an entry.
RollbacksSucceed == "undo" \notin Faults

\* A flow that the switch refuses makes a failed ADD answer success (run
\* dns_answer).
FlowsAccepted == CoreDNS = {} \/ "step" \notin Faults

\* The agent neither exits nor, out of addresses, panics.
Up == agent = "running"

-----------------------------------------------------------------------------
(* The inductive invariants.                                               *)

OnePerPod ==
  \A c, e \in Containers :
    /\ PodOf[c] = PodOf[e]
    /\ sandbox[c] \notin {"none", "gone"}
    /\ sandbox[e] \notin {"none", "gone"}
    => c = e

AddIsAwaited == \A c \in Containers : Adding(c) <=> sandbox[c] = "adding"

NewIsNone == \A c \in Containers : addPc[c] = "new" <=> sandbox[c] = "none"

DelIsAwaited ==
  \A d \in Dels : dels[d].pc # "idle" =>
    dels[d].waited /\ sandbox[dels[d].cont] = "deleting"

OneDelEach ==
  \A d, e \in Dels :
    dels[d].pc # "idle" /\ dels[e].pc # "idle" /\ dels[d].cont = dels[e].cont
    => d = e

\* The entry of a container that is gone was removed with it.
CachedIsLive ==
  \A n \in Names : cache[n] # None =>
    sandbox[cache[n]] \in {"ready", "failed", "deleting"}

SoloInv ==
  /\ OnePerPod
  /\ AddIsAwaited
  /\ NewIsNone
  /\ DelIsAwaited
  /\ OneDelEach
  /\ CachedIsLive
  /\ DelTakesOwnPort

\* What a DEL has taken away by the time it comes to a step.
DelProgress ==
  \A d \in Dels :
    /\ dels[d].pc \in {"link", "lookup", "port", "uncache"} =>
         ipam[dels[d].cont] = None
    /\ dels[d].pc \in {"lookup", "port", "uncache"} => dels[d].cont \notin veth
    /\ dels[d].pc = "uncache" => ~Plugged(dels[d].cont)

\* What an ADD has not made before a step.
AddProgress ==
  \A c \in Containers :
    /\ addPc[c] \in {"new", "ipam"} => ipam[c] = None
    /\ addPc[c] \in {"new", "ipam", "veth"} => c \notin veth

\* The agent comes up again on a bridge without container ports.
ResetIsEmpty == agent = "reset" => \A c \in Containers : ~Plugged(c)

NodeInv ==
  /\ DelProgress
  /\ AddProgress
  /\ ResetIsEmpty
  /\ PortsAccounted
  /\ GoneLeavesNothing

LinkIsKept ==
  \A c \in Containers :
    addPc[c] \in {"port", "dnsflow", "addr", "cache"} => c \in veth

AddressIsKept ==
  \A c \in Containers :
    /\ sandbox[c] \in {"adding", "ready"} => addr[c] # None \/ addPc[c] = "ipam"
    /\ sandbox[c] \notin {"adding", "ready"} => addr[c] = None
    /\ addPc[c] = "ipam" => addr[c] = None

\* A roll-back answers an error.
UndoIsRefused ==
  \A c \in Containers :
    addPc[c] \in {"undoFlow", "undoPort", "undoLink"} => answer[c] = FALSE

FlowsForDns == \A c \in Containers : addPc[c] = "dnsflow" => IsDns(c)

ReadyInv ==
  /\ FlowsForDns
  /\ LinkIsKept
  /\ AddressIsKept
  /\ UndoIsRefused
  /\ ReadyIsAttached

-----------------------------------------------------------------------------
(* One sandbox of a pod, one request of a sandbox.                         *)

LEMMA SoloInit == Init => SoloInv
BY DEF Init, SoloInv, OnePerPod, AddIsAwaited, NewIsNone, DelIsAwaited,
       OneDelEach, CachedIsLive, DelTakesOwnPort, IdleDel, Adding, AddSteps

LEMMA SoloDie == IInv /\ SoloInv /\ Die => SoloInv'
<1> SUFFICES ASSUME IInv, SoloInv, Die
             PROVE  SoloInv'
  OBVIOUS
<1> USE DEF IInv, TypeOK, SoloInv, Die, Adding, AddSteps
<1>1. OnePerPod'
  BY DEF OnePerPod
<1>2. AddIsAwaited'
  BY DEF AddIsAwaited
<1>3. NewIsNone'
  BY DEF NewIsNone
<1>4. DelIsAwaited' /\ OneDelEach' /\ DelTakesOwnPort'
  BY DEF DelIsAwaited, OneDelEach, DelTakesOwnPort, IdleDel
<1>5. CachedIsLive'
  BY DEF CachedIsLive
<1> QED
  BY <1>1, <1>2, <1>3, <1>4, <1>5

LEMMA SoloGoto ==
  ASSUME IInv, SoloInv,
         NEW c \in Containers, addPc[c] \in AddSteps,
         NEW s \in AddSteps, addPc' = [addPc EXCEPT ![c] = s],
         UNCHANGED <<sandbox, dels, cache>>
  PROVE  SoloInv'
BY DEF IInv, TypeOK, SoloInv, OnePerPod, AddIsAwaited, NewIsNone,
       DelIsAwaited, OneDelEach, CachedIsLive, DelTakesOwnPort, Adding, AddSteps

\* The ADD's answer reaches the runtime; it may leave an entry of its own.
LEMMA SoloFinish ==
  ASSUME IInv, SoloInv,
         NEW c \in Containers, addPc[c] \in AddSteps,
         NEW ok, Finish(c, ok), UNCHANGED dels,
         \/ UNCHANGED cache
         \/ cache' = [cache EXCEPT ![Name(c)] = c]
  PROVE  SoloInv'
<1> USE DEF IInv, TypeOK, SoloInv, Adding, AddSteps
<1>1. /\ sandbox[c] = "adding"
      /\ addPc' = [addPc EXCEPT ![c] = "done"]
      /\ \E x \in {"ready", "failed"} : sandbox' = [sandbox EXCEPT ![c] = x]
  BY DEF AddIsAwaited, Finish
<1>2. OnePerPod'
  BY <1>1 DEF OnePerPod
<1>3. AddIsAwaited'
  BY <1>1 DEF AddIsAwaited
<1>4. NewIsNone'
  BY <1>1 DEF NewIsNone
<1>5. DelIsAwaited'
  BY <1>1 DEF DelIsAwaited
<1>6. OneDelEach' /\ DelTakesOwnPort'
  BY DEF OneDelEach, DelTakesOwnPort
<1>7. CachedIsLive'
  BY <1>1 DEF CachedIsLive
<1> QED
  BY <1>2, <1>3, <1>4, <1>5, <1>6, <1>7

LEMMA SoloAdd ==
  ASSUME IInv, SoloInv, NEW c \in Containers, CmdAdd(c)
  PROVE  SoloInv'
<1> USE DEF At, AddSteps
<1>1. CASE AddIpam(c)
  BY <1>1, SoloGoto DEF AddIpam, Goto
<1>2. CASE AddIpamMissing(c)
  BY <1>2, SoloFinish DEF AddIpamMissing
<1>3. CASE AddIpamPanics(c)
  BY <1>3, SoloDie DEF AddIpamPanics
<1>4. CASE AddVeth(c)
  BY <1>4, SoloGoto DEF AddVeth, Goto
<1>5. CASE AddVethFails(c)
  BY <1>5, SoloGoto DEF AddVethFails, Fail, Goto
<1>6. CASE AddVethHalfFails(c)
  BY <1>6, SoloGoto DEF AddVethHalfFails, Fail, Goto
<1>7. CASE AddPort(c)
  BY <1>7, SoloGoto DEF AddPort, Goto, AfterPort
<1>8. CASE AddPortFails(c)
  BY <1>8, SoloGoto DEF AddPortFails, Fail, Goto
<1>9. CASE AddDnsFlow(c)
  BY <1>9, SoloGoto DEF AddDnsFlow, Goto
<1>10. CASE AddDnsPortFails(c)
  BY <1>10, SoloGoto DEF AddDnsPortFails, Fail, Goto
<1>11. CASE AddDnsFlowFails(c)
  BY <1>11, SoloGoto DEF AddDnsFlowFails, Goto
<1>12. CASE AddAddr(c)
  BY <1>12, SoloGoto DEF AddAddr, Goto
<1>13. CASE AddAddrFails(c)
  BY <1>13, SoloGoto DEF AddAddrFails, Fail, Goto, FirstUndo
<1>14. CASE AddCache(c)
  BY <1>14, SoloFinish DEF AddCache
<1>15. CASE AddCacheFails(c)
  BY <1>15, SoloGoto DEF AddCacheFails, Fail, Goto, FirstUndo
<1>16. CASE UndoFlow(c)
  BY <1>16, SoloGoto DEF UndoFlow, Goto
<1>17. CASE UndoPort(c)
  BY <1>17, SoloGoto DEF UndoPort, Goto
<1>18. CASE UndoPortFails(c)
  BY <1>18, SoloGoto DEF UndoPortFails, Goto
<1>19. CASE UndoLink(c)
  BY <1>19, SoloFinish DEF UndoLink
<1> QED
  BY <1>1, <1>2, <1>3, <1>4, <1>5, <1>6, <1>7, <1>8, <1>9, <1>10, <1>11, <1>12, <1>13, <1>14, <1>15, <1>16, <1>17, <1>18, <1>19 DEF CmdAdd

\* A DEL that goes on, with no port or that of its own container.
LEMMA SoloDelGoto ==
  ASSUME IInv, SoloInv,
         NEW d \in Dels, dels[d].pc # "idle",
         NEW r, dels' = [dels EXCEPT ![d] = r],
         r.cont = dels[d].cont, r.waited = dels[d].waited,
         r.uuid \in {None, r.cont},
         UNCHANGED <<sandbox, addPc, cache>>
  PROVE  SoloInv'
BY DEF IInv, TypeOK, SoloInv, OnePerPod, AddIsAwaited, NewIsNone,
       DelIsAwaited, OneDelEach, CachedIsLive, DelTakesOwnPort, Adding, AddSteps

\* The answer of a DEL; a container that is gone has no entry.
LEMMA SoloDelReply ==
  ASSUME IInv, SoloInv,
         NEW d \in Dels, dels[d].pc # "idle",
         NEW ok \in BOOLEAN, DelReply(d, ok),
         cache' \in [Names -> Containers \cup {None}],
         \A n \in Names : cache'[n] \in {cache[n], None},
         ok => \A n \in Names : cache'[n] # dels[d].cont
  PROVE  SoloInv'
<1> USE DEF IInv, TypeOK, SoloInv, Adding, AddSteps
<1> DEFINE c == dels[d].cont
<1>1. /\ c \in Containers /\ sandbox[c] = "deleting"
      /\ UNCHANGED addPc /\ dels' = [dels EXCEPT ![d] = IdleDel]
      /\ \E x \in {"gone", "failed"} :
           sandbox' = [sandbox EXCEPT ![c] = x] /\ (x = "gone" => ok)
  BY DEF DelIsAwaited, DelReply, PortInv, DelOwns
<1>2. \A e \in Dels : e # d /\ dels[e].pc # "idle" => dels[e].cont # c
  BY DEF OneDelEach
<1> HIDE DEF c
<1>3. OnePerPod'
  BY <1>1 DEF OnePerPod
<1>4. AddIsAwaited'
  BY <1>1 DEF AddIsAwaited
<1>5. NewIsNone'
  BY <1>1 DEF NewIsNone
<1>6. DelIsAwaited'
  BY <1>1, <1>2 DEF DelIsAwaited, IdleDel
<1>7. OneDelEach' /\ DelTakesOwnPort'
  BY <1>1 DEF OneDelEach, DelTakesOwnPort, IdleDel
<1>8. CachedIsLive'
  <2> SUFFICES ASSUME NEW n \in Names, cache'[n] # None
               PROVE  sandbox'[cache'[n]] \in {"ready", "failed", "deleting"}
    BY DEF CachedIsLive
  <2>1. cache'[n] = cache[n] /\ cache[n] \in Containers
    OBVIOUS
  <2>2. sandbox[cache[n]] \in {"ready", "failed", "deleting"}
    BY <2>1 DEF CachedIsLive
  <2>3. CASE cache[n] = c
    BY <1>1, <2>1, <2>3 DEF c
  <2>4. CASE cache[n] # c
    BY <1>1, <2>1, <2>2, <2>4
  <2> QED
    BY <2>3, <2>4
<1> QED
  BY <1>3, <1>4, <1>5, <1>6, <1>7, <1>8

\* The entry a DEL finds under the pod's name is its own container's: the
\* pod has one sandbox that is neither to come nor gone.
LEMMA OwnEntry ==
  ASSUME IInv, SoloInv, HostNamesDistinct,
         NEW n \in Names, cache[n] # None,
         NEW c \in Containers, Name(c) = n, sandbox[c] \notin {"none", "gone"}
  PROVE  cache[n] = c
<1>1. cache[n] \in Containers /\ Name(cache[n]) = n
  BY DEF IInv, TypeOK, PortInv, CacheOwns
<1>2. sandbox[cache[n]] \in {"ready", "failed", "deleting"}
  BY DEF SoloInv, CachedIsLive
<1>3. PodOf[cache[n]] = PodOf[c]
  BY <1>1, PodsAssumption DEF HostNamesDistinct, Name
<1> QED
  BY <1>1, <1>2, <1>3 DEF SoloInv, OnePerPod

LEMMA SoloDel ==
  ASSUME IInv, SoloInv, HostNamesDistinct, NEW d \in Dels, CmdDel(d)
  PROVE  SoloInv'
<1> USE DEF DelAt
<1> DEFINE c == dels[d].cont
<1>1. /\ c \in Containers /\ Name(c) \in Names
      /\ sandbox[c] = "deleting" /\ dels[d].pc # "idle"
      /\ dels[d].uuid \in {None, c}
      /\ dels[d].pc \in DelSteps
  BY NameType
  DEF CmdDel, DelIpam, DelLink, DelLookup, DelLookupMisses, DelPort,
         DelUncache, DelFails, IInv, PortInv, DelOwns, SoloInv, DelIsAwaited,
         DelTakesOwnPort, DelSteps
\* The step of a DEL whose record keeps its other fields.
<1>2. ASSUME NEW s, dels' = [dels EXCEPT ![d].pc = s],
             UNCHANGED <<sandbox, addPc, cache>>
      PROVE  SoloInv'
  <2> DEFINE r == [dels[d] EXCEPT !.pc = s]
  <2>1. /\ dels' = [dels EXCEPT ![d] = r]
        /\ r.cont = c /\ r.waited = dels[d].waited /\ r.uuid = dels[d].uuid
    BY <1>2 DEF IInv, TypeOK
  <2> HIDE DEF r
  <2> QED
    BY <1>1, <1>2, <2>1, SoloDelGoto
<1>3. CASE DelIpam(d)
  BY <1>2, <1>3 DEF DelIpam, DelGoto
<1>4. CASE DelLink(d)
  BY <1>2, <1>4 DEF DelLink, DelGoto
<1>5. CASE DelLookup(d)
  <2>1. cache[Name(c)] = c
    BY <1>1, <1>5, OwnEntry DEF DelLookup
  <2> QED
    BY <1>1, <1>5, <2>1, SoloDelGoto DEF DelLookup
<1>6. CASE DelLookupMisses(d)
  <2>1. \A n \in Names : cache[n] # c
    BY <1>1, <1>6, NoneAssumption
    DEF DelLookupMisses, IInv, PortInv, CacheOwns
  <2> QED
    BY <1>1, <1>6, <2>1, SoloDelReply DEF DelLookupMisses, IInv, TypeOK
<1>7. CASE DelPort(d)
  BY <1>2, <1>7 DEF DelPort, DelGoto
<1>8. CASE DelUncache(d)
  <2>1. cache' = [cache EXCEPT ![Name(c)] = None]
    BY <1>8 DEF DelUncache
  <2>2. \A n \in Names : cache'[n] # c
    BY <1>1, <2>1, NoneAssumption DEF IInv, TypeOK, PortInv, CacheOwns
  <2>3. cache' \in [Names -> Containers \cup {None}]
        /\ \A n \in Names : cache'[n] \in {cache[n], None}
    BY <1>1, <2>1 DEF IInv, TypeOK
  <2> QED
    BY <1>1, <1>8, <2>2, <2>3, SoloDelReply DEF DelUncache
<1>9. CASE DelFails(d)
  BY <1>1, <1>9, SoloDelReply DEF DelFails, IInv, TypeOK
<1> QED
  BY <1>3, <1>4, <1>5, <1>6, <1>7, <1>8, <1>9 DEF CmdDel

LEMMA SoloStep ==
  IInv /\ SoloInv /\ RuntimeWaits /\ HostNamesDistinct /\ [Next]_vars => SoloInv'
<1> SUFFICES ASSUME IInv, SoloInv, RuntimeWaits, HostNamesDistinct, [Next]_vars
             PROVE  SoloInv'
  OBVIOUS
<1> USE DEF OnePerPod, AddIsAwaited, NewIsNone, DelIsAwaited, OneDelEach,
            CachedIsLive, DelTakesOwnPort, Adding
<1>1. ASSUME NEW c \in Containers, StartAdd(c)
      PROVE  SoloInv'
  BY <1>1 DEF StartAdd, At, AddSteps, IInv, TypeOK, SoloInv
<1>2. ASSUME NEW c \in Containers, CmdAdd(c)
      PROVE  SoloInv'
  BY <1>2, SoloAdd
<1>3. ASSUME NEW c \in Containers, GiveUpAdd(c)
      PROVE  SoloInv'
  BY <1>3 DEF GiveUpAdd, RuntimeWaits
<1>4. ASSUME NEW d \in Dels, CmdDel(d)
      PROVE  SoloInv'
  BY <1>4, SoloDel
<1>5. ASSUME NEW d \in Dels, GiveUpDel(d)
      PROVE  SoloInv'
  BY <1>5 DEF GiveUpDel, RuntimeWaits
<1>6. ASSUME NEW d \in Dels, NEW c \in Containers, StartDel(d, c)
      PROVE  SoloInv'
  BY <1>6 DEF StartDel, DelAt, IInv, TypeOK, SoloInv
<1>7. CASE Crash
  BY <1>7, SoloDie DEF Crash
<1>8. CASE DeleteBridge
  BY <1>8 DEF DeleteBridge, SoloInv
<1>9. CASE Restart
  BY <1>9 DEF Restart, SoloInv
<1>10. CASE UNCHANGED vars
  BY <1>10 DEF vars, SoloInv
<1> QED
  BY <1>1, <1>2, <1>3, <1>4, <1>5, <1>6, <1>7, <1>8, <1>9, <1>10 DEF Next

-----------------------------------------------------------------------------
(* What is left on the node.                                               *)

LEMMA NodeInit == Init => NodeInv
BY DEF Init, NodeInv, DelProgress, AddProgress, ResetIsEmpty, PortsAccounted,
       GoneLeavesNothing, Plugged, IdleDel

\* A process that exits leaves its ports, and comes up without them.
LEMMA NodeDie == IInv /\ NodeInv /\ Die => NodeInv'
<1> SUFFICES ASSUME IInv, NodeInv, Die
             PROVE  NodeInv'
  OBVIOUS
<1> USE DEF IInv, TypeOK, NodeInv, Die
<1>1. DelProgress'
  BY DEF DelProgress, IdleDel
<1>2. AddProgress'
  BY DEF AddProgress, Adding, AddSteps
<1>3. ResetIsEmpty' /\ PortsAccounted'
  BY DEF ResetIsEmpty, PortsAccounted
<1>4. GoneLeavesNothing'
  BY NameType, NoneAssumption DEF GoneLeavesNothing, Plugged
<1> QED
  BY <1>1, <1>2, <1>3, <1>4

\* A step of an ADD touches its own container's things only, and has or
\* hands over its port.
LEMMA NodeAddFrame ==
  ASSUME IInv, SoloInv, NodeInv, HostNamesDistinct,
         NEW c \in Containers, addPc[c] \in AddSteps,
         agent = "running", UNCHANGED <<agent, dels>>,
         NEW s \in (AddSteps \ {"ipam"}) \cup {"done"},
         addPc' = [addPc EXCEPT ![c] = s],
         NEW n \in PortNumbers, ofport' = [ofport EXCEPT ![c] = n],
         \/ UNCHANGED cache
         \/ cache' = [cache EXCEPT ![Name(c)] = c],
         n # 0 => s \in HasPort \/ cache'[Name(c)] = c,
         NEW b \in {"adding", "ready", "failed"},
         sandbox' = [sandbox EXCEPT ![c] = b],
         veth' \subseteq Containers, veth' \ {c} = veth \ {c},
         s = "veth" => c \notin veth',
         NEW a, ipam' = [ipam EXCEPT ![c] = a]
  PROVE  NodeInv'
<1> USE DEF IInv, TypeOK, NodeInv
<1>1. sandbox[c] = "adding"
  BY DEF SoloInv, AddIsAwaited, Adding
<1>2. \A d \in Dels : dels[d].pc # "idle" =>
        dels[d].cont \in Containers \ {c}
  BY <1>1 DEF SoloInv, DelIsAwaited, PortInv, DelOwns
<1>3. Name(c) \in Names /\ cache[Name(c)] = None
  BY <1>1, OwnEntry, AtWorkUncached, NameType
<1>4. DelProgress'
  BY <1>2 DEF DelProgress, Plugged, DelSteps
<1>5. AddProgress'
  BY DEF AddProgress, AddSteps
<1>6. ResetIsEmpty'
  BY DEF ResetIsEmpty
<1>7. PortsAccounted'
  <2> SUFFICES ASSUME NEW e \in Containers, Plugged(e)'
               PROVE  addPc'[e] \in HasPort \/ cache'[Name(e)] = e
    BY DEF PortsAccounted
  <2>1. CASE e = c
    BY <2>1 DEF Plugged
  <2>2. CASE e # c
    <3>1. addPc[e] \in HasPort \/ cache[Name(e)] = e
      BY <2>2 DEF PortsAccounted, Plugged
    <3>2. cache[Name(e)] = e => cache'[Name(e)] = e
      BY <1>3, NameType, NoneAssumption
    <3> QED
      BY <2>2, <3>1, <3>2
  <2> QED
    BY <2>1, <2>2
<1>8. GoneLeavesNothing'
  BY <1>3, NameType DEF GoneLeavesNothing, Plugged
<1> QED
  BY <1>4, <1>5, <1>6, <1>7, <1>8

LEMMA NodeAdd ==
  ASSUME IInv, SoloInv, NodeInv, HostNamesDistinct, RollbacksSucceed,
         NEW c \in Containers, CmdAdd(c)
  PROVE  NodeInv'
<1> USE DEF At, AddSteps, HasPort
<1>1. /\ addPc[c] \in AddSteps => sandbox[c] = "adding"
      /\ addPc \in [Containers -> AddSteps \cup {"new", "done"}]
      /\ sandbox[c] \in {"none", "adding", "ready", "failed", "deleting", "gone"}
      /\ sandbox = [sandbox EXCEPT ![c] = @]
      /\ ofport[c] \in PortNumbers /\ ofport = [ofport EXCEPT ![c] = @]
      /\ ipam = [ipam EXCEPT ![c] = @]
      /\ veth \subseteq Containers
  BY DEF SoloInv, AddIsAwaited, Adding, IInv, TypeOK
\* Where an ADD has no port.
<1>2. addPc[c] \in {"ipam", "veth", "port", "undoLink"} /\ agent = "running"
        => ofport[c] = 0
  BY <1>1, AtWorkUncached DEF NodeInv, PortsAccounted, Plugged, IInv
\* A step that keeps the runtime waiting and the port where it is.
<1>3. ASSUME addPc[c] \in AddSteps, agent = "running",
             NEW s \in AddSteps \ {"ipam"}, addPc' = [addPc EXCEPT ![c] = s],
             UNCHANGED <<agent, dels, sandbox, ofport, cache>>,
             \/ UNCHANGED ipam
             \/ \E a \in IPs : ipam' = [ipam EXCEPT ![c] = a],
             addPc[c] \in HasPort => s \in HasPort,
             \/ UNCHANGED veth /\ s # "veth"
             \/ veth' = veth \cup {c} /\ s # "veth"
             \/ UNCHANGED veth /\ addPc[c] = "ipam"
      PROVE  NodeInv'
  <2>1. ofport[c] # 0 => s \in HasPort
    BY <1>2, <1>3
  <2>2. s = "veth" => c \notin veth'
    BY <1>3 DEF NodeInv, AddProgress
  <2>3. veth' \subseteq Containers /\ veth' \ {c} = veth \ {c}
    BY <1>1, <1>3
  <2>4. PICK a : ipam' = [ipam EXCEPT ![c] = a]
    BY <1>1, <1>3
  <2>5. sandbox' = [sandbox EXCEPT ![c] = "adding"]
    BY <1>1, <1>3
  <2>6. ofport[c] \in PortNumbers /\ ofport' = [ofport EXCEPT ![c] = ofport[c]]
    BY <1>1, <1>3
  <2>7. UNCHANGED <<agent, dels>> /\ UNCHANGED cache
    BY <1>3
  <2>8. s \in (AddSteps \ {"ipam"}) \cup {"done"}
    BY <1>3
  <2> HIDE DEF AddSteps, HasPort
  <2> QED
    BY <2>8, <1>3, <2>1, <2>2, <2>3, <2>4, <2>5, <2>6, <2>7, NodeAddFrame
\* The last step of an ADD.
<1>4. ASSUME addPc[c] \in AddSteps, agent = "running", NEW ok, Finish(c, ok),
             UNCHANGED <<dels, ofport, ipam>>,
             veth' \subseteq veth, veth \ {c} \subseteq veth',
             \/ UNCHANGED cache /\ ofport[c] = 0
             \/ cache' = [cache EXCEPT ![Name(c)] = c]
      PROVE  NodeInv'
  <2>1. /\ addPc' = [addPc EXCEPT ![c] = "done"] /\ UNCHANGED agent
        /\ \E b \in {"ready", "failed"} : sandbox' = [sandbox EXCEPT ![c] = b]
    BY <1>1, <1>4 DEF Finish
  <2>2. ofport[c] # 0 => cache'[Name(c)] = c
    BY <1>4, NameType DEF IInv, TypeOK
  <2>3. veth' \subseteq Containers /\ veth' \ {c} = veth \ {c}
    BY <1>1, <1>4
  <2>4. PICK a : ipam' = [ipam EXCEPT ![c] = a]
    BY <1>1, <1>4
  <2>5. ofport[c] \in PortNumbers /\ ofport' = [ofport EXCEPT ![c] = ofport[c]]
    BY <1>1, <1>4
  <2>6. UNCHANGED cache \/ cache' = [cache EXCEPT ![Name(c)] = c]
    BY <1>4
  <2>7. UNCHANGED <<agent, dels>>
    BY <1>4, <2>1
  <2>8. PICK b \in {"ready", "failed"} : sandbox' = [sandbox EXCEPT ![c] = b]
    BY <2>1
  <2>9. /\ addPc' = [addPc EXCEPT ![c] = "done"]
        /\ addPc[c] \in AddSteps /\ agent = "running"
        /\ ofport[c] # 0 => "done" \in HasPort \/ cache'[Name(c)] = c
        /\ "done" = "veth" => c \notin veth'
    BY <1>4, <2>1, <2>2
  <2>10. b \in {"adding", "ready", "failed"}
         /\ "done" \in (AddSteps \ {"ipam"}) \cup {"done"}
    BY <2>8
  <2> HIDE DEF AddSteps, HasPort
  <2> QED
    BY <2>3, <2>4, <2>5, <2>6, <2>7, <2>8, <2>9, <2>10, NodeAddFrame
<1>5. CASE AddIpam(c)
  <2>1. \E a \in IPs : ipam' = [ipam EXCEPT ![c] = a]
    BY <1>5 DEF AddIpam, FreeIPs
  <2> QED
    BY <1>3, <1>5, <2>1 DEF AddIpam, Goto
<1>6. CASE AddIpamMissing(c)
  BY <1>2, <1>4, <1>6 DEF AddIpamMissing, Finish
<1>7. CASE AddIpamPanics(c)
  BY <1>7, NodeDie DEF AddIpamPanics
<1>8. CASE AddVeth(c)
  BY <1>3, <1>8 DEF AddVeth, Goto
<1>9. CASE AddVethFails(c)
  BY <1>3, <1>9 DEF AddVethFails, Fail, Goto
<1>10. CASE AddVethHalfFails(c)
  BY <1>3, <1>10 DEF AddVethHalfFails, Fail, Goto
<1>11. CASE AddPort(c)
  <2>1. PICK m \in NewOFPorts(c) : ofport' = [ofport EXCEPT ![c] = m]
    BY <1>11 DEF AddPort
  <2>2. m \in PortNumbers
    BY DEF NewOFPorts, FreeOFPorts, PortNumbers
  <2>3. AfterPort(c) \in {"dnsflow", "addr"}
    BY DEF AfterPort
  <2>4. /\ addPc[c] = "port" /\ agent = "running"
        /\ addPc' = [addPc EXCEPT ![c] = AfterPort(c)]
        /\ sandbox' = [sandbox EXCEPT ![c] = "adding"]
        /\ UNCHANGED <<agent, dels, cache, veth, ipam>>
    BY <1>1, <1>11 DEF AddPort, Goto
  <2> QED
    BY <1>1, <2>1, <2>2, <2>3, <2>4, NodeAddFrame
<1>12. CASE AddPortFails(c)
  BY <1>3, <1>12 DEF AddPortFails, Fail, Goto
<1>13. CASE AddDnsFlow(c)
  BY <1>3, <1>13 DEF AddDnsFlow, Goto
<1>14. CASE AddDnsPortFails(c)
  BY <1>3, <1>14 DEF AddDnsPortFails, Fail, Goto
<1>15. CASE AddDnsFlowFails(c)
  BY <1>3, <1>15 DEF AddDnsFlowFails, Goto
<1>16. CASE AddAddr(c)
  BY <1>3, <1>16 DEF AddAddr, Goto
<1>17. CASE AddAddrFails(c)
  BY <1>3, <1>17 DEF AddAddrFails, Fail, Goto, FirstUndo
<1>18. CASE AddCache(c)
  BY <1>4, <1>18 DEF AddCache, CloseNetns
<1>19. CASE AddCacheFails(c)
  BY <1>3, <1>19 DEF AddCacheFails, Fail, Goto, FirstUndo
<1>20. CASE UndoFlow(c)
  BY <1>3, <1>20 DEF UndoFlow, Goto
<1>21. CASE UndoPort(c)
  <2>1. /\ addPc[c] = "undoPort" /\ agent = "running"
        /\ addPc' = [addPc EXCEPT ![c] = "undoLink"]
        /\ ofport' = [ofport EXCEPT ![c] = 0]
        /\ sandbox' = [sandbox EXCEPT ![c] = "adding"]
        /\ UNCHANGED <<agent, dels>> /\ UNCHANGED cache
        /\ ipam' = [ipam EXCEPT ![c] = ipam[c]]
        /\ veth' \subseteq Containers /\ veth' \ {c} = veth \ {c}
    BY <1>1, <1>21 DEF UndoPort, Goto
  <2>2. 0 \in PortNumbers /\ ~(0 # 0)
    BY NumberType
  <2>3. "undoLink" \in (AddSteps \ {"ipam"}) \cup {"done"} /\ addPc[c] \in AddSteps
    BY <2>1
  <2> HIDE DEF AddSteps
  <2> QED
    BY <2>1, <2>2, <2>3, NodeAddFrame
<1>22. CASE UndoPortFails(c)
  BY <1>22 DEF UndoPortFails, RollbacksSucceed
<1>23. CASE UndoLink(c)
  BY <1>2, <1>4, <1>23 DEF UndoLink, CloseNetns, RollbacksSucceed
<1> QED
  BY <1>5, <1>6, <1>7, <1>8, <1>9, <1>10, <1>11, <1>12, <1>13, <1>14, <1>15, <1>16, <1>17, <1>18, <1>19, <1>20, <1>21, <1>22, <1>23 DEF CmdAdd

\* The answer of a DEL: on success nothing is left of the container.
LEMMA NodeDelReply ==
  ASSUME IInv, SoloInv, NodeInv,
         NEW d \in Dels, dels[d].pc # "idle",
         NEW ok \in BOOLEAN, DelReply(d, ok),
         UNCHANGED <<ofport, ipam>>,
         \A n \in Names : cache'[n] \in {cache[n], None},
         \A e \in Containers :
           Plugged(e) /\ cache[Name(e)] = e => cache'[Name(e)] = e,
         ok => /\ ~Plugged(dels[d].cont)
               /\ ipam[dels[d].cont] = None
               /\ cache'[Name(dels[d].cont)] # dels[d].cont
  PROVE  NodeInv'
<1> USE DEF IInv, TypeOK, NodeInv
<1> DEFINE c == dels[d].cont
<1>1. c \in Containers /\ sandbox[c] = "deleting" /\ ~Adding(c)
  BY DEF SoloInv, DelIsAwaited, AddIsAwaited, PortInv, DelOwns
<1>2. /\ UNCHANGED <<agent, addPc>> /\ dels' = [dels EXCEPT ![d] = IdleDel]
      /\ sandbox' = [sandbox EXCEPT ![c] = IF ok THEN "gone" ELSE "failed"]
      /\ veth' = IF ok THEN veth \ {c} ELSE veth
  BY <1>1 DEF DelReply, SoloInv, DelIsAwaited
<1> HIDE DEF c
<1>3. DelProgress'
  BY <1>2 DEF DelProgress, Plugged, IdleDel
<1>4. AddProgress'
  BY <1>2 DEF AddProgress
<1>5. ResetIsEmpty' /\ PortsAccounted'
  BY <1>2 DEF ResetIsEmpty, PortsAccounted, Plugged
<1>6. GoneLeavesNothing'
  BY <1>1, <1>2, NameType, NoneAssumption DEF GoneLeavesNothing, Plugged, c
<1> QED
  BY <1>3, <1>4, <1>5, <1>6

LEMMA NodeDel ==
  ASSUME IInv, SoloInv, NodeInv, HostNamesDistinct, NEW d \in Dels, CmdDel(d)
  PROVE  NodeInv'
<1> USE DEF DelAt
<1> DEFINE c == dels[d].cont
<1>1. /\ c \in Containers /\ Name(c) \in Names
      /\ sandbox[c] = "deleting" /\ dels[d].pc \in DelSteps
      /\ agent = "running"
      /\ addPc[c] \notin AddSteps \cup {"new"}
  BY NameType
  DEF CmdDel, DelIpam, DelLink, DelLookup, DelLookupMisses, DelPort,
         DelUncache, DelFails, IInv, PortInv, DelOwns, SoloInv, DelIsAwaited,
         AddIsAwaited, NewIsNone, Adding, DelSteps
<1>2. \A e \in Dels : e # d /\ dels[e].pc # "idle" => dels[e].cont # c
  BY <1>1 DEF SoloInv, OneDelEach, DelSteps
<1> USE DEF DelSteps, AddSteps
<1> HIDE DEF c
<1>3. CASE DelIpam(d)
  <2>1. /\ ipam' = [ipam EXCEPT ![c] = None]
        /\ UNCHANGED <<agent, sandbox, addPc, cache, ofport, veth>>
        /\ dels' = [dels EXCEPT ![d].pc = "link"]
    BY <1>3 DEF DelIpam, DelGoto, c
  <2>2. \A e \in Dels : /\ dels'[e].cont = dels[e].cont
                        /\ dels'[e].pc = IF e = d THEN "link" ELSE dels[e].pc
    BY <2>1 DEF IInv, TypeOK
  <2> QED
    BY <1>1, <2>1, <2>2
    DEF IInv, TypeOK, NodeInv, DelProgress, AddProgress, ResetIsEmpty,
        PortsAccounted, GoneLeavesNothing, Plugged, c
<1>4. CASE DelLink(d)
  <2>1. /\ veth' = veth \ {c}
        /\ UNCHANGED <<agent, sandbox, addPc, cache, ofport, ipam>>
        /\ dels' = [dels EXCEPT ![d].pc = "lookup"]
        /\ dels[d].pc = "link"
    BY <1>4 DEF DelLink, DelGoto, c
  <2>2. \A e \in Dels : /\ dels'[e].cont = dels[e].cont
                        /\ dels'[e].pc = IF e = d THEN "lookup" ELSE dels[e].pc
    BY <2>1 DEF IInv, TypeOK
  <2> QED
    BY <1>1, <2>1, <2>2
    DEF IInv, TypeOK, NodeInv, DelProgress, AddProgress, ResetIsEmpty,
        PortsAccounted, GoneLeavesNothing, Plugged, c
<1>5. CASE DelLookup(d)
  <2>1. /\ dels[d].pc = "lookup"
        /\ UNCHANGED <<agent, sandbox, addPc, cache, ofport, veth, ipam>>
        /\ \A e \in Dels : /\ dels'[e].cont = dels[e].cont
                           /\ dels'[e].pc = IF e = d THEN "port" ELSE dels[e].pc
    BY <1>5 DEF DelLookup, IInv, TypeOK
  <2> QED
    BY <1>1, <2>1
    DEF IInv, TypeOK, NodeInv, DelProgress, AddProgress, ResetIsEmpty,
        PortsAccounted, GoneLeavesNothing, Plugged, c
<1>6. CASE DelLookupMisses(d)
  <2>1. ~Plugged(c) /\ ipam[c] = None /\ cache[Name(c)] # c
    BY <1>1, <1>6, NoneAssumption
    DEF DelLookupMisses, NodeInv, PortsAccounted, DelProgress, HasPort, c
  <2> QED
    BY <1>6, <2>1, NodeDelReply DEF DelLookupMisses, c
<1>7. CASE DelPort(d)
  <2>1. dels[d].pc = "port" /\ dels[d].uuid = c
    BY <1>1, <1>7, NoneAssumption
    DEF DelPort, IInv, PortInv, DelOwns, SoloInv, DelTakesOwnPort, c
  <2>2. /\ ofport' = [ofport EXCEPT ![c] = 0]
        /\ UNCHANGED <<agent, sandbox, addPc, cache, veth, ipam>>
        /\ dels' = [dels EXCEPT ![d].pc = "uncache"]
    BY <1>7, <2>1 DEF DelPort, DelGoto
  <2>3. \A e \in Dels : /\ dels'[e].cont = dels[e].cont
                        /\ dels'[e].pc = IF e = d THEN "uncache" ELSE dels[e].pc
    BY <2>2 DEF IInv, TypeOK
  <2> QED
    BY <1>1, <2>1, <2>2, <2>3
    DEF IInv, TypeOK, NodeInv, DelProgress, AddProgress, ResetIsEmpty,
        PortsAccounted, GoneLeavesNothing, Plugged, c
<1>8. CASE DelUncache(d)
  <2>1. ~Plugged(c) /\ ipam[c] = None
    BY <1>8 DEF DelUncache, NodeInv, DelProgress, c
  <2>2. cache' = [cache EXCEPT ![Name(c)] = None]
    BY <1>8 DEF DelUncache, c
  <2>3. cache[Name(c)] \in {None, c}
    BY <1>1, OwnEntry
  <2>4. /\ \A n \in Names : cache'[n] \in {cache[n], None}
        /\ cache'[Name(c)] # c
    BY <1>1, <2>2, NoneAssumption DEF IInv, TypeOK
  <2>5. \A e \in Containers :
          Plugged(e) /\ cache[Name(e)] = e => cache'[Name(e)] = e
    BY <1>1, <2>1, <2>2, <2>3, NameType, NoneAssumption DEF IInv, TypeOK
  <2> QED
    BY <1>8, <2>1, <2>4, <2>5, NodeDelReply DEF DelUncache, c
<1>9. CASE DelFails(d)
  BY <1>9, NodeDelReply DEF DelFails
<1> QED
  BY <1>3, <1>4, <1>5, <1>6, <1>7, <1>8, <1>9 DEF CmdDel

LEMMA NodeStep ==
  ASSUME IInv, SoloInv, NodeInv,
         RuntimeWaits, HostNamesDistinct, RollbacksSucceed, [Next]_vars
  PROVE  NodeInv'
<1> USE DEF DelProgress, AddProgress, ResetIsEmpty, PortsAccounted,
            GoneLeavesNothing, Plugged
<1>1. ASSUME NEW c \in Containers, StartAdd(c)
      PROVE  NodeInv'
  BY <1>1 DEF StartAdd, At, HasPort, IInv, TypeOK, NodeInv
<1>2. ASSUME NEW c \in Containers, CmdAdd(c)
      PROVE  NodeInv'
  BY <1>2, NodeAdd
<1>3. ASSUME NEW c \in Containers, GiveUpAdd(c)
      PROVE  NodeInv'
  BY <1>3 DEF GiveUpAdd, RuntimeWaits
<1>4. ASSUME NEW d \in Dels, CmdDel(d)
      PROVE  NodeInv'
  BY <1>4, NodeDel
<1>5. ASSUME NEW d \in Dels, GiveUpDel(d)
      PROVE  NodeInv'
  BY <1>5 DEF GiveUpDel, RuntimeWaits
<1>6. ASSUME NEW d \in Dels, NEW c \in Containers, StartDel(d, c)
      PROVE  NodeInv'
  BY <1>6 DEF StartDel, DelAt, IInv, TypeOK, NodeInv
<1>7. CASE Crash
  BY <1>7, NodeDie DEF Crash
<1>8. CASE DeleteBridge
  BY <1>8 DEF DeleteBridge, IInv, PortInv, StoppedIsEmpty, NodeInv
<1>9. CASE Restart
  BY <1>9 DEF Restart, NodeInv
<1>10. CASE UNCHANGED vars
  BY <1>10 DEF vars, NodeInv
<1> QED
  BY <1>1, <1>2, <1>3, <1>4, <1>5, <1>6, <1>7, <1>8, <1>9, <1>10 DEF Next

-----------------------------------------------------------------------------
(* What an ADD answers.                                                    *)

LEMMA ReadyInit == Init => ReadyInv
BY DEF Init, ReadyInv, FlowsForDns, LinkIsKept, AddressIsKept, UndoIsRefused,
       ReadyIsAttached

\* What a step of the ADD of c may change, another container does not notice.
AddTouchesOwn(c) ==
  /\ ofport' \in [Containers -> PortNumbers]
  /\ addr' \in [Containers -> IPs \cup {None}]
  /\ ipam' \in [Containers -> IPs \cup {None}]
  /\ answer' \in [Containers -> BOOLEAN]
  /\ veth' \ {c} = veth \ {c}
  /\ \A e \in Containers \ {c} :
       /\ ofport'[e] = ofport[e] /\ addr'[e] = addr[e] /\ ipam'[e] = ipam[e]
       /\ answer'[e] = answer[e]

\* A step of an ADD that goes on.
LEMMA ReadyGoto ==
  ASSUME IInv, SoloInv, ReadyInv,
         NEW c \in Containers, addPc[c] \in AddSteps,
         NEW s \in AddSteps \ {"ipam"}, addPc' = [addPc EXCEPT ![c] = s],
         UNCHANGED <<sandbox, cache>>, AddTouchesOwn(c), addr'[c] # None,
         s = "dnsflow" => IsDns(c),
         s \in {"port", "dnsflow", "addr", "cache"} => c \in veth',
         s \in {"undoFlow", "undoPort", "undoLink"} => answer'[c] = FALSE
  PROVE  ReadyInv'
<1> USE DEF IInv, TypeOK, ReadyInv, AddTouchesOwn
<1>1. sandbox[c] = "adding"
  BY DEF SoloInv, AddIsAwaited, Adding
<1>2. LinkIsKept' /\ FlowsForDns'
  BY DEF LinkIsKept, FlowsForDns, IsDns
<1>3. AddressIsKept'
  BY <1>1 DEF AddressIsKept
<1>4. UndoIsRefused'
  BY DEF UndoIsRefused
<1>5. ReadyIsAttached'
  BY <1>1 DEF ReadyIsAttached, Plugged
<1> QED
  BY <1>2, <1>3, <1>4, <1>5

\* An ADD that answers an error.
LEMMA ReadyRefuse ==
  ASSUME IInv, SoloInv, ReadyInv,
         NEW c \in Containers, addPc[c] \in AddSteps, Finish(c, FALSE),
         veth' \ {c} = veth \ {c},
         UNCHANGED <<cache, ofport, ipam>>
  PROVE  ReadyInv'
<1> USE DEF IInv, TypeOK, ReadyInv
<1>1. /\ sandbox[c] = "adding" /\ sandbox' = [sandbox EXCEPT ![c] = "failed"]
      /\ addPc' = [addPc EXCEPT ![c] = "done"]
      /\ addr' = [addr EXCEPT ![c] = None]
      /\ answer' = [answer EXCEPT ![c] = TRUE]
  BY DEF SoloInv, AddIsAwaited, Adding, Finish
<1>2. LinkIsKept' /\ FlowsForDns'
  BY <1>1 DEF LinkIsKept, FlowsForDns, IsDns
<1>3. AddressIsKept'
  BY <1>1 DEF AddressIsKept
<1>4. UndoIsRefused'
  BY <1>1 DEF UndoIsRefused
<1>5. ReadyIsAttached'
  BY <1>1 DEF ReadyIsAttached, Plugged
<1> QED
  BY <1>2, <1>3, <1>4, <1>5

\* An ADD that answers success has made everything.
LEMMA ReadyAttach ==
  ASSUME IInv, SoloInv, ReadyInv, HostNamesDistinct,
         NEW c \in Containers, AddCache(c)
  PROVE  ReadyInv'
<1> USE DEF IInv, TypeOK, ReadyInv
<1>1. addPc[c] = "cache" /\ sandbox[c] = "adding"
  BY DEF SoloInv, AddIsAwaited, Adding, AddSteps, AddCache, At
<1>2. /\ sandbox' = [sandbox EXCEPT ![c] = "ready"]
      /\ addPc' = [addPc EXCEPT ![c] = "done"]
      /\ answer' = [answer EXCEPT ![c] = TRUE]
      /\ cache' = [cache EXCEPT ![Name(c)] = c]
      /\ UNCHANGED <<addr, ofport, veth, ipam>>
  BY <1>1 DEF AddCache, Finish, CloseNetns
<1>3. Name(c) \in Names /\ cache[Name(c)] = None
  BY <1>1, OwnEntry, AtWorkUncached, NameType DEF AddSteps
<1>4. c \in veth /\ Plugged(c) /\ addr[c] # None /\ ipam[c] = addr[c]
  BY <1>1 DEF LinkIsKept, PortInv, PortStays, HasPort, AddressIsKept, AddrInv,
              LiveHoldsAddress
<1>5. LinkIsKept' /\ FlowsForDns'
  BY <1>2 DEF LinkIsKept, FlowsForDns, IsDns
<1>6. AddressIsKept'
  BY <1>2, <1>4 DEF AddressIsKept
<1>7. UndoIsRefused'
  BY <1>2 DEF UndoIsRefused
<1>8. ReadyIsAttached'
  BY <1>2, <1>3, <1>4, NameType, NoneAssumption DEF ReadyIsAttached, Plugged
<1> QED
  BY <1>5, <1>6, <1>7, <1>8

LEMMA ReadyAdd ==
  ASSUME IInv, SoloInv, ReadyInv, HostNamesDistinct, FlowsAccepted, Up',
         NEW c \in Containers, CmdAdd(c)
  PROVE  ReadyInv'
<1> USE DEF At, AddSteps
<1>1. IInv /\ TypeOK /\ PodOf \in [Containers -> Pods]
  BY PodsAssumption DEF IInv
\* A step that neither makes nor takes away.
<1>2. ASSUME addPc[c] \in AddSteps \ {"ipam"}, Goto(c, addPc'[c]),
             NEW s \in AddSteps \ {"ipam", "dnsflow"}, addPc'[c] = s,
             UNCHANGED <<addr, cache, ofport, ipam>>,
             veth' = veth \/ veth' = veth \cup {c},
             s \in {"port", "dnsflow", "addr", "cache"} =>
               c \in veth' \/ addPc[c] \in {"port", "dnsflow", "addr", "cache"},
             \/ answer' = [answer EXCEPT ![c] = FALSE]
             \/ /\ UNCHANGED answer
                /\ s \in {"undoFlow", "undoPort", "undoLink"} =>
                     addPc[c] \in {"undoFlow", "undoPort", "undoLink"}
      PROVE  ReadyInv'
  <2>1. AddTouchesOwn(c)
    BY <1>1, <1>2 DEF AddTouchesOwn, TypeOK
  <2>2. addr'[c] # None
    BY <1>2 DEF ReadyInv, AddressIsKept, SoloInv, AddIsAwaited, Adding
  <2>3. s \in {"port", "dnsflow", "addr", "cache"} => c \in veth'
    BY <1>2 DEF ReadyInv, LinkIsKept
  <2>4. s \in {"undoFlow", "undoPort", "undoLink"} => answer'[c] = FALSE
    BY <1>1, <1>2 DEF ReadyInv, UndoIsRefused, TypeOK
  <2>5. addPc' = [addPc EXCEPT ![c] = s] /\ UNCHANGED <<sandbox, cache>>
    BY <1>2 DEF Goto
  <2> HIDE DEF AddSteps
  <2> QED
    BY <1>2, <2>1, <2>2, <2>3, <2>4, <2>5, ReadyGoto
\* A step that makes or deletes the port.
<1>3. ASSUME addPc[c] \in {"port", "undoPort"}, NEW s \in AddSteps, Goto(c, s),
             UNCHANGED <<answer, addr, cache, veth, ipam>>,
             NEW n \in PortNumbers, ofport' = [ofport EXCEPT ![c] = n],
             addPc[c] = "port" => s \in {"dnsflow", "addr"},
             s = "dnsflow" => IsDns(c),
             addPc[c] = "undoPort" => s = "undoLink"
      PROVE  ReadyInv'
  <2>1. AddTouchesOwn(c)
    BY <1>1, <1>3 DEF AddTouchesOwn, TypeOK
  <2>2. addr'[c] # None
    BY <1>3 DEF ReadyInv, AddressIsKept, SoloInv, AddIsAwaited, Adding
  <2>3. s \in {"port", "dnsflow", "addr", "cache"} => c \in veth'
    BY <1>3 DEF ReadyInv, LinkIsKept
  <2>4. s \in {"undoFlow", "undoPort", "undoLink"} => answer'[c] = FALSE
    BY <1>3 DEF ReadyInv, UndoIsRefused
  <2>5. addPc' = [addPc EXCEPT ![c] = s] /\ UNCHANGED <<sandbox, cache>>
        /\ addPc[c] \in AddSteps /\ s \in AddSteps \ {"ipam"}
        /\ (s = "dnsflow" => IsDns(c))
    BY <1>3 DEF Goto
  <2> HIDE DEF AddSteps
  <2> QED
    BY <2>1, <2>2, <2>3, <2>4, <2>5, ReadyGoto
<1>4. CASE AddIpam(c)
  <2>1. PICK a \in IPs : /\ ipam' = [ipam EXCEPT ![c] = a]
                         /\ addr' = [addr EXCEPT ![c] = a]
    BY <1>4 DEF AddIpam, FreeIPs
  <2>2. AddTouchesOwn(c) /\ addr'[c] # None
    BY <1>1, <1>4, <2>1, NoneAssumption DEF AddTouchesOwn, TypeOK, AddIpam
  <2>3. addPc' = [addPc EXCEPT ![c] = "veth"] /\ UNCHANGED <<sandbox, cache>>
        /\ addPc[c] \in AddSteps
    BY <1>4 DEF AddIpam, Goto
  <2> QED
    BY <2>2, <2>3, ReadyGoto
<1>5. CASE AddIpamMissing(c)
  BY <1>5, ReadyRefuse DEF AddIpamMissing
<1>6. CASE AddIpamPanics(c)
  BY <1>6 DEF AddIpamPanics, Die, Up
<1>7. CASE AddVeth(c)
  BY <1>1, <1>2, <1>7 DEF AddVeth, Goto, TypeOK
<1>8. CASE AddVethFails(c)
  BY <1>1, <1>2, <1>8 DEF AddVethFails, Fail, Goto, TypeOK
<1>9. CASE AddVethHalfFails(c)
  BY <1>1, <1>2, <1>9 DEF AddVethHalfFails, Fail, Goto, TypeOK
<1>10. CASE AddPort(c)
  <2>1. PICK n \in NewOFPorts(c) : ofport' = [ofport EXCEPT ![c] = n]
    BY <1>10 DEF AddPort
  <2>2. n \in PortNumbers /\ AfterPort(c) \in {"dnsflow", "addr"}
        /\ (AfterPort(c) = "dnsflow" => IsDns(c))
    BY DEF NewOFPorts, FreeOFPorts, PortNumbers, AfterPort
  <2> QED
    BY <1>3, <1>10, <2>1, <2>2 DEF AddPort
<1>11. CASE AddPortFails(c)
  BY <1>1, <1>2, <1>11 DEF AddPortFails, Fail, Goto, TypeOK
<1>12. CASE AddDnsFlow(c)
  BY <1>1, <1>2, <1>12 DEF AddDnsFlow, Goto, TypeOK
<1>13. CASE AddDnsPortFails(c)
  BY <1>1, <1>2, <1>13 DEF AddDnsPortFails, Fail, Goto, TypeOK
<1>14. CASE AddDnsFlowFails(c)
  BY <1>14 DEF AddDnsFlowFails, FlowsAccepted, ReadyInv, FlowsForDns, IsDns
<1>15. CASE AddAddr(c)
  BY <1>1, <1>2, <1>15 DEF AddAddr, Goto, TypeOK
<1>16. CASE AddAddrFails(c)
  BY <1>1, <1>2, <1>16 DEF AddAddrFails, Fail, Goto, TypeOK, FirstUndo
<1>17. CASE AddCache(c)
  BY <1>17, ReadyAttach
<1>18. CASE AddCacheFails(c)
  BY <1>1, <1>2, <1>18 DEF AddCacheFails, Fail, Goto, TypeOK, FirstUndo
<1>19. CASE UndoFlow(c)
  BY <1>1, <1>2, <1>19 DEF UndoFlow, Goto, TypeOK
<1>20. CASE UndoPort(c)
  BY <1>3, <1>20, NumberType DEF UndoPort
<1>21. CASE UndoPortFails(c)
  BY <1>1, <1>2, <1>21 DEF UndoPortFails, Goto, TypeOK
<1>22. CASE UndoLink(c)
  <2>1. answer[c] = FALSE
    BY <1>22 DEF UndoLink, ReadyInv, UndoIsRefused
  <2>2. veth' \ {c} = veth \ {c}
    BY <1>22 DEF UndoLink, CloseNetns
  <2> QED
    BY <1>22, <2>1, <2>2, ReadyRefuse DEF UndoLink
<1> QED
  BY <1>4, <1>5, <1>6, <1>7, <1>8, <1>9, <1>10, <1>11, <1>12, <1>13, <1>14, <1>15, <1>16, <1>17, <1>18, <1>19, <1>20, <1>21, <1>22 DEF CmdAdd

\* A request of a DEL touches one container, which is not to come back before
\* its DEL is over.
LEMMA ReadyTeardown ==
  ASSUME IInv, ReadyInv,
         NEW c \in Containers, sandbox[c] \in {"ready", "failed", "deleting"},
         NEW b \in {"failed", "deleting", "gone"},
         sandbox' = [sandbox EXCEPT ![c] = b],
         addr' = [addr EXCEPT ![c] = None],
         addPc[c] = "done", UNCHANGED <<addPc, answer>>,
         veth' \ {c} = veth \ {c},
         \A e \in Containers \ {c} :
           /\ ofport'[e] = ofport[e] /\ ipam'[e] = ipam[e]
           /\ cache[Name(e)] = e => cache'[Name(e)] = e
  PROVE  ReadyInv'
<1> USE DEF IInv, TypeOK, ReadyInv
<1>1. LinkIsKept' /\ FlowsForDns'
  BY DEF LinkIsKept, FlowsForDns, IsDns
<1>2. AddressIsKept'
  BY DEF AddressIsKept
<1>3. UndoIsRefused'
  BY DEF UndoIsRefused
<1>4. ReadyIsAttached'
  BY DEF ReadyIsAttached, Plugged
<1> QED
  BY <1>1, <1>2, <1>3, <1>4

LEMMA ReadyDel ==
  ASSUME IInv, SoloInv, ReadyInv, HostNamesDistinct, NEW d \in Dels, CmdDel(d)
  PROVE  ReadyInv'
<1> USE DEF DelAt
<1> DEFINE c == dels[d].cont
<1>1. /\ c \in Containers /\ Name(c) \in Names
      /\ sandbox[c] = "deleting"
      /\ dels[d].waited
      /\ addPc[c] \notin AddSteps \cup {"new"}
  BY NameType
  DEF CmdDel, DelIpam, DelLink, DelLookup, DelLookupMisses, DelPort,
         DelUncache, DelFails, IInv, PortInv, DelOwns, SoloInv, DelIsAwaited,
         AddIsAwaited, NewIsNone, Adding
<1>2. addPc[c] = "done" /\ addr[c] = None
  BY <1>1 DEF IInv, TypeOK, ReadyInv, AddressIsKept
<1> HIDE DEF c
\* While it works.
<1>3. ASSUME UNCHANGED <<sandbox, addPc, answer, addr>>, veth' \ {c} = veth \ {c},
             \A e \in Containers \ {c} :
               /\ ofport'[e] = ofport[e] /\ ipam'[e] = ipam[e]
               /\ cache[Name(e)] = e => cache'[Name(e)] = e
      PROVE  ReadyInv'
  <2>1. sandbox' = [sandbox EXCEPT ![c] = "deleting"]
        /\ addr' = [addr EXCEPT ![c] = None]
    BY <1>1, <1>2, <1>3 DEF IInv, TypeOK
  <2> QED
    BY <1>1, <1>2, <1>3, <2>1, ReadyTeardown
\* When it answers.
<1>4. ASSUME NEW ok \in BOOLEAN, DelReply(d, ok), UNCHANGED <<ofport, ipam>>,
             \A e \in Containers \ {c} :
               cache[Name(e)] = e => cache'[Name(e)] = e
      PROVE  ReadyInv'
  <2>1. PICK b \in {"gone", "failed"} : sandbox' = [sandbox EXCEPT ![c] = b]
    BY <1>1, <1>4 DEF DelReply, c
  <2>2. addr' = [addr EXCEPT ![c] = None]
    BY <1>2, <1>4 DEF DelReply, IInv, TypeOK
  <2>3. veth' \ {c} = veth \ {c} /\ UNCHANGED <<addPc, answer>>
    BY <1>4 DEF DelReply, c
  <2> QED
    BY <1>1, <1>2, <1>4, <2>1, <2>2, <2>3, ReadyTeardown
<1>5. CASE DelIpam(d)
  BY <1>3, <1>5 DEF DelIpam, DelGoto, IInv, TypeOK, c
<1>6. CASE DelLink(d)
  BY <1>3, <1>6 DEF DelLink, DelGoto, c
<1>7. CASE DelLookup(d)
  BY <1>3, <1>7 DEF DelLookup
<1>8. CASE DelLookupMisses(d)
  BY <1>4, <1>8 DEF DelLookupMisses
<1>9. CASE DelPort(d)
  <2>1. dels[d].uuid = c
    BY <1>1, <1>9, NoneAssumption
    DEF DelPort, IInv, PortInv, DelOwns, SoloInv, DelTakesOwnPort, c
  <2> QED
    BY <1>3, <1>9, <2>1 DEF DelPort, DelGoto, IInv, TypeOK
<1>10. CASE DelUncache(d)
  <2>1. cache[Name(c)] \in {None, c}
    BY <1>1, OwnEntry
  <2>2. cache' = [cache EXCEPT ![Name(c)] = None]
    BY <1>10 DEF DelUncache, c
  <2>3. \A e \in Containers \ {c} : cache[Name(e)] = e => cache'[Name(e)] = e
    BY <2>1, <2>2, NameType, NoneAssumption DEF IInv, TypeOK
  <2> QED
    BY <1>4, <1>10, <2>3 DEF DelUncache
<1>11. CASE DelFails(d)
  BY <1>4, <1>11 DEF DelFails
<1> QED
  BY <1>5, <1>6, <1>7, <1>8, <1>9, <1>10, <1>11 DEF CmdDel

LEMMA ReadyStep ==
  ASSUME IInv, SoloInv, ReadyInv, RuntimeWaits, HostNamesDistinct,
         FlowsAccepted, Up, Up', [Next]_vars
  PROVE  ReadyInv'
<1> USE DEF FlowsForDns, LinkIsKept, AddressIsKept, UndoIsRefused,
            ReadyIsAttached, Plugged, IsDns
<1>1. ASSUME NEW c \in Containers, StartAdd(c)
      PROVE  ReadyInv'
  BY <1>1 DEF StartAdd, At, IInv, TypeOK, AddrInv, FreshIsUntouched, ReadyInv
<1>2. ASSUME NEW c \in Containers, CmdAdd(c)
      PROVE  ReadyInv'
  BY <1>2, ReadyAdd
<1>3. ASSUME NEW c \in Containers, GiveUpAdd(c)
      PROVE  ReadyInv'
  BY <1>3 DEF GiveUpAdd, RuntimeWaits
<1>4. ASSUME NEW d \in Dels, CmdDel(d)
      PROVE  ReadyInv'
  BY <1>4, ReadyDel
<1>5. ASSUME NEW d \in Dels, GiveUpDel(d)
      PROVE  ReadyInv'
  BY <1>5 DEF GiveUpDel, RuntimeWaits
<1>6. ASSUME NEW d \in Dels, NEW c \in Containers, StartDel(d, c)
      PROVE  ReadyInv'
  <2>1. addPc[c] = "done" /\ sandbox[c] \in {"ready", "failed"}
    BY <1>6 DEF StartDel, SoloInv, AddIsAwaited, NewIsNone, Adding, IInv, TypeOK
  <2> QED
    BY <1>6, <2>1, ReadyTeardown DEF StartDel
<1>7. CASE Crash \/ DeleteBridge \/ Restart
  BY <1>7 DEF Crash, Die, DeleteBridge, Restart, Up
<1>8. CASE UNCHANGED vars
  BY <1>8 DEF vars, ReadyInv
<1> QED
  BY <1>1, <1>2, <1>3, <1>4, <1>5, <1>6, <1>7, <1>8 DEF Next

-----------------------------------------------------------------------------
(* The theorems.                                                           *)

\* A DEL deletes the OVS port of the container it was asked to delete, though
\* CmdDel finds it by the pod's name: for a runtime that waits for its answers,
\* whatever fails, and though the agent exits and comes up again.
THEOREM DelTakesOwnPortAlways ==
  ASSUME RuntimeWaits, HostNamesDistinct
  PROVE  Spec => []DelTakesOwnPort
<1>1. Init => IInv /\ SoloInv
  BY TypeInit, PortInit, AddrInit, SoloInit DEF IInv
<1>2. IInv /\ SoloInv /\ [Next]_vars => IInv' /\ SoloInv'
  BY TypeStep, PortStep, AddrStep, SoloStep DEF IInv
<1>3. SoloInv => DelTakesOwnPort
  BY DEF SoloInv
<1> QED
  BY <1>1, <1>2, <1>3, PTL DEF Spec

LEMMA NodeInvariance ==
  ASSUME RuntimeWaits, HostNamesDistinct, RollbacksSucceed
  PROVE  Spec => []NodeInv
<1>1. Init => IInv /\ SoloInv /\ NodeInv
  BY TypeInit, PortInit, AddrInit, SoloInit, NodeInit DEF IInv
<1>2. IInv /\ SoloInv /\ NodeInv /\ [Next]_vars => IInv' /\ SoloInv' /\ NodeInv'
  BY TypeStep, PortStep, AddrStep, SoloStep, NodeStep DEF IInv
<1> QED
  BY <1>1, <1>2, PTL DEF Spec

\* If rollbacks work too, every container port on the bridge is held by an ADD
\* or by interfaceCache while the agent runs: also after the agent exited and
\* lost interfaceCache, as it comes up only on a bridge made anew.
THEOREM PortsAccountedAlways ==
  ASSUME RuntimeWaits, HostNamesDistinct, RollbacksSucceed
  PROVE  Spec => []PortsAccounted
<1>1. NodeInv => PortsAccounted
  BY DEF NodeInv
<1> QED
  BY <1>1, NodeInvariance, PTL

\* Under the same, a DEL that answered success left nothing of its container on
\* the node: no veth pair, port, entry or address.
THEOREM GoneLeavesNothingAlways ==
  ASSUME RuntimeWaits, HostNamesDistinct, RollbacksSucceed
  PROVE  Spec => []GoneLeavesNothing
<1>1. NodeInv => GoneLeavesNothing
  BY DEF NodeInv
<1> QED
  BY <1>1, NodeInvariance, PTL

\* As long as the agent stays up, and no switch refuses a CoreDNS flow, a
\* container whose CmdAdd answered success has its veth pair, its port, its
\* entry and its address until its DEL.
THEOREM ReadyIsAttachedWhileUp ==
  ASSUME RuntimeWaits, HostNamesDistinct, FlowsAccepted
  PROVE  Spec /\ []Up => []ReadyIsAttached
<1>1. Init => IInv /\ SoloInv /\ ReadyInv
  BY TypeInit, PortInit, AddrInit, SoloInit, ReadyInit DEF IInv
<1>2. IInv /\ SoloInv /\ ReadyInv /\ Up /\ Up' /\ [Next]_vars
        => IInv' /\ SoloInv' /\ ReadyInv'
  BY TypeStep, PortStep, AddrStep, SoloStep, ReadyStep DEF IInv
<1>3. ReadyInv => ReadyIsAttached
  BY DEF ReadyInv
<1> QED
  BY <1>1, <1>2, <1>3, PTL DEF Spec
=============================================================================
