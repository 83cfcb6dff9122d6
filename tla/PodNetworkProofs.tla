-------------------------- MODULE PodNetworkProofs --------------------------
(***************************************************************************)
(* Proofs about PodNetwork, for every set of containers, pods, DEL slots,  *)
(* addresses and port numbers and for every choice of Faults: requests may *)
(* interleave, fail at any step, be given up on, and the agent may crash.  *)
(***************************************************************************)
EXTENDS PodNetwork, TLAPS

(***************************************************************************)
(* The inductive invariant.  An OVS port changes hands three times: from   *)
(* the ADD that made it to interfaceCache, from there to the DEL that read *)
(* the entry.  The invariant says that these owners never overlap.         *)
(***************************************************************************)

\* A stopped agent has no handler and no memory.
StoppedIsEmpty ==
  agent # "running" =>
    /\ \A c \in Containers : addPc[c] \in {"new", "done"}
    /\ \A d \in Dels : dels[d].pc = "idle"
    /\ \A n \in Names : cache[n] = None

\* A cached port is that of an ADD which is over, under the pod's name.
CacheOwns ==
  \A n \in Names : cache[n] # None =>
    Name(cache[n]) = n /\ addPc[cache[n]] = "done"

\* A DEL holds a container, and past its lookup a port that was cached.
DelOwns ==
  \A d \in Dels :
    /\ dels[d].pc # "idle" => dels[d].cont \in Containers
    /\ dels[d].pc \in {"port", "uncache"} =>
         /\ dels[d].uuid \in Containers
         /\ addPc[dels[d].uuid] = "done"
         /\ Name(dels[d].uuid) = Name(dels[d].cont)

PortInv ==
  /\ StoppedIsEmpty
  /\ CacheOwns
  /\ DelOwns
  /\ PortStays
  /\ CacheMatchesBridge

\* The part about addresses: host-local hands an address out once, and an
\* address leaves a container only through a DEL, which follows the end of
\* its ADD for the runtime.
FreshIsUntouched ==
  \A c \in Containers : addPc[c] = "new" => sandbox[c] = "none" /\ addr[c] = None

DelComesAfter ==
  \A d \in Dels : dels[d].pc # "idle" =>
    sandbox[dels[d].cont] \notin {"none", "adding", "ready"}

NotFreshIsAdded ==
  \A c \in Containers : sandbox[c] = "none" => addPc[c] = "new"

LiveHoldsAddress ==
  \A c \in Containers :
    sandbox[c] \in {"adding", "ready"} /\ addr[c] # None => ipam[c] = addr[c]

IpamDistinct ==
  \A c, e \in Containers : ipam[c] # None /\ ipam[c] = ipam[e] => c = e

AddrInv ==
  /\ FreshIsUntouched
  /\ NotFreshIsAdded
  /\ DelComesAfter
  /\ LiveHoldsAddress
  /\ IpamDistinct

IInv == TypeOK /\ PortInv /\ AddrInv

-----------------------------------------------------------------------------
(* Type correctness.                                                       *)

LEMMA NameType == \A c \in Containers : Name(c) \in Names
BY PodsAssumption DEF Name, Names

\* Every port has a number, or none: 0.
LEMMA NumberType == 0 \in PortNumbers /\ Unopened \in PortNumbers
BY DEF PortNumbers

LEMMA FlowType == \A n \in PortNumbers : DnsFlows(n) \subseteq AllFlows
BY DEF DnsFlows, DnsFlow, DnsTables, AllFlows

LEMMA TypeInit == Init => TypeOK
BY NoneAssumption, NumberType DEF Init, TypeOK, IdleDel

\* The process may exit anywhere.
LEMMA TypeDie == TypeOK /\ Die => TypeOK'
BY DEF TypeOK, Die, IdleDel, Adding, AddSteps

LEMMA TypeAdd ==
  ASSUME TypeOK, NEW c \in Containers, CmdAdd(c)
  PROVE  TypeOK'
<1> USE DEF TypeOK, AddSteps, DelSteps
<1>1. CASE AddIpam(c)
  BY <1>1 DEF AddIpam, At, Goto, FreeIPs
<1>2. CASE AddIpamMissing(c)
  BY <1>2 DEF AddIpamMissing, At, Finish
<1>3. CASE AddIpamPanics(c)
  BY <1>3, TypeDie DEF AddIpamPanics
<1>4. CASE AddVeth(c)
  BY <1>4 DEF AddVeth, At, Goto
<1>5. CASE AddVethFails(c)
  BY <1>5 DEF AddVethFails, At, Fail, Goto
<1>6. CASE AddVethHalfFails(c)
  BY <1>6 DEF AddVethHalfFails, At, Fail, Goto
<1>7. CASE AddPort(c)
  BY <1>7 DEF AddPort, At, Goto, AfterPort, NewOFPorts, FreeOFPorts, PortNumbers
<1>8. CASE AddPortFails(c)
  BY <1>8 DEF AddPortFails, At, Fail, Goto
<1>9. CASE AddDnsFlow(c)
  <2>1. PICK n \in OFPortsRead(c) : SendFlows(c, DnsFlows(n))
    BY <1>9 DEF AddDnsFlow
  <2>2. DnsFlows(n) \subseteq AllFlows
    BY FlowType, NumberType DEF OFPortsRead
  <2> QED
    BY <2>1, <2>2, <1>9 DEF AddDnsFlow, At, Goto, SendFlows
<1>10. CASE AddDnsPortFails(c)
  BY <1>10 DEF AddDnsPortFails, At, Fail, Goto
<1>11. CASE AddDnsFlowFails(c)
  <2>1. PICK n \in OFPortsRead(c) :
          \E fs \in {{}, {DnsFlow("classifier", n)}} : SendFlows(c, fs)
    BY <1>11 DEF AddDnsFlowFails
  <2>2. DnsFlow("classifier", n) \in AllFlows
    BY NumberType DEF DnsFlow, AllFlows, DnsTables, OFPortsRead
  <2> QED
    BY <2>1, <2>2, <1>11 DEF AddDnsFlowFails, At, Goto, SendFlows
<1>12. CASE AddAddr(c)
  BY <1>12 DEF AddAddr, At, Goto
<1>13. CASE AddAddrFails(c)
  BY <1>13 DEF AddAddrFails, At, Fail, Goto, FirstUndo
<1>14. CASE AddCache(c)
  BY <1>14, NameType DEF AddCache, At, Finish, CloseNetns
<1>15. CASE AddCacheFails(c)
  BY <1>15 DEF AddCacheFails, At, Fail, Goto, FirstUndo
<1>16. CASE UndoFlow(c)
  BY <1>16 DEF UndoFlow, At, Goto
<1>17. CASE UndoPort(c)
  BY <1>17, NumberType DEF UndoPort, At, Goto
<1>18. CASE UndoPortFails(c)
  BY <1>18 DEF UndoPortFails, At, Goto
<1>19. CASE UndoLink(c)
  BY <1>19 DEF UndoLink, At, Finish, CloseNetns
<1> QED
  BY <1>1, <1>2, <1>3, <1>4, <1>5, <1>6, <1>7, <1>8, <1>9, <1>10, <1>11, <1>12, <1>13, <1>14, <1>15, <1>16, <1>17, <1>18, <1>19 DEF CmdAdd

LEMMA TypeDel ==
  ASSUME TypeOK, NEW d \in Dels, CmdDel(d)
  PROVE  TypeOK'
<1> USE DEF TypeOK, AddSteps, DelSteps
<1>1. CASE DelIpam(d)
  BY SMTT(30), <1>1 DEF DelIpam, DelAt, DelGoto
<1>2. CASE DelLink(d)
  BY <1>2 DEF DelLink, DelAt, DelGoto
<1>3. CASE DelLookup(d)
  <2>1. dels[d].cont \in Containers
    BY <1>3 DEF DelLookup, DelAt
  <2>2. cache[Name(dels[d].cont)] \in Containers \cup {None}
    BY <2>1, NameType
  <2> QED
    BY <2>1, <2>2, <1>3 DEF DelLookup, DelAt
<1>4. CASE DelLookupMisses(d)
  BY <1>4 DEF DelLookupMisses, DelAt, DelReply, IdleDel
<1>5. CASE DelPort(d)
  BY ZenonT(40), <1>5, NumberType DEF DelPort, DelAt, DelGoto
<1>6. CASE DelUncache(d)
  BY <1>6 DEF DelUncache, DelAt, DelReply, IdleDel
<1>7. CASE DelFails(d)
  BY <1>7 DEF DelFails, DelReply, IdleDel
<1> QED
  BY <1>1, <1>2, <1>3, <1>4, <1>5, <1>6, <1>7 DEF CmdDel

LEMMA TypeStep == TypeOK /\ [Next]_vars => TypeOK'
<1> SUFFICES ASSUME TypeOK, [Next]_vars
             PROVE  TypeOK'
  OBVIOUS
<1>1. ASSUME NEW c \in Containers, StartAdd(c)
      PROVE  TypeOK'
  BY <1>1 DEF TypeOK, StartAdd, At, AddSteps
<1>2. ASSUME NEW c \in Containers, CmdAdd(c)
      PROVE  TypeOK'
  BY <1>2, TypeAdd
<1>3. ASSUME NEW c \in Containers, GiveUpAdd(c)
      PROVE  TypeOK'
  BY <1>3 DEF TypeOK, GiveUpAdd
<1>4. ASSUME NEW d \in Dels, CmdDel(d)
      PROVE  TypeOK'
  BY <1>4, TypeDel
<1>5. ASSUME NEW d \in Dels, GiveUpDel(d)
      PROVE  TypeOK'
  <2>1. dels' \in [Dels -> [pc : DelSteps \cup {"idle"},
                           cont : Containers \cup {None},
                           uuid : Containers \cup {None},
                           waited : BOOLEAN]]
    BY <1>5 DEF TypeOK, GiveUpDel
  <2>2. \A e \in Dels : dels'[e].pc = dels[e].pc /\ dels'[e].cont = dels[e].cont
    BY <1>5 DEF TypeOK, GiveUpDel
  <2> QED
    BY <2>1, <2>2, <1>5 DEF TypeOK, GiveUpDel
<1>6. ASSUME NEW d \in Dels, NEW c \in Containers, StartDel(d, c)
      PROVE  TypeOK'
  BY <1>6, NoneAssumption DEF TypeOK, StartDel, DelAt, DelSteps
<1>7. CASE Crash
  BY <1>7, TypeDie DEF Crash
<1>8. CASE DeleteBridge
  BY <1>8, NumberType DEF TypeOK, DeleteBridge
<1>9. CASE Restart
  BY <1>9 DEF TypeOK, Restart
<1>10. CASE UNCHANGED vars
  BY <1>10 DEF TypeOK, vars
<1> QED
  BY <1>1, <1>2, <1>3, <1>4, <1>5, <1>6, <1>7, <1>8, <1>9, <1>10 DEF Next

\* Every variable keeps its type, whatever requests, failures, timeouts and
\* crashes do to the handlers of pkg/cniserver.
THEOREM TypeCorrect == Spec => []TypeOK
<1>1. Init => TypeOK
  BY TypeInit
<1>2. TypeOK /\ [Next]_vars => TypeOK'
  BY TypeStep
<1> QED
  BY <1>1, <1>2, PTL DEF Spec

-----------------------------------------------------------------------------
(* Ports.                                                                  *)

LEMMA PortInit == Init => PortInv
BY DEF Init, PortInv, StoppedIsEmpty, CacheOwns, DelOwns, PortStays,
       CacheMatchesBridge, IdleDel, HasPort

LEMMA PortDie == TypeOK /\ PortInv /\ Die => PortInv'
BY DEF TypeOK, Die, PortInv, StoppedIsEmpty, CacheOwns, DelOwns, PortStays,
       CacheMatchesBridge, IdleDel, HasPort, Adding, AddSteps

\* An ADD at work may do what it likes with its own port as long as it has
\* one where it needs one: no entry and no DEL holds it.
LEMMA PortAddFrame ==
  ASSUME TypeOK, PortInv,
         NEW c \in Containers, addPc[c] \in AddSteps,
         NEW s \in AddSteps \cup {"done"},
         addPc' = [addPc EXCEPT ![c] = s],
         agent = "running", UNCHANGED <<agent, dels, cache>>,
         NEW n \in PortNumbers, ofport' = [ofport EXCEPT ![c] = n],
         s \in HasPort => n # 0
  PROVE  PortInv'
<1> USE DEF PortInv, TypeOK
<1>1. StoppedIsEmpty'
  BY DEF StoppedIsEmpty
<1>2. \A m \in Names : cache[m] # c
  BY NoneAssumption DEF CacheOwns, AddSteps
<1>3. CacheOwns'
  BY <1>2 DEF CacheOwns
<1>4. \A d \in Dels : dels[d].pc \in {"port", "uncache"} => dels[d].uuid # c
  BY DEF DelOwns, AddSteps
<1>5. DelOwns'
  BY <1>4 DEF DelOwns
<1>6. PortStays'
  BY DEF PortStays, Plugged
<1>7. CacheMatchesBridge'
  <2> SUFFICES ASSUME NEW m \in Names, cache[m] # None, ~Plugged(cache[m])'
               PROVE  \E d \in Dels : /\ dels[d].pc = "uncache"
                                      /\ dels[d].uuid = cache[m]
                                      /\ Name(dels[d].cont) = m
    BY DEF CacheMatchesBridge
  <2>1. ~Plugged(cache[m])
    BY <1>2 DEF Plugged
  <2> QED
    BY <2>1 DEF CacheMatchesBridge
<1> QED
  BY <1>1, <1>3, <1>5, <1>6, <1>7

\* A DEL that holds no port before or after its step disturbs nothing.
LEMMA PortDelFrame ==
  ASSUME TypeOK, PortInv,
         NEW d \in Dels, dels[d].pc # "uncache",
         NEW r, dels' = [dels EXCEPT ![d] = r],
         r.pc \notin {"port", "uncache"},
         r.pc # "idle" => r.cont \in Containers,
         agent = "running", UNCHANGED <<agent, addPc, cache, ofport>>
  PROVE  PortInv'
<1> USE DEF PortInv, TypeOK
<1>1. StoppedIsEmpty'
  BY DEF StoppedIsEmpty
<1>2. CacheOwns'
  BY DEF CacheOwns
<1>3. DelOwns'
  BY DEF DelOwns
<1>4. PortStays'
  BY DEF PortStays, Plugged
<1>5. CacheMatchesBridge'
  <2> SUFFICES ASSUME NEW m \in Names, cache[m] # None, ~Plugged(cache[m])
               PROVE  \E e \in Dels : /\ dels'[e].pc = "uncache"
                                      /\ dels'[e].uuid = cache[m]
                                      /\ Name(dels'[e].cont) = m
    BY DEF CacheMatchesBridge, Plugged
  <2>1. PICK e \in Dels : /\ dels[e].pc = "uncache"
                          /\ dels[e].uuid = cache[m]
                          /\ Name(dels[e].cont) = m
    BY DEF CacheMatchesBridge
  <2>2. dels'[e] = dels[e]
    BY <2>1
  <2> QED
    BY <2>1, <2>2
<1> QED
  BY <1>1, <1>2, <1>3, <1>4, <1>5

\* The entry of an ADD is its last step.
LEMMA AtWorkUncached ==
  ASSUME TypeOK, PortInv, NEW c \in Containers, addPc[c] \in AddSteps
  PROVE  cache[Name(c)] # c
BY NameType, NoneAssumption DEF PortInv, CacheOwns, AddSteps

LEMMA PortAdd ==
  ASSUME TypeOK, PortInv, NEW c \in Containers, CmdAdd(c)
  PROVE  PortInv'
<1> USE DEF At, AddSteps, HasPort
\* Most steps leave the bridge alone and go on to a step whose need for the
\* port is met: the one before it had the port, or the next needs none.
<1>1. ASSUME NEW s \in AddSteps \cup {"done"}, addPc[c] \in AddSteps,
             addPc' = [addPc EXCEPT ![c] = s], agent = "running",
             UNCHANGED <<agent, dels, cache, ofport>>,
             s \in HasPort => addPc[c] \in HasPort
      PROVE  PortInv'
  <2>1. ofport[c] \in PortNumbers /\ ofport' = [ofport EXCEPT ![c] = ofport[c]]
    BY <1>1 DEF TypeOK
  <2>2. s \in HasPort => ofport[c] # 0
    BY <1>1 DEF PortInv, PortStays, Plugged
  <2> QED
    BY <1>1, <2>1, <2>2, PortAddFrame
<1>2. FirstUndo(c) \in {"undoFlow", "undoPort"}
  BY DEF FirstUndo
<1>3. CASE AddIpam(c)
  BY <1>3, <1>1 DEF AddIpam, Goto
<1>4. CASE AddIpamMissing(c)
  BY <1>4, <1>1 DEF AddIpamMissing, Finish
<1>5. CASE AddIpamPanics(c)
  BY <1>5, PortDie DEF AddIpamPanics
<1>6. CASE AddVeth(c)
  BY <1>6, <1>1 DEF AddVeth, Goto
<1>7. CASE AddVethFails(c)
  BY <1>7, <1>1 DEF AddVethFails, Fail, Goto
<1>8. CASE AddVethHalfFails(c)
  BY <1>8, <1>1 DEF AddVethHalfFails, Fail, Goto
<1>9. CASE AddPort(c)
  <2>1. PICK m \in NewOFPorts(c) : ofport' = [ofport EXCEPT ![c] = m]
    BY <1>9 DEF AddPort
  <2>2. m \in PortNumbers /\ m # 0
    BY OFPortsAssumption DEF NewOFPorts, FreeOFPorts, PortNumbers, Unopened
  <2>3. AfterPort(c) \in AddSteps
    BY DEF AfterPort
  <2> QED
    BY <1>9, <2>1, <2>2, <2>3, PortAddFrame DEF AddPort, Goto
<1>10. CASE AddPortFails(c)
  BY <1>10, <1>1 DEF AddPortFails, Fail, Goto
<1>11. CASE AddDnsFlow(c)
  BY <1>11, <1>1 DEF AddDnsFlow, Goto, SendFlows
<1>12. CASE AddDnsPortFails(c)
  BY <1>12, <1>1 DEF AddDnsPortFails, Fail, Goto
<1>13. CASE AddDnsFlowFails(c)
  BY <1>13, <1>1 DEF AddDnsFlowFails, Goto, SendFlows
<1>14. CASE AddAddr(c)
  BY <1>14, <1>1 DEF AddAddr, Goto
<1>15. CASE AddAddrFails(c)
  BY <1>15, <1>1, <1>2 DEF AddAddrFails, Fail, Goto
<1>16. CASE AddCache(c)
  <2> USE DEF PortInv, TypeOK
  <2>1. /\ addPc' = [addPc EXCEPT ![c] = "done"]
        /\ cache' = [cache EXCEPT ![Name(c)] = c]
        /\ UNCHANGED <<agent, dels, ofport>>
        /\ agent = "running" /\ addPc[c] = "cache"
    BY <1>16 DEF AddCache, Finish
  <2>2. Plugged(c)
    BY <2>1 DEF PortStays
  <2>3. StoppedIsEmpty'
    BY <2>1 DEF StoppedIsEmpty
  <2>4. CacheOwns'
    BY <2>1 DEF CacheOwns
  <2>5. DelOwns'
    BY <2>1 DEF DelOwns
  <2>6. PortStays'
    BY <2>1 DEF PortStays, Plugged
  <2>7. CacheMatchesBridge'
    <3> SUFFICES ASSUME NEW m \in Names, cache'[m] # None,
                        ~Plugged(cache'[m])
                 PROVE  \E d \in Dels : /\ dels[d].pc = "uncache"
                                        /\ dels[d].uuid = cache'[m]
                                        /\ Name(dels[d].cont) = m
      BY <2>1 DEF CacheMatchesBridge, Plugged
    <3>1. cache'[m] = cache[m]
      BY <2>1, <2>2
    <3> QED
      BY <3>1 DEF CacheMatchesBridge
  <2> QED
    BY <2>3, <2>4, <2>5, <2>6, <2>7
<1>17. CASE AddCacheFails(c)
  BY <1>17, <1>1, <1>2 DEF AddCacheFails, Fail, Goto
<1>18. CASE UndoFlow(c)
  BY <1>18, <1>1 DEF UndoFlow, Goto
<1>19. CASE UndoPort(c)
  <2>1. addPc[c] \in AddSteps /\ "undoLink" \notin HasPort
    BY <1>19 DEF UndoPort
  <2>2. UNCHANGED <<agent, dels, cache>> /\ agent = "running"
    BY <1>19 DEF UndoPort, Goto
  <2>3. addPc' = [addPc EXCEPT ![c] = "undoLink"]
        /\ ofport' = [ofport EXCEPT ![c] = 0]
    BY <1>19 DEF UndoPort, Goto
  <2> QED
    BY <2>1, <2>2, <2>3, NumberType, PortAddFrame
<1>20. CASE UndoPortFails(c)
  BY <1>20, <1>1 DEF UndoPortFails, Goto
<1>21. CASE UndoLink(c)
  BY <1>21, <1>1 DEF UndoLink, Finish
<1> QED
  BY <1>3, <1>4, <1>5, <1>6, <1>7, <1>8, <1>9, <1>10, <1>11, <1>12, <1>13, <1>14, <1>15, <1>16, <1>17, <1>18, <1>19, <1>20, <1>21 DEF CmdAdd

LEMMA PortDel ==
  ASSUME TypeOK, PortInv, NEW d \in Dels, CmdDel(d)
  PROVE  PortInv'
<1> USE DEF DelAt, DelSteps
<1>1. dels[d].pc # "idle" /\ dels[d].cont \in Containers /\ agent = "running"
  BY DEF PortInv, DelOwns, CmdDel, DelIpam, DelLink, DelLookup,
         DelLookupMisses, DelPort, DelUncache, DelFails
<1>2. CASE DelIpam(d)
  <2> DEFINE r == [dels[d] EXCEPT !.pc = "link"]
  <2>1. r.pc = "link" /\ r.cont = dels[d].cont
    BY DEF TypeOK
  <2>2. dels' = [dels EXCEPT ![d] = r]
    BY <1>2 DEF DelIpam, DelGoto
  <2> HIDE DEF r
  <2> QED
    BY <1>1, <1>2, <2>1, <2>2, PortDelFrame DEF DelIpam, DelGoto
<1>3. CASE DelLink(d)
  <2> DEFINE r == [dels[d] EXCEPT !.pc = "lookup"]
  <2>1. r.pc = "lookup" /\ r.cont = dels[d].cont
    BY DEF TypeOK
  <2>2. dels' = [dels EXCEPT ![d] = r]
    BY <1>3 DEF DelLink, DelGoto
  <2> HIDE DEF r
  <2> QED
    BY <1>1, <1>3, <2>1, <2>2, PortDelFrame DEF DelLink, DelGoto
<1>4. CASE DelLookup(d)
  <2> USE DEF PortInv, TypeOK
  <2>1. PICK u \in Containers :
          /\ u = cache[Name(dels[d].cont)]
          /\ dels' = [dels EXCEPT ![d] =
               [pc |-> "port", cont |-> dels[d].cont, uuid |-> u,
                waited |-> dels[d].waited]]
    BY <1>1, <1>4, NameType DEF DelLookup
  <2>2. Name(u) = Name(dels[d].cont) /\ addPc[u] = "done"
    BY <1>1, <1>4, <2>1, NameType DEF CacheOwns, DelLookup
  <2>3. StoppedIsEmpty'
    BY <1>1, <1>4 DEF StoppedIsEmpty, DelLookup
  <2>4. CacheOwns'
    BY <1>4 DEF CacheOwns, DelLookup
  <2>5. DelOwns'
    BY <1>1, <1>4, <2>1, <2>2 DEF DelOwns, DelLookup
  <2>6. PortStays'
    BY <1>4 DEF PortStays, Plugged, DelLookup
  <2>7. CacheMatchesBridge'
    <3> SUFFICES ASSUME NEW m \in Names, cache[m] # None, ~Plugged(cache[m])
                 PROVE  \E e \in Dels : /\ dels'[e].pc = "uncache"
                                        /\ dels'[e].uuid = cache[m]
                                        /\ Name(dels'[e].cont) = m
      BY <1>4 DEF CacheMatchesBridge, Plugged, DelLookup
    <3>1. PICK e \in Dels : /\ dels[e].pc = "uncache"
                            /\ dels[e].uuid = cache[m]
                            /\ Name(dels[e].cont) = m
      BY DEF CacheMatchesBridge
    <3>2. dels'[e] = dels[e]
      BY <3>1, <2>1, <1>4 DEF DelLookup
    <3> QED
      BY <3>1, <3>2
  <2> QED
    BY <2>3, <2>4, <2>5, <2>6, <2>7
<1>5. CASE DelLookupMisses(d)
  BY <1>1, <1>5, PortDelFrame DEF DelLookupMisses, DelReply, IdleDel
\* The entry of the deleted port, if it is still there, is under the name
\* that this DEL removes next.
<1>6. CASE DelPort(d)
  <2> USE DEF PortInv, TypeOK
  <2> DEFINE u == dels[d].uuid
  <2>1. u \in Containers /\ addPc[u] = "done" /\ Name(u) = Name(dels[d].cont)
    BY <1>6 DEF DelOwns, DelPort
  <2>2. ofport' = [ofport EXCEPT ![u] = 0] /\ UNCHANGED <<agent, addPc, cache>>
    BY <1>6 DEF DelPort, DelGoto
  <2>3. /\ dels'[d].pc = "uncache" /\ dels'[d].uuid = u
        /\ dels'[d].cont = dels[d].cont
        /\ \A e \in Dels \ {d} : dels'[e] = dels[e]
    BY <1>6 DEF DelPort, DelGoto
  <2> HIDE DEF u
  <2>4. StoppedIsEmpty'
    BY <1>1, <2>2 DEF StoppedIsEmpty
  <2>5. CacheOwns'
    BY <2>2 DEF CacheOwns
  <2>6. DelOwns'
    BY <1>1, <2>1, <2>2, <2>3 DEF DelOwns
  <2>7. PortStays'
    BY <2>1, <2>2 DEF PortStays, Plugged, HasPort
  <2>8. CacheMatchesBridge'
    <3> SUFFICES ASSUME NEW m \in Names, cache[m] # None, ~Plugged(cache[m])'
                 PROVE  \E e \in Dels : /\ dels'[e].pc = "uncache"
                                        /\ dels'[e].uuid = cache[m]
                                        /\ Name(dels'[e].cont) = m
      BY <2>2 DEF CacheMatchesBridge, Plugged
    <3>1. CASE cache[m] = u
      BY <3>1, <2>1, <2>3 DEF CacheOwns
    <3>2. CASE cache[m] # u
      <4>1. ~Plugged(cache[m])
        BY <3>2, <2>2 DEF Plugged
      <4>2. PICK e \in Dels : /\ dels[e].pc = "uncache"
                              /\ dels[e].uuid = cache[m]
                              /\ Name(dels[e].cont) = m
        BY <4>1 DEF CacheMatchesBridge
      <4>3. e # d
        BY <4>2, <1>6 DEF DelPort
      <4> QED
        BY <4>2, <4>3, <2>3
    <3> QED
      BY <3>1, <3>2
  <2> QED
    BY <2>4, <2>5, <2>6, <2>7, <2>8
\* Only the entry under the DEL's own name is removed: an entry that relied
\* on this DEL is that one.
<1>7. CASE DelUncache(d)
  <2> USE DEF PortInv, TypeOK
  <2>1. /\ cache' = [cache EXCEPT ![Name(dels[d].cont)] = None]
        /\ dels' = [dels EXCEPT ![d] = IdleDel]
        /\ UNCHANGED <<agent, addPc, ofport>>
    BY <1>7 DEF DelUncache, DelReply
  <2>2. StoppedIsEmpty'
    BY <1>1, <2>1 DEF StoppedIsEmpty
  <2>3. CacheOwns'
    BY <2>1 DEF CacheOwns
  <2>4. DelOwns'
    BY <2>1 DEF DelOwns, IdleDel
  <2>5. PortStays'
    BY <2>1 DEF PortStays, Plugged
  <2>6. CacheMatchesBridge'
    <3> SUFFICES ASSUME NEW m \in Names, cache'[m] # None,
                        ~Plugged(cache'[m])
                 PROVE  \E e \in Dels : /\ dels'[e].pc = "uncache"
                                        /\ dels'[e].uuid = cache'[m]
                                        /\ Name(dels'[e].cont) = m
      BY <2>1 DEF CacheMatchesBridge, Plugged
    <3>1. m # Name(dels[d].cont) /\ cache'[m] = cache[m]
      BY <2>1
    <3>2. PICK e \in Dels : /\ dels[e].pc = "uncache"
                            /\ dels[e].uuid = cache[m]
                            /\ Name(dels[e].cont) = m
      BY <3>1 DEF CacheMatchesBridge
    <3> QED
      BY <3>1, <3>2, <2>1
  <2> QED
    BY <2>2, <2>3, <2>4, <2>5, <2>6
<1>8. CASE DelFails(d)
  BY <1>1, <1>8, PortDelFrame DEF DelFails, DelReply, IdleDel
<1> QED
  BY <1>2, <1>3, <1>4, <1>5, <1>6, <1>7, <1>8 DEF CmdDel

LEMMA PortStep == TypeOK /\ PortInv /\ [Next]_vars => PortInv'
<1> SUFFICES ASSUME TypeOK, PortInv, [Next]_vars
             PROVE  PortInv'
  OBVIOUS
<1> USE DEF StoppedIsEmpty, CacheOwns, DelOwns, PortStays, Plugged,
            CacheMatchesBridge, HasPort
\* A step that changes no variable of the invariant.
<1>1. ASSUME UNCHANGED <<agent, addPc, dels, cache, ofport>>
      PROVE  PortInv'
  BY <1>1 DEF PortInv
<1>2. ASSUME NEW c \in Containers, StartAdd(c)
      PROVE  PortInv'
  <2>1. /\ addPc' = [addPc EXCEPT ![c] = "ipam"] /\ addPc[c] = "new"
        /\ agent = "running"
        /\ UNCHANGED <<agent, dels, cache, ofport>>
    BY <1>2 DEF StartAdd, At
  <2> QED
    BY <2>1 DEF PortInv, TypeOK
<1>3. ASSUME NEW c \in Containers, CmdAdd(c)
      PROVE  PortInv'
  BY <1>3, PortAdd
<1>4. ASSUME NEW c \in Containers, GiveUpAdd(c)
      PROVE  PortInv'
  BY <1>4, <1>1 DEF GiveUpAdd
<1>5. ASSUME NEW d \in Dels, CmdDel(d)
      PROVE  PortInv'
  BY <1>5, PortDel
<1>6. ASSUME NEW d \in Dels, GiveUpDel(d)
      PROVE  PortInv'
  <2>1. \A e \in Dels : /\ dels'[e].pc = dels[e].pc
                        /\ dels'[e].cont = dels[e].cont
                        /\ dels'[e].uuid = dels[e].uuid
    BY <1>6 DEF GiveUpDel, TypeOK
  <2>2. UNCHANGED <<agent, addPc, cache, ofport>>
    BY <1>6 DEF GiveUpDel
  <2> QED
    BY <2>1, <2>2 DEF PortInv
<1>7. ASSUME NEW d \in Dels, NEW c \in Containers, StartDel(d, c)
      PROVE  PortInv'
  <2> DEFINE r == [pc |-> "ipam", cont |-> c, uuid |-> None, waited |-> TRUE]
  <2>1. /\ dels' = [dels EXCEPT ![d] = r]
        /\ dels[d].pc = "idle" /\ agent = "running"
        /\ UNCHANGED <<agent, addPc, cache, ofport>>
    BY <1>7 DEF StartDel, DelAt
  <2>2. r.pc = "ipam" /\ r.cont = c
    OBVIOUS
  <2> HIDE DEF r
  <2> QED
    BY <2>1, <2>2, PortDelFrame
<1>8. CASE Crash
  BY <1>8, PortDie DEF Crash
<1>9. CASE DeleteBridge
  BY <1>9 DEF DeleteBridge, PortInv, TypeOK
<1>10. CASE Restart
  BY <1>10 DEF Restart, PortInv
<1>11. CASE UNCHANGED vars
  BY <1>11, <1>1 DEF vars
<1> QED
  BY <1>2, <1>3, <1>4, <1>5, <1>6, <1>7, <1>8, <1>9, <1>10, <1>11 DEF Next

-----------------------------------------------------------------------------
(* Addresses.                                                              *)

LEMMA AddrInit == Init => AddrInv
BY DEF Init, AddrInv, FreshIsUntouched, NotFreshIsAdded, DelComesAfter,
       LiveHoldsAddress, IpamDistinct, IdleDel

LEMMA AddrDie == TypeOK /\ AddrInv /\ Die => AddrInv'
BY DEF TypeOK, Die, AddrInv, FreshIsUntouched, NotFreshIsAdded,
       DelComesAfter, LiveHoldsAddress, IpamDistinct, IdleDel, Adding, AddSteps

LEMMA AddrGoto ==
  ASSUME TypeOK, AddrInv,
         NEW c \in Containers, addPc[c] \in AddSteps,
         NEW s \in AddSteps \cup {"done"},
         addPc' = [addPc EXCEPT ![c] = s],
         UNCHANGED <<sandbox, addr, dels, ipam>>
  PROVE  AddrInv'
BY DEF TypeOK, AddrInv, FreshIsUntouched, NotFreshIsAdded, DelComesAfter,
       LiveHoldsAddress, IpamDistinct, AddSteps

LEMMA AddrFinish ==
  ASSUME TypeOK, AddrInv,
         NEW c \in Containers, addPc[c] \in AddSteps,
         NEW ok, Finish(c, ok), UNCHANGED <<dels, ipam>>
  PROVE  AddrInv'
<1> USE DEF TypeOK, AddrInv
<1>1. FreshIsUntouched'
  BY DEF FreshIsUntouched, Finish, AddSteps
<1>2. NotFreshIsAdded'
  BY DEF NotFreshIsAdded, Finish, AddSteps
<1>3. DelComesAfter'
  BY DEF DelComesAfter, Finish
<1>4. LiveHoldsAddress'
  BY NoneAssumption DEF LiveHoldsAddress, Finish
<1>5. IpamDistinct'
  BY DEF IpamDistinct
<1> QED
  BY <1>1, <1>2, <1>3, <1>4, <1>5

LEMMA AddrAdd ==
  ASSUME TypeOK, AddrInv, NEW c \in Containers, CmdAdd(c)
  PROVE  AddrInv'
<1> USE DEF At, AddSteps
<1>1. CASE AddIpam(c)
  <2>1. PICK a \in FreeIPs : /\ ipam' = [ipam EXCEPT ![c] = a]
                             /\ addr' = [addr EXCEPT ![c] = a]
    BY <1>1 DEF AddIpam
  <2>2. a # None /\ \A e \in Containers : ipam[e] # a
    BY NoneAssumption DEF FreeIPs
  <2>3. /\ addPc' = [addPc EXCEPT ![c] = "veth"] /\ addPc[c] = "ipam"
        /\ UNCHANGED <<sandbox, dels>>
    BY <1>1 DEF AddIpam, Goto
  <2> QED
    BY <2>1, <2>2, <2>3
    DEF TypeOK, AddrInv, FreshIsUntouched, NotFreshIsAdded, DelComesAfter,
        LiveHoldsAddress, IpamDistinct
<1>2. CASE AddIpamMissing(c)
  BY <1>2, AddrFinish DEF AddIpamMissing
<1>3. CASE AddIpamPanics(c)
  BY <1>3, AddrDie DEF AddIpamPanics
<1>4. CASE AddVeth(c)
  BY <1>4, AddrGoto DEF AddVeth, Goto
<1>5. CASE AddVethFails(c)
  BY <1>5, AddrGoto DEF AddVethFails, Fail, Goto
<1>6. CASE AddVethHalfFails(c)
  BY <1>6, AddrGoto DEF AddVethHalfFails, Fail, Goto
<1>7. CASE AddPort(c)
  BY <1>7, AddrGoto DEF AddPort, Goto, AfterPort
<1>8. CASE AddPortFails(c)
  BY <1>8, AddrGoto DEF AddPortFails, Fail, Goto
<1>9. CASE AddDnsFlow(c)
  BY <1>9, AddrGoto DEF AddDnsFlow, Goto
<1>10. CASE AddDnsPortFails(c)
  BY <1>10, AddrGoto DEF AddDnsPortFails, Fail, Goto
<1>11. CASE AddDnsFlowFails(c)
  BY <1>11, AddrGoto DEF AddDnsFlowFails, Goto
<1>12. CASE AddAddr(c)
  BY <1>12, AddrGoto DEF AddAddr, Goto
<1>13. CASE AddAddrFails(c)
  BY <1>13, AddrGoto DEF AddAddrFails, Fail, Goto, FirstUndo
<1>14. CASE AddCache(c)
  BY <1>14, AddrFinish DEF AddCache
<1>15. CASE AddCacheFails(c)
  BY <1>15, AddrGoto DEF AddCacheFails, Fail, Goto, FirstUndo
<1>16. CASE UndoFlow(c)
  BY <1>16, AddrGoto DEF UndoFlow, Goto
<1>17. CASE UndoPort(c)
  BY <1>17, AddrGoto DEF UndoPort, Goto
<1>18. CASE UndoPortFails(c)
  BY <1>18, AddrGoto DEF UndoPortFails, Goto
<1>19. CASE UndoLink(c)
  BY <1>19, AddrFinish DEF UndoLink
<1> QED
  BY <1>1, <1>2, <1>3, <1>4, <1>5, <1>6, <1>7, <1>8, <1>9, <1>10, <1>11, <1>12, <1>13, <1>14, <1>15, <1>16, <1>17, <1>18, <1>19 DEF CmdAdd

LEMMA AddrDelReply ==
  ASSUME TypeOK, AddrInv,
         NEW d \in Dels, dels[d].pc # "idle",
         NEW ok, DelReply(d, ok), UNCHANGED ipam
  PROVE  AddrInv'
BY DEF TypeOK, AddrInv, FreshIsUntouched, NotFreshIsAdded, DelComesAfter,
       LiveHoldsAddress, IpamDistinct, DelReply, IdleDel

LEMMA AddrDelGoto ==
  ASSUME TypeOK, AddrInv,
         NEW d \in Dels, dels[d].pc # "idle",
         NEW r, r.cont = dels[d].cont, dels' = [dels EXCEPT ![d] = r],
         UNCHANGED <<sandbox, addPc, addr, ipam>>
  PROVE  AddrInv'
BY DEF TypeOK, AddrInv, FreshIsUntouched, NotFreshIsAdded, DelComesAfter,
       LiveHoldsAddress, IpamDistinct

LEMMA AddrDel ==
  ASSUME TypeOK, AddrInv, NEW d \in Dels, CmdDel(d)
  PROVE  AddrInv'
<1> USE DEF DelAt
\* The address that is released is not that of a live container.
<1>1. CASE DelIpam(d)
  <2>1. /\ \A e \in Dels : /\ dels'[e].cont = dels[e].cont
                           /\ dels'[e].pc # "idle" => dels[e].pc # "idle"
        /\ ipam' = [ipam EXCEPT ![dels[d].cont] = None]
        /\ UNCHANGED <<sandbox, addPc, addr>>
    BY <1>1 DEF DelIpam, DelGoto, TypeOK
  <2>2. dels[d].cont \in Containers /\ dels[d].pc # "idle"
    BY <1>1 DEF DelIpam, TypeOK
  <2> QED
    BY <2>1, <2>2 DEF TypeOK, AddrInv, FreshIsUntouched, NotFreshIsAdded,
                      DelComesAfter, LiveHoldsAddress, IpamDistinct
<1>2. CASE DelLink(d)
  <2> DEFINE r == [dels[d] EXCEPT !.pc = "lookup"]
  <2>1. r.cont = dels[d].cont /\ dels' = [dels EXCEPT ![d] = r]
    BY <1>2 DEF DelLink, DelGoto, TypeOK
  <2> HIDE DEF r
  <2> QED
    BY <1>2, <2>1, AddrDelGoto DEF DelLink, DelGoto
<1>3. CASE DelLookup(d)
  BY <1>3, AddrDelGoto DEF DelLookup
<1>4. CASE DelLookupMisses(d)
  BY <1>4, AddrDelReply DEF DelLookupMisses
<1>5. CASE DelPort(d)
  <2> DEFINE r == [dels[d] EXCEPT !.pc = "uncache"]
  <2>1. r.cont = dels[d].cont /\ dels' = [dels EXCEPT ![d] = r]
    BY <1>5 DEF DelPort, DelGoto, TypeOK
  <2> HIDE DEF r
  <2> QED
    BY <1>5, <2>1, AddrDelGoto DEF DelPort, DelGoto
<1>6. CASE DelUncache(d)
  BY <1>6, AddrDelReply DEF DelUncache
<1>7. CASE DelFails(d)
  BY <1>7, AddrDelReply DEF DelFails
<1> QED
  BY <1>1, <1>2, <1>3, <1>4, <1>5, <1>6, <1>7 DEF CmdDel

LEMMA AddrStep == TypeOK /\ AddrInv /\ [Next]_vars => AddrInv'
<1> SUFFICES ASSUME TypeOK, AddrInv, [Next]_vars
             PROVE  AddrInv'
  OBVIOUS
<1> USE DEF FreshIsUntouched, NotFreshIsAdded, DelComesAfter,
            LiveHoldsAddress, IpamDistinct
<1>1. ASSUME NEW c \in Containers, StartAdd(c)
      PROVE  AddrInv'
  <2>1. sandbox[c] = "none" /\ addr[c] = None
    BY <1>1 DEF StartAdd, At, AddrInv
  <2> QED
    BY <1>1, <2>1 DEF StartAdd, TypeOK, AddrInv
<1>2. ASSUME NEW c \in Containers, CmdAdd(c)
      PROVE  AddrInv'
  BY <1>2, AddrAdd
<1>3. ASSUME NEW c \in Containers, GiveUpAdd(c)
      PROVE  AddrInv'
  BY <1>3 DEF GiveUpAdd, TypeOK, AddrInv
<1>4. ASSUME NEW d \in Dels, CmdDel(d)
      PROVE  AddrInv'
  BY <1>4, AddrDel
<1>5. ASSUME NEW d \in Dels, GiveUpDel(d)
      PROVE  AddrInv'
  <2>1. \A e \in Dels : dels'[e].pc = dels[e].pc /\ dels'[e].cont = dels[e].cont
    BY <1>5 DEF GiveUpDel, TypeOK
  <2>2. /\ sandbox' = [sandbox EXCEPT ![dels[d].cont] = "failed"]
        /\ dels[d].pc # "idle"
        /\ UNCHANGED <<addPc, addr, ipam>>
    BY <1>5 DEF GiveUpDel
  <2> QED
    BY <2>1, <2>2 DEF TypeOK, AddrInv
<1>6. ASSUME NEW d \in Dels, NEW c \in Containers, StartDel(d, c)
      PROVE  AddrInv'
  BY <1>6 DEF StartDel, TypeOK, AddrInv
<1>7. CASE Crash
  BY <1>7, AddrDie DEF Crash
<1>8. CASE DeleteBridge
  BY <1>8 DEF DeleteBridge, AddrInv
<1>9. CASE Restart
  BY <1>9 DEF Restart, AddrInv
<1>10. CASE UNCHANGED vars
  BY <1>10 DEF vars, AddrInv
<1> QED
  BY <1>1, <1>2, <1>3, <1>4, <1>5, <1>6, <1>7, <1>8, <1>9, <1>10 DEF Next

-----------------------------------------------------------------------------
(* The theorems.                                                           *)

\* IInv is an inductive invariant of the CNI server.
THEOREM Invariance == Spec => []IInv
<1>1. Init => IInv
  BY TypeInit, PortInit, AddrInit DEF IInv
<1>2. IInv /\ [Next]_vars => IInv'
  BY TypeStep, PortStep, AddrStep DEF IInv
<1> QED
  BY <1>1, <1>2, PTL DEF Spec

\* No request ever deletes the OVS port of an ADD that is still at work:
\* configureInterface always finds the row its GetOFPort indexes, and its
\* rollback deletes the port it made.
THEOREM PortStaysAlways == Spec => []PortStays
<1>1. IInv => PortStays
  BY DEF IInv, PortInv
<1> QED
  BY <1>1, Invariance, PTL

\* interfaceCache never names a port that is gone, except for a DEL between
\* its DeletePort and its DeleteInterface.
THEOREM CacheMatchesBridgeAlways == Spec => []CacheMatchesBridge
<1>1. IInv => CacheMatchesBridge
  BY DEF IInv, PortInv
<1> QED
  BY <1>1, Invariance, PTL

\* Two containers that the runtime is adding or runs never share an address,
\* in whatever order CmdAdd and CmdDel take, release and fail.
THEOREM LiveAddressesDistinctAlways == Spec => []LiveAddressesDistinct
<1>1. IInv => LiveAddressesDistinct
  BY DEF IInv, AddrInv, LiveHoldsAddress, IpamDistinct, LiveAddressesDistinct
<1> QED
  BY <1>1, Invariance, PTL
=============================================================================
