-------------------------- MODULE PodNetworkFlowProofs --------------------------
(***************************************************************************)
(* The CoreDNS flows of a pod that made it to interfaceCache stay on the   *)
(* switch, whatever other requests install and roll back, for every choice *)
(* of Faults.                                                              *)
(***************************************************************************)
EXTENDS PodNetworkProofs

\* vswitchd gives a number to one port at a time.
NumbersDistinct ==
  \A c, e \in Containers : ofport[c] \in OFPorts /\ ofport[c] = ofport[e] => c = e

\* An ADD sends its flows once, ...
NothingSentYet ==
  \A c \in Containers :
    addPc[c] \in {"new", "ipam", "veth", "port", "dnsflow"} => flowCache[c] = {}

\* ... for the number of its port, or, when its link was taken down, for
\* OFPP_NONE: a rollback removes no flow of an opened port but its own.
SentForOwnPort ==
  \A c \in Containers : addPc[c] \in {"addr", "cache", "undoFlow"} =>
    flowCache[c] \subseteq DnsFlows(ofport[c]) \cup DnsFlows(Unopened)

\* While its link is there, an ADD's port is an opened one.
OpenedWithLink ==
  \A c \in Containers :
    addPc[c] = "dnsflow" /\ c \in veth => ofport[c] \in OFPorts

\* An ADD past the flows; one whose link was taken down does not get there.
PastFlows(c) ==
  \/ addPc[c] = "addr" /\ c \in veth
  \/ addPc[c] = "cache"
  \/ cache[Name(c)] = c

FlowsKept ==
  \A c \in Containers : IsDns(c) /\ Plugged(c) /\ PastFlows(c) =>
    ofport[c] \in OFPorts /\ DnsFlows(ofport[c]) \subseteq flows

FlowInv ==
  /\ NumbersDistinct
  /\ NothingSentYet
  /\ SentForOwnPort
  /\ OpenedWithLink
  /\ FlowsKept

-----------------------------------------------------------------------------
LEMMA FlowInit == Init => FlowInv
BY OFPortsAssumption
DEF Init, FlowInv, NumbersDistinct, NothingSentYet, SentForOwnPort,
    OpenedWithLink, FlowsKept, PastFlows, Plugged

\* What a process that exits takes with it, a later one does not miss.
LEMMA FlowDie == IInv /\ FlowInv /\ Die => FlowInv'
BY NameType, NoneAssumption
DEF IInv, TypeOK, Die, FlowInv, NumbersDistinct, NothingSentYet,
    SentForOwnPort, OpenedWithLink, FlowsKept, PastFlows, Plugged, Adding,
    AddSteps

\* The flows of two numbers have nothing in common.
LEMMA FlowsApart ==
  \A m, n \in PortNumbers : m # n => DnsFlows(m) \cap DnsFlows(n) = {}
BY DEF DnsFlows, DnsFlow

\* A step of an ADD that sends, removes and renumbers nothing.
LEMMA FlowGoto ==
  ASSUME IInv, FlowInv,
         NEW c \in Containers, addPc[c] \in AddSteps,
         NEW s \in (AddSteps \ {"dnsflow", "addr"}) \cup {"done"},
         addPc' = [addPc EXCEPT ![c] = s],
         s \in {"ipam", "veth", "port"} => addPc[c] \in {"ipam", "veth"},
         s = "cache" => addPc[c] = "addr" /\ c \in veth,
         s = "undoFlow" => addPc[c] \in {"addr", "cache"},
         veth' \subseteq veth \cup {c},
         UNCHANGED <<cache, flowCache, ofport, flows>>
  PROVE  FlowInv'
<1> USE DEF IInv, TypeOK, FlowInv, AddSteps
<1>1. NumbersDistinct'
  BY DEF NumbersDistinct
<1>2. NothingSentYet'
  BY DEF NothingSentYet
<1>3. SentForOwnPort'
  BY DEF SentForOwnPort
<1>4. OpenedWithLink'
  BY DEF OpenedWithLink
<1>5. FlowsKept'
  BY DEF FlowsKept, PastFlows, Plugged
<1> QED
  BY <1>1, <1>2, <1>3, <1>4, <1>5

\* A port that is deleted takes its number back; flows stay.
LEMMA FlowUnplug ==
  ASSUME IInv, FlowInv,
         NEW u \in Containers, ofport' = [ofport EXCEPT ![u] = 0],
         addPc' \in [Containers -> AddSteps \cup {"new", "done"}],
         \A e \in Containers \ {u} : addPc'[e] = addPc[e],
         addPc'[u] \in {"undoLink", "done"},
         UNCHANGED <<cache, flowCache, flows, veth>>
  PROVE  FlowInv'
<1> USE DEF IInv, TypeOK, FlowInv, AddSteps
<1>1. NumbersDistinct'
  BY OFPortsAssumption DEF NumbersDistinct
<1>2. NothingSentYet'
  BY DEF NothingSentYet
<1>3. SentForOwnPort'
  BY DEF SentForOwnPort
<1>4. OpenedWithLink'
  BY DEF OpenedWithLink
<1>5. FlowsKept'
  BY DEF FlowsKept, PastFlows, Plugged
<1> QED
  BY <1>1, <1>2, <1>3, <1>4, <1>5

LEMMA FlowAddPort ==
  ASSUME IInv, FlowInv, NEW c \in Containers, AddPort(c)
  PROVE  FlowInv'
<1> USE DEF IInv, TypeOK, FlowInv
<1>1. PICK n \in NewOFPorts(c) : ofport' = [ofport EXCEPT ![c] = n]
  BY DEF AddPort
<1>2. /\ addPc[c] = "port" /\ addPc' = [addPc EXCEPT ![c] = AfterPort(c)]
      /\ UNCHANGED <<cache, flowCache, flows, veth>>
  BY DEF AddPort, At, Goto
<1>3. /\ n \in OFPorts => \A e \in Containers : ofport[e] # n
      /\ c \in veth => n \in OFPorts
  BY OFPortsAssumption DEF NewOFPorts, FreeOFPorts
<1>4. AfterPort(c) \in {"dnsflow", "addr"} /\ (AfterPort(c) = "addr" => ~IsDns(c))
  BY DEF AfterPort
<1>5. NumbersDistinct'
  BY <1>1, <1>3 DEF NumbersDistinct
<1>6. NothingSentYet'
  BY <1>2, <1>4 DEF NothingSentYet
<1>7. SentForOwnPort'
  BY <1>1, <1>2, <1>4 DEF SentForOwnPort, NothingSentYet
<1>8. OpenedWithLink'
  BY <1>1, <1>2, <1>3, <1>4 DEF OpenedWithLink
<1>9. FlowsKept'
  BY <1>1, <1>2, <1>4, AtWorkUncached DEF FlowsKept, PastFlows, Plugged, AddSteps
<1> QED
  BY <1>5, <1>6, <1>7, <1>8, <1>9

\* All the flows of the port are sent before the ADD goes on; what a rollback
\* will remove is what was sent.
LEMMA FlowSend ==
  ASSUME IInv, FlowInv, NEW c \in Containers, addPc[c] = "dnsflow",
         NEW n \in OFPortsRead(c), NEW fs \in SUBSET DnsFlows(n),
         SendFlows(c, fs),
         NEW s \in {"addr", "undoPort"}, addPc' = [addPc EXCEPT ![c] = s],
         s = "addr" => fs = DnsFlows(n),
         UNCHANGED <<cache, ofport, veth>>
  PROVE  FlowInv'
<1> USE DEF IInv, TypeOK, FlowInv, SendFlows
<1>1. n \in {ofport[c], Unopened} /\ (c \in veth => n = ofport[c])
  BY DEF OFPortsRead
<1>2. NumbersDistinct'
  BY DEF NumbersDistinct
<1>3. NothingSentYet'
  BY DEF NothingSentYet
<1>4. SentForOwnPort'
  BY <1>1 DEF SentForOwnPort, NothingSentYet
<1>5. OpenedWithLink'
  BY DEF OpenedWithLink
<1>6. FlowsKept'
  <2> SUFFICES ASSUME NEW e \in Containers,
                      IsDns(e), Plugged(e), PastFlows(e)'
               PROVE  ofport[e] \in OFPorts /\ DnsFlows(ofport[e]) \subseteq flows'
    BY DEF FlowsKept, Plugged
  <2>1. CASE e = c
    <3>1. c \in veth /\ s = "addr"
      BY <2>1, AtWorkUncached DEF PastFlows, AddSteps
    <3> QED
      BY <1>1, <2>1, <3>1 DEF OpenedWithLink
  <2>2. CASE e # c
    BY <2>2 DEF FlowsKept, PastFlows
  <2> QED
    BY <2>1, <2>2
<1> QED
  BY <1>2, <1>3, <1>4, <1>5, <1>6

LEMMA FlowAddCache ==
  ASSUME IInv, FlowInv, NEW c \in Containers, AddCache(c)
  PROVE  FlowInv'
<1> USE DEF IInv, TypeOK, FlowInv
<1>1. /\ addPc[c] = "cache" /\ addPc' = [addPc EXCEPT ![c] = "done"]
      /\ cache' = [cache EXCEPT ![Name(c)] = c]
      /\ veth' \subseteq veth
      /\ UNCHANGED <<flowCache, ofport, flows>>
  BY DEF AddCache, At, Finish, CloseNetns
<1>2. NumbersDistinct'
  BY <1>1 DEF NumbersDistinct
<1>3. NothingSentYet'
  BY <1>1 DEF NothingSentYet
<1>4. SentForOwnPort'
  BY <1>1 DEF SentForOwnPort
<1>5. OpenedWithLink'
  BY <1>1 DEF OpenedWithLink
<1>6. FlowsKept'
  BY <1>1, NameType DEF FlowsKept, PastFlows, Plugged
<1> QED
  BY <1>2, <1>3, <1>4, <1>5, <1>6

\* What a rollback removes it sent for its own port, or for OFPP_NONE.
LEMMA FlowUndo ==
  ASSUME IInv, FlowInv, NEW c \in Containers, UndoFlow(c)
  PROVE  FlowInv'
<1> USE DEF IInv, TypeOK, FlowInv
<1>1. PICK kept \in SUBSET flowCache[c] :
        /\ flows' = flows \ (flowCache[c] \ kept)
        /\ flowCache' = [flowCache EXCEPT ![c] = kept]
  BY DEF UndoFlow
<1>2. /\ addPc[c] = "undoFlow" /\ addPc' = [addPc EXCEPT ![c] = "undoPort"]
      /\ UNCHANGED <<cache, ofport, veth>>
  BY DEF UndoFlow, At, Goto
<1>3. flowCache[c] \subseteq DnsFlows(ofport[c]) \cup DnsFlows(Unopened)
  BY <1>2 DEF SentForOwnPort
<1>4. NumbersDistinct'
  BY <1>2 DEF NumbersDistinct
<1>5. NothingSentYet'
  BY <1>1, <1>2 DEF NothingSentYet
<1>6. SentForOwnPort'
  BY <1>1, <1>2 DEF SentForOwnPort
<1>7. OpenedWithLink'
  BY <1>2 DEF OpenedWithLink
<1>8. FlowsKept'
  <2> SUFFICES ASSUME NEW e \in Containers,
                      IsDns(e), Plugged(e), PastFlows(e)'
               PROVE  ofport[e] \in OFPorts /\ DnsFlows(ofport[e]) \subseteq flows'
    BY <1>2 DEF FlowsKept, Plugged
  <2>1. e # c /\ PastFlows(e)
    BY <1>2, AtWorkUncached DEF PastFlows, AddSteps
  <2>2. ofport[e] \in OFPorts /\ DnsFlows(ofport[e]) \subseteq flows
    BY <2>1 DEF FlowsKept
  <2>3. ofport[e] # ofport[c] /\ ofport[e] # Unopened
    BY <2>1, <2>2, OFPortsAssumption DEF NumbersDistinct
  <2>4. DnsFlows(ofport[e]) \cap flowCache[c] = {}
    BY <1>3, <2>3, FlowsApart, NumberType
  <2> QED
    BY <1>1, <2>2, <2>4
<1> QED
  BY <1>4, <1>5, <1>6, <1>7, <1>8

LEMMA FlowAdd ==
  ASSUME IInv, FlowInv, NEW c \in Containers, CmdAdd(c)
  PROVE  FlowInv'
<1> USE DEF At, AddSteps
<1>0. TypeOK
  BY DEF IInv
<1>1. CASE AddIpam(c)
  BY <1>1, FlowGoto DEF AddIpam, Goto
<1>2. CASE AddIpamMissing(c)
  BY <1>2, FlowGoto DEF AddIpamMissing, Finish
<1>3. CASE AddIpamPanics(c)
  BY <1>3, FlowDie DEF AddIpamPanics
<1>4. CASE AddVeth(c)
  BY <1>4, FlowGoto DEF AddVeth, Goto
<1>5. CASE AddVethFails(c)
  BY <1>5, FlowGoto DEF AddVethFails, Fail, Goto
<1>6. CASE AddVethHalfFails(c)
  BY <1>6, FlowGoto DEF AddVethHalfFails, Fail, Goto
<1>7. CASE AddPort(c)
  BY <1>7, FlowAddPort
<1>8. CASE AddPortFails(c)
  BY <1>8, FlowGoto DEF AddPortFails, Fail, Goto
<1>9. CASE AddDnsFlow(c)
  <2>1. PICK n \in OFPortsRead(c) : SendFlows(c, DnsFlows(n))
    BY <1>9 DEF AddDnsFlow
  <2>2. addPc[c] = "dnsflow" /\ addPc' = [addPc EXCEPT ![c] = "addr"]
        /\ UNCHANGED <<cache, ofport, veth>>
    BY <1>9 DEF AddDnsFlow, Goto
  <2> QED
    BY <2>1, <2>2, FlowSend
<1>10. CASE AddDnsPortFails(c)
  BY <1>10, FlowGoto DEF AddDnsPortFails, Fail, Goto
<1>11. CASE AddDnsFlowFails(c)
  <2>1. PICK n \in OFPortsRead(c) :
          \E fs \in {{}, {DnsFlow("classifier", n)}} : SendFlows(c, fs)
    BY <1>11 DEF AddDnsFlowFails
  <2>2. PICK fs \in SUBSET DnsFlows(n) : SendFlows(c, fs)
    BY <2>1 DEF DnsFlows, DnsTables
  <2>3. addPc[c] = "dnsflow" /\ addPc' = [addPc EXCEPT ![c] = "undoPort"]
        /\ UNCHANGED <<cache, ofport, veth>>
    BY <1>11 DEF AddDnsFlowFails, Goto
  <2> QED
    BY <2>2, <2>3, FlowSend
<1>12. CASE AddAddr(c)
  BY <1>12, FlowGoto DEF AddAddr, Goto
<1>13. CASE AddAddrFails(c)
  BY <1>13, FlowGoto DEF AddAddrFails, Fail, Goto, FirstUndo
<1>14. CASE AddCache(c)
  BY <1>14, FlowAddCache
<1>15. CASE AddCacheFails(c)
  BY <1>15, FlowGoto DEF AddCacheFails, Fail, Goto, FirstUndo
<1>16. CASE UndoFlow(c)
  BY <1>16, FlowUndo
<1>17. CASE UndoPort(c)
  BY <1>0, <1>17, FlowUnplug DEF UndoPort, Goto, TypeOK
<1>18. CASE UndoPortFails(c)
  BY <1>18, FlowGoto DEF UndoPortFails, Goto
<1>19. CASE UndoLink(c)
  BY <1>19, FlowGoto DEF UndoLink, Finish, CloseNetns
<1> QED
  BY <1>1, <1>2, <1>3, <1>4, <1>5, <1>6, <1>7, <1>8, <1>9, <1>10, <1>11, <1>12, <1>13, <1>14, <1>15, <1>16, <1>17, <1>18, <1>19 DEF CmdAdd

\* A request that takes links down and entries out, and no more.
LEMMA FlowLess ==
  ASSUME IInv, FlowInv, veth' \subseteq veth,
         \A n \in Names : cache'[n] \in {cache[n], None},
         UNCHANGED <<addPc, flowCache, ofport, flows>>
  PROVE  FlowInv'
BY NameType, NoneAssumption
DEF IInv, TypeOK, FlowInv, NumbersDistinct, NothingSentYet, SentForOwnPort,
    OpenedWithLink, FlowsKept, PastFlows, Plugged

LEMMA FlowDel ==
  ASSUME IInv, FlowInv, NEW d \in Dels, CmdDel(d)
  PROVE  FlowInv'
<1> USE DEF DelAt
<1>1. CASE DelIpam(d)
  BY <1>1, FlowLess DEF DelIpam, DelGoto
<1>2. CASE DelLink(d)
  BY <1>2, FlowLess DEF DelLink, DelGoto
<1>3. CASE DelLookup(d)
  BY <1>3, FlowLess DEF DelLookup
<1>4. CASE DelLookupMisses(d)
  BY <1>4, FlowLess DEF DelLookupMisses, DelReply
<1>5. CASE DelPort(d)
  <2>1. dels[d].uuid \in Containers /\ addPc[dels[d].uuid] = "done"
    BY <1>5 DEF DelPort, IInv, PortInv, DelOwns
  <2>2. /\ ofport' = [ofport EXCEPT ![dels[d].uuid] = 0]
        /\ UNCHANGED <<addPc, cache, flowCache, flows, veth>>
    BY <1>5 DEF DelPort, DelGoto
  <2>3. addPc \in [Containers -> AddSteps \cup {"new", "done"}]
    BY DEF IInv, TypeOK
  <2> QED
    BY <2>1, <2>2, <2>3, FlowUnplug
<1>6. CASE DelUncache(d)
  <2>1. cache' = [cache EXCEPT ![Name(dels[d].cont)] = None]
    BY <1>6 DEF DelUncache
  <2>2. \A n \in Names : cache'[n] \in {cache[n], None}
    BY <2>1 DEF IInv, TypeOK
  <2> QED
    BY <1>6, <2>2, FlowLess DEF DelUncache, DelReply
<1>7. CASE DelFails(d)
  BY <1>7, FlowLess DEF DelFails, DelReply
<1> QED
  BY <1>1, <1>2, <1>3, <1>4, <1>5, <1>6, <1>7 DEF CmdDel

LEMMA FlowStep == IInv /\ FlowInv /\ [Next]_vars => FlowInv'
<1> SUFFICES ASSUME IInv, FlowInv, [Next]_vars
             PROVE  FlowInv'
  OBVIOUS
<1>1. ASSUME NEW c \in Containers, StartAdd(c)
      PROVE  FlowInv'
  BY <1>1 DEF StartAdd, At, AddSteps, IInv, TypeOK, FlowInv, NumbersDistinct,
              NothingSentYet, SentForOwnPort, OpenedWithLink, FlowsKept,
              PastFlows, Plugged
<1>2. ASSUME NEW c \in Containers, CmdAdd(c)
      PROVE  FlowInv'
  BY <1>2, FlowAdd
<1>3. ASSUME NEW c \in Containers, GiveUpAdd(c)
      PROVE  FlowInv'
  BY <1>3, FlowLess DEF GiveUpAdd
<1>4. ASSUME NEW d \in Dels, CmdDel(d)
      PROVE  FlowInv'
  BY <1>4, FlowDel
<1>5. ASSUME NEW d \in Dels, GiveUpDel(d)
      PROVE  FlowInv'
  BY <1>5, FlowLess DEF GiveUpDel
<1>6. ASSUME NEW d \in Dels, NEW c \in Containers, StartDel(d, c)
      PROVE  FlowInv'
  BY <1>6, FlowLess DEF StartDel
<1>7. CASE Crash
  BY <1>7, FlowDie DEF Crash
\* The bridge takes all ports with it: no flow is missed.
<1>8. CASE DeleteBridge
  BY <1>8, OFPortsAssumption, NameType, NoneAssumption
  DEF DeleteBridge, IInv, TypeOK, PortInv, StoppedIsEmpty, FlowInv,
      NumbersDistinct, NothingSentYet, SentForOwnPort, OpenedWithLink,
      FlowsKept, PastFlows, Plugged
<1>9. CASE Restart
  BY <1>9, FlowLess DEF Restart
<1>10. CASE UNCHANGED vars
  BY <1>10, FlowLess DEF vars
<1> QED
  BY <1>1, <1>2, <1>3, <1>4, <1>5, <1>6, <1>7, <1>8, <1>9, <1>10 DEF Next

\* The flows InstallCorednsFlow sent for a CoreDNS pod are on the switch as
\* long as the pod's port is in interfaceCache: no rollback of another ADD and
\* no port number used again takes them away.
THEOREM CachedDnsHasFlowsAlways == Spec => []CachedDnsHasFlows
<1>1. Init => IInv /\ FlowInv
  BY TypeInit, PortInit, AddrInit, FlowInit DEF IInv
<1>2. IInv /\ FlowInv /\ [Next]_vars => IInv' /\ FlowInv'
  BY TypeStep, PortStep, AddrStep, FlowStep DEF IInv
<1>3. FlowInv => CachedDnsHasFlows
  BY DEF FlowInv, FlowsKept, PastFlows, CachedDnsHasFlows
<1> QED
  BY <1>1, <1>2, <1>3, PTL DEF Spec
=============================================================================
