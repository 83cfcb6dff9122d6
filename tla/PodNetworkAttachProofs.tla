------------------------- MODULE PodNetworkAttachProofs -------------------------
(***************************************************************************)
(* CmdAdd and CmdDel implement PodAttach, for a runtime that waits for its *)
(* answers and an agent that stays up: each step of a handler is a step of *)
(* its own sandbox's life, or nothing the runtime could see.               *)
(***************************************************************************)
EXTENDS PodNetworkAttach, PodNetworkLifeProofs

LifeInv == IInv /\ SoloInv /\ NodeInv /\ ReadyInv

Holds == [c \in Containers |-> Kept(c)]

\* What the promise speaks of: a step that changes none of it is a stutter.
Seen == <<sandbox, addr, Holds>>

LEMMA AttachInit == Init => Promise!Init
BY NoneAssumption, NameType
DEF Init, Promise!Init, Kept, Plugged

\* A request touches its own container's things only.
LEMMA OthersKeep ==
  ASSUME NEW c \in Containers,
         veth' \ {c} = veth \ {c},
         \A e \in Containers \ {c} :
           /\ ofport'[e] = ofport[e] /\ ipam'[e] = ipam[e]
           /\ cache'[Name(e)] = e <=> cache[Name(e)] = e
  PROVE  \A e \in Containers \ {c} : Kept(e)' = Kept(e)
BY DEF Kept, Plugged, Name

\* A step that changes none of what is promised.
LEMMA SeenStays ==
  ASSUME UNCHANGED <<sandbox, addr, cache, ofport, veth, ipam>>
  PROVE  UNCHANGED Seen
BY DEF Seen, Holds, Kept, Plugged, Name

-----------------------------------------------------------------------------
(* CmdAdd.                                                                 *)

LEMMA AttachAdd ==
  ASSUME LifeInv, HostNamesDistinct, RollbacksSucceed, FlowsAccepted, Up',
         NEW c \in Containers, CmdAdd(c)
  PROVE  Promise!Next \/ UNCHANGED Seen
<1> USE DEF At, AddSteps
<1>1. /\ TypeOK /\ IInv /\ SoloInv /\ NodeInv /\ ReadyInv
      /\ addPc[c] \in AddSteps => sandbox[c] = "adding"
      /\ Name(c) \in Names
  BY NameType DEF LifeInv, IInv, SoloInv, AddIsAwaited, Adding
<1>2. ASSUME UNCHANGED <<sandbox, addr, cache, ofport, veth, ipam>>
      PROVE  Promise!Next \/ UNCHANGED Seen
  BY <1>2, SeenStays
<1>3. addPc[c] \in AddSteps => cache[Name(c)] = None
  BY <1>1, OwnEntry, AtWorkUncached DEF IInv
<1>4. CASE AddIpam(c)
  <2>1. PICK a \in FreeIPs : /\ ipam' = [ipam EXCEPT ![c] = a]
                             /\ addr' = [addr EXCEPT ![c] = a]
    BY <1>4 DEF AddIpam
  <2>2. UNCHANGED <<sandbox, cache, ofport, veth>> /\ addPc[c] = "ipam"
    BY <1>4 DEF AddIpam, Goto
  <2>3. a \in IPs /\ a # None /\ \A e \in Containers : ipam[e] # a
    BY NoneAssumption DEF FreeIPs
  \* An address that is told is reserved.
  <2>4. \A e \in Containers : addr[e] # a
    BY <1>1, <2>3
    DEF IInv, AddrInv, LiveHoldsAddress, ReadyInv, AddressIsKept
  <2>5. Kept(c)' = Kept(c) \cup {"addr"}
    BY <1>1, <2>1, <2>2, <2>3 DEF Kept, Plugged, Name, TypeOK
  <2>6. \A e \in Containers \ {c} : Kept(e)' = Kept(e)
    BY <1>1, <2>1, <2>2, OthersKeep DEF TypeOK
  <2>7. addr[c] = None
    BY <1>1, <2>2 DEF ReadyInv, AddressIsKept
  <2>8. Promise!Reserve(c)
    BY <1>1, <2>1, <2>2, <2>3, <2>4, <2>5, <2>6, <2>7
    DEF Promise!Reserve, Promise!Hold
  <2> QED
    BY <2>8 DEF Promise!Next
\* A step that makes one part, or takes it away again.
<1>5. ASSUME sandbox[c] = "adding", NEW p \in {"veth", "port"},
             UNCHANGED <<sandbox, addr, ipam>>,
             cache' = cache,
             veth' \ {c} = veth \ {c},
             \A e \in Containers \ {c} : ofport'[e] = ofport[e],
             Kept(c)' = Kept(c) \cup {p} \/ Kept(c)' = Kept(c) \ {p}
      PROVE  Promise!Next \/ UNCHANGED Seen
  <2>1. \A e \in Containers \ {c} : Kept(e)' = Kept(e)
    BY <1>5, OthersKeep
  <2>2. CASE Kept(c)' = Kept(c) \cup {p}
    <3>1. Promise!Make(c)
      BY <1>5, <2>1, <2>2 DEF Promise!Make, Promise!Hold
    <3> QED
      BY <3>1 DEF Promise!Next
  <2>3. CASE Kept(c)' = Kept(c) \ {p}
    <3>1. Promise!Unmake(c)
      BY <1>5, <2>1, <2>3 DEF Promise!Unmake, Promise!Hold
    <3> QED
      BY <3>1 DEF Promise!Next
  <2> QED
    BY <1>5, <2>2, <2>3
\* The answer of an ADD that made nothing, or took it away again.
<1>6. ASSUME addPc[c] \in {"ipam", "undoLink"}, agent = "running",
             Finish(c, FALSE), UNCHANGED <<cache, ofport, ipam>>,
             veth' = veth \ {c}
      PROVE  Promise!Next \/ UNCHANGED Seen
  <2>1. /\ sandbox[c] = "adding"
        /\ sandbox' = [sandbox EXCEPT ![c] = "failed"]
        /\ addr' = [addr EXCEPT ![c] = None]
    BY <1>1, <1>6 DEF Finish
  <2>2. ~Plugged(c)
    BY <1>1, <1>3, <1>6, NoneAssumption DEF NodeInv, PortsAccounted, HasPort
  <2>3. Kept(c)' = Kept(c) \cap {"addr"}
    BY <1>3, <1>6, <2>2, NoneAssumption DEF Kept, Plugged, Name
  <2>4. \A e \in Containers \ {c} : Kept(e)' = Kept(e)
    BY <1>6, OthersKeep
  <2>5. Promise!Refuse(c)
    BY <2>1, <2>3, <2>4
    DEF Promise!Refuse, Promise!Enter, Promise!Hold, Promise!Forget
  <2> QED
    BY <2>5 DEF Promise!Next
<1>7. CASE AddIpamMissing(c)
  <2>1. veth' = veth \ {c}
    BY <1>1, <1>7 DEF AddIpamMissing, NodeInv, AddProgress
  <2> QED
    BY <1>6, <1>7, <2>1 DEF AddIpamMissing
<1>8. CASE AddIpamPanics(c)
  BY <1>8 DEF AddIpamPanics, Die, Up
<1>9. CASE AddVeth(c) \/ AddVethHalfFails(c)
  <2>1. veth' = veth \cup {c} /\ UNCHANGED <<sandbox, addr, cache, ofport, ipam>>
        /\ addPc[c] = "veth"
    BY <1>9 DEF AddVeth, AddVethHalfFails, Fail, Goto
  <2>2. Kept(c)' = Kept(c) \cup {"veth"}
    BY <2>1 DEF Kept, Plugged, Name
  <2> QED
    BY <1>1, <1>5, <2>1, <2>2
<1>10. CASE AddVethFails(c)
  BY <1>2, <1>10 DEF AddVethFails, Fail, Goto
<1>11. CASE AddPort(c)
  <2>1. PICK n \in NewOFPorts(c) : ofport' = [ofport EXCEPT ![c] = n]
    BY <1>11 DEF AddPort
  <2>2. n # 0
    BY OFPortsAssumption DEF NewOFPorts, FreeOFPorts, Unopened
  <2>3. UNCHANGED <<sandbox, addr, cache, veth, ipam>> /\ addPc[c] = "port"
    BY <1>11 DEF AddPort, Goto
  <2>4. Kept(c)' = Kept(c) \cup {"port"}
    BY <1>1, <2>1, <2>2, <2>3 DEF Kept, Plugged, Name, TypeOK
  <2> QED
    BY <1>1, <1>5, <2>1, <2>3, <2>4 DEF TypeOK
<1>12. CASE AddPortFails(c)
  BY <1>2, <1>12 DEF AddPortFails, Fail, Goto
<1>13. CASE AddDnsFlow(c)
  BY <1>2, <1>13 DEF AddDnsFlow, Goto
<1>14. CASE AddDnsPortFails(c)
  BY <1>2, <1>14 DEF AddDnsPortFails, Fail, Goto
<1>15. CASE AddDnsFlowFails(c)
  BY <1>2, <1>15 DEF AddDnsFlowFails, Goto
<1>16. CASE AddAddr(c)
  BY <1>2, <1>16 DEF AddAddr, Goto
<1>17. CASE AddAddrFails(c)
  BY <1>2, <1>17 DEF AddAddrFails, Fail, Goto
<1>18. CASE AddCache(c)
  <2>1. addPc[c] = "cache" /\ sandbox[c] = "adding"
    BY <1>1, <1>18 DEF AddCache
  <2>2. /\ sandbox' = [sandbox EXCEPT ![c] = "ready"]
        /\ cache' = [cache EXCEPT ![Name(c)] = c]
        /\ UNCHANGED <<addr, ofport, veth, ipam>>
    BY <1>18, <2>1 DEF AddCache, Finish, CloseNetns
  <2>3. c \in veth /\ Plugged(c) /\ addr[c] # None /\ ipam[c] # None
    BY <1>1, <2>1 DEF ReadyInv, LinkIsKept, IInv, PortInv, PortStays, HasPort,
                      AddressIsKept, AddrInv, LiveHoldsAddress
  <2>4. Kept(c) = {"addr", "veth", "port"}
    BY <1>3, <2>1, <2>3, NoneAssumption DEF Kept
  <2>5. Kept(c)' = {"addr", "veth", "port", "entry"}
    BY <1>1, <2>2, <2>3 DEF Kept, Plugged, Name, TypeOK
  <2>6. \A e \in Containers \ {c} : cache'[Name(e)] = e <=> cache[Name(e)] = e
    BY <1>1, <1>3, <2>1, <2>2, NameType, NoneAssumption DEF TypeOK
  <2>7. \A e \in Containers \ {c} : Kept(e)' = Kept(e)
    BY <2>2, <2>6, OthersKeep
  <2>8. Promise!Attach(c)
    BY <2>1, <2>2, <2>3, <2>4, <2>5, <2>7
    DEF Promise!Attach, Promise!Enter, Promise!Hold, Promise!Parts
  <2> QED
    BY <2>8 DEF Promise!Next
<1>19. CASE AddCacheFails(c)
  BY <1>2, <1>19 DEF AddCacheFails, Fail, Goto
<1>20. CASE UndoFlow(c)
  BY <1>2, <1>20 DEF UndoFlow, Goto
<1>21. CASE UndoPort(c)
  <2>1. /\ ofport' = [ofport EXCEPT ![c] = 0] /\ addPc[c] = "undoPort"
        /\ UNCHANGED <<sandbox, addr, cache, veth, ipam>>
    BY <1>21 DEF UndoPort, Goto
  <2>2. Kept(c)' = Kept(c) \ {"port"}
    BY <1>1, <2>1 DEF Kept, Plugged, Name, TypeOK
  <2> QED
    BY <1>1, <1>5, <2>1, <2>2 DEF TypeOK
<1>22. CASE UndoPortFails(c)
  BY <1>22 DEF UndoPortFails, RollbacksSucceed
<1>23. CASE UndoLink(c)
  <2>1. answer[c] = FALSE /\ veth' = veth \ {c}
    BY <1>1, <1>23 DEF UndoLink, ReadyInv, UndoIsRefused, RollbacksSucceed
  <2> QED
    BY <1>6, <1>23, <2>1 DEF UndoLink
<1> QED
  BY <1>4, <1>7, <1>8, <1>9, <1>10, <1>11, <1>12, <1>13, <1>14, <1>15, <1>16, <1>17, <1>18, <1>19, <1>20, <1>21, <1>22, <1>23 DEF CmdAdd
-----------------------------------------------------------------------------
(* CmdDel.                                                                 *)

LEMMA AttachDel ==
  ASSUME LifeInv, HostNamesDistinct, NEW d \in Dels, CmdDel(d)
  PROVE  Promise!Next \/ UNCHANGED Seen
<1> USE DEF DelAt
<1>0. PICK c \in Containers : c = dels[d].cont
  BY DEF CmdDel, DelIpam, DelLink, DelLookup, DelLookupMisses, DelPort,
         DelUncache, DelFails, LifeInv, IInv, PortInv, DelOwns
<1>1. /\ TypeOK /\ IInv /\ SoloInv /\ NodeInv
      /\ Name(c) \in Names
      /\ sandbox[c] = "deleting" /\ dels[d].waited /\ ~Adding(c)
      /\ agent = "running" /\ addPc[c] \notin HasPort
  BY <1>0, NameType
  DEF CmdDel, DelIpam, DelLink, DelLookup, DelLookupMisses, DelPort,
         DelUncache, DelFails, LifeInv, IInv, PortInv, DelOwns, SoloInv,
         DelIsAwaited, AddIsAwaited, Adding, AddSteps, HasPort
<1>2. cache[Name(c)] \in {None, c}
  BY <1>1, OwnEntry
\* A step that takes one part away.
<1>3. ASSUME UNCHANGED <<sandbox, addr, cache>>, veth' \ {c} = veth \ {c},
             \A e \in Containers \ {c} :
               ofport'[e] = ofport[e] /\ ipam'[e] = ipam[e],
             NEW p \in {"addr", "veth", "port"}, Kept(c)' = Kept(c) \ {p}
      PROVE  Promise!Next \/ UNCHANGED Seen
  <2>1. \A e \in Containers \ {c} : Kept(e)' = Kept(e)
    BY <1>1, <1>3, OthersKeep
  <2>2. Promise!Unmake(c)
    BY <1>1, <1>3, <2>1 DEF Promise!Unmake, Promise!Hold, Promise!Parts
  <2> QED
    BY <1>1, <2>2 DEF Promise!Next
\* The answer of a DEL that took everything away.
<1>4. ASSUME DelReply(d, TRUE), UNCHANGED <<ofport, ipam>>,
             Kept(c) \subseteq {"entry"},
             cache' = [cache EXCEPT ![Name(c)] = None]
      PROVE  Promise!Next \/ UNCHANGED Seen
  <2>1. /\ sandbox' = [sandbox EXCEPT ![c] = "gone"] /\ veth' = veth \ {c}
        /\ UNCHANGED addr
    BY <1>0, <1>1, <1>4 DEF DelReply
  <2>2. Kept(c)' = {}
    BY <1>1, <1>4, <2>1, NoneAssumption DEF Kept, Plugged, Name, TypeOK
  <2>3. \A e \in Containers \ {c} : cache'[Name(e)] = e <=> cache[Name(e)] = e
    BY <1>1, <1>2, <1>4, NameType, NoneAssumption DEF TypeOK
  <2>4. \A e \in Containers \ {c} : Kept(e)' = Kept(e)
    BY <1>1, <1>4, <2>1, <2>3, OthersKeep
  <2>5. Promise!Detach(c)
    BY <1>1, <1>4, <2>1, <2>2, <2>4
    DEF Promise!Detach, Promise!Enter, Promise!Hold
  <2> QED
    BY <1>1, <2>5 DEF Promise!Next
<1>5. CASE DelIpam(d)
  <2>1. /\ ipam' = [ipam EXCEPT ![c] = None]
        /\ UNCHANGED <<sandbox, addr, cache, ofport, veth>>
    BY <1>0, <1>5 DEF DelIpam, DelGoto
  <2>2. Kept(c)' = Kept(c) \ {"addr"}
    BY <1>1, <2>1 DEF Kept, Plugged, Name, TypeOK
  <2> QED
    BY <1>1, <1>3, <2>1, <2>2 DEF TypeOK
<1>6. CASE DelLink(d)
  <2>1. veth' = veth \ {c} /\ UNCHANGED <<sandbox, addr, cache, ofport, ipam>>
    BY <1>0, <1>6 DEF DelLink, DelGoto
  <2>2. Kept(c)' = Kept(c) \ {"veth"}
    BY <2>1 DEF Kept, Plugged, Name
  <2> QED
    BY <1>3, <2>1, <2>2
<1>7. CASE DelLookup(d)
  BY <1>7, SeenStays DEF DelLookup
<1>8. CASE DelLookupMisses(d)
  <2>1. dels[d].pc = "lookup" /\ cache[Name(c)] = None
    BY <1>0, <1>8 DEF DelLookupMisses
  <2>2. ipam[c] = None /\ c \notin veth /\ ~Plugged(c)
    BY <1>0, <1>1, <2>1, NoneAssumption DEF NodeInv, DelProgress, PortsAccounted
  <2>3. Kept(c) \subseteq {"entry"}
    BY <2>2 DEF Kept
  <2>4. cache' = [cache EXCEPT ![Name(c)] = None]
    BY <1>1, <1>8, <2>1 DEF DelLookupMisses, TypeOK
  <2> QED
    BY <1>4, <1>8, <2>3, <2>4 DEF DelLookupMisses
<1>9. CASE DelPort(d)
  <2>1. dels[d].uuid = c
    BY <1>0, <1>1, <1>9, NoneAssumption
    DEF DelPort, IInv, PortInv, DelOwns, SoloInv, DelTakesOwnPort
  <2>2. /\ ofport' = [ofport EXCEPT ![c] = 0]
        /\ UNCHANGED <<sandbox, addr, cache, veth, ipam>>
    BY <1>9, <2>1 DEF DelPort, DelGoto
  <2>3. Kept(c)' = Kept(c) \ {"port"}
    BY <1>1, <2>2 DEF Kept, Plugged, Name, TypeOK
  <2> QED
    BY <1>1, <1>3, <2>2, <2>3 DEF TypeOK
<1>10. CASE DelUncache(d)
  <2>1. ipam[c] = None /\ c \notin veth /\ ~Plugged(c)
    BY <1>0, <1>1, <1>10 DEF DelUncache, NodeInv, DelProgress
  <2>2. Kept(c) \subseteq {"entry"}
    BY <2>1 DEF Kept
  <2> QED
    BY <1>0, <1>4, <1>10, <2>2 DEF DelUncache
<1>11. CASE DelFails(d)
  <2>1. /\ sandbox' = [sandbox EXCEPT ![c] = "failed"]
        /\ UNCHANGED <<addr, cache, ofport, veth, ipam>>
    BY <1>0, <1>1, <1>11 DEF DelFails, DelReply
  <2>2. \A e \in Containers : Kept(e)' = Kept(e)
    BY <2>1 DEF Kept, Plugged, Name
  <2>3. Promise!Deny(c)
    BY <1>1, <2>1, <2>2 DEF Promise!Deny, Promise!Enter
  <2> QED
    BY <1>1, <2>3 DEF Promise!Next
<1> QED
  BY <1>5, <1>6, <1>7, <1>8, <1>9, <1>10, <1>11 DEF CmdDel

LEMMA AttachStep ==
  ASSUME LifeInv, RuntimeWaits, HostNamesDistinct, RollbacksSucceed,
         FlowsAccepted, Up, Up', [Next]_vars
  PROVE  Promise!Next \/ UNCHANGED Seen
<1>1. ASSUME NEW c \in Containers, StartAdd(c)
      PROVE  Promise!Next \/ UNCHANGED Seen
  <2>1. /\ sandbox' = [sandbox EXCEPT ![c] = "adding"]
        /\ addPc[c] = "new"
        /\ UNCHANGED <<addr, cache, ofport, veth, ipam>>
        /\ \A e \in Containers \ {c} :
             PodOf[e] = PodOf[c] => sandbox[e] \in {"none", "gone"}
    BY <1>1 DEF StartAdd, At
  <2>2. sandbox[c] = "none"
    BY <2>1 DEF LifeInv, IInv, AddrInv, FreshIsUntouched
  <2>3. \A e \in Containers : Kept(e)' = Kept(e)
    BY <2>1 DEF Kept, Plugged, Name
  <2>4. Promise!Request(c)
    BY <2>1, <2>2, <2>3 DEF Promise!Request, Promise!Enter
  <2> QED
    BY <2>4 DEF Promise!Next
<1>2. ASSUME NEW c \in Containers, CmdAdd(c)
      PROVE  Promise!Next \/ UNCHANGED Seen
  BY <1>2, AttachAdd
<1>3. ASSUME NEW c \in Containers, GiveUpAdd(c)
      PROVE  Promise!Next \/ UNCHANGED Seen
  BY <1>3 DEF GiveUpAdd, RuntimeWaits
<1>4. ASSUME NEW d \in Dels, CmdDel(d)
      PROVE  Promise!Next \/ UNCHANGED Seen
  BY <1>4, AttachDel
<1>5. ASSUME NEW d \in Dels, GiveUpDel(d)
      PROVE  Promise!Next \/ UNCHANGED Seen
  BY <1>5 DEF GiveUpDel, RuntimeWaits
<1>6. ASSUME NEW d \in Dels, NEW c \in Containers, StartDel(d, c)
      PROVE  Promise!Next \/ UNCHANGED Seen
  <2>1. /\ sandbox[c] \in {"ready", "failed"}
        /\ sandbox' = [sandbox EXCEPT ![c] = "deleting"]
        /\ addr' = [addr EXCEPT ![c] = None]
        /\ UNCHANGED <<cache, ofport, veth, ipam>>
    BY <1>6 DEF StartDel
  <2>2. \A e \in Containers : Kept(e)' = Kept(e)
    BY <2>1 DEF Kept, Plugged, Name
  <2>3. Promise!Teardown(c)
    BY <2>1, <2>2 DEF Promise!Teardown, Promise!Enter, Promise!Forget
  <2> QED
    BY <2>3 DEF Promise!Next
<1>7. CASE Crash \/ DeleteBridge \/ Restart
  BY <1>7 DEF Crash, Die, DeleteBridge, Restart, Up
<1>8. CASE UNCHANGED vars
  BY <1>8, SeenStays DEF vars
<1> QED
  BY <1>1, <1>2, <1>3, <1>4, <1>5, <1>6, <1>7, <1>8 DEF Next

-----------------------------------------------------------------------------
\* CmdAdd and CmdDel keep the promise of PodAttach: for a runtime that waits,
\* while the agent stays up, an ADD that answers success leaves the veth pair,
\* the port, the entry and the address, a refused one no more than the
\* address, a DEL nothing, and no request touches another sandbox's things.
THEOREM AttachesAloneWhileUp ==
  ASSUME RuntimeWaits, HostNamesDistinct, RollbacksSucceed, FlowsAccepted
  PROVE  Spec /\ []Up => AttachesAlone
<1>1. Init => LifeInv /\ Promise!Init
  BY TypeInit, PortInit, AddrInit, SoloInit, NodeInit, ReadyInit, AttachInit
  DEF LifeInv, IInv
<1>2. LifeInv /\ Up /\ Up' /\ [Next]_vars => LifeInv'
  BY TypeStep, PortStep, AddrStep, SoloStep, NodeStep, ReadyStep
  DEF LifeInv, IInv
<1>3. LifeInv /\ Up /\ Up' /\ [Next]_vars => [Promise!Next]_Promise!vars
  BY AttachStep DEF Seen, Holds, Promise!vars
<1> QED
  BY <1>1, <1>2, <1>3, PTL DEF Spec, AttachesAlone, Promise!Spec
=============================================================================
