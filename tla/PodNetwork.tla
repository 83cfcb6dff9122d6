------------------------------ MODULE PodNetwork ------------------------------
(***************************************************************************)
(* The CNI server of the node agent: CmdAdd and CmdDel of                  *)
(* pkg/cniserver, with the interface cache of pkg/agent, the OVS port      *)
(* calls of pkg/ovs and the CoreDNS flows of pkg/openflow they change.     *)
(*                                                                         *)
(* Every request runs in a goroutine of its own and no lock covers a pod:  *)
(* a handler is a sequence of steps, and the steps of all handlers         *)
(* interleave.  A step is one call to a party outside the handler: the     *)
(* IPAM plugin, netlink, OVSDB, the OpenFlow channel, the interface cache. *)
(*                                                                         *)
(* A container ID gets at most one ADD (the runtime makes a fresh ID for   *)
(* each sandbox), so an ADD handler, the OVS port it creates and that      *)
(* port's UUID are all named by the container.                             *)
(***************************************************************************)
EXTENDS Naturals, FiniteSets

CONSTANTS
  Containers,   \* container (sandbox) IDs
  Pods,         \* pods, as (name, namespace)
  PodOf,        \* the pod a container is a sandbox of
  NameOf,       \* the pod's host interface, which is also its OVS port's name
  CoreDNS,      \* pods that match "coredns" in "kube-system"
  Dels,         \* slots of concurrent DEL requests
  IPs,          \* addresses of the node's pod subnet
  OFPorts,      \* OpenFlow port numbers vswitchd assigns
  Faults,       \* the kinds of fault that may happen
  None          \* no container, no address

\* step: a call of an ADD fails; undo: a call of its rollback fails; del: a
\* call of a DEL fails; ipam: the IPAM plugin is missing or fails; timeout:
\* the runtime gives up waiting; crash: the agent exits.
FaultKinds == {"step", "undo", "del", "ipam", "timeout", "crash"}

ASSUME PodsAssumption ==
  /\ PodOf \in [Containers -> Pods]
  /\ CoreDNS \subseteq Pods

ASSUME NoneAssumption == None \notin Containers /\ None \notin IPs

\* The number of a port whose interface vswitchd could not open (OFPP_NONE).
Unopened == 65535

ASSUME OFPortsAssumption == OFPorts \subseteq Nat \ {0, Unopened}

ASSUME FaultsAssumption == Faults \subseteq FaultKinds

Name(c) == NameOf[PodOf[c]]
IsDns(c) == PodOf[c] \in CoreDNS
Names == {NameOf[p] : p \in Pods}

VARIABLES
  agent,      \* the process: running, down, or down on a bridge made anew
  sandbox,    \* what the runtime knows of a container
  addPc,      \* the next step of the container's ADD
  answer,     \* whether that ADD will answer success
  addr,       \* the address in that ADD's result, until the runtime drops it
  dels,       \* the DEL requests
  cache,      \* interfaceCache: host interface -> UUID of its OVS port
  flowCache,  \* podFlowCache: container -> flows
  ofport,     \* OVSDB: the port's OpenFlow number, 0 without a port
  flows,      \* CoreDNS flows on the switch
  veth,       \* containers whose veth pair exists
  ipam        \* host-local's reservations

vars == <<agent, sandbox, addPc, answer, addr, dels, cache, flowCache,
          ofport, flows, veth, ipam>>

AddSteps == {"ipam", "veth", "port", "dnsflow", "addr", "cache",
             "undoFlow", "undoPort", "undoLink"}
DelSteps == {"ipam", "link", "lookup", "port", "uncache"}

\* The steps an ADD takes with its OVS port on the bridge.
HasPort == {"dnsflow", "addr", "cache", "undoFlow", "undoPort"}

PortNumbers == OFPorts \cup {0, Unopened}

DnsFlow(t, n) == [table |-> t, inPort |-> n]
DnsTables == {"classifier", "snat"}
DnsFlows(n) == {DnsFlow(t, n) : t \in DnsTables}
AllFlows == [table : DnsTables, inPort : PortNumbers]

IdleDel == [pc |-> "idle", cont |-> None, uuid |-> None, waited |-> FALSE]

Plugged(c) == ofport[c] # 0
Adding(c) == addPc[c] \in AddSteps
FreeIPs == IPs \ {ipam[c] : c \in Containers}
FreeOFPorts == OFPorts \ {ofport[c] : c \in Containers}

\* The number vswitchd gives to the port it finds for c.
NewOFPorts(c) == IF c \in veth THEN FreeOFPorts ELSE {Unopened}

\* The number GetOFPort reads: vswitchd may have noticed that a link is gone.
OFPortsRead(c) == IF c \in veth THEN {ofport[c]} ELSE {ofport[c], Unopened}

TypeOK ==
  /\ agent \in {"running", "down", "reset"}
  /\ sandbox \in [Containers ->
       {"none", "adding", "ready", "failed", "deleting", "gone"}]
  /\ addPc \in [Containers -> AddSteps \cup {"new", "done"}]
  /\ answer \in [Containers -> BOOLEAN]
  /\ addr \in [Containers -> IPs \cup {None}]
  /\ dels \in [Dels -> [pc: DelSteps \cup {"idle"},
                        cont: Containers \cup {None},
                        uuid: Containers \cup {None},
                        waited: BOOLEAN]]
  /\ \A d \in Dels : dels[d].pc # "idle" => dels[d].cont # None
  /\ cache \in [Names -> Containers \cup {None}]
  /\ flowCache \in [Containers -> SUBSET AllFlows]
  /\ ofport \in [Containers -> PortNumbers]
  /\ flows \subseteq AllFlows
  /\ veth \subseteq Containers
  /\ ipam \in [Containers -> IPs \cup {None}]

Init ==
  /\ agent = "running"
  /\ sandbox = [c \in Containers |-> "none"]
  /\ addPc = [c \in Containers |-> "new"]
  /\ answer = [c \in Containers |-> TRUE]
  /\ addr = [c \in Containers |-> None]
  /\ dels = [d \in Dels |-> IdleDel]
  /\ cache = [n \in Names |-> None]
  /\ flowCache = [c \in Containers |-> {}]
  /\ ofport = [c \in Containers |-> 0]
  /\ flows = {}
  /\ veth = {}
  /\ ipam = [c \in Containers |-> None]

-----------------------------------------------------------------------------
(* CmdAdd.                                                                 *)

\* The handler of c is at step s.
At(c, s) == agent = "running" /\ addPc[c] = s

Goto(c, s) ==
  /\ addPc' = [addPc EXCEPT ![c] = s]
  /\ UNCHANGED <<agent, sandbox>>

\* The handler returns to the runtime, if it still listens, and closes the
\* network namespace, the last reference to it once the sandbox is gone.
Finish(c, ok) ==
  /\ addPc' = [addPc EXCEPT ![c] = "done"]
  /\ sandbox' = IF sandbox[c] = "adding"
                THEN [sandbox EXCEPT ![c] = IF ok THEN "ready" ELSE "failed"]
                ELSE sandbox
  /\ addr' = IF sandbox[c] = "adding" /\ ok
             THEN addr ELSE [addr EXCEPT ![c] = None]
  /\ answer' = [answer EXCEPT ![c] = TRUE]
  /\ UNCHANGED agent

Fail(c, s) ==
  /\ Goto(c, s)
  /\ answer' = [answer EXCEPT ![c] = FALSE]

\* The process exits: every handler ends where it is and what it kept in
\* memory is lost; the client of a pending request gets Unavailable.
Die ==
  /\ agent' = "down"
  /\ sandbox' = [c \in Containers |->
       IF sandbox[c] \in {"adding", "deleting"} THEN "failed" ELSE sandbox[c]]
  /\ addPc' = [c \in Containers |-> IF Adding(c) THEN "done" ELSE addPc[c]]
  /\ addr' = [c \in Containers |->
       IF sandbox[c] = "ready" THEN addr[c] ELSE None]
  /\ answer' = [c \in Containers |-> TRUE]
  /\ dels' = [d \in Dels |-> IdleDel]
  /\ cache' = [n \in Names |-> None]
  /\ flowCache' = [c \in Containers |-> {}]
  /\ veth' = {c \in veth : sandbox[c] # "gone"}
  /\ UNCHANGED <<ofport, flows, ipam>>

\* The runtime makes a sandbox only when the pod's earlier ones are gone.
StartAdd(c) ==
  /\ At(c, "new")
  /\ \A e \in Containers \ {c} :
       PodOf[e] = PodOf[c] => sandbox[e] \in {"none", "gone"}
  /\ addPc' = [addPc EXCEPT ![c] = "ipam"]
  /\ sandbox' = [sandbox EXCEPT ![c] = "adding"]
  /\ UNCHANGED <<agent, answer, addr, dels, cache, flowCache, ofport, flows,
                 veth, ipam>>

\* Mutation: `success = true` is missing in IPAMDelegator.Add, whose
\* rollback then releases the address it returns.
AddIpamRollsBack(c) ==
  /\ At(c, "ipam")
  /\ \E a \in FreeIPs : addr' = [addr EXCEPT ![c] = a]
  /\ Goto(c, "veth")
  /\ UNCHANGED <<answer, dels, cache, flowCache, ofport, flows, veth, ipam>>

\* ExecIPAMAdd hands out an address no container holds ...
AddIpam(c) ==
  /\ At(c, "ipam")
  /\ \E a \in FreeIPs :
       /\ ipam' = [ipam EXCEPT ![c] = a]
       /\ addr' = [addr EXCEPT ![c] = a]
  /\ Goto(c, "veth")
  /\ UNCHANGED <<answer, dels, cache, flowCache, ofport, flows, veth>>

\* ... or cannot find the plugin's binary, and the ADD fails ...
AddIpamMissing(c) ==
  /\ At(c, "ipam")
  /\ "ipam" \in Faults
  /\ Finish(c, FALSE)
  /\ UNCHANGED <<dels, cache, flowCache, ofport, flows, veth,
                 ipam>>

\* ... or the plugin fails, as it does when the subnet is used up: its error
\* is overwritten by the conversion of a nil result, which panics.
AddIpamPanics(c) ==
  /\ At(c, "ipam")
  /\ FreeIPs = {} \/ "ipam" \in Faults
  /\ Die

\* GetNS and setupVethPair.  The host end is named after the pod.
AddVeth(c) ==
  /\ At(c, "veth")
  /\ sandbox[c] # "gone"
  /\ \A e \in veth : Name(e) # Name(c)
  /\ veth' = veth \cup {c}
  /\ Goto(c, "port")
  /\ UNCHANGED <<answer, addr, dels, cache, flowCache, ofport, flows, ipam>>

AddVethFails(c) ==
  /\ At(c, "veth")
  /\ \/ sandbox[c] = "gone"
     \/ \E e \in veth : Name(e) = Name(c)
     \/ "step" \in Faults
  /\ Fail(c, "undoLink")
  /\ UNCHANGED <<addr, dels, cache, flowCache, ofport, flows, veth, ipam>>

\* The pair is made, but its host end cannot be set up.
AddVethHalfFails(c) ==
  /\ At(c, "veth")
  /\ "step" \in Faults
  /\ sandbox[c] # "gone"
  /\ \A e \in veth : Name(e) # Name(c)
  /\ veth' = veth \cup {c}
  /\ Fail(c, "undoLink")
  /\ UNCHANGED <<addr, dels, cache, flowCache, ofport, flows, ipam>>

NameTaken(c) == \E e \in Containers : Plugged(e) /\ Name(e) = Name(c)
AfterPort(c) == IF IsDns(c) THEN "dnsflow" ELSE "addr"

\* Mutation: the interface is cached as soon as its port exists.
AddPortCachesEarly(c) ==
  /\ At(c, "port")
  /\ ~NameTaken(c)
  /\ \E n \in NewOFPorts(c) : ofport' = [ofport EXCEPT ![c] = n]
  /\ cache' = [cache EXCEPT ![Name(c)] = c]
  /\ Goto(c, AfterPort(c))
  /\ UNCHANGED <<answer, addr, dels, flowCache, flows, veth, ipam>>

\* Mutation: the port numbers are counted from one too far.
AddPortOffByOne(c) ==
  /\ At(c, "port")
  /\ ~NameTaken(c)
  /\ \E n \in NewOFPorts(c) : ofport' = [ofport EXCEPT ![c] = n + 1]
  /\ Goto(c, AfterPort(c))
  /\ UNCHANGED <<answer, addr, dels, cache, flowCache, flows, veth, ipam>>

\* setupContainerOVSPort: one OVSDB transaction, refused if the name exists.
AddPort(c) ==
  /\ At(c, "port")
  /\ ~NameTaken(c)
  /\ \E n \in NewOFPorts(c) : ofport' = [ofport EXCEPT ![c] = n]
  /\ Goto(c, AfterPort(c))
  /\ UNCHANGED <<answer, addr, dels, cache, flowCache, flows, veth, ipam>>

\* Mutation: the error of setupContainerOVSPort is only logged.
AddPortFailsLogged(c) ==
  /\ At(c, "port")
  /\ NameTaken(c) \/ "step" \in Faults
  /\ Goto(c, AfterPort(c))
  /\ UNCHANGED <<answer, addr, dels, cache, flowCache, ofport, flows, veth,
                 ipam>>

AddPortFails(c) ==
  /\ At(c, "port")
  /\ NameTaken(c) \/ "step" \in Faults
  /\ Fail(c, "undoLink")
  /\ UNCHANGED <<addr, dels, cache, flowCache, ofport, flows, veth, ipam>>

\* InstallCorednsFlow: addMissingFlows sends the flows in order, and keeps
\* those that were sent in podFlowCache.
SendFlows(c, fs) ==
  /\ flows' = flows \cup fs
  /\ flowCache' = [flowCache EXCEPT ![c] = @ \cup fs]

AddDnsFlow(c) ==
  /\ At(c, "dnsflow")
  /\ \E n \in OFPortsRead(c) : SendFlows(c, DnsFlows(n))
  /\ Goto(c, "addr")
  /\ UNCHANGED <<answer, addr, dels, cache, ofport, veth, ipam>>

AddDnsPortFails(c) ==
  /\ At(c, "dnsflow")
  /\ "step" \in Faults
  /\ Fail(c, "undoPort")
  /\ UNCHANGED <<addr, dels, cache, flowCache, ofport, flows, veth, ipam>>

\* Mutation: the error of InstallCorednsFlow is only logged.
AddDnsFlowFailsLogged(c) ==
  /\ At(c, "dnsflow")
  /\ "step" \in Faults
  /\ \E n \in OFPortsRead(c) :
       \E fs \in {{}, {DnsFlow("classifier", n)}} : SendFlows(c, fs)
  /\ Goto(c, "addr")
  /\ UNCHANGED <<answer, addr, dels, cache, ofport, veth, ipam>>

\* A flow is refused: `return err` returns the error of GetOFPort, which is
\* nil, so the handler rolls back and answers success.  The flow sent before the
\* refused one stays: its removal is deferred only after both are sent.
AddDnsFlowFails(c) ==
  /\ At(c, "dnsflow")
  /\ "step" \in Faults
  /\ \E n \in OFPortsRead(c) :
       \E fs \in {{}, {DnsFlow("classifier", n)}} : SendFlows(c, fs)
  /\ Goto(c, "undoPort")
  /\ UNCHANGED <<answer, addr, dels, cache, ofport, veth, ipam>>

\* Mutation: the deferred DeletePort is not registered.
FirstUndoSkipsPort(c) == "undoLink"

FirstUndo(c) == IF IsDns(c) THEN "undoFlow" ELSE "undoPort"

\* configureContainerAddr, which looks the container's interface up by name.
AddAddr(c) ==
  /\ At(c, "addr")
  /\ c \in veth
  /\ Goto(c, "cache")
  /\ UNCHANGED <<answer, addr, dels, cache, flowCache, ofport, flows, veth,
                 ipam>>

AddAddrFails(c) ==
  /\ At(c, "addr")
  /\ c \notin veth \/ "step" \in Faults
  /\ Fail(c, FirstUndo(c))
  /\ UNCHANGED <<addr, dels, cache, flowCache, ofport, flows, veth, ipam>>

\* The namespace is closed when the handler returns.
CloseNetns(c, v) == IF sandbox[c] = "gone" THEN v \ {c} ELSE v

\* GetOFPort reads the row AddOwnsPort says is there (it indexes the rows
\* without a test), then AddInterface writes the entry.
AddCache(c) ==
  /\ At(c, "cache")
  /\ cache' = [cache EXCEPT ![Name(c)] = c]
  /\ veth' = CloseNetns(c, veth)
  /\ Finish(c, TRUE)
  /\ UNCHANGED <<dels, flowCache, ofport, flows, ipam>>

\* Mutation: the entry is written before GetOFPort has answered.
AddCacheFailsLate(c) ==
  /\ At(c, "cache")
  /\ "step" \in Faults
  /\ cache' = [cache EXCEPT ![Name(c)] = c]
  /\ Fail(c, FirstUndo(c))
  /\ UNCHANGED <<addr, dels, flowCache, ofport, flows, veth, ipam>>

\* Mutation: a missing port number is retried without a limit.
AddCacheRetries(c) ==
  /\ At(c, "cache")
  /\ "step" \in Faults
  /\ Goto(c, "addr")
  /\ UNCHANGED <<answer, addr, dels, cache, flowCache, ofport, flows, veth,
                 ipam>>

AddCacheFails(c) ==
  /\ At(c, "cache")
  /\ "step" \in Faults
  /\ Fail(c, FirstUndo(c))
  /\ UNCHANGED <<addr, dels, cache, flowCache, ofport, flows, veth, ipam>>

\* The deferred calls, last registered first.  Their errors are only logged.
UndoFlow(c) ==
  /\ At(c, "undoFlow")
  /\ \E kept \in SUBSET flowCache[c] :
       /\ kept # {} => "undo" \in Faults
       /\ flows' = flows \ (flowCache[c] \ kept)
       /\ flowCache' = [flowCache EXCEPT ![c] = kept]
  /\ Goto(c, "undoPort")
  /\ UNCHANGED <<answer, addr, dels, cache, ofport, veth, ipam>>

UndoPort(c) ==
  /\ At(c, "undoPort")
  /\ ofport' = [ofport EXCEPT ![c] = 0]
  /\ Goto(c, "undoLink")
  /\ UNCHANGED <<answer, addr, dels, cache, flowCache, flows, veth, ipam>>

UndoPortFails(c) ==
  /\ At(c, "undoPort")
  /\ "undo" \in Faults
  /\ Goto(c, "undoLink")
  /\ UNCHANGED <<answer, addr, dels, cache, flowCache, ofport, flows, veth,
                 ipam>>

UndoLink(c) ==
  /\ At(c, "undoLink")
  /\ \/ veth' = veth \ {c}
     \/ "undo" \in Faults /\ veth' = CloseNetns(c, veth)
  /\ Finish(c, answer[c])
  /\ UNCHANGED <<dels, cache, flowCache, ofport, flows, ipam>>

\* The runtime kills the plugin; the agent's handler does not notice.
GiveUpAdd(c) ==
  /\ "timeout" \in Faults
  /\ sandbox[c] = "adding"
  /\ sandbox' = [sandbox EXCEPT ![c] = "failed"]
  /\ UNCHANGED <<agent, addPc, answer, addr, dels, cache, flowCache, ofport,
                 flows, veth, ipam>>

CmdAdd(c) ==
  \/ AddIpam(c) \/ AddIpamMissing(c) \/ AddIpamPanics(c)
  \/ AddVeth(c) \/ AddVethFails(c) \/ AddVethHalfFails(c)
  \/ AddPort(c) \/ AddPortFails(c)
  \/ AddDnsFlow(c) \/ AddDnsPortFails(c) \/ AddDnsFlowFails(c)
  \/ AddAddr(c) \/ AddAddrFails(c)
  \/ AddCache(c) \/ AddCacheFails(c)
  \/ UndoFlow(c) \/ UndoPort(c) \/ UndoPortFails(c) \/ UndoLink(c)

-----------------------------------------------------------------------------
(* CmdDel.                                                                 *)

DelAt(d, s) == agent = "running" /\ dels[d].pc = s

DelGoto(d, s) ==
  /\ dels' = [dels EXCEPT ![d].pc = s]
  /\ UNCHANGED <<agent, sandbox, addPc, answer, addr>>

\* The handler returns; on success the runtime removes the network
\* namespace, which an ADD still at work holds open.
DelReply(d, ok) ==
  /\ dels' = [dels EXCEPT ![d] = IdleDel]
  /\ sandbox' = IF dels[d].waited
                THEN [sandbox EXCEPT ![dels[d].cont] =
                        IF ok THEN "gone" ELSE "failed"]
                ELSE sandbox
  /\ veth' = IF dels[d].waited /\ ok /\ ~Adding(dels[d].cont)
             THEN veth \ {dels[d].cont}
             ELSE veth
  /\ UNCHANGED <<agent, addPc, answer, addr>>

StartDel(d, c) ==
  /\ DelAt(d, "idle")
  /\ sandbox[c] \in {"ready", "failed"}
  /\ sandbox' = [sandbox EXCEPT ![c] = "deleting"]
  /\ dels' = [dels EXCEPT ![d] =
       [pc |-> "ipam", cont |-> c, uuid |-> None, waited |-> TRUE]]
  /\ addr' = [addr EXCEPT ![c] = None]
  /\ UNCHANGED <<agent, addPc, answer, cache, flowCache, ofport, flows,
                 veth, ipam>>

\* The address is released before the interface is taken down.
DelIpam(d) ==
  /\ DelAt(d, "ipam")
  /\ ipam' = [ipam EXCEPT ![dels[d].cont] = None]
  /\ DelGoto(d, "link")
  /\ UNCHANGED <<cache, flowCache, ofport, flows, veth>>

DelLink(d) ==
  /\ DelAt(d, "link")
  /\ veth' = veth \ {dels[d].cont}
  /\ DelGoto(d, "lookup")
  /\ UNCHANGED <<cache, flowCache, ofport, flows, ipam>>

\* GetContainerInterface looks up by pod name, not by container.
DelLookup(d) ==
  /\ DelAt(d, "lookup")
  /\ cache[Name(dels[d].cont)] # None
  /\ dels' = [dels EXCEPT ![d] =
       [pc |-> "port", cont |-> @.cont, uuid |-> cache[Name(@.cont)],
        waited |-> @.waited]]
  /\ UNCHANGED <<agent, sandbox, addPc, answer, addr, cache, flowCache, ofport,
                 flows, veth, ipam>>

\* Mutation: an interface missing from the cache is an error.
DelLookupMissErrors(d) ==
  /\ DelAt(d, "lookup")
  /\ cache[Name(dels[d].cont)] = None
  /\ DelReply(d, FALSE)
  /\ UNCHANGED <<cache, flowCache, ofport, flows, ipam>>

DelLookupMisses(d) ==
  /\ DelAt(d, "lookup")
  /\ cache[Name(dels[d].cont)] = None
  /\ DelReply(d, TRUE)
  /\ UNCHANGED <<cache, flowCache, ofport, flows, ipam>>

\* DeletePort; no change if the port is already gone.
DelPort(d) ==
  /\ DelAt(d, "port")
  /\ ofport' = [ofport EXCEPT ![dels[d].uuid] = 0]
  /\ DelGoto(d, "uncache")
  /\ UNCHANGED <<cache, flowCache, flows, veth, ipam>>

\* Mutation: DeleteInterface is not called.
DelUncacheForgets(d) ==
  /\ DelAt(d, "uncache")
  /\ DelReply(d, TRUE)
  /\ UNCHANGED <<cache, flowCache, ofport, flows, ipam>>

\* DeleteInterface, then the answer.
DelUncache(d) ==
  /\ DelAt(d, "uncache")
  /\ cache' = [cache EXCEPT ![Name(dels[d].cont)] = None]
  /\ DelReply(d, TRUE)
  /\ UNCHANGED <<flowCache, ofport, flows, ipam>>

\* The plugin, netlink or OVSDB refuses: the handler returns the error.
DelFails(d) ==
  /\ agent = "running"
  /\ dels[d].pc \in {"ipam", "link", "port"}
  /\ "del" \in Faults
  /\ DelReply(d, FALSE)
  /\ UNCHANGED <<cache, flowCache, ofport, flows, ipam>>

GiveUpDel(d) ==
  /\ "timeout" \in Faults
  /\ dels[d].pc # "idle" /\ dels[d].waited
  /\ dels' = [dels EXCEPT ![d] =
       [pc |-> @.pc, cont |-> @.cont, uuid |-> @.uuid, waited |-> FALSE]]
  /\ sandbox' = [sandbox EXCEPT ![dels[d].cont] = "failed"]
  /\ UNCHANGED <<agent, addPc, answer, addr, cache, flowCache, ofport, flows,
                 veth, ipam>>

CmdDel(d) ==
  \/ DelIpam(d) \/ DelLink(d) \/ DelLookup(d) \/ DelLookupMisses(d)
  \/ DelPort(d) \/ DelUncache(d) \/ DelFails(d)

-----------------------------------------------------------------------------
(* The process.                                                            *)

Crash ==
  /\ agent = "running"
  /\ "crash" \in Faults
  /\ Die

\* A started agent caches the tunnel port only, so it tries to create the
\* gateway port again, OVSDB refuses the name, and it exits.  It comes up
\* once the bridge has been deleted (by hand, or by a reboot: conf.db is
\* kept under /var/run), with the ports and the flows.
DeleteBridge ==
  /\ agent = "down"
  /\ agent' = "reset"
  /\ ofport' = [c \in Containers |-> 0]
  /\ flows' = {}
  /\ UNCHANGED <<sandbox, addPc, answer, addr, dels, cache, flowCache, veth,
                 ipam>>

\* Mutation: the gateway port is found again, so that the agent comes up on
\* the old bridge, and the container ports are still not cached.
RestartOnOldBridge ==
  /\ agent \in {"down", "reset"}
  /\ agent' = "running"
  /\ UNCHANGED <<sandbox, addPc, answer, addr, dels, cache, flowCache, ofport,
                 flows, veth, ipam>>

Restart ==
  /\ agent = "reset"
  /\ agent' = "running"
  /\ UNCHANGED <<sandbox, addPc, answer, addr, dels, cache, flowCache, ofport,
                 flows, veth, ipam>>

Next ==
  \/ \E c \in Containers : StartAdd(c) \/ CmdAdd(c) \/ GiveUpAdd(c)
  \/ \E d \in Dels : CmdDel(d) \/ GiveUpDel(d)
  \/ \E d \in Dels, c \in Containers : StartDel(d, c)
  \/ Crash \/ DeleteBridge \/ Restart

Spec == Init /\ [][Next]_vars

\* Goroutines run, so a handler that can step does; the runtime tears a
\* failed sandbox down, as often as it takes; and none of the parties a DEL
\* calls (the IPAM plugin, netlink, OVSDB) fails at every call.
Fairness ==
  /\ \A c \in Containers : WF_vars(CmdAdd(c))
  /\ \A d \in Dels : WF_vars(CmdDel(d))
  /\ \A c \in Containers :
       WF_vars(sandbox[c] = "failed" /\ \E d \in Dels : StartDel(d, c))
  /\ SF_vars(\E d \in Dels : DelIpam(d))
  /\ SF_vars(\E d \in Dels : DelLink(d))
  /\ SF_vars(\E d \in Dels : DelPort(d))

FairSpec == Spec /\ Fairness

-----------------------------------------------------------------------------
(* Properties.                                                             *)

\* The port an ADD made stays on the bridge until that ADD is over or takes
\* it off itself: configureInterface never asks GetOFPort for a row that
\* another request deleted (which would panic on res[1].Rows[0]), and its
\* deferred DeletePort removes its own port.
PortStays == \A c \in Containers : addPc[c] \in HasPort => Plugged(c)

\* An entry of interfaceCache names a port that exists, unless a DEL is
\* between its DeletePort and its DeleteInterface.
CacheMatchesBridge ==
  \A n \in Names : cache[n] # None =>
    \/ Plugged(cache[n])
    \/ \E d \in Dels : /\ dels[d].pc = "uncache"
                       /\ dels[d].uuid = cache[n]
                       /\ Name(dels[d].cont) = n

\* No orphan port: while the agent runs, each container port on the bridge
\* belongs to an ADD at work or is in interfaceCache, the only way CmdDel
\* finds it again.
PortsAccounted ==
  \A c \in Containers : agent = "running" /\ Plugged(c) =>
    addPc[c] \in HasPort \/ cache[Name(c)] = c

\* A successful answer to CmdAdd means the container is attached: it has its
\* veth pair, its port, its cache entry and its address, until its DEL.
ReadyIsAttached ==
  \A c \in Containers : sandbox[c] = "ready" =>
    /\ c \in veth
    /\ Plugged(c)
    /\ cache[Name(c)] = c
    /\ ipam[c] = addr[c]

\* Two containers the runtime counts on never have the same address,
\* although CmdDel releases an address before it takes the interface down.
LiveAddressesDistinct ==
  \A c, e \in Containers :
    /\ {sandbox[c], sandbox[e]} \subseteq {"adding", "ready"}
    /\ addr[c] # None
    /\ addr[c] = addr[e]
    => c = e

\* After a successful DEL nothing of the container is left on the node: a
\* failed CmdAdd leaves its address, and only that, for its DEL to release.
GoneLeavesNothing ==
  \A c \in Containers : sandbox[c] = "gone" =>
    ~Plugged(c) /\ c \notin veth /\ ipam[c] = None /\ cache[Name(c)] # c

\* CmdDel finds the port by pod name; it is the port of the container that
\* is deleted, not of the sandbox that follows it.
DelTakesOwnPort == \A d \in Dels : dels[d].uuid \in {None, dels[d].cont}

\* A CoreDNS pod whose CmdAdd went through to the cache has both its flows
\* for its own port, whatever was installed and rolled back before it.
CachedDnsHasFlows ==
  \A c \in Containers :
    (IsDns(c) /\ Plugged(c) /\ cache[Name(c)] = c) =>
      DnsFlows(ofport[c]) \subseteq flows

\* "For requests and responses of CoreDNS, jump to the coreDnsSNAT table"
\* (openflow.Client): the flows of a port catch CoreDNS traffic only.
DnsFlowsForDnsOnly ==
  \A c \in Containers :
    (Plugged(c) /\ DnsFlows(ofport[c]) \cap flows # {}) => IsDns(c)

\* A container whose sandbox failed is torn down in the end, though its DEL
\* meets the caches and the ports other requests are changing.
FailedIsCleaned ==
  \A c \in Containers : sandbox[c] = "failed" ~> sandbox[c] = "gone"

\* Every ADD is answered: no step of configureInterface, of its rollback or
\* of another request keeps a handler from its end.
AddIsAnswered ==
  \A c \in Containers : sandbox[c] = "adding" ~> sandbox[c] # "adding"
=============================================================================
