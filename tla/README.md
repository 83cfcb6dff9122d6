# ciccni: TLA+ models, checks and proofs

ciccni is a CNI network plugin for Kubernetes. On every node an agent (a
DaemonSet) owns an Open vSwitch bridge; the kubelet's container runtime calls a
small plugin binary, which forwards each CNI command to the agent over gRPC.
The modules here model the agent from the Go source, `src/`.

## The system

| Component | State it keeps | Operations | Talks to |
|---|---|---|---|
| CNI plugin, `pkg/cni` | none | `Request` for ADD, DEL, CHECK; gRPC codes become CNI errors | the agent, over a unix socket |
| CNI server, `pkg/cniserver` | none of its own; one goroutine per request | `CmdAdd`, `CmdDel`, `CmdCheck` | IPAM, netlink, OVSDB, OpenFlow client, interface cache |
| IPAM delegation, `pkg/cniserver/ipam` | none; the `host-local` plugin has files | `Add` with rollback, `Del` | a plugin process |
| Interface cache, `pkg/agent/interface_cache.go` | `cache`: interface name → port UUID, addresses | `Initialize`, `AddInterface`, `DeleteInterface`, look-ups, under one RWMutex | OVSDB at the start |
| OVSDB client, `pkg/ovs` | the bridge's UUID | bridge and port transactions, `GetOFPort` | ovsdb-server, and vswitchd through it |
| OpenFlow client, `pkg/openflow` | flow caches: key → flows sent | install and uninstall per kind of flow | `ovs-ofctl`, one process per flow (`pkg/ovs/openflow`) |
| Network policy, `pkg/openflow/network_policy.go` | policy and conjunctive-match caches | install, uninstall, change addresses of a rule | the same; nothing calls it yet |
| Agent start, `cmd/ciccni-agent`, `pkg/agent/agentFunc.go` | the node's configuration | `run`, `Initialize` | API server, iptables, OVSDB, netlink, OpenFlow client |
| iptables rules, `pkg/iptables` | none; the kernel's chains | `SetUpRules` | iptables |
| Traffic control, `pkg/tctools` | none; the kernel's qdisc, class and filter | a rate and a burst from a pod's annotation, an HTB class and its filter | API server, netlink |

What is hard in it:

* **Requests interleave.** Each gRPC request has a goroutine, `CmdAdd` and
  `CmdDel` are sequences of calls to other processes, and no lock covers a pod.
  `CmdDel` finds its port by *pod name* in the interface cache.
* **Abandoned requests.** The runtime kills a plugin that takes too long; the
  handler goes on, beside the DEL of that sandbox and the ADD of the next.
* **Partial failure.** `configureInterface` undoes its steps with deferred
  calls whose errors are only logged. Some of the state (the address) is undone
  by the *next request*.
* **Crash and restart.** OVSDB, the kernel and the switch keep what an earlier
  life of the agent did; its caches are lost, and one request's panic ends all.
* **A start that is repeated** on a half-made bridge until it goes through.
* **Flows and rules of many owners.** Starts, nodes and pods add flows to the
  same tables, and rules to the same chains, one command at a time; deletion is
  by match and takes what is narrower. Any command may have been refused before.
* **Arithmetic in 32 bits** on rates a user writes.

`PROJECT.json` lists each hazard with its line and the properties that cover it.

What makes each part correct:

* CNI server: an ADD answered with success leaves the container attached; after
  a successful DEL nothing is left; a DEL takes nobody else's port; live
  addresses are distinct; each request is answered.
* Interface cache: entries name ports that exist; container ports on the bridge
  can be found again.
* OpenFlow: a CoreDNS pod has its flows, and keeps them whatever other pods and
  starts do; no other pod is caught by them (which is not so: `dns_leak`).
* Start: an agent serves only on a complete data path, and one that fails
  serves again in the end.
* Data path: packets to another node's pods go to that node's tunnel, to the
  outside through the gateway and are masqueraded, to this node's pods nowhere else.
* Traffic control: a limit is what was asked for and never stops an ADD.
* Network policy: the flows on the switch are those the caches say, a rule stays in
  force until it is uninstalled, and leaves nothing then.

## Modules

| Module | Builds on | Models |
|---|---|---|
| `PodNetwork` | | `CmdAdd` and `CmdDel`, step by step, crashes |
| `PodAttach`, `PodNetworkAttach` | `PodNetwork` | what these promise a runtime, and that they keep it |
| `AgentInit` | | the start of the agent |
| `Pipeline`, `Iptables` | | flows and packets, rules and packets: operators only |
| `DataPath` | both, and an instance of `AgentInit` | the node's data path over starts and pods |
| `TrafficControl` | | the rate limit of a container |
| `NetworkPolicy` | | policy rules as conjunctive flows |
| `PodNetworkProofs`, `PodNetworkFlowProofs`, `PodNetworkLifeProofs` | `PodNetwork`, the last two on the first | theorems |
| `PodNetworkAttachProofs` | `PodNetworkAttach`, `PodNetworkLifeProofs` | the refinement's steps |
| `AgentInitProofs`, `DataPathProofs`, `TrafficControlProofs`, `NetworkPolicyProofs` | their module | theorems |
| `MC...` | their module | values of the constants for TLC |

### PodNetwork: pods are plugged and unplugged

`CmdAdd` is a step counter per container (`addPc`), `CmdDel` a record in one of
the slots `Dels` (a runtime may have several DELs under way, some given up). A
step is one call to a party outside the handler, with what the handler does
before the next one. A failing step goes to the rollback it has registered so far:

| `addPc` | Code | Fails to |
|---|---|---|
| `ipam` | `ExecIPAMAdd` | answer (plugin missing), or the end of the process (plugin fails, nil result) |
| `veth` | `GetNS`, `setupVethPair` | `undoLink` |
| `port` | `setupContainerOVSPort` | `undoLink` |
| `dnsflow` | `GetOFPort`, `InstallCorednsFlow`, CoreDNS pods only | `undoPort` |
| `addr` | `configureContainerAddr` | `undoFlow` or `undoPort` |
| `cache` | `GetOFPort`, `AddInterface`, success | `undoFlow` or `undoPort` |
| `undoFlow`, `undoPort`, `undoLink` | the deferred calls, last registered first | logged, goes on |

A DEL goes `ipam`, `link`, `lookup`, `port`, `uncache`. The state around the
handlers: `cache` (interface name to port; a port is named by the container
whose ADD made it), `flowCache` and `flows` (CoreDNS flows the agent remembers
and the switch has), `ofport` (OVSDB), `veth` (kernel), `ipam` (the plugin's
reservations). `sandbox` is what the runtime knows of a container, `answer`
what the handler will say, `addr` the address in its answer.

Of the world outside, the model takes this from how the code uses it:

* the runtime creates a sandbox for a pod when the earlier ones are gone, uses
  a container ID once, and repeats DEL until it succeeds;
* `host-local` gives out free addresses and releases by container ID;
* OVSDB refuses a second port with the same name, and deleting a port that is
  gone changes nothing; the refusal reaches the agent as an error;
* a veth pair disappears with its namespace, and an ADD holds that namespace open;
* vswitchd gives a number to a port whose link exists and reuses a number only
  after its port is deleted. It prefers numbers that were not used lately, so
  reuse takes many pods in practice; the model takes the small range `OFPorts`;
* a failed transaction changes nothing (a lost answer to a transaction that
  was carried out is not modelled).

Two names may collide in principle: `GenerateContainerInterfaceName` shortens
the pod's name and a hash. `NameOf` is any function of pods, as the proofs have
it; the instances give each pod its own. `DelTakesOwnPort` needs that: when two
pods share a name, the second's ADD fails at the veth pair or the port, and the
DEL of its sandbox looks the shared name up and takes the first pod's port.

### PodAttach and PodNetworkAttach: what the runtime is promised

`PodAttach` has three functions of containers: the `phase` of their life, the
`address` told to the runtime, and what the node `holds` for them (veth pair,
port, cache entry, reserved address). ADD makes the parts and ends in `Attach`
with all of them or in `Refuse` with no more than the address; DEL takes them one
by one and ends in `Detach` with nothing. Each action touches one container.

`PodNetworkAttach` maps `PodNetwork` to it: `sandbox` is the phase, `Kept(c)` what
the node holds. `AttachesAlone` is the specification of `PodAttach` under this
mapping, checked on the `serial` instance, for a runtime that waits and an agent
that stays up. With abandoned requests or a crash it is not kept, as
*What needs a waiting runtime* says below; what the code guarantees then has
properties of its own.

### AgentInit: the agent starts

The steps of `run` and `Initialize` in their order, against `bridge` and
`ports` (OVSDB), `gwAddr` (kernel) and `base`, `tunnels`, `arp` (switch). Each
may fail by its kind of fault and ends the process, whose memory (`cache`,
`known`, `calls`) is lost; the DaemonSet starts it again. While it serves, pods
are plugged and unplugged. Of their requests it has the calls that change the
bridge and those that change the cache, each a step: `PlugPod` makes the port and
`PlugDone` enters it (or `PlugFails` takes it back, if that goes through);
`UnplugPod` is `DeletePort`, `UnplugDone` is `DeleteInterface`, and between the two
the cache names a port that is gone, as `CacheInPorts` says. `calls` notes which
pods are between the two. Nodes join and leave unnoticed. `Resets`
says whether an operator deletes the bridge of a stopped agent. IPv6 and a
missing default interface are left out, and so is the request for five
connections to the switch, which counts as a fault of it.

`PodNetwork` takes two facts from here: a restarted agent comes up only on a
new bridge, and its cache of container ports is empty.

### Pipeline, Iptables and DataPath: where packets go

`Pipeline` has the flows the agent sends, with their tables, priorities, matches
and actions as `pipeline.go` builds them. A match is a set of packets (in-port,
kind, the subnet of the destination), so a wildcard is the whole set and "more
specific" is inclusion. `AddFlows` and `DelFlows` do what `ovs-ofctl` does:
add-flow replaces the flow of the same match *and* priority, del-flows takes
every flow with a match as narrow or narrower, whatever its priority. `Handling`
follows a packet through the classifier, the CoreDNS table and the forwarding table.

`Iptables` has the rules of `SetUpRules` in their order, `EnsureChain` and
`EnsureRule`, and what a forwarded packet meets in the chains. The path of a
packet is whether it comes in by, and goes out of, the gateway.

`DataPath` puts both under `AgentInit`, with `flows`, `chains` and `ensured` (how far
`SetUpRules` is) as state. It reuses the actions of `AgentInit` by an instance in
which `base`, `tunnels` and `arp` are *read off the flows*, so that a flow that
replaced or deleted another owner's would break the step; `ImplementsAgentInit`
is the whole specification of `AgentInit` under this mapping.

| Action | Code |
|---|---|
| `HostStep` | the steps of the start that touch neither switch nor rules |
| `EnsureNext`, `RulesDone` | `SetUpRules`, one call of `ensureChain` or `ensureRule` at a time |
| `InstallBase`, `InstallBaseFails` | `client.Initialize`; what was sent before a refusal stays |
| `InstallNodes` | `constructArpOpenflow`, `constructIPTunFlow`; refusals are ignored or logged |
| `PlugPod`, `InstallDns`, `PlugDone` | `CmdAdd`: the port gets a number, a CoreDNS pod's number gets its two flows, or the first of them, the cache its entry |
| `PlugFails` | its roll-back: flows (if both were sent) and port, either of which may fail |
| `UnplugPod`, `UnplugDone` | `CmdDel`: the port goes and its number is free; its flows stay |
| `DeleteBridge` | an operator, or a reboot, after which the chains are empty |

A packet's source is left out: the pipeline never matches it. NORMAL counts as
"not tunnelled" when no tunnel destination is set; MAC learning is the switch's.
Flows match a port *number*, which `ofport` gives a pod's port while it is there; the
switch gives a free number again, whoever had it before, and with it the flows a CoreDNS
pod left (`CmdDel` deletes none) or a rollback did not get to. So other pods' packets
from port 53 may be rewritten too: that is the disagreement `dns_leak` shows, and
`DnsRepliesRewritten` does not deny it. It says what holds beside it: an attached
CoreDNS pod's answers are rewritten, only packets from port 53 on a container port ever
are, and (`RewritingChanges`) nobody but the ADD of a CoreDNS pod with the number
changes that.
`updateResultIfaceConfig` gives the container its routes (`Routes`), which decide
whether a packet takes the gateway or the bridge.

### TrafficControl: the limit of a container

One pod, whose sandbox is made again and whose annotation may be edited at any
moment. `ReadAnnotation` is `ConstructTcConfig`; `SetupVeth` is
`SetupVethWithName`; `AddQdisc`, `AddClass`, `AddFilter` are the three calls of
`configureTC`; `TcFails` is the error `setupVethPair` logs. Rates are numbers with a unit;
`Bandwidth` and `ClassOf` drop the bits a uint32 has no room for, as the code
does, with `Word` for 2^32 and `Kilo` for 1000. The kernel refuses a class
whose rate or ceiling is 0 (`Refused`), and lets pass the lesser of both (`Limit`).
A number is compared with a number: the unit a rate is meant in (bits or bytes
a second) is nowhere said. `asked` and `logged` are history variables.

### NetworkPolicy: rules on the switch

A rule has clauses (`Shape`), each clause matches values, and a key is a clause
with a value. A call on a rule is `call[r]`: the action flows and keys it has
still to work on, clause by clause. The action flows of a rule are one that lets its
packets pass (`Allow`) and one for each exception (`Excepts`).

| Action | Code |
|---|---|
| `Install`, `AddActionFlow` | `InstallPolicyRuleFlows`, the action flows first |
| `Uninstall`, `DelActionFlow` | `UninstallPolicyRuleFlows` |
| `AddAddress`, `DeleteAddress` | `AddPolicyRuleAddress`, `DeletePolicyRuleAddress` |
| `SkipKey`, `AddMatch`, `DelMatch` | `addConjunctiveMatchFlow`, `deleteConjunctiveMatchFlow` of one key |
| `...Fails` | the same, when `ovs-ofctl` refuses a flow |
| `Return` | `policyCache.Store`, `policyCache.Delete`, or just the answer |

`contexts` are the `conjMatchFlowContext` objects by identity, `global` is
`globalConjMatchFlowCache`, and `matches` are the pointers the clauses hold; the
three are kept apart because they can disagree. The work on one key is one
action: `conjMatchFlowLock` covers it, the calls of `ovs-ofctl` included. Between
keys the rules interleave; one goroutine works on a rule, as the comments of
the calls ask. The controller asks nothing of a rule it has begun to uninstall but
to uninstall it again (`leaving`). `lost` notes the keys a failed call left
unlike the clauses, which later calls may repair.

What the switch does is taken from the options of `ovs-ofctl`: `del-flows` and
`mod-flows` take in each flow of the table with a more specific match (`Covers`,
`Covered`), and `mod-flows` adds none. Exceptions are in the table of the match flows
and match a conjunction ID as well, so a command for a subnet takes in the exceptions
inside it, of any rule: `Spared` is what is left of them (a modified one is a conjunctive
flow then, and stops nothing). The tables are assumed to be there: the pipeline that
`NewClient` builds has none of them yet, and nothing calls these functions. The two
directions share no table, so an instance is one of them. No property says that
exceptions stay on the switch, as they do not: a rule that excepts an address from a
subnet loses it when another rule with the subnet comes or goes, or its own subnet is
taken from it and given back, while its packets pass. Left out: the
match of any address, which takes in every flow of its clause.

## Runs

| Run | Instance | Shows |
|---|---|---|
| `serial` | sandboxes c1, c2 of one pod, c3 of another; two DEL slots; calls of ADD and DEL fail; a runtime that waits | `ReadyIsAttached`, `DelTakesOwnPort`, `GoneLeavesNothing`, `TypeOK`; under fairness `AddIsAnswered`, `FailedIsCleaned`; the refinement `AttachesAlone` |
| `timeouts` | c1, c2 of one CoreDNS pod; one port number, so that it is reused; abandoned requests, failing rollbacks | `PortStays`, `CacheMatchesBridge`, `CachedDnsHasFlows` |
| `crash` | three sandboxes, two addresses; an IPAM plugin that fails or panics, crashes anywhere, restart on a new bridge; a runtime that waits | `PortsAccounted`, `LiveAddressesDistinct` |
| `agent_start` | every kind of fault and crashes, three in all, two nodes, bridge deletions by an operator | `ServingIsWired`, `CacheInPorts`, `NoStaleNodeFlows`, `TypeOK`; under fairness `ServesAgain` |
| `policy` | three ingress rules: r1 (a subnet, but not a peer in it) and r2 let traffic pass to one pod, r3 denies all to a second; action, match and drop flows are refused | `SwitchMatchesContexts`, `OneContextPerFlow`, `ClausesRealized`, `NoStrayActions`, `TypeOK` |
| `datapath` | two pods, one of them CoreDNS, two port numbers, two other nodes; iptables, switch or netlink fails or the agent crashes, once; nodes come and go, bridges are deleted, the node reboots | `NoAmbiguousMatch`, `PodToPod`, `PodToExternal`, `DnsRepliesRewritten`, `RewritingChanges`, `TypeOK`; the refinement `ImplementsAgentInit` |
| `bandwidth` | eleven numbers around the limits of an 8-bit word, three units; API server, netlink, tc and later steps fail; annotations are edited | `LimitFollowsSum`, `NoSilentMiss`, `TypeOK`; under fairness `LimitNeverStopsAdd` |
| `agent_loop`, `dns_answer`, `dns_leak`, `policy_stale`, `policy_subnet` | smallest instance | the disagreements below |

The bounds. A hazard of two sandboxes needs two of one pod (the name is shared)
or two pods (addresses and port numbers are shared); the third sandbox lets
both happen in one behaviour. Two DEL slots are one abandoned DEL and the DEL
that repeats it. Two addresses for two live sandboxes make a released address
come back at once. One port number in `timeouts` makes every new port reuse the
last one's flows. Nothing else is bounded: a container has one ADD and any
number of DELs. `MaxFaults` bounds what goes wrong in a behaviour of
`AgentInit`, failed calls and crashes together, as `ServesAgain` needs: three
let an attempt fail on what two failed attempts left. In `policy`, two rules
that share a match flow and one that shares none let a flow be added, modified
and deleted by either sharer while a failure of the third leaves its context
behind; `MaxContexts` is the number of keys, and no more contexts are ever in
use at once. `Sticky` names the values whose drop flow may fail to be deleted:
only the third rule's, as `policy_stale` shows what such a failure does to a
shared one. In `datapath` two nodes let one come while the other goes, and one
CoreDNS and one other pod are what the classifier tells apart; two numbers let
either pod have a new one or the one the other left, and both be attached at once.
`MaxFaults` is one here, so that a start meets what a half-made one left, on a bridge of
any history: refused node and pod flows, rollbacks and bridge deletions do not count.
Nodes and numbers are interchangeable (symmetry; no liveness is checked there).
`bandwidth` has a word
of 256 and a thousand of 10: its numbers are the last that fits and the first that
does not, for the parser, for each unit and for the sum of the ceiling, and
those that wrap to 0. Container IDs
are used once, so an instance of `PodNetwork` ends when all of them are gone:
its runs do not check deadlock; the others do.

What needs a waiting runtime. `ReadyIsAttached`, `DelTakesOwnPort`,
`GoneLeavesNothing` and `PortsAccounted` hold with no abandoned requests only,
and are checked so.
With one, a DEL may overtake the ADD it follows: that ADD plugs the port in
after the DEL has missed it in the cache. What stays true under abandonment,
and why, is what `PortStays`, `CacheMatchesBridge`, `CachedDnsHasFlows` and
`LiveAddressesDistinct` say; OVSDB's unique names are what saves them. The run of
the last has a waiting runtime too (`crash`); its theorem has no such hypothesis.

Fairness. Goroutines are scheduled and each call of a handler returns, so each
handler that has a step takes it (weak fairness per handler). The runtime
repeats the teardown of a failed sandbox. `serial` has failing steps of DEL
too, and a DEL that failed for ever would never be done: each of the three
parties a DEL calls (IPAM, netlink, OVSDB) carries out a DEL's call again and
again if it is asked again and again (strong fairness of `DelIpam`, `DelLink`,
`DelPort`, over all slots). In `AgentInit` calls fail `MaxFaults` times, the
DaemonSet restarts the agent and the start goes on (weak fairness); an operator
who deletes bridges gets to a failing agent in the end (strong fairness, as the
agent is down only now and then).

## Where the code disagrees with its comments

* `dns_answer`: `cniserver.go:351` returns the wrong error variable. A refused
  CoreDNS flow rolls the interface back under a successful answer.
* `dns_leak`: `CmdDel` never removes CoreDNS flows. They match by port number.
* `agent_loop`: the start puts the tunnel port alone into the interface cache,
  so the gateway port is created anew at each start, which OVSDB refuses: an
  agent that stops after that step does not come up again while the bridge exists.
* `policy_stale`: `network_policy.go:293` says that one context maintains a match
  flow. When a drop flow could not be deleted, the clause keeps its context; a
  rule that shares it may end and remove it, another make a new one for the
  same key, and the retry of the first call then removes the new one.
* `policy_subnet`: deleting or modifying a match flow is not strict, so it takes
  in the flows of other rules for addresses within its subnet, and the rule's own
  exceptions, which lie there; the contexts still hold the former, and nothing
  would ever send the latter again.

Two more were met on the way and have no run. `network_policy.go:534` says that the
conjunction of a rule whose install failed is never hit; it is, if the clause that
failed already had a value on the switch (`addAddrFlows` leaves what it sent).
`tctools.go:92` writes `ceil {limit+burst}`, but the ceiling that is set is
rate + (rate + burst), as both `addHTBClass` and `createClassObject` add. From
about half of 2^32 on that sum wraps while the comment's does not, and the kernel
limits to the wrapped ceiling: a pod that asks for 2147483648 gets about a tenth of it.
`LimitFollowsSum` states this: the last conjunct says that the limit *is* lower there,
in every case in which the comment's ceiling would have left it alone, and it is proved
for every word width.

## Proofs

TLC checks the instances; TLAPS proves the theorems for any sets of
containers, pods, nodes, names, addresses, numbers, rules, requests and faults.
They rest on the named assumptions on constants (`PodsAssumption`,
`NoneAssumption`, `OFPortsAssumption`, `AgentAssumption`, `WordAssumption`, ...:
constants have their types, special names are not those of pods or nodes), which
TLC evaluates in every run. Each inductive invariant was checked by TLC on the
run's instance before it was proved. Where a theorem needs more, the hypothesis is
named and stands in the theorem:

| Hypothesis | Says | Without it |
|---|---|---|
| `RuntimeWaits` | no request is abandoned | a DEL overtakes its ADD: *What needs a waiting runtime* |
| `HostNamesDistinct` | pods have interface names of their own | a DEL takes the other pod's port (the name ends in part of a hash) |
| `RollbacksSucceed` | deferred calls go through | a port stays without an entry: the code logs the error only |
| `FlowsAccepted` | no CoreDNS flow is refused | run `dns_answer` |
| `Up` in every state | the agent neither exits nor panics | its caches are gone while containers live |
| `Exact` | no match flow takes in another (it may take in exceptions) | run `policy_subnet` |
| `StickyIsSole` | a drop flow that may fail to be deleted is of one rule | run `policy_stale` |

Each run that checks a property has an instance in which the theorem's
hypotheses hold. Faults the hypotheses do not name may happen at any step.

**PodNetwork** (`PodNetworkProofs`). `PortStays` and `CacheMatchesBridge` are not
inductive: what if a cache entry, or a DEL that has read one, named a port whose
ADD is still at work? `PortInv` adds that it cannot: `CacheOwns` and `DelOwns` say
that the cache and a DEL past its look-up name ports of finished ADDs only (an ADD
writes its entry in its last step), and `StoppedIsEmpty` that no handler outlives
its process. Two lemmas on frames (`PortAddFrame`, `PortDelFrame`) cover the steps
that leave the port alone or touch only their own; the others have a step of
their own. `LiveAddressesDistinct` follows from `AddrInv`: a live container's
address is reserved by it (`LiveHoldsAddress`), reservations are distinct
(`IpamDistinct`), and a DEL comes after its container has stopped being live
(`DelComesAfter`), which is why releasing early is harmless. These four theorems
have no hypothesis.

`CachedDnsHasFlows` (`PodNetworkFlowProofs`, no hypothesis either) hangs on whose
flows a roll-back removes. It deletes those of the number its ADD sent them for,
and that number may belong to another port by then. `SentForOwnPort` says that it
does not: an ADD's flows are for its port's number, or, where the link was taken
down meanwhile, for OFPP_NONE; and a port keeps its number as long as it exists
(`NumbersDistinct`).

For a runtime that waits (`PodNetworkLifeProofs`) there is one sandbox of a pod and
one request of a sandbox at a time (`SoloInv`). Why then does a DEL that looks up a
pod's name find its own port? Because an entry's container is never gone
(`CachedIsLive`): the DEL before removed it, and after a restart the cache is empty.
`NodeInv` follows both handlers step by step for what they have made and taken
away, and through restarts (`ResetIsEmpty`); `ReadyInv` says the same of what a
successful answer is given for, `UndoIsRefused` being the part that
`dns_answer` breaks.

With these, each step of `PodNetwork` is a step of `PodAttach` of the one
container it works for, or a stutter (`PodNetworkAttachProofs`): the last step
of an ADD is `Attach` or `Refuse`, that of a DEL `Detach`, and `OthersKeep` says
that what the node holds for other containers stays.

**AgentInit.** `IInv` states for each step of the start what the steps before it
have made sure of; the only step that takes any of it away, the deletion of
the bridge, meets a stopped process, whose cache is empty (`StoppedIsEmpty`). A cached
pod's port goes in the step that notes the DEL in `calls`, and an ADD that takes its
port back has not entered it (`AddHasPort`).
`NoStaleNodeFlows` has an invariant of its own, `FlowInv`. It says why no flow of
an earlier start is left, although no start deletes any: flows to nodes exist
beside a gateway port only (`GatewayFirst`),
and a start that gets past the making of that port has met none
(`GatewayUncached`, `NoFlowsYet`). Caching the gateway port, the obvious repair
of `agent_loop`, would end that: the start must then remove stale flows itself.

**DataPath.** The properties speak of packets, and nothing inductive can be said
of packets; `FlowInv` says which flows there can be. All are of `KnownFlows`
(for any nodes and numbers), no two have one match at one priority
(`OnePerMatch`: `ovs-ofctl` replaces), the basic flows came in their order and
stay, and a cached CoreDNS pod's number has its two (`DnsThere`). `NumberInv` says that
pods with ports have numbers of their own, which is what keeps a rollback's
deletions from another pod's flows. The work is in the
lemmas about `AddFlows` and `DelFlows` on known flows: which add-flow replaces
which (only the flows for ARP of an earlier start are ever replaced), and that
deleting a number's flows takes in no other number's, although the match is not strict.
`NoAmbiguousMatch` then compares the known flows of one table two by two.
`PodToPod` and `DnsRepliesRewritten` follow a packet through the three tables;
`RewrittenIs` says in terms of flows which packets are rewritten, and
`RewritingChanges` follows from it step by step.
`RuleInv` says that each chain is at any time the first of its rules, and that
what `SetUpRules` has ensured is there; `PodToExternal` reads the chains from it.
The refinement `ImplementsAgentInit` needs that commands change exactly the count,
the tunnels and the ARP targets that `AgentInit` says, and no others: `TunApart`,
`ArpUntouched`, `DnsLeavesCounts`, `BasicsLeaveNodes`. What `AgentInitProofs`
proves of the counts, `NoStaleNodeFlows` above all, is thereby said of the flows.

**TrafficControl.** `LimitInv` ties class and arguments to the annotation that was
read (`ArgsFollow`, `ClassFollows`). The rest is arithmetic with `%` at any
`Word`: a value that wraps is never above what was asked (`Wraps`), nor is the
lesser of rate and ceiling (`LimitOfRate`).

**NetworkPolicy.** The client says the same thing three times: contexts, clauses'
pointers, flows. `ContextInv` says how they agree: a clause's pointer is the
global cache's (`PointsGlobal`), keys have contexts of their own (`GlobalApart`),
a context has the rules that point to it (`Joined`) and its actions are known to
the rules they are of (`ActionsKnown`), and the switch has what the contexts say.
`Joined` is the heart: a context is unused only when nobody points to it, so
removing it strands no other rule. Where it fails (a drop flow that stuck),
`StickyIsSole` lets nobody else be there. `ActionInv` follows the action flows: a
rule that the client does not know has none but those of an install under way or
failed, and what an uninstall has still to delete takes in all that are left. A loose
command for a match flow only ever takes some away (`LooseSpares`).

| Theorem | Property | Hypotheses |
|---|---|---|
| `TypeCorrect` of `PodNetworkProofs`, `AgentInitProofs`, `DataPathProofs`, `NetworkPolicyProofs`; `LimitInvariance` | `TypeOK` | |
| `PortStaysAlways`, `CacheMatchesBridgeAlways`, `LiveAddressesDistinctAlways`, `CachedDnsHasFlowsAlways` | as named | |
| `DelTakesOwnPortAlways` | `DelTakesOwnPort` | `RuntimeWaits`, `HostNamesDistinct` |
| `PortsAccountedAlways`, `GoneLeavesNothingAlways` | as named | these and `RollbacksSucceed` |
| `ReadyIsAttachedWhileUp` | `ReadyIsAttached` | `RuntimeWaits`, `HostNamesDistinct`, `FlowsAccepted`, always `Up` |
| `AttachesAloneWhileUp` | `AttachesAlone` | all of these |
| `CacheInPortsAlways`, `ServingIsWiredAlways`, `NoStaleNodeFlowsAlways` | as named | |
| `NoAmbiguousMatchAlways`, `PodToPodAlways`, `PodToExternalAlways`, `DnsRepliesRewrittenAlways`, `RewritingChangesAlways`, `ImplementsAgentInitAlways` | as named | |
| `LimitFollowsSumAlways`, `NoSilentMissAlways` | as named | |
| `SwitchMatchesContextsAlways`, `OneContextPerFlowAlways`, `ClausesRealizedAlways`, `NoStrayActionsAlways` | as named | `Exact`, `StickyIsSole` |

Only model-checked: the liveness properties `AddIsAnswered`, `FailedIsCleaned`,
`ServesAgain` and `LimitNeverStopsAdd` (liveness under fairness and ENABLED are
beyond the prover), and the disagreements of the section before. No recursive
definition is proved about, as there is none.

## Not modelled

Left out for good:

* code without a caller: the flows of the older tables in `pipeline.go` (spoof
  guard, conntrack, L2 and L3 forwarding; the pipeline has no such tables), the
  matchers and actions only they use, `Delete`, `DeletePorts` and `GetPortData` of
  the OVSDB client, `GetFilter`, `pkg/link`'s helpers, table counters;
* what changes no state: `CmdCheck`, the checks of a request's arguments, the
  mapping of gRPC codes to CNI errors, reads of the routing table;
* generated gRPC code, logging, the Kubernetes client, the format of
  `ovs-ofctl` command lines.
