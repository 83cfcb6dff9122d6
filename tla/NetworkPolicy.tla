----------------------------- MODULE NetworkPolicy -----------------------------
(***************************************************************************)
(* NetworkPolicy rules on the switch: pkg/openflow/network_policy.go.      *)
(*                                                                         *)
(* A rule is a conjunction of clauses (from, to, service).  Each value of  *)
(* a clause has a match flow, shared by all rules that match the value;    *)
(* what the client knows of the flow is a context, which it keeps in a     *)
(* global cache and the rules' clauses point to.  The clause a rule is     *)
(* applied to also has a drop flow per value, for packets that pass no     *)
(* rule.  A rule that has one clause only denies: it has drop flows alone. *)
(*                                                                         *)
(* One goroutine works on a rule at a time; those of several rules         *)
(* interleave.  conjMatchFlowLock makes the work on one context atomic.    *)
(* The two directions have tables, and so flows and contexts, of their     *)
(* own: an instance of the module is one of them.                          *)
(***************************************************************************)
EXTENDS Naturals, FiniteSets, Functions

CONSTANTS
  Rules,       \* rule IDs
  Direction,   \* "ingress" or "egress"
  Shape,       \* the clauses of each rule
  Excepts,     \* ExceptFrom and ExceptTo of each rule: pairs of a clause and a value
  Values,      \* addresses and ports
  Matchable,   \* of each rule: the pairs of a clause and a value it may match
  Covers,      \* pairs of a match and a narrower one, as of a subnet and an address
  MaxContexts, \* bound on the contexts in use
  Faults,      \* the calls of ovs-ofctl that may fail
  Sticky       \* the values whose drop flow may fail to be deleted

Clauses == {"from", "to", "service"}

ASSUME RulesAssumption ==
  /\ Direction \in {"ingress", "egress"}
  /\ Shape \in [Rules -> SUBSET Clauses]
ASSUME ValuesAssumption ==
  /\ Excepts \in [Rules -> SUBSET ({"from", "to"} \X Values)]
  /\ Matchable \in [Rules -> SUBSET (Clauses \X Values)]
  /\ \A r \in Rules : \A k \in Matchable[r] : k[1] \in Shape[r]
ASSUME BoundsAssumption == MaxContexts \in Nat \ {0}

\* action: a rule's action flows; match: a match flow; drop: adding a drop flow.
ASSUME FaultsAssumption == Faults \subseteq {"action", "match", "drop"}

\* What tells match flows apart, in the order of the clauses.
Keys == UNION {Matchable[r] : r \in Rules}
Rank == [c \in Clauses |-> CASE c = "from" -> 1 [] c = "to" -> 2 [] c = "service" -> 3]

\* The clause with a drop table.
Guarded == IF Direction = "ingress" THEN "to" ELSE "from"

\* nClause > 1: the rule has conjunctive actions and action flows, one that lets
\* its packets pass and one per exception.  All match the rule's conjunction ID,
\* and are in the table of the match flows.
Allow == <<"allow", "all">>
Allows(r) == Cardinality(Shape[r]) > 1
ActionFlows(r) == IF Allows(r) THEN {Allow} \cup Excepts[r] ELSE {}

Ids == 1 .. MaxContexts

VARIABLES
  policyCache,  \* the rules the client knows
  matches,      \* of each rule: keys in its clauses' matches, to contexts
  contexts,     \* conjMatchFlowContexts, by identity
  global,       \* globalConjMatchFlowCache: key to context
  matchFlows,   \* switch: key to the rules in the match flow's actions
  dropFlows,    \* switch: keys with a drop flow
  actionFlows,  \* switch: of each rule, its action flows
  call,         \* of each rule: the call under way, what it has still to do
  leaving,      \* controller: rules it has begun to uninstall
  lost          \* of each rule: keys a failed call left unlike its clauses

client == <<policyCache, matches, contexts, global>>
switch == <<matchFlows, dropFlows, actionFlows>>
vars == <<policyCache, matches, contexts, global, matchFlows, dropFlows,
          actionFlows, call, leaving, lost>>

Idle == [op |-> "none", acts |-> {}, keys |-> {}]
NewContext == [actions |-> {}, deny |-> {}, drop |-> FALSE]

TypeOK ==
  /\ policyCache \subseteq Rules /\ leaving \subseteq policyCache
  /\ \A r \in Rules :
       /\ DOMAIN matches[r] \subseteq Matchable[r]
       /\ \A k \in DOMAIN matches[r] : matches[r][k] \in Ids
       /\ lost[r] \subseteq Matchable[r]
       /\ actionFlows[r] \subseteq ActionFlows(r)
       /\ call[r].op \in {"none", "failed", "install", "uninstall", "add", "del"}
       /\ call[r].acts \subseteq ActionFlows(r)
       /\ call[r].keys \subseteq Matchable[r]
  /\ contexts \in [Ids -> [actions : SUBSET Rules, deny : SUBSET Rules, drop : BOOLEAN]]
  /\ DOMAIN global \subseteq Keys /\ \A k \in DOMAIN global : global[k] \in Ids
  /\ DOMAIN matchFlows \subseteq Keys
  /\ \A k \in DOMAIN matchFlows : matchFlows[k] \in SUBSET Rules
  /\ dropFlows \subseteq {k \in Keys : k[1] = Guarded}

Init ==
  /\ policyCache = {} /\ leaving = {}
  /\ matches = [r \in Rules |-> <<>>]
  /\ contexts = [x \in Ids |-> NewContext]
  /\ global = <<>>
  /\ matchFlows = <<>> /\ dropFlows = {}
  /\ actionFlows = [r \in Rules |-> {}]
  /\ call = [r \in Rules |-> Idle]
  /\ lost = [r \in Rules |-> {}]

-----------------------------------------------------------------------------
(* Contexts and their flows.                                               *)

\* ovs-ofctl mod-flows and del-flows are not strict: they take in every flow
\* of the table with a more specific match, and one that matches a conjunction
\* ID as well is more specific.
Covered(k) == {k} \cup {q[2] : q \in {p \in Covers : p[1] = k}}

\* A Go map, or a table of the switch, with an entry for k.
Stored(f, k, v) == [l \in DOMAIN f \cup {k} |-> IF l = k THEN v ELSE f[l]]

\* Mutation: the flow is modified with the new action alone.
WrittenAlone(k, old, new) ==
  CASE new = old -> matchFlows
    [] new # old /\ new \subseteq old /\ new = {} -> Restrict(matchFlows, DOMAIN matchFlows \ {k})
    [] OTHER -> Stored(matchFlows, k, IF old \subseteq new THEN new \ old ELSE new)

\* The match flows when a context's actions change: add, delete or modify.
\* The code's flow is nil exactly when there are no actions.
Written(k, old, new) ==
  CASE new = old -> matchFlows
    [] new # old /\ old = {} -> Stored(matchFlows, k, new)
    [] new # old /\ old # {} /\ new = {} -> Restrict(matchFlows, DOMAIN matchFlows \ Covered(k))
    [] OTHER -> [l \in DOMAIN matchFlows |-> IF l \in Covered(k) THEN new ELSE matchFlows[l]]

\* The same call takes in action flows, of whatever rule: a flow that is
\* modified has conjunctive actions then, and lets the exception pass.
Spared(k, old, new) ==
  IF new = old \/ old = {} THEN actionFlows
  ELSE [r \in Rules |-> actionFlows[r] \ Covered(k)]

InUse == Range(global) \cup UNION {Range(matches[r]) : r \in Rules}
FreeId == CHOOSE x \in Ids \ InUse : TRUE

\* Mutations: a new context whatever the cache says; a drop flow for every clause.
ContextAlwaysNew(k) == FreeId
DropsAlways(k) == k \notin DOMAIN global

\* The context of a key, made if there is none, and its drop flow, added then.
ContextOf(k) == IF k \in DOMAIN global THEN global[k] ELSE FreeId
DropsNow(k) == k \notin DOMAIN global /\ k[1] = Guarded
Opened(k) ==
  IF k \in DOMAIN global THEN contexts[global[k]] ELSE [NewContext EXCEPT !.drop = DropsNow(k)]
Open(k, ctx) ==
  /\ k \in DOMAIN global \/ Ids \ InUse # {}
  /\ contexts' = [contexts EXCEPT ![ContextOf(k)] = ctx]
  /\ global' = Stored(global, k, ContextOf(k))
  /\ dropFlows' = dropFlows \cup IF DropsNow(k) THEN {k} ELSE {}

\* A clause enters and leaves a context: with an action or as a deny rule.
WithRule(ctx, r) ==
  IF Allows(r) THEN [ctx EXCEPT !.actions = @ \cup {r}] ELSE [ctx EXCEPT !.deny = @ \cup {r}]
WithoutRule(ctx, r) ==
  IF Allows(r) THEN [ctx EXCEPT !.actions = @ \ {r}] ELSE [ctx EXCEPT !.deny = @ \ {r}]
Unused(ctx) == ctx.actions = {} /\ ctx.deny = {}

-----------------------------------------------------------------------------
(* A call: its action flows, then its keys, clause by clause.              *)

Free(r) == call[r].op \in {"none", "failed"}
Begin(r, op, acts, ks) == call' = [call EXCEPT ![r] = [op |-> op, acts |-> acts, keys |-> ks]]
Upcoming(r) ==
  {k \in call[r].keys : \A l \in call[r].keys : Rank[k[1]] <= Rank[l[1]]}
Done(r, k) == call' = [call EXCEPT ![r].keys = @ \ {k}]
Adds(r, k) == call[r].op \in {"install", "add"} /\ call[r].acts = {} /\ k \in Upcoming(r)
Deletes(r, k) == call[r].op \in {"uninstall", "del"} /\ call[r].acts = {} /\ k \in Upcoming(r)

\* A failed install loses the conjunction it was building; the calls on a
\* cached rule keep it.
FailAt(r, ks) ==
  LET failsInstall == call[r].op = "install" IN
  /\ call' = [call EXCEPT ![r] = IF failsInstall THEN [Idle EXCEPT !.op = "failed"] ELSE Idle]
  /\ matches' = IF failsInstall THEN [matches EXCEPT ![r] = <<>>] ELSE matches
  /\ lost' = [lost EXCEPT ![r] = @ \cup ks \cup IF failsInstall /\ Allows(r) THEN DOMAIN matches[r] ELSE {}]
Fail(r) == FailAt(r, {})

\* InstallPolicyRuleFlows.
Install(r) ==
  /\ Free(r) /\ r \notin policyCache
  /\ \E ks \in SUBSET Matchable[r] : Begin(r, "install", ActionFlows(r), ks)
  /\ UNCHANGED <<client, switch, leaving, lost>>

\* UninstallPolicyRuleFlows.  The controller asks nothing else of the rule then.
Uninstall(r) ==
  /\ Free(r) /\ r \in policyCache
  /\ Begin(r, "uninstall", ActionFlows(r), DOMAIN matches[r])
  /\ leaving' = leaving \cup {r}
  /\ UNCHANGED <<client, switch, lost>>

\* AddPolicyRuleAddress and DeletePolicyRuleAddress, for values of one clause.
ChangeAddress(r, op) ==
  /\ Free(r) /\ r \in policyCache \ leaving
  /\ \E c \in Shape[r] \ {"service"} :
       \E ks \in SUBSET {k \in Matchable[r] : k[1] = c} \ {{}} : Begin(r, op, {}, ks)
  /\ UNCHANGED <<client, switch, leaving, lost>>
AddAddress(r) == ChangeAddress(r, "add")
DeleteAddress(r) == ChangeAddress(r, "del")

\* The flow that lets the conjunction pass, then its exceptions; deleting the
\* first by its conjunction ID takes the exceptions too.
NextActionFlow(r, f) == f \in call[r].acts /\ (Allow \in call[r].acts => f = Allow)
ActionDone(r, f) == call' = [call EXCEPT ![r].acts = @ \ {f}]

AddActionFlow(r) ==
  \E f \in call[r].acts :
    /\ call[r].op = "install" /\ NextActionFlow(r, f)
    /\ actionFlows' = [actionFlows EXCEPT ![r] = @ \cup {f}]
    /\ ActionDone(r, f)
    /\ UNCHANGED <<client, matchFlows, dropFlows, leaving, lost>>

DelActionFlow(r) ==
  \E f \in call[r].acts :
    /\ call[r].op = "uninstall" /\ NextActionFlow(r, f)
    /\ actionFlows' = [actionFlows EXCEPT ![r] = IF f = Allow THEN {} ELSE @ \ {f}]
    /\ ActionDone(r, f)
    /\ UNCHANGED <<client, matchFlows, dropFlows, leaving, lost>>

ActionFlowFails(r) ==
  /\ "action" \in Faults
  /\ call[r].op \in {"install", "uninstall"} /\ call[r].acts # {}
  /\ Fail(r)
  /\ UNCHANGED <<policyCache, contexts, global, switch, leaving>>

\* addConjunctiveMatchFlow, deleteConjunctiveMatchFlow: nothing to do.
SkipKey(r) ==
  /\ \E k \in Upcoming(r) :
       /\ \/ Adds(r, k) /\ k \in DOMAIN matches[r]
          \/ Deletes(r, k) /\ k \notin DOMAIN matches[r]
       /\ Done(r, k)
  /\ UNCHANGED <<client, switch, leaving, lost>>

\* addConjunctiveMatchFlow.
AddMatch(r) ==
  \E k \in Upcoming(r) :
    LET ctx == Opened(k) IN
    /\ Adds(r, k) /\ k \notin DOMAIN matches[r]
    /\ Open(k, WithRule(ctx, r))
    /\ matchFlows' = Written(k, ctx.actions, WithRule(ctx, r).actions)
    /\ actionFlows' = Spared(k, ctx.actions, WithRule(ctx, r).actions)
    /\ matches' = [matches EXCEPT ![r] = Stored(@, k, ContextOf(k))]
    /\ lost' = [lost EXCEPT ![r] = @ \ {k}]
    /\ Done(r, k)
    /\ UNCHANGED <<policyCache, leaving>>

\* The drop flow is refused: the new context is dropped.
AddMatchDropFails(r) ==
  /\ "drop" \in Faults
  /\ \E k \in Upcoming(r) : Adds(r, k) /\ k \notin DOMAIN matches[r] /\ DropsNow(k)
  /\ Fail(r)
  /\ UNCHANGED <<policyCache, contexts, global, switch, leaving>>

\* Mutation: the context takes the action before the flow is sent.
AddMatchFlowFailsLate(r) ==
  /\ "match" \in Faults
  /\ \E k \in Upcoming(r) :
       /\ Adds(r, k) /\ k \notin DOMAIN matches[r]
       /\ Allows(r) /\ r \notin Opened(k).actions
       /\ Open(k, WithRule(Opened(k), r))
  /\ Fail(r)
  /\ UNCHANGED <<policyCache, matchFlows, actionFlows, leaving>>

\* The match flow is refused: the context stays, with its drop flow.
AddMatchFlowFails(r) ==
  /\ "match" \in Faults
  /\ \E k \in Upcoming(r) :
       /\ Adds(r, k) /\ k \notin DOMAIN matches[r]
       /\ Allows(r) /\ r \notin Opened(k).actions
       /\ Open(k, Opened(k))
  /\ Fail(r)
  /\ UNCHANGED <<policyCache, matchFlows, actionFlows, leaving>>

\* deleteConjunctiveMatchFlow.  The clause may point to a context that is no
\* longer the global one: what leaves the global cache is the key.
DelMatch(r) ==
  \E k \in Upcoming(r) :
    LET x == matches[r][k]
        ctx == contexts[x]
        rest == WithoutRule(ctx, r)
    IN
    /\ Deletes(r, k) /\ k \in DOMAIN matches[r]
    /\ matchFlows' = Written(k, ctx.actions, rest.actions)
    /\ actionFlows' = Spared(k, ctx.actions, rest.actions)
    /\ contexts' = [contexts EXCEPT ![x] = IF Unused(rest) THEN NewContext ELSE rest]
    /\ dropFlows' = dropFlows \ IF Unused(rest) /\ ctx.drop THEN Covered(k) ELSE {}
    /\ global' = IF Unused(rest) THEN Restrict(global, DOMAIN global \ {k}) ELSE global
    /\ matches' = [matches EXCEPT ![r] = Restrict(@, DOMAIN @ \ {k})]
    /\ lost' = [lost EXCEPT ![r] = @ \ {k}]
    /\ Done(r, k)
    /\ UNCHANGED <<policyCache, leaving>>

\* Mutation: the error is logged and the clause forgets the key.
DelMatchFlowFailsLogged(r) ==
  /\ "match" \in Faults
  /\ \E k \in Upcoming(r) :
       /\ Deletes(r, k) /\ k \in DOMAIN matches[r] /\ r \in contexts[matches[r][k]].actions
       /\ matches' = [matches EXCEPT ![r] = Restrict(@, DOMAIN @ \ {k})]
       /\ Done(r, k)
  /\ UNCHANGED <<policyCache, contexts, global, switch, leaving, lost>>

DelMatchFlowFails(r) ==
  /\ "match" \in Faults
  /\ \E k \in Upcoming(r) :
       Deletes(r, k) /\ k \in DOMAIN matches[r] /\ r \in contexts[matches[r][k]].actions
  /\ Fail(r)
  /\ UNCHANGED <<policyCache, contexts, global, switch, leaving>>

\* The drop flow stays, and with it the context; the rule has left it.
DelMatchDropFails(r) ==
  /\ \E k \in Upcoming(r) :
       LET x == matches[r][k]
           ctx == contexts[x]
           rest == WithoutRule(ctx, r)
       IN
       /\ Deletes(r, k) /\ k \in DOMAIN matches[r]
       /\ Unused(rest) /\ ctx.drop /\ k[2] \in Sticky
       /\ matchFlows' = Written(k, ctx.actions, rest.actions)
       /\ actionFlows' = Spared(k, ctx.actions, rest.actions)
       /\ contexts' = [contexts EXCEPT ![x] = rest]
       /\ FailAt(r, {k})
  /\ UNCHANGED <<policyCache, global, dropFlows, leaving>>

\* The end of a call: policyCache.Store, policyCache.Delete.
Return(r) ==
  /\ ~Free(r) /\ call[r].acts = {} /\ call[r].keys = {}
  /\ policyCache' = CASE call[r].op = "install" -> policyCache \cup {r}
                      [] call[r].op = "uninstall" -> policyCache \ {r}
                      [] OTHER -> policyCache
  /\ leaving' = IF call[r].op = "uninstall" THEN leaving \ {r} ELSE leaving
  /\ call' = [call EXCEPT ![r] = Idle]
  /\ UNCHANGED <<matches, contexts, global, switch, lost>>

Next ==
  \E r \in Rules :
    \/ Install(r) \/ Uninstall(r) \/ AddAddress(r) \/ DeleteAddress(r)
    \/ AddActionFlow(r) \/ DelActionFlow(r) \/ ActionFlowFails(r)
    \/ SkipKey(r) \/ AddMatch(r) \/ AddMatchDropFails(r) \/ AddMatchFlowFails(r)
    \/ DelMatch(r) \/ DelMatchFlowFails(r) \/ DelMatchDropFails(r)
    \/ Return(r)

Spec == Init /\ [][Next]_vars

-----------------------------------------------------------------------------
(* Properties.                                                             *)

\* What the switch has is what the client's contexts say, after each call of
\* ovs-ofctl and whatever fails: flow and dropFlow of conjMatchFlowContext.
SwitchMatchesContexts ==
  /\ DOMAIN matchFlows = {k \in DOMAIN global : contexts[global[k]].actions # {}}
  /\ \A k \in DOMAIN matchFlows : matchFlows[k] = contexts[global[k]].actions
  /\ dropFlows = {k \in DOMAIN global : contexts[global[k]].drop}

\* One context maintains a match flow, and the global cache has it: rules that
\* share a match condition find each other's actions.
OneContextPerFlow ==
  \A r \in Rules : \A k \in DOMAIN matches[r] :
    ~Unused(contexts[matches[r][k]]) => k \in DOMAIN global /\ global[k] = matches[r][k]

\* A rule's clauses stay realized, whatever the goroutines of other rules add
\* to its match flows and take from them.
ClausesRealized ==
  \A r \in Rules : \A k \in DOMAIN matches[r] \ lost[r] :
    /\ Allows(r) => k \in DOMAIN matchFlows /\ r \in matchFlows[k]
    /\ k[1] = Guarded => k \in dropFlows

\* Uninstalling a rule ends its effect: no match flow has an action that the
\* rule's clauses do not know of, and no action flow is there of a rule the
\* client does not know, except what failed installs left.
NoStrayActions ==
  /\ \A k \in DOMAIN matchFlows : \A r \in matchFlows[k] : k \in DOMAIN matches[r] \cup lost[r]
  /\ \A r \in Rules :
       actionFlows[r] # {} => r \in policyCache \/ call[r].op \in {"install", "failed"}
=============================================================================
