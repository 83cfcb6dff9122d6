--------------------------- MODULE NetworkPolicyProofs ---------------------------
(***************************************************************************)
(* Proofs about the rules' flows and contexts, for any rules, values and   *)
(* failures.                                                               *)
(*                                                                         *)
(* The client keeps the same fact three times: the contexts of the global  *)
(* cache, the pointers of the rules' clauses, and the switch's flows.      *)
(* ContextInv says how they agree between two calls of ovs-ofctl.          *)
(* ActionInv follows a call and its rule's action flows.                   *)
(***************************************************************************)
EXTENDS NetworkPolicy, TLAPS

\* No match flow takes in another (else: run policy_subnet).  Match flows may
\* take in action flows.
Exact == \A q \in Covers : q[1] \in Keys /\ q[2] \in Keys => q[1] = q[2]

\* A drop flow that may fail to be deleted belongs to one rule alone (else:
\* run policy_stale).
StickyIsSole ==
  \A r, s \in Rules : \A k \in Matchable[r] \cap Matchable[s] :
    k[2] \in Sticky => r = s

-----------------------------------------------------------------------------
(* The inductive invariants.                                               *)

Ops == {"none", "failed", "install", "uninstall", "add", "del"}
Acts == UNION {ActionFlows(r) : r \in Rules}
Contexts == [actions : SUBSET Rules, deny : SUBSET Rules, drop : BOOLEAN]

\* TypeOK, and that the tables are functions of the rules.
Types ==
  /\ TypeOK
  /\ DOMAIN matches = Rules
  /\ DOMAIN lost = Rules
  /\ DOMAIN actionFlows = Rules
  /\ call \in [Rules -> [op : Ops, acts : SUBSET Acts, keys : SUBSET Keys]]

\* A clause points to the context that the global cache has for the key.
PointsGlobal ==
  \A r \in Rules : \A k \in DOMAIN matches[r] :
    k \in DOMAIN global /\ global[k] = matches[r][k]

GlobalApart == \A k, l \in DOMAIN global : global[k] = global[l] => k = l

Member(r, ctx) == IF Allows(r) THEN r \in ctx.actions ELSE r \in ctx.deny

\* The context of a rule's key has the rule, unless its drop flow stuck when
\* the rule left.
Joined ==
  \A r \in Rules : \A k \in DOMAIN matches[r] :
    Member(r, contexts[global[k]]) \/ (k[2] \in Sticky /\ k \in lost[r])

DropsGuarded ==
  \A k \in DOMAIN global : contexts[global[k]].drop <=> k[1] = Guarded

\* What a context's actions say, some rule's clause knows, or it was lost.
ActionsKnown ==
  \A k \in DOMAIN global : \A r \in contexts[global[k]].actions :
    Allows(r) /\ k \in DOMAIN matches[r] \cup lost[r]

ContextInv ==
  /\ PointsGlobal
  /\ GlobalApart
  /\ Joined
  /\ DropsGuarded
  /\ ActionsKnown
  /\ SwitchMatchesContexts

\* Whose call is under way and what is left to do of it tell which rules have
\* action flows: not even a failed install leaves some once it is repeated and
\* the rule uninstalled.
ActionsOf(r) ==
  /\ call[r].op = "install" => r \notin policyCache
  /\ call[r].op \in {"uninstall", "add", "del"} => r \in policyCache
  /\ call[r].op = "uninstall" => actionFlows[r] \subseteq call[r].acts
  /\ call[r].op = "none" /\ r \notin policyCache => actionFlows[r] = {}

ActionInv == \A r \in Rules : ActionsOf(r)

-----------------------------------------------------------------------------
(* Contexts, their flows, and the tables.                                  *)

LEMMA CtxFields ==
  ASSUME NEW ctx \in Contexts, NEW r \in Rules
  PROVE  /\ WithRule(ctx, r) \in Contexts
         /\ WithoutRule(ctx, r) \in Contexts
         /\ WithRule(ctx, r).drop = ctx.drop
         /\ WithoutRule(ctx, r).drop = ctx.drop
         /\ Allows(r) => /\ WithRule(ctx, r).actions = ctx.actions \cup {r}
                         /\ WithRule(ctx, r).deny = ctx.deny
                         /\ WithoutRule(ctx, r).actions = ctx.actions \ {r}
                         /\ WithoutRule(ctx, r).deny = ctx.deny
         /\ ~Allows(r) => /\ WithRule(ctx, r).actions = ctx.actions
                          /\ WithRule(ctx, r).deny = ctx.deny \cup {r}
                          /\ WithoutRule(ctx, r).actions = ctx.actions
                          /\ WithoutRule(ctx, r).deny = ctx.deny \ {r}
BY DEF Contexts, WithRule, WithoutRule

LEMMA NewFields ==
  /\ NewContext \in Contexts
  /\ NewContext.actions = {} /\ NewContext.deny = {} /\ NewContext.drop = FALSE
  /\ \A b \in BOOLEAN :
       /\ [NewContext EXCEPT !.drop = b] \in Contexts
       /\ [NewContext EXCEPT !.drop = b].actions = {}
       /\ [NewContext EXCEPT !.drop = b].deny = {}
       /\ [NewContext EXCEPT !.drop = b].drop = b
BY DEF Contexts, NewContext

LEMMA KeyTypes ==
  ASSUME NEW r \in Rules, NEW k \in Matchable[r]
  PROVE  k \in Keys
BY DEF Keys

LEMMA CoveredIsKey ==
  ASSUME Exact, NEW k \in Keys, NEW l \in Keys
  PROVE  l \in Covered(k) <=> l = k
BY DEF Exact, Covered

LEMMA GlobalTypes ==
  ASSUME Types, NEW k \in DOMAIN global
  PROVE  /\ k \in Keys /\ global[k] \in Ids
         /\ contexts[global[k]] \in Contexts
BY DEF Types, TypeOK, Contexts

\* The flow of one key after its context's actions were old and are new.
LEMMA WrittenIs ==
  ASSUME Exact, DOMAIN matchFlows \subseteq Keys, NEW k \in Keys, NEW old, NEW new,
         k \in DOMAIN matchFlows <=> old # {},
         k \in DOMAIN matchFlows => matchFlows[k] = old
  PROVE  LET F == Written(k, old, new) IN
         /\ DOMAIN F \ {k} = DOMAIN matchFlows \ {k}
         /\ k \in DOMAIN F <=> new # {}
         /\ \A l \in DOMAIN F \ {k} : F[l] = matchFlows[l]
         /\ k \in DOMAIN F => F[k] = new
<1>1. \A l \in DOMAIN matchFlows : l \in Covered(k) <=> l = k
  BY CoveredIsKey
<1>2. CASE new = old
  BY <1>2 DEF Written
<1>3. CASE new # old /\ old = {}
  BY <1>3 DEF Written, Stored
<1>4. CASE new # old /\ old # {} /\ new = {}
  BY <1>1, <1>4 DEF Written, Restrict
<1>5. CASE new # old /\ old # {} /\ new # {}
  <2>1. Written(k, old, new) = [l \in DOMAIN matchFlows |-> IF l \in Covered(k) THEN new ELSE matchFlows[l]]
    BY <1>5 DEF Written
  <2> QED
    BY <1>1, <1>5, <2>1
<1> QED
  BY <1>2, <1>3, <1>4, <1>5

\* Open puts a context under its key and leaves those of other keys.
Opens(k, ctx) ==
  /\ DOMAIN global' = DOMAIN global \cup {k}
  /\ global'[k] = ContextOf(k) /\ ContextOf(k) \in Ids
  /\ contexts' \in [Ids -> Contexts]
  /\ contexts'[global'[k]] = ctx
  /\ \A l \in DOMAIN global \ {k} :
       /\ global'[l] = global[l] /\ global'[l] # global'[k]
       /\ contexts'[global'[l]] = contexts[global[l]]
  /\ k \in DOMAIN global => global'[k] = global[k]

LEMMA OpenOpens ==
  ASSUME Types, GlobalApart, NEW k \in Keys, NEW ctx \in Contexts, Open(k, ctx)
  PROVE  Opens(k, ctx)
<1>1. contexts \in [Ids -> Contexts] /\ \A l \in DOMAIN global : global[l] \in Ids
  BY DEF Types, TypeOK, Contexts
<1>2. ContextOf(k) \in Ids
      /\ \A l \in DOMAIN global \ {k} : global[l] # ContextOf(k)
  <2>1. CASE k \in DOMAIN global
    BY <1>1, <2>1 DEF ContextOf, GlobalApart
  <2>2. CASE k \notin DOMAIN global
    <3>1. FreeId \in Ids \ InUse
      BY <2>2 DEF Open, FreeId
    <3>2. \A l \in DOMAIN global : global[l] \in InUse
      BY DEF InUse, Range
    <3> QED
      BY <2>2, <3>1, <3>2 DEF ContextOf
  <2> QED
    BY <2>1, <2>2
<1>3. /\ contexts' = [contexts EXCEPT ![ContextOf(k)] = ctx]
      /\ global' = [l \in DOMAIN global \cup {k} |-> IF l = k THEN ContextOf(k) ELSE global[l]]
  BY DEF Open, Stored
<1>4. k \in DOMAIN global => ContextOf(k) = global[k]
  BY DEF ContextOf
<1> HIDE DEF ContextOf
<1> QED
  BY <1>1, <1>2, <1>3, <1>4 DEF Opens

LEMMA OpenedFields ==
  ASSUME Types, NEW k \in Keys
  PROVE  /\ Opened(k) \in Contexts
         /\ k \in DOMAIN global => Opened(k) = contexts[global[k]]
         /\ k \notin DOMAIN global =>
              /\ Opened(k).actions = {} /\ Opened(k).deny = {}
              /\ Opened(k).drop <=> k[1] = Guarded
<1>1. CASE k \in DOMAIN global
  BY <1>1, GlobalTypes DEF Opened
<1>2. CASE k \notin DOMAIN global
  <2>1. DropsNow(k) \in BOOLEAN /\ (DropsNow(k) <=> k[1] = Guarded)
    BY <1>2 DEF DropsNow
  <2>2. Opened(k) = [NewContext EXCEPT !.drop = DropsNow(k)]
    BY <1>2 DEF Opened
  <2> HIDE DEF DropsNow
  <2> QED
    BY <1>2, <2>1, <2>2, NewFields
<1> QED
  BY <1>1, <1>2
-----------------------------------------------------------------------------
(* The types.                                                              *)

LEMMA EmptyTable == DOMAIN <<>> = {}
OBVIOUS

LEMMA TypesInit == Init => Types
<1> SUFFICES ASSUME Init
             PROVE  Types
  OBVIOUS
<1>1. Idle \in [op : Ops, acts : SUBSET Acts, keys : SUBSET Keys]
  BY DEF Idle, Ops
<1>2. \A r \in Rules : call[r].op = "none" /\ call[r].acts = {} /\ call[r].keys = {}
  BY DEF Init, Idle
<1>3. contexts \in [Ids -> Contexts]
  BY NewFields DEF Init
<1>4. \A r \in Rules : DOMAIN matches[r] = {}
  BY EmptyTable DEF Init
<1>5. DOMAIN global = {} /\ DOMAIN matchFlows = {}
  BY EmptyTable DEF Init
<1> QED
  BY <1>1, <1>2, <1>3, <1>4, <1>5 DEF Init, Types, TypeOK, Contexts

\* A call of a rule, changed.
CallIs(r, op, acts, keys) ==
  call' = [call EXCEPT ![r] = [op |-> op, acts |-> acts, keys |-> keys]]

LEMMA CallTypes ==
  ASSUME Types, NEW r \in Rules, NEW op \in Ops, NEW acts \in SUBSET ActionFlows(r),
         NEW keys \in SUBSET Matchable[r], CallIs(r, op, acts, keys)
  PROVE  /\ call' \in [Rules -> [op : Ops, acts : SUBSET Acts, keys : SUBSET Keys]]
         /\ \A s \in Rules :
              /\ call'[s].op \in Ops
              /\ call'[s].acts \subseteq ActionFlows(s)
              /\ call'[s].keys \subseteq Matchable[s]
         /\ call'[r].op = op /\ call'[r].acts = acts /\ call'[r].keys = keys
         /\ \A s \in Rules \ {r} : call'[s] = call[s]
<1>1. acts \subseteq Acts
  BY DEF Acts
<1>2. keys \subseteq Keys
  BY DEF Keys
<1>3. [op |-> op, acts |-> acts, keys |-> keys] \in [op : Ops, acts : SUBSET Acts, keys : SUBSET Keys]
  BY <1>1, <1>2
<1>4. \A s \in Rules : call[s].op \in Ops /\ call[s].acts \subseteq ActionFlows(s) /\ call[s].keys \subseteq Matchable[s]
  BY DEF Types, TypeOK, Ops
<1> QED
  BY <1>3, <1>4 DEF Types, CallIs

\* What each step makes of the call of its rule.
LEMMA DoneIs ==
  ASSUME Types, NEW r \in Rules, NEW k, Done(r, k)
  PROVE  CallIs(r, call[r].op, call[r].acts, call[r].keys \ {k})
<1>1. call[r] = [op |-> call[r].op, acts |-> call[r].acts, keys |-> call[r].keys]
  BY DEF Types
<1>2. [call[r] EXCEPT !.keys = @ \ {k}]
        = [op |-> call[r].op, acts |-> call[r].acts, keys |-> call[r].keys \ {k}]
  BY <1>1
<1>3. call' = [call EXCEPT ![r] = [call[r] EXCEPT !.keys = @ \ {k}]]
  BY DEF Types, Done
<1> QED
  BY <1>2, <1>3 DEF CallIs

LEMMA FailIs ==
  ASSUME Types, NEW r \in Rules, NEW ks, FailAt(r, ks)
  PROVE  CallIs(r, IF call[r].op = "install" THEN "failed" ELSE "none", {}, {})
<1>1. [Idle EXCEPT !.op = "failed"] = [op |-> "failed", acts |-> {}, keys |-> {}]
  BY DEF Idle
<1>2. call' = [call EXCEPT ![r] = IF call[r].op = "install" THEN [Idle EXCEPT !.op = "failed"] ELSE Idle]
  BY DEF FailAt
<1>3. CASE call[r].op = "install"
  BY <1>1, <1>2, <1>3 DEF CallIs
<1>4. CASE call[r].op # "install"
  BY <1>2, <1>4 DEF CallIs, Idle
<1> QED
  BY <1>3, <1>4

LEMMA UpcomingKeys ==
  ASSUME Types, NEW r \in Rules, NEW k \in Upcoming(r)
  PROVE  k \in Matchable[r] /\ k \in Keys
BY KeyTypes DEF Types, TypeOK, Upcoming
LEMMA WrittenTypes ==
  ASSUME Types, NEW k \in Keys, NEW old, NEW new \in SUBSET Rules
  PROVE  /\ DOMAIN Written(k, old, new) \subseteq Keys
         /\ \A l \in DOMAIN Written(k, old, new) : Written(k, old, new)[l] \in SUBSET Rules
<1>1. DOMAIN matchFlows \subseteq Keys /\ \A l \in DOMAIN matchFlows : matchFlows[l] \in SUBSET Rules
  BY DEF Types, TypeOK
<1>2. CASE new = old
  BY <1>1, <1>2 DEF Written
<1>3. CASE new # old /\ old = {}
  BY <1>1, <1>3 DEF Written, Stored
<1>4. CASE new # old /\ old # {} /\ new = {}
  BY <1>1, <1>4 DEF Written, Restrict
<1>5. CASE new # old /\ old # {} /\ new # {}
  <2>1. Written(k, old, new) = [l \in DOMAIN matchFlows |-> IF l \in Covered(k) THEN new ELSE matchFlows[l]]
    BY <1>5 DEF Written
  <2> QED
    BY <1>1, <2>1
<1> QED
  BY <1>2, <1>3, <1>4, <1>5

\* The parts of Types.
CallTyped ==
  /\ call \in [Rules -> [op : Ops, acts : SUBSET Acts, keys : SUBSET Keys]]
  /\ \A r \in Rules : call[r].acts \subseteq ActionFlows(r) /\ call[r].keys \subseteq Matchable[r]
CacheTyped == policyCache \subseteq Rules /\ leaving \subseteq policyCache
ClausesTyped ==
  /\ DOMAIN matches = Rules /\ DOMAIN lost = Rules
  /\ \A r \in Rules :
       /\ DOMAIN matches[r] \subseteq Matchable[r]
       /\ \A k \in DOMAIN matches[r] : matches[r][k] \in Ids
       /\ lost[r] \subseteq Matchable[r]
ActionsTyped ==
  /\ DOMAIN actionFlows = Rules
  /\ \A r \in Rules : actionFlows[r] \subseteq ActionFlows(r)
ContextsTyped ==
  /\ contexts \in [Ids -> Contexts]
  /\ DOMAIN global \subseteq Keys /\ \A k \in DOMAIN global : global[k] \in Ids
MatchFlowsTyped ==
  /\ DOMAIN matchFlows \subseteq Keys
  /\ \A k \in DOMAIN matchFlows : matchFlows[k] \in SUBSET Rules
DropFlowsTyped == dropFlows \subseteq {k \in Keys : k[1] = Guarded}

LEMMA TypesAre ==
  Types <=> /\ CallTyped /\ CacheTyped /\ ClausesTyped /\ ActionsTyped
            /\ ContextsTyped /\ MatchFlowsTyped /\ DropFlowsTyped
<1>1. CallTyped => \A r \in Rules : call[r].op \in Ops
  BY DEF CallTyped
<1> QED
  BY <1>1 DEF Types, TypeOK, CallTyped, CacheTyped, ClausesTyped, ActionsTyped,
              ContextsTyped, MatchFlowsTyped, DropFlowsTyped, Contexts, Ops

LEMMA CallStep ==
  ASSUME Types, NEW r \in Rules, NEW op \in Ops, NEW acts \in SUBSET ActionFlows(r),
         NEW keys \in SUBSET Matchable[r], CallIs(r, op, acts, keys)
  PROVE  CallTyped'
BY CallTypes DEF CallTyped

LEMMA DoneTypes ==
  ASSUME Types, NEW r \in Rules, NEW k, Done(r, k)
  PROVE  CallTyped'
<1>1. call[r].op \in Ops /\ call[r].acts \in SUBSET ActionFlows(r) /\ call[r].keys \ {k} \in SUBSET Matchable[r]
  BY DEF Types, TypeOK
<1> QED
  BY <1>1, DoneIs, CallStep

LEMMA FailTypes ==
  ASSUME Types, NEW r \in Rules, NEW ks \in SUBSET Matchable[r], FailAt(r, ks)
  PROVE  CallTyped' /\ ClausesTyped'
<1>1. CallTyped'
  <2>1. (IF call[r].op = "install" THEN "failed" ELSE "none") \in Ops
    BY DEF Ops
  <2> QED
    BY <2>1, FailIs, CallStep
<1>2. ClausesTyped
  BY TypesAre
<1>3. lost' = [lost EXCEPT ![r] = @ \cup ks \cup IF call[r].op = "install" /\ Allows(r) THEN DOMAIN matches[r] ELSE {}]
  BY DEF FailAt
<1>4. matches' = matches \/ matches' = [matches EXCEPT ![r] = <<>>]
  BY DEF FailAt
<1>5. /\ DOMAIN matches' = Rules
      /\ \A s \in Rules : DOMAIN matches'[s] \subseteq Matchable[s]
                          /\ \A k \in DOMAIN matches'[s] : matches'[s][k] \in Ids
  BY <1>2, <1>4, EmptyTable DEF ClausesTyped
<1>6. DOMAIN lost' = Rules /\ \A s \in Rules : lost'[s] \subseteq Matchable[s]
  BY <1>2, <1>3 DEF ClausesTyped
<1> QED
  BY <1>1, <1>5, <1>6 DEF ClausesTyped

LEMMA OpenTypes ==
  ASSUME Types, NEW k \in Keys, NEW ctx \in Contexts, Open(k, ctx)
  PROVE  ContextsTyped' /\ DropFlowsTyped' /\ ContextOf(k) \in Ids
<1>1. ContextsTyped /\ DropFlowsTyped
  BY TypesAre
<1>2. ContextOf(k) \in Ids
  <2>1. k \notin DOMAIN global => FreeId \in Ids
    BY DEF Open, FreeId
  <2> QED
    BY <1>1, <2>1 DEF ContextOf, ContextsTyped
<1>3. ContextsTyped'
  <2>1. /\ contexts' = [contexts EXCEPT ![ContextOf(k)] = ctx]
        /\ global' = [l \in DOMAIN global \cup {k} |-> IF l = k THEN ContextOf(k) ELSE global[l]]
    BY DEF Open, Stored
  <2> HIDE DEF ContextOf
  <2> QED
    BY <1>1, <1>2, <2>1 DEF ContextsTyped
<1>4. DropFlowsTyped'
  BY <1>1 DEF Open, DropsNow, DropFlowsTyped
<1> QED
  BY <1>2, <1>3, <1>4

\* The action flow of a step leaves the call.
LEMMA ActionDoneIs ==
  ASSUME Types, NEW r \in Rules, NEW f, ActionDone(r, f)
  PROVE  CallIs(r, call[r].op, call[r].acts \ {f}, call[r].keys)
<1>1. call[r] = [op |-> call[r].op, acts |-> call[r].acts, keys |-> call[r].keys]
  BY DEF Types
<1>2. [call[r] EXCEPT !.acts = @ \ {f}]
        = [op |-> call[r].op, acts |-> call[r].acts \ {f}, keys |-> call[r].keys]
  BY <1>1
<1>3. call' = [call EXCEPT ![r] = [call[r] EXCEPT !.acts = @ \ {f}]]
  BY DEF Types, ActionDone
<1> QED
  BY <1>2, <1>3 DEF CallIs

LEMMA ActionFlowTypes ==
  ASSUME Types, NEW r \in Rules, AddActionFlow(r) \/ DelActionFlow(r)
  PROVE  CallTyped' /\ ActionsTyped'
<1>1. PICK f \in call[r].acts :
        /\ ActionDone(r, f)
        /\ \/ actionFlows' = [actionFlows EXCEPT ![r] = @ \cup {f}]
           \/ actionFlows' = [actionFlows EXCEPT ![r] = IF f = Allow THEN {} ELSE @ \ {f}]
  BY DEF AddActionFlow, DelActionFlow
<1>2. call[r].acts \subseteq ActionFlows(r) /\ call[r].op \in Ops /\ call[r].keys \subseteq Matchable[r]
  BY DEF Types, TypeOK
<1>3. CallTyped'
  BY <1>1, <1>2, ActionDoneIs, CallStep
<1>4. ActionsTyped
  BY TypesAre
<1>5. ActionsTyped'
  BY <1>1, <1>2, <1>4 DEF ActionsTyped
<1> QED
  BY <1>3, <1>5

\* A loose call on a match flow takes action flows, and adds none.
Spares ==
  /\ DOMAIN actionFlows' = Rules
  /\ \A s \in Rules : actionFlows'[s] \subseteq actionFlows[s]

LEMMA LooseSpares ==
  ASSUME Types, NEW r \in Rules, AddMatch(r) \/ DelMatch(r) \/ DelMatchDropFails(r)
  PROVE  Spares
<1>1. PICK k, old, new : actionFlows' = Spared(k, old, new)
  BY DEF AddMatch, DelMatch, DelMatchDropFails
<1> QED
  BY <1>1 DEF Spared, Spares, Types

LEMMA SparesTypes ==
  ASSUME Types, Spares
  PROVE  ActionsTyped'
BY TypesAre DEF Spares, ActionsTyped, ActionFlows, Allows

LEMMA AddMatchTypes ==
  ASSUME Types, NEW r \in Rules, AddMatch(r)
  PROVE  Types'
<1>1. PICK k \in Upcoming(r) :
        /\ Open(k, WithRule(Opened(k), r))
        /\ matchFlows' = Written(k, Opened(k).actions, WithRule(Opened(k), r).actions)
        /\ matches' = [matches EXCEPT ![r] = Stored(@, k, ContextOf(k))]
        /\ lost' = [lost EXCEPT ![r] = @ \ {k}]
        /\ Done(r, k)
        /\ UNCHANGED <<policyCache, leaving>>
  BY DEF AddMatch
<1>2. k \in Matchable[r] /\ k \in Keys
  BY UpcomingKeys
<1>3. WithRule(Opened(k), r) \in Contexts
  BY <1>2, OpenedFields, CtxFields
<1>4. CallTyped'
  BY <1>1, DoneTypes
<1>5. ContextsTyped' /\ DropFlowsTyped' /\ ContextOf(k) \in Ids
  BY <1>1, <1>2, <1>3, OpenTypes
<1>6. MatchFlowsTyped'
  <2>1. WithRule(Opened(k), r).actions \in SUBSET Rules
    BY <1>3 DEF Contexts
  <2> QED
    BY <1>1, <1>2, <2>1, WrittenTypes DEF MatchFlowsTyped
<1>7. ClausesTyped'
  <2>1. ClausesTyped
    BY TypesAre
  <2> HIDE DEF ContextOf
  <2> QED
    BY <1>1, <1>2, <1>5, <2>1 DEF ClausesTyped, Stored
<1>8. CacheTyped' /\ ActionsTyped'
  BY <1>1, TypesAre, LooseSpares, SparesTypes DEF CacheTyped
<1> QED
  BY <1>4, <1>5, <1>6, <1>7, <1>8, TypesAre, PTL

LEMMA ClauseContext ==
  ASSUME Types, NEW r \in Rules, NEW k \in DOMAIN matches[r]
  PROVE  matches[r][k] \in Ids /\ contexts[matches[r][k]] \in Contexts
BY DEF Types, TypeOK, Contexts

\* The context of a key after the rule has left it.
Rest(r, k) == WithoutRule(contexts[matches[r][k]], r)

LEMMA RestTypes ==
  ASSUME Types, NEW r \in Rules, NEW k \in DOMAIN matches[r], k \in Keys,
         matchFlows' = Written(k, contexts[matches[r][k]].actions, Rest(r, k).actions)
  PROVE  Rest(r, k) \in Contexts /\ MatchFlowsTyped'
<1>1. Rest(r, k) \in Contexts
  BY ClauseContext, CtxFields DEF Rest
<1>2. Rest(r, k).actions \in SUBSET Rules
  BY <1>1 DEF Contexts
<1> QED
  BY <1>1, <1>2, WrittenTypes DEF MatchFlowsTyped

LEMMA DelMatchTypes ==
  ASSUME Types, NEW r \in Rules, DelMatch(r)
  PROVE  Types'
<1>1. PICK k \in Upcoming(r) :
        /\ k \in DOMAIN matches[r]
        /\ matchFlows' = Written(k, contexts[matches[r][k]].actions, Rest(r, k).actions)
        /\ contexts' = [contexts EXCEPT ![matches[r][k]] =
             IF Unused(Rest(r, k)) THEN NewContext ELSE Rest(r, k)]
        /\ dropFlows' \subseteq dropFlows
        /\ global' = global \/ global' = Restrict(global, DOMAIN global \ {k})
        /\ matches' = [matches EXCEPT ![r] = Restrict(@, DOMAIN @ \ {k})]
        /\ lost' = [lost EXCEPT ![r] = @ \ {k}]
        /\ Done(r, k)
        /\ UNCHANGED <<policyCache, leaving>>
  BY DEF DelMatch, Rest
<1>2. k \in Matchable[r] /\ k \in Keys
  BY UpcomingKeys
<1>3. Rest(r, k) \in Contexts /\ MatchFlowsTyped'
  BY <1>1, <1>2, RestTypes
<1>4. CallTyped'
  BY <1>1, DoneTypes
<1>5. ContextsTyped'
  BY <1>1, <1>3, NewFields, TypesAre DEF ContextsTyped, Restrict
<1>6. DropFlowsTyped'
  BY <1>1, TypesAre DEF DropFlowsTyped
<1>7. ClausesTyped'
  BY <1>1, <1>2, TypesAre DEF ClausesTyped, Restrict
<1>8. CacheTyped' /\ ActionsTyped'
  BY <1>1, TypesAre, LooseSpares, SparesTypes DEF CacheTyped
<1> QED
  BY <1>3, <1>4, <1>5, <1>6, <1>7, <1>8, TypesAre, PTL

LEMMA DelMatchDropFailsTypes ==
  ASSUME Types, NEW r \in Rules, DelMatchDropFails(r)
  PROVE  Types'
<1>1. PICK k \in Upcoming(r) :
        /\ k \in DOMAIN matches[r]
        /\ matchFlows' = Written(k, contexts[matches[r][k]].actions, Rest(r, k).actions)
        /\ contexts' = [contexts EXCEPT ![matches[r][k]] = Rest(r, k)]
        /\ FailAt(r, {k})
  BY DEF DelMatchDropFails, Rest
<1>2. k \in Matchable[r] /\ k \in Keys
  BY UpcomingKeys
<1>3. Rest(r, k) \in Contexts /\ MatchFlowsTyped'
  BY <1>1, <1>2, RestTypes
<1>4. CallTyped' /\ ClausesTyped'
  BY <1>1, <1>2, FailTypes
<1>5. ContextsTyped'
  BY <1>1, <1>3, TypesAre DEF ContextsTyped, DelMatchDropFails
<1>6. DropFlowsTyped' /\ CacheTyped' /\ ActionsTyped'
  BY TypesAre, LooseSpares, SparesTypes DEF DropFlowsTyped, CacheTyped, DelMatchDropFails
<1> QED
  BY <1>3, <1>4, <1>5, <1>6, TypesAre, PTL

LEMMA AddMatchFlowFailsTypes ==
  ASSUME Types, NEW r \in Rules, AddMatchFlowFails(r)
  PROVE  Types'
<1>1. PICK k \in Upcoming(r) : Open(k, Opened(k))
  BY DEF AddMatchFlowFails
<1>2. FailAt(r, {})
  BY DEF AddMatchFlowFails, Fail
<1>3. CallTyped' /\ ClausesTyped'
  BY <1>2, FailTypes
<1>4. ContextsTyped' /\ DropFlowsTyped'
  BY <1>1, UpcomingKeys, OpenedFields, OpenTypes
<1>5. MatchFlowsTyped' /\ CacheTyped' /\ ActionsTyped'
  BY TypesAre DEF MatchFlowsTyped, CacheTyped, ActionsTyped, AddMatchFlowFails
<1> QED
  BY <1>3, <1>4, <1>5, TypesAre, PTL

LEMMA TypesStep == Types /\ [Next]_vars => Types'
<1> SUFFICES ASSUME Types, [Next]_vars
             PROVE  Types'
  OBVIOUS
<1>0. CallTyped /\ CacheTyped /\ ClausesTyped /\ ActionsTyped /\ ContextsTyped
      /\ MatchFlowsTyped /\ DropFlowsTyped
  BY TypesAre
<1>1. ASSUME NEW r \in Rules, Install(r) \/ Uninstall(r) \/ AddAddress(r) \/ DeleteAddress(r)
      PROVE  Types'
  <2>1. \E op \in Ops : \E acts \in SUBSET ActionFlows(r) : \E ks \in SUBSET Matchable[r] :
          CallIs(r, op, acts, ks)
    <3>1. CASE Install(r)
      BY <3>1 DEF Install, Begin, CallIs, Ops
    <3>2. CASE Uninstall(r)
      BY <1>0, <3>2 DEF Uninstall, Begin, CallIs, Ops, ClausesTyped
    <3>3. CASE AddAddress(r)
      BY <3>3 DEF AddAddress, ChangeAddress, Begin, CallIs, Ops
    <3>4. CASE DeleteAddress(r)
      BY <3>4 DEF DeleteAddress, ChangeAddress, Begin, CallIs, Ops
    <3> QED
      BY <1>1, <3>1, <3>2, <3>3, <3>4
  <2>2. CallTyped'
    BY <2>1, CallStep
  <2>3. CacheTyped'
    BY <1>0, <1>1 DEF CacheTyped, Install, Uninstall, AddAddress, DeleteAddress, ChangeAddress, client
  <2>4. UNCHANGED <<client, switch, lost>>
    BY <1>1 DEF Install, Uninstall, AddAddress, DeleteAddress, ChangeAddress
  <2>5. ClausesTyped' /\ ActionsTyped' /\ ContextsTyped' /\ MatchFlowsTyped' /\ DropFlowsTyped'
    BY <1>0, <2>4 DEF client, switch, ClausesTyped, ActionsTyped, ContextsTyped, MatchFlowsTyped, DropFlowsTyped
  <2> QED
    BY <2>2, <2>3, <2>5, TypesAre, PTL
<1>2. ASSUME NEW r \in Rules, AddActionFlow(r) \/ DelActionFlow(r)
      PROVE  Types'
  <2>1. CallTyped' /\ ActionsTyped'
    BY <1>2, ActionFlowTypes
  <2>2. UNCHANGED <<client, matchFlows, dropFlows, leaving, lost>>
    BY <1>2 DEF AddActionFlow, DelActionFlow
  <2>3. CacheTyped' /\ ClausesTyped' /\ ContextsTyped' /\ MatchFlowsTyped' /\ DropFlowsTyped'
    BY <1>0, <2>2 DEF client, CacheTyped, ClausesTyped, ContextsTyped, MatchFlowsTyped, DropFlowsTyped
  <2> QED
    BY <2>1, <2>3, TypesAre, PTL
<1>3. ASSUME NEW r \in Rules, ActionFlowFails(r) \/ AddMatchDropFails(r) \/ DelMatchFlowFails(r)
      PROVE  Types'
  <2>1. FailAt(r, {})
    BY <1>3 DEF ActionFlowFails, AddMatchDropFails, DelMatchFlowFails, Fail
  <2>2. CallTyped' /\ ClausesTyped'
    BY <2>1, FailTypes
  <2>3. UNCHANGED <<policyCache, contexts, global, switch, leaving>>
    BY <1>3 DEF ActionFlowFails, AddMatchDropFails, DelMatchFlowFails
  <2>4. CacheTyped' /\ ActionsTyped' /\ ContextsTyped' /\ MatchFlowsTyped' /\ DropFlowsTyped'
    BY <1>0, <2>3 DEF switch, CacheTyped, ActionsTyped, ContextsTyped, MatchFlowsTyped, DropFlowsTyped
  <2> QED
    BY <2>2, <2>4, TypesAre, PTL
<1>4. ASSUME NEW r \in Rules, SkipKey(r)
      PROVE  Types'
  <2>1. CallTyped'
    BY <1>4, DoneTypes DEF SkipKey
  <2>2. UNCHANGED <<client, switch, leaving, lost>>
    BY <1>4 DEF SkipKey
  <2>3. CacheTyped' /\ ClausesTyped' /\ ActionsTyped' /\ ContextsTyped' /\ MatchFlowsTyped' /\ DropFlowsTyped'
    BY <1>0, <2>2 DEF client, switch, CacheTyped, ClausesTyped, ActionsTyped, ContextsTyped, MatchFlowsTyped, DropFlowsTyped
  <2> QED
    BY <2>1, <2>3, TypesAre, PTL
<1>5. ASSUME NEW r \in Rules, Return(r)
      PROVE  Types'
  <2>1. CallIs(r, "none", {}, {})
    BY <1>5 DEF Return, CallIs, Idle
  <2>2. CallTyped'
    BY <2>1, CallStep DEF Ops
  <2>3. CacheTyped'
    BY <1>0, <1>5 DEF Return, CacheTyped
  <2>4. ClausesTyped' /\ ActionsTyped' /\ ContextsTyped' /\ MatchFlowsTyped' /\ DropFlowsTyped'
    BY <1>0, <1>5 DEF Return, switch, ClausesTyped, ActionsTyped, ContextsTyped, MatchFlowsTyped, DropFlowsTyped
  <2> QED
    BY <2>2, <2>3, <2>4, TypesAre, PTL
<1>6. CASE UNCHANGED vars
  BY <1>6 DEF vars, Types, TypeOK
<1> QED
  BY <1>1, <1>2, <1>3, <1>4, <1>5, <1>6, AddMatchTypes, DelMatchTypes,
     DelMatchDropFailsTypes, AddMatchFlowFailsTypes DEF Next
-----------------------------------------------------------------------------
(* Contexts, clauses and flows agree.                                      *)

LEMMA ContextInit == Init => ContextInv
<1> SUFFICES ASSUME Init
             PROVE  ContextInv
  OBVIOUS
<1>1. \A r \in Rules : DOMAIN matches[r] = {}
  BY EmptyTable DEF Init
<1>2. DOMAIN global = {} /\ DOMAIN matchFlows = {} /\ dropFlows = {}
  BY EmptyTable DEF Init
<1> QED
  BY <1>1, <1>2 DEF ContextInv, PointsGlobal, GlobalApart, Joined, DropsGuarded,
                    ActionsKnown, SwitchMatchesContexts

\* Clauses forget keys only, and a rule with actions notes what it forgets.
Forgets ==
  \A s \in Rules :
    /\ DOMAIN matches'[s] \subseteq DOMAIN matches[s]
    /\ \A k \in DOMAIN matches'[s] : matches'[s][k] = matches[s][k]
    /\ lost[s] \subseteq lost'[s]
    /\ Allows(s) => DOMAIN matches[s] \subseteq DOMAIN matches'[s] \cup lost'[s]

LEMMA FailForgets ==
  ASSUME Types, NEW r \in Rules, NEW ks, FailAt(r, ks)
  PROVE  Forgets /\ ks \subseteq lost'[r]
<1>1. lost' = [lost EXCEPT ![r] = @ \cup ks \cup IF call[r].op = "install" /\ Allows(r) THEN DOMAIN matches[r] ELSE {}]
  BY DEF FailAt
<1>2. matches' = IF call[r].op = "install" THEN [matches EXCEPT ![r] = <<>>] ELSE matches
  BY DEF FailAt
<1>3. DOMAIN matches = Rules /\ DOMAIN lost = Rules
  BY DEF Types
<1>4. lost'[r] = lost[r] \cup ks \cup IF call[r].op = "install" /\ Allows(r) THEN DOMAIN matches[r] ELSE {}
  BY <1>1, <1>3
<1>5. \A s \in Rules \ {r} : lost'[s] = lost[s] /\ matches'[s] = matches[s]
  BY <1>1, <1>2, <1>3
<1>6. call[r].op = "install" => DOMAIN matches'[r] = {}
  BY <1>2, <1>3, EmptyTable
<1>7. call[r].op # "install" => matches'[r] = matches[r]
  BY <1>2
<1> HIDE DEF Allows
<1> QED
  BY <1>4, <1>5, <1>6, <1>7 DEF Forgets

\* A step that leaves the contexts and the flows.
LEMMA ForgettingKeeps ==
  ASSUME Types, ContextInv, Forgets, UNCHANGED <<contexts, global, matchFlows, dropFlows>>
  PROVE  ContextInv'
<1>1. PointsGlobal'
  BY DEF ContextInv, PointsGlobal, Forgets
<1>2. GlobalApart' /\ DropsGuarded' /\ SwitchMatchesContexts'
  BY DEF ContextInv, GlobalApart, DropsGuarded, SwitchMatchesContexts
<1>3. Joined'
  BY DEF ContextInv, Joined, Forgets, Member, Allows
<1>4. ActionsKnown'
  <2> SUFFICES ASSUME NEW k \in DOMAIN global, NEW r \in contexts[global[k]].actions
               PROVE  Allows(r) /\ k \in DOMAIN matches'[r] \cup lost'[r]
    BY DEF ActionsKnown, Allows
  <2>1. r \in Rules
    BY GlobalTypes DEF Contexts
  <2>2. Allows(r) /\ k \in DOMAIN matches[r] \cup lost[r]
    BY DEF ContextInv, ActionsKnown
  <2> HIDE DEF Allows
  <2> QED
    BY <2>1, <2>2 DEF Forgets
<1> QED
  BY <1>1, <1>2, <1>3, <1>4 DEF ContextInv

\* Before and after, a key's flow is its context's.
FlowIs(k, actions) ==
  /\ k \in DOMAIN matchFlows <=> actions # {}
  /\ k \in DOMAIN matchFlows => matchFlows[k] = actions
FlowBecomes(k, actions) ==
  /\ k \in DOMAIN matchFlows' <=> actions # {}
  /\ k \in DOMAIN matchFlows' => matchFlows'[k] = actions

OthersStay(k) ==
  /\ \A l : l # k => \A actions : FlowIs(l, actions) => FlowBecomes(l, actions)
  /\ \A l : l # k /\ l \notin DOMAIN matchFlows => l \notin DOMAIN matchFlows'

LEMMA FlowsFollow ==
  SwitchMatchesContexts <=>
    /\ \A k \in DOMAIN global : FlowIs(k, contexts[global[k]].actions)
    /\ \A k : k \notin DOMAIN global => k \notin DOMAIN matchFlows
    /\ dropFlows = {k \in DOMAIN global : contexts[global[k]].drop}
BY DEF SwitchMatchesContexts, FlowIs

LEMMA FlowWritten ==
  ASSUME Types, Exact, NEW k \in Keys, NEW old, NEW new, FlowIs(k, old),
         matchFlows' = Written(k, old, new)
  PROVE  FlowBecomes(k, new) /\ OthersStay(k)
<1>1. DOMAIN matchFlows \subseteq Keys
  BY TypesAre DEF MatchFlowsTyped
<1> QED
  BY <1>1, WrittenIs DEF FlowIs, FlowBecomes, OthersStay
\* Opening a key's context keeps what is said of caches and flows alone.
LEMMA OpensKeeps ==
  ASSUME Types, ContextInv, NEW k \in Keys, NEW ctx \in Contexts, Opens(k, ctx),
         ctx.drop = Opened(k).drop,
         dropFlows' = dropFlows \cup IF DropsNow(k) THEN {k} ELSE {},
         FlowBecomes(k, ctx.actions), OthersStay(k)
  PROVE  GlobalApart' /\ DropsGuarded' /\ SwitchMatchesContexts'
<1>1. GlobalApart'
  BY DEF ContextInv, GlobalApart, Opens
<1>2. ctx.drop <=> k[1] = Guarded
  <2>1. CASE k \in DOMAIN global
    BY <2>1, OpenedFields DEF ContextInv, DropsGuarded
  <2>2. CASE k \notin DOMAIN global
    BY <2>2, OpenedFields
  <2> QED
    BY <2>1, <2>2
<1>3. DropsGuarded'
  BY <1>2 DEF ContextInv, DropsGuarded, Opens
<1>4. /\ \A l \in DOMAIN global : FlowIs(l, contexts[global[l]].actions)
      /\ \A l : l \notin DOMAIN global => l \notin DOMAIN matchFlows
      /\ dropFlows = {l \in DOMAIN global : contexts[global[l]].drop}
  BY FlowsFollow DEF ContextInv
<1>5. \A l \in DOMAIN global \ {k} : FlowBecomes(l, contexts'[global'[l]].actions)
  BY <1>4 DEF Opens, OthersStay
<1>6. FlowBecomes(k, contexts'[global'[k]].actions)
  BY DEF Opens
<1>7. \A l : l \notin DOMAIN global' => l \notin DOMAIN matchFlows'
  BY <1>4 DEF Opens, OthersStay
<1>8. dropFlows' = {l \in DOMAIN global' : contexts'[global'[l]].drop}
  <2>1. \A l \in DOMAIN global \ {k} : l \in dropFlows' <=> contexts'[global'[l]].drop
    BY <1>4 DEF Opens
  <2>2. DropsNow(k) <=> k \notin DOMAIN global /\ ctx.drop
    BY <1>2 DEF DropsNow
  <2>3. k \in DOMAIN global => (k \in dropFlows <=> ctx.drop)
    BY <1>4, OpenedFields
  <2>4. k \in dropFlows' <=> contexts'[global'[k]].drop
    <3>1. contexts'[global'[k]] = ctx
      BY DEF Opens
    <3>2. k \in dropFlows => k \in DOMAIN global
      BY <1>4
    <3> HIDE DEF DropsNow
    <3> QED
      BY <2>2, <2>3, <3>1, <3>2
  <2>5. dropFlows' \subseteq DOMAIN global'
    BY <1>4 DEF Opens
  <2> QED
    BY <2>1, <2>4, <2>5 DEF Opens
<1>9. \A l \in DOMAIN global' : FlowBecomes(l, contexts'[global'[l]].actions)
  BY <1>5, <1>6 DEF Opens
<1>10. SwitchMatchesContexts'
  BY <1>7, <1>8, <1>9 DEF SwitchMatchesContexts, FlowBecomes
<1> QED
  BY <1>1, <1>3, <1>10

LEMMA OpenedFlow ==
  ASSUME Types, ContextInv, NEW k \in Keys
  PROVE  FlowIs(k, Opened(k).actions)
<1>1. CASE k \in DOMAIN global
  BY <1>1, OpenedFields, FlowsFollow DEF ContextInv
<1>2. CASE k \notin DOMAIN global
  BY <1>2, OpenedFields, FlowsFollow DEF ContextInv, FlowIs
<1> QED
  BY <1>1, <1>2

LEMMA MemberFields ==
  ASSUME NEW ctx \in Contexts, NEW r \in Rules, NEW s \in Rules
  PROVE  /\ Member(r, WithRule(ctx, r))
         /\ Member(s, ctx) => Member(s, WithRule(ctx, r))
         /\ s # r /\ Member(s, ctx) => Member(s, WithoutRule(ctx, r)) /\ ~Unused(WithoutRule(ctx, r))
<1>1. /\ Allows(r) => /\ WithRule(ctx, r).actions = ctx.actions \cup {r}
                      /\ WithRule(ctx, r).deny = ctx.deny
                      /\ WithoutRule(ctx, r).actions = ctx.actions \ {r}
                      /\ WithoutRule(ctx, r).deny = ctx.deny
      /\ ~Allows(r) => /\ WithRule(ctx, r).actions = ctx.actions
                       /\ WithRule(ctx, r).deny = ctx.deny \cup {r}
                       /\ WithoutRule(ctx, r).actions = ctx.actions
                       /\ WithoutRule(ctx, r).deny = ctx.deny \ {r}
  BY CtxFields
<1>2. Member(r, WithRule(ctx, r))
  BY <1>1 DEF Member
<1>3. ASSUME Member(s, ctx)
      PROVE  Member(s, WithRule(ctx, r))
  BY <1>1, <1>3 DEF Member
<1>4. ASSUME s # r, Member(s, ctx)
      PROVE  Member(s, WithoutRule(ctx, r)) /\ ~Unused(WithoutRule(ctx, r))
  <2>1. Member(s, WithoutRule(ctx, r))
    BY <1>1, <1>4 DEF Member
  <2> QED
    BY <2>1 DEF Member, Unused
<1> QED
  BY <1>2, <1>3, <1>4

LEMMA AddMatchKeeps ==
  ASSUME Types, ContextInv, Exact, NEW r \in Rules, AddMatch(r)
  PROVE  ContextInv'
<1>1. PICK k \in Upcoming(r) :
        /\ k \notin DOMAIN matches[r]
        /\ Open(k, WithRule(Opened(k), r))
        /\ matchFlows' = Written(k, Opened(k).actions, WithRule(Opened(k), r).actions)
        /\ matches' = [matches EXCEPT ![r] = Stored(@, k, ContextOf(k))]
        /\ lost' = [lost EXCEPT ![r] = @ \ {k}]
  BY DEF AddMatch
<1> DEFINE ctx == WithRule(Opened(k), r)
<1>2. k \in Matchable[r] /\ k \in Keys
  BY UpcomingKeys
<1>3. Opened(k) \in Contexts /\ ctx \in Contexts /\ ctx.drop = Opened(k).drop
  BY <1>2, OpenedFields, CtxFields
<1>4. Opens(k, ctx)
  BY <1>1, <1>2, <1>3, OpenOpens DEF ContextInv
<1>5. dropFlows' = dropFlows \cup IF DropsNow(k) THEN {k} ELSE {}
  BY <1>1 DEF Open
<1>6. FlowBecomes(k, ctx.actions) /\ OthersStay(k)
  <2>1. FlowIs(k, Opened(k).actions)
    BY <1>2, OpenedFlow
  <2>2. matchFlows' = Written(k, Opened(k).actions, ctx.actions)
    BY <1>1
  <2> HIDE DEF ctx
  <2> QED
    BY <1>2, <2>1, <2>2, FlowWritten
<1>7. GlobalApart' /\ DropsGuarded' /\ SwitchMatchesContexts'
  <2> HIDE DEF ctx
  <2> QED
    BY <1>2, <1>3, <1>4, <1>5, <1>6, OpensKeeps
<1>8. /\ DOMAIN matches'[r] = DOMAIN matches[r] \cup {k} /\ matches'[r][k] = global'[k]
      /\ \A l \in DOMAIN matches[r] : l # k /\ matches'[r][l] = matches[r][l]
      /\ \A s \in Rules \ {r} : matches'[s] = matches[s] /\ lost'[s] = lost[s]
      /\ lost'[r] = lost[r] \ {k}
  <2> HIDE DEF ContextOf
  <2> QED
    BY <1>1, <1>4 DEF Types, Stored, Opens
<1>9. PointsGlobal'
  BY <1>8, <1>4 DEF ContextInv, PointsGlobal, Opens
<1>10. Joined'
  <2> SUFFICES ASSUME NEW s \in Rules, NEW l \in DOMAIN matches'[s]
               PROVE  Member(s, contexts'[global'[l]]) \/ (l[2] \in Sticky /\ l \in lost'[s])
    BY DEF Joined, Member, Allows
  <2>1. CASE l # k
    <3>1. l \in DOMAIN matches[s] /\ l \in DOMAIN global
      BY <1>8, <2>1 DEF ContextInv, PointsGlobal
    <3>2. contexts'[global'[l]] = contexts[global[l]] /\ (l \in lost[s] => l \in lost'[s])
      BY <1>4, <1>8, <2>1, <3>1 DEF Opens
    <3> QED
      BY <3>1, <3>2 DEF ContextInv, Joined
  <2>2. CASE l = k /\ s = r
    BY <1>3, <1>4, <2>2, MemberFields DEF Opens
  <2>3. CASE l = k /\ s # r
    <3>1. k \in DOMAIN matches[s] /\ k \in DOMAIN global /\ lost'[s] = lost[s]
      BY <1>8, <2>3 DEF ContextInv, PointsGlobal
    <3>2. Member(s, Opened(k)) \/ (k[2] \in Sticky /\ k \in lost[s])
      BY <1>2, <3>1, OpenedFields DEF ContextInv, Joined
    <3>3. contexts'[global'[k]] = ctx
      BY <1>4 DEF Opens
    <3>4. Member(s, Opened(k)) => Member(s, ctx)
      BY <1>3, MemberFields
    <3> QED
      BY <2>3, <3>1, <3>2, <3>3, <3>4
  <2> QED
    BY <2>1, <2>2, <2>3
<1>11. ActionsKnown'
  <2> SUFFICES ASSUME NEW l \in DOMAIN global', NEW s \in contexts'[global'[l]].actions
               PROVE  Allows(s) /\ l \in DOMAIN matches'[s] \cup lost'[s]
    BY DEF ActionsKnown, Allows
  <2>1. CASE l # k
    <3>1. l \in DOMAIN global /\ s \in contexts[global[l]].actions
      BY <1>4, <2>1 DEF Opens
    <3>2. s \in Rules /\ Allows(s) /\ l \in DOMAIN matches[s] \cup lost[s]
      BY <3>1, GlobalTypes DEF ContextInv, ActionsKnown, Contexts
    <3> QED
      BY <1>8, <2>1, <3>2
  <2>2. CASE l = k
    <3>1. s \in ctx.actions
      BY <1>4, <2>2 DEF Opens
    <3>2. s \in Opened(k).actions \/ (s = r /\ Allows(r))
      BY <1>3, <3>1, CtxFields
    <3>3. CASE s = r /\ Allows(r)
      BY <1>8, <2>2, <3>3
    <3>4. CASE s \in Opened(k).actions /\ s # r
      <4>1. k \in DOMAIN global /\ s \in contexts[global[k]].actions /\ s \in Rules
        BY <1>2, <1>3, <3>4, OpenedFields DEF Contexts
      <4> QED
        BY <1>8, <2>2, <3>4, <4>1 DEF ContextInv, ActionsKnown
    <3>5. CASE s = r /\ ~Allows(r)
      <4>1. s \in Opened(k).actions
        BY <3>2, <3>5
      <4>2. k \in DOMAIN global /\ s \in contexts[global[k]].actions
        BY <1>2, <4>1, OpenedFields
      <4> QED
        BY <3>5, <4>2 DEF ContextInv, ActionsKnown
    <3> QED
      BY <3>2, <3>3, <3>4, <3>5
  <2> QED
    BY <2>1, <2>2
<1> QED
  BY <1>7, <1>9, <1>10, <1>11 DEF ContextInv
LEMMA AddMatchFlowFailsKeeps ==
  ASSUME Types, ContextInv, NEW r \in Rules, AddMatchFlowFails(r)
  PROVE  ContextInv'
<1>1. PICK k \in Upcoming(r) : Open(k, Opened(k))
  BY DEF AddMatchFlowFails
<1>2. Forgets
  BY FailForgets DEF AddMatchFlowFails, Fail
<1>3. k \in Keys /\ Opened(k) \in Contexts
  BY UpcomingKeys, OpenedFields
<1>4. Opens(k, Opened(k))
  BY <1>1, <1>3, OpenOpens DEF ContextInv
<1>5. dropFlows' = dropFlows \cup IF DropsNow(k) THEN {k} ELSE {}
  BY <1>1 DEF Open
<1>6. FlowBecomes(k, Opened(k).actions) /\ OthersStay(k)
  <2>1. matchFlows' = matchFlows
    BY DEF AddMatchFlowFails
  <2> QED
    BY <1>3, <2>1, OpenedFlow DEF FlowIs, FlowBecomes, OthersStay
<1>7. GlobalApart' /\ DropsGuarded' /\ SwitchMatchesContexts'
  BY <1>3, <1>4, <1>5, <1>6, OpensKeeps
<1>8. \A l \in DOMAIN global :
        /\ l \in DOMAIN global' /\ global'[l] = global[l]
        /\ contexts'[global'[l]] = contexts[global[l]]
  BY <1>3, <1>4, OpenedFields DEF Opens
<1>9. PointsGlobal'
  BY <1>2, <1>8 DEF ContextInv, PointsGlobal, Forgets
<1>10. Joined'
  <2> SUFFICES ASSUME NEW s \in Rules, NEW l \in DOMAIN matches'[s]
               PROVE  Member(s, contexts'[global'[l]]) \/ (l[2] \in Sticky /\ l \in lost'[s])
    BY DEF Joined, Member, Allows
  <2>1. l \in DOMAIN matches[s] /\ l \in DOMAIN global /\ lost[s] \subseteq lost'[s]
    BY <1>2 DEF Forgets, ContextInv, PointsGlobal
  <2> QED
    BY <1>8, <2>1 DEF ContextInv, Joined
<1>11. ActionsKnown'
  <2> SUFFICES ASSUME NEW l \in DOMAIN global', NEW s \in contexts'[global'[l]].actions
               PROVE  Allows(s) /\ l \in DOMAIN matches'[s] \cup lost'[s]
    BY DEF ActionsKnown, Allows
  <2>1. l \in DOMAIN global
    BY <1>3, <1>4, OpenedFields DEF Opens
  <2>2. s \in contexts[global[l]].actions
    BY <1>8, <2>1
  <2>3. s \in Rules
    BY <2>1, <2>2, GlobalTypes DEF Contexts
  <2>4. Allows(s) /\ l \in DOMAIN matches[s] \cup lost[s]
    BY <2>1, <2>2 DEF ContextInv, ActionsKnown
  <2> HIDE DEF Allows
  <2> QED
    BY <1>2, <2>3, <2>4 DEF Forgets
<1> QED
  BY <1>7, <1>9, <1>10, <1>11 DEF ContextInv

\* A rule leaves the context of a key: what the delete paths have in common.
LEMMA LeavesContext ==
  ASSUME Types, ContextInv, Exact, StickyIsSole, NEW r \in Rules,
         NEW k \in DOMAIN matches[r], k \in Keys,
         matchFlows' = Written(k, contexts[matches[r][k]].actions, Rest(r, k).actions)
  PROVE  /\ k \in DOMAIN global /\ matches[r][k] = global[k]
         /\ Rest(r, k) \in Contexts /\ Rest(r, k).drop = contexts[global[k]].drop
         /\ FlowBecomes(k, Rest(r, k).actions) /\ OthersStay(k)
         /\ r \notin Rest(r, k).actions
         /\ Rest(r, k).actions \subseteq contexts[global[k]].actions
         /\ \A s \in Rules \ {r} : k \in DOMAIN matches[s] => Member(s, Rest(r, k))
         /\ Unused(Rest(r, k)) => \A s \in Rules \ {r} : k \notin DOMAIN matches[s]
<1>1. k \in DOMAIN global /\ matches[r][k] = global[k]
  BY DEF ContextInv, PointsGlobal
<1>2. contexts[global[k]] \in Contexts
  BY <1>1, GlobalTypes
<1>3. Rest(r, k) = WithoutRule(contexts[global[k]], r)
  BY <1>1 DEF Rest
<1>4. Rest(r, k) \in Contexts /\ Rest(r, k).drop = contexts[global[k]].drop
  BY <1>2, <1>3, CtxFields
<1>5. FlowBecomes(k, Rest(r, k).actions) /\ OthersStay(k)
  <2>1. FlowIs(k, contexts[matches[r][k]].actions)
    BY <1>1, FlowsFollow DEF ContextInv
  <2> QED
    BY <2>1, FlowWritten
<1>6. r \notin Rest(r, k).actions /\ Rest(r, k).actions \subseteq contexts[global[k]].actions
  <2>1. CASE Allows(r)
    BY <1>2, <1>3, <2>1, CtxFields
  <2>2. CASE ~Allows(r)
    <3>1. r \notin contexts[global[k]].actions
      BY <1>1, <2>2 DEF ContextInv, ActionsKnown
    <3> QED
      BY <1>2, <1>3, <2>2, <3>1, CtxFields
  <2> QED
    BY <2>1, <2>2
<1>7. ASSUME NEW s \in Rules \ {r}, k \in DOMAIN matches[s]
      PROVE  Member(s, Rest(r, k)) /\ ~Unused(Rest(r, k))
  <2>1. k \in Matchable[r] \cap Matchable[s]
    BY <1>7 DEF Types, TypeOK
  <2>2. k[2] \notin Sticky
    BY <1>7, <2>1 DEF StickyIsSole
  <2>3. Member(s, contexts[global[k]])
    BY <1>7, <2>2 DEF ContextInv, Joined
  <2> QED
    BY <1>2, <1>3, <2>3, MemberFields
<1> QED
  BY <1>1, <1>4, <1>5, <1>6, <1>7

LEMMA DelMatchKeeps ==
  ASSUME Types, ContextInv, Exact, StickyIsSole, NEW r \in Rules, DelMatch(r)
  PROVE  ContextInv'
<1>1. PICK k \in Upcoming(r) :
        /\ k \in DOMAIN matches[r]
        /\ matchFlows' = Written(k, contexts[matches[r][k]].actions, Rest(r, k).actions)
        /\ contexts' = [contexts EXCEPT ![matches[r][k]] =
             IF Unused(Rest(r, k)) THEN NewContext ELSE Rest(r, k)]
        /\ dropFlows' = dropFlows \ IF Unused(Rest(r, k)) /\ contexts[matches[r][k]].drop THEN Covered(k) ELSE {}
        /\ global' = IF Unused(Rest(r, k)) THEN Restrict(global, DOMAIN global \ {k}) ELSE global
        /\ matches' = [matches EXCEPT ![r] = Restrict(@, DOMAIN @ \ {k})]
        /\ lost' = [lost EXCEPT ![r] = @ \ {k}]
  BY DEF DelMatch, Rest
<1>2. k \in Matchable[r] /\ k \in Keys
  BY UpcomingKeys
<1>3. /\ k \in DOMAIN global /\ matches[r][k] = global[k]
      /\ Rest(r, k) \in Contexts /\ Rest(r, k).drop = contexts[global[k]].drop
      /\ FlowBecomes(k, Rest(r, k).actions) /\ OthersStay(k)
      /\ r \notin Rest(r, k).actions
      /\ Rest(r, k).actions \subseteq contexts[global[k]].actions
      /\ \A s \in Rules \ {r} : k \in DOMAIN matches[s] => Member(s, Rest(r, k))
      /\ Unused(Rest(r, k)) => \A s \in Rules \ {r} : k \notin DOMAIN matches[s]
  BY <1>1, <1>2, LeavesContext
<1>4. contexts \in [Ids -> Contexts] /\ \A l \in DOMAIN global : global[l] \in Ids
  BY TypesAre DEF ContextsTyped
\* The global cache and the contexts, key by key.
<1>5. /\ DOMAIN global' = IF Unused(Rest(r, k)) THEN DOMAIN global \ {k} ELSE DOMAIN global
      /\ \A l \in DOMAIN global' : global'[l] = global[l]
  BY <1>1 DEF Restrict
<1>6. \A l \in DOMAIN global \ {k} : contexts'[global[l]] = contexts[global[l]]
  BY <1>1, <1>3, <1>4 DEF ContextInv, GlobalApart
<1>7. ~Unused(Rest(r, k)) => contexts'[global[k]] = Rest(r, k)
  BY <1>1, <1>3, <1>4
<1>8. /\ DOMAIN matches'[r] = DOMAIN matches[r] \ {k}
      /\ \A l \in DOMAIN matches'[r] : matches'[r][l] = matches[r][l]
      /\ lost'[r] = lost[r] \ {k}
      /\ \A s \in Rules \ {r} : matches'[s] = matches[s] /\ lost'[s] = lost[s]
  BY <1>1 DEF Types, Restrict
<1>9. PointsGlobal'
  <2> SUFFICES ASSUME NEW s \in Rules, NEW l \in DOMAIN matches'[s]
               PROVE  l \in DOMAIN global' /\ global'[l] = matches'[s][l]
    BY DEF PointsGlobal
  <2>1. l \in DOMAIN matches[s] /\ matches'[s][l] = matches[s][l]
    BY <1>8
  <2>2. l \in DOMAIN global /\ global[l] = matches[s][l]
    BY <2>1 DEF ContextInv, PointsGlobal
  <2>3. l = k => ~Unused(Rest(r, k))
    BY <1>3, <1>8, <2>1
  <2> QED
    BY <1>5, <2>1, <2>2, <2>3
<1>10. GlobalApart'
  BY <1>5 DEF ContextInv, GlobalApart
<1>11. Joined'
  <2> SUFFICES ASSUME NEW s \in Rules, NEW l \in DOMAIN matches'[s]
               PROVE  Member(s, contexts'[global'[l]]) \/ (l[2] \in Sticky /\ l \in lost'[s])
    BY DEF Joined, Member, Allows
  <2>1. l \in DOMAIN matches[s] /\ l \in DOMAIN global' /\ global'[l] = global[l] /\ l \in DOMAIN global
    BY <1>5, <1>8, <1>9 DEF PointsGlobal
  <2>2. CASE l # k
    BY <1>6, <1>8, <2>1, <2>2 DEF ContextInv, Joined
  <2>3. CASE l = k
    <3>1. s # r /\ ~Unused(Rest(r, k))
      BY <1>5, <1>8, <2>1, <2>3
    <3> QED
      BY <1>3, <1>7, <2>1, <2>3, <3>1
  <2> QED
    BY <2>2, <2>3
<1>12. DropsGuarded'
  BY <1>3, <1>5, <1>6, <1>7 DEF ContextInv, DropsGuarded
<1>13. ActionsKnown'
  <2> SUFFICES ASSUME NEW l \in DOMAIN global', NEW s \in contexts'[global'[l]].actions
               PROVE  Allows(s) /\ l \in DOMAIN matches'[s] \cup lost'[s]
    BY DEF ActionsKnown, Allows
  <2>1. l \in DOMAIN global /\ global'[l] = global[l]
    BY <1>5
  <2>2. s \in contexts[global[l]].actions /\ (l = k => s # r)
    BY <1>3, <1>5, <1>6, <1>7, <2>1
  <2>3. s \in Rules
    BY <2>1, <2>2, GlobalTypes DEF Contexts
  <2>4. Allows(s) /\ l \in DOMAIN matches[s] \cup lost[s]
    BY <2>1, <2>2 DEF ContextInv, ActionsKnown
  <2> QED
    BY <1>8, <2>2, <2>3, <2>4
<1>14. SwitchMatchesContexts'
  <2>1. /\ \A l \in DOMAIN global : FlowIs(l, contexts[global[l]].actions)
        /\ \A l : l \notin DOMAIN global => l \notin DOMAIN matchFlows
        /\ dropFlows = {l \in DOMAIN global : contexts[global[l]].drop}
    BY FlowsFollow DEF ContextInv
  <2>2. \A l \in DOMAIN global \ {k} : FlowBecomes(l, contexts'[global'[l]].actions)
    BY <1>3, <1>5, <1>6, <2>1 DEF OthersStay
  <2>3. ~Unused(Rest(r, k)) => FlowBecomes(k, contexts'[global'[k]].actions)
    BY <1>3, <1>5, <1>7
  <2>4. Unused(Rest(r, k)) => k \notin DOMAIN matchFlows'
    BY <1>3 DEF FlowBecomes, Unused
  <2>5. \A l : l \notin DOMAIN global' => l \notin DOMAIN matchFlows'
    BY <1>3, <1>5, <2>1, <2>4 DEF OthersStay
  <2>6. \A l \in DOMAIN global' : FlowBecomes(l, contexts'[global'[l]].actions)
    BY <1>5, <2>2, <2>3
  <2>7. dropFlows' = {l \in DOMAIN global' : contexts'[global'[l]].drop}
    <3>1. CASE Unused(Rest(r, k))
      <4>1. dropFlows' = dropFlows \ {k}
        <5>1. CASE contexts[global[k]].drop
          <6>1. dropFlows \subseteq Keys
            BY TypesAre DEF DropFlowsTyped
          <6> QED
            BY <1>1, <1>2, <1>3, <3>1, <5>1, <6>1, CoveredIsKey
        <5>2. CASE ~contexts[global[k]].drop
          BY <1>1, <1>3, <2>1, <3>1, <5>2
        <5> QED
          BY <5>1, <5>2
      <4>2. \A l \in DOMAIN global \ {k} : contexts'[global'[l]].drop = contexts[global[l]].drop
        BY <1>5, <1>6, <3>1
      <4> QED
        BY <1>5, <2>1, <3>1, <4>1, <4>2
    <3>2. CASE ~Unused(Rest(r, k))
      <4>1. dropFlows' = dropFlows /\ DOMAIN global' = DOMAIN global
        BY <1>1, <1>5, <3>2
      <4>2. \A l \in DOMAIN global : contexts'[global'[l]].drop = contexts[global[l]].drop
        BY <1>3, <1>5, <1>6, <1>7, <3>2, <4>1
      <4> QED
        BY <2>1, <4>1, <4>2
    <3> QED
      BY <3>1, <3>2
  <2> QED
    BY <2>5, <2>6, <2>7 DEF SwitchMatchesContexts, FlowBecomes
<1> QED
  BY <1>9, <1>10, <1>11, <1>12, <1>13, <1>14 DEF ContextInv
LEMMA DelMatchDropFailsKeeps ==
  ASSUME Types, ContextInv, Exact, StickyIsSole, NEW r \in Rules, DelMatchDropFails(r)
  PROVE  ContextInv'
<1>1. PICK k \in Upcoming(r) :
        /\ Deletes(r, k) /\ k \in DOMAIN matches[r]
        /\ Unused(Rest(r, k)) /\ k[2] \in Sticky
        /\ matchFlows' = Written(k, contexts[matches[r][k]].actions, Rest(r, k).actions)
        /\ contexts' = [contexts EXCEPT ![matches[r][k]] = Rest(r, k)]
        /\ FailAt(r, {k})
  BY DEF DelMatchDropFails, Rest
<1>2. k \in Matchable[r] /\ k \in Keys
  BY UpcomingKeys
<1>3. /\ k \in DOMAIN global /\ matches[r][k] = global[k]
      /\ Rest(r, k).drop = contexts[global[k]].drop
      /\ FlowBecomes(k, Rest(r, k).actions) /\ OthersStay(k)
      /\ \A s \in Rules \ {r} : k \in DOMAIN matches[s] => Member(s, Rest(r, k))
  BY <1>1, <1>2, LeavesContext
<1>4. global' = global /\ dropFlows' = dropFlows
  BY DEF DelMatchDropFails
<1>5. contexts \in [Ids -> Contexts] /\ \A l \in DOMAIN global : global[l] \in Ids
  BY TypesAre DEF ContextsTyped
<1>6. /\ \A l \in DOMAIN global \ {k} : contexts'[global[l]] = contexts[global[l]]
      /\ contexts'[global[k]] = Rest(r, k)
  BY <1>1, <1>3, <1>5 DEF ContextInv, GlobalApart
<1>7. Forgets /\ k \in lost'[r]
  BY <1>1, FailForgets
<1>8. PointsGlobal'
  BY <1>4, <1>7 DEF ContextInv, PointsGlobal, Forgets
<1>9. GlobalApart'
  BY <1>4 DEF ContextInv, GlobalApart
<1>10. Joined'
  <2> SUFFICES ASSUME NEW s \in Rules, NEW l \in DOMAIN matches'[s]
               PROVE  Member(s, contexts'[global'[l]]) \/ (l[2] \in Sticky /\ l \in lost'[s])
    BY DEF Joined, Member, Allows
  <2>1. l \in DOMAIN matches[s] /\ l \in DOMAIN global /\ lost[s] \subseteq lost'[s]
    BY <1>7 DEF Forgets, ContextInv, PointsGlobal
  <2>2. CASE l # k
    BY <1>4, <1>6, <2>1, <2>2 DEF ContextInv, Joined
  <2>3. CASE l = k /\ s # r
    BY <1>3, <1>4, <1>6, <2>1, <2>3
  <2>4. CASE l = k /\ s = r
    BY <1>1, <1>7, <2>4
  <2> QED
    BY <2>2, <2>3, <2>4
<1>11. DropsGuarded'
  BY <1>3, <1>4, <1>6 DEF ContextInv, DropsGuarded
<1>12. ActionsKnown'
  <2> SUFFICES ASSUME NEW l \in DOMAIN global, NEW s \in contexts'[global[l]].actions
               PROVE  Allows(s) /\ l \in DOMAIN matches'[s] \cup lost'[s]
    BY <1>4 DEF ActionsKnown, Allows
  <2>1. l # k
    BY <1>1, <1>6 DEF Unused
  <2>2. s \in contexts[global[l]].actions
    BY <1>6, <2>1
  <2>3. s \in Rules
    BY <2>2, GlobalTypes DEF Contexts
  <2>4. Allows(s) /\ l \in DOMAIN matches[s] \cup lost[s]
    BY <2>2 DEF ContextInv, ActionsKnown
  <2> QED
    BY <1>7, <2>3, <2>4 DEF Forgets
<1>13. SwitchMatchesContexts'
  <2>1. /\ \A l \in DOMAIN global : FlowIs(l, contexts[global[l]].actions)
        /\ \A l : l \notin DOMAIN global => l \notin DOMAIN matchFlows
        /\ dropFlows = {l \in DOMAIN global : contexts[global[l]].drop}
    BY FlowsFollow DEF ContextInv
  <2>2. \A l \in DOMAIN global : FlowBecomes(l, contexts'[global[l]].actions)
    BY <1>3, <1>6, <2>1 DEF OthersStay
  <2>3. \A l : l \notin DOMAIN global => l \notin DOMAIN matchFlows'
    BY <1>3, <2>1 DEF OthersStay
  <2>4. \A l \in DOMAIN global : contexts'[global[l]].drop = contexts[global[l]].drop
    BY <1>3, <1>6
  <2> QED
    BY <1>4, <2>1, <2>2, <2>3, <2>4 DEF SwitchMatchesContexts, FlowBecomes
<1> QED
  BY <1>8, <1>9, <1>10, <1>11, <1>12, <1>13 DEF ContextInv

LEMMA ContextStep ==
  ASSUME Exact, StickyIsSole
  PROVE  Types /\ ContextInv /\ [Next]_vars => ContextInv'
<1> SUFFICES ASSUME Types, ContextInv, [Next]_vars
             PROVE  ContextInv'
  OBVIOUS
<1>0. ASSUME UNCHANGED <<matches, lost>>
      PROVE  Forgets
  BY <1>0 DEF Forgets
<1>1. ASSUME NEW r \in Rules,
             \/ Install(r) \/ Uninstall(r) \/ AddAddress(r) \/ DeleteAddress(r)
             \/ AddActionFlow(r) \/ DelActionFlow(r) \/ SkipKey(r) \/ Return(r)
      PROVE  ContextInv'
  <2>1. UNCHANGED <<matches, lost, contexts, global, matchFlows, dropFlows>>
    BY <1>1 DEF Install, Uninstall, AddAddress, DeleteAddress, ChangeAddress,
                AddActionFlow, DelActionFlow, SkipKey, Return, client, switch
  <2> QED
    BY <1>0, <2>1, ForgettingKeeps
<1>2. ASSUME NEW r \in Rules, ActionFlowFails(r) \/ AddMatchDropFails(r) \/ DelMatchFlowFails(r)
      PROVE  ContextInv'
  <2>1. FailAt(r, {}) /\ UNCHANGED <<contexts, global, matchFlows, dropFlows>>
    BY <1>2 DEF ActionFlowFails, AddMatchDropFails, DelMatchFlowFails, Fail, switch
  <2> QED
    BY <2>1, FailForgets, ForgettingKeeps
<1>3. CASE UNCHANGED vars
  BY <1>0, <1>3, ForgettingKeeps DEF vars
<1> QED
  BY <1>1, <1>2, <1>3, AddMatchKeeps, AddMatchFlowFailsKeeps, DelMatchKeeps,
     DelMatchDropFailsKeeps DEF Next
-----------------------------------------------------------------------------
(* A call and its rule's action flows.                                     *)

LEMMA ActionInit == Init => ActionInv
<1> SUFFICES ASSUME Init, NEW r \in Rules
             PROVE  ActionsOf(r)
  BY DEF ActionInv
<1>1. actionFlows[r] = {} /\ call[r].op = "none"
  BY DEF Init, Idle
<1> QED
  BY <1>1 DEF ActionsOf

\* A step of one rule leaves the others, though it may take their exceptions.
OthersSpared(r) ==
  \A s \in Rules \ {r} :
    /\ call'[s] = call[s]
    /\ actionFlows'[s] \subseteq actionFlows[s]
    /\ s \in policyCache' <=> s \in policyCache

LEMMA OneRule ==
  ASSUME ActionInv, NEW r \in Rules, OthersSpared(r), ActionsOf(r)'
  PROVE  ActionInv'
<1>1. ASSUME NEW s \in Rules \ {r}
      PROVE  ActionsOf(s)'
  <2>1. ActionsOf(s)
    BY DEF ActionInv
  <2>2. /\ call'[s] = call[s] /\ actionFlows'[s] \subseteq actionFlows[s]
        /\ s \in policyCache' <=> s \in policyCache
    BY DEF OthersSpared
  <2> QED
    BY <2>1, <2>2 DEF ActionsOf
<1> QED
  BY <1>1 DEF ActionInv

\* A rule's call changes, the others' do not.
LEMMA CallOthers ==
  ASSUME Types, NEW r \in Rules, NEW op, NEW acts, NEW keys, CallIs(r, op, acts, keys)
  PROVE  /\ \A s \in Rules \ {r} : call'[s] = call[s]
         /\ call'[r].op = op /\ call'[r].acts = acts /\ call'[r].keys = keys
BY DEF Types, CallIs

\* A call begins: Uninstall has all of the rule's action flows to delete.
LEMMA BeginKeeps ==
  ASSUME Types, ActionInv, NEW r \in Rules,
         Install(r) \/ Uninstall(r) \/ AddAddress(r) \/ DeleteAddress(r)
  PROVE  ActionInv'
<1>1. UNCHANGED <<policyCache, actionFlows>>
  BY DEF Install, Uninstall, AddAddress, DeleteAddress, ChangeAddress, client, switch
<1>2. PICK op, acts, ks :
        /\ CallIs(r, op, acts, ks)
        /\ \/ op = "install" /\ r \notin policyCache
           \/ op = "uninstall" /\ r \in policyCache /\ acts = ActionFlows(r)
           \/ op \in {"add", "del"} /\ r \in policyCache
  BY DEF Install, Uninstall, AddAddress, DeleteAddress, ChangeAddress, Begin, CallIs
<1>3. /\ \A s \in Rules \ {r} : call'[s] = call[s]
      /\ call'[r].op = op /\ call'[r].acts = acts
  BY <1>2, CallOthers
<1>4. actionFlows[r] \subseteq ActionFlows(r)
  BY DEF Types, TypeOK
<1>5. ActionsOf(r)'
  BY <1>1, <1>2, <1>3, <1>4 DEF ActionsOf
<1>6. OthersSpared(r)
  BY <1>1, <1>3 DEF OthersSpared
<1> QED
  BY <1>5, <1>6, OneRule

LEMMA ActionFlowKeeps ==
  ASSUME Types, ActionInv, NEW r \in Rules, AddActionFlow(r) \/ DelActionFlow(r)
  PROVE  ActionInv'
<1>1. PICK f \in call[r].acts :
        /\ ActionDone(r, f)
        /\ \/ /\ call[r].op = "install"
              /\ actionFlows' = [actionFlows EXCEPT ![r] = @ \cup {f}]
           \/ /\ call[r].op = "uninstall"
              /\ actionFlows' = [actionFlows EXCEPT ![r] = IF f = Allow THEN {} ELSE @ \ {f}]
  BY DEF AddActionFlow, DelActionFlow
<1>2. CallIs(r, call[r].op, call[r].acts \ {f}, call[r].keys)
  BY <1>1, ActionDoneIs
<1>3. /\ \A s \in Rules \ {r} : call'[s] = call[s]
      /\ call'[r].op = call[r].op /\ call'[r].acts = call[r].acts \ {f}
  BY <1>2, CallOthers
<1>4. policyCache' = policyCache
  BY DEF AddActionFlow, DelActionFlow, client
<1>5. OthersSpared(r)
  BY <1>1, <1>3, <1>4 DEF OthersSpared, Types
<1>6. ActionsOf(r)
  BY DEF ActionInv
<1>7. call[r].op = "uninstall" => actionFlows'[r] \subseteq actionFlows[r] \ {f}
  BY <1>1 DEF Types
<1>8. ActionsOf(r)'
  BY <1>1, <1>3, <1>4, <1>6, <1>7 DEF ActionsOf
<1> QED
  BY <1>5, <1>8, OneRule

\* A call that fails leaves the cache, and adds nothing to the switch.
LEMMA FailKeeps ==
  ASSUME Types, ActionInv, NEW r \in Rules, NEW ks, FailAt(r, ks), ~Free(r), Spares,
         policyCache' = policyCache
  PROVE  ActionInv'
<1> DEFINE op == IF call[r].op = "install" THEN "failed" ELSE "none"
<1>1. CallIs(r, op, {}, {})
  BY FailIs
<1>2. op = "failed" \/ (op = "none" /\ call[r].op \in {"uninstall", "add", "del"})
  BY DEF Types, Ops, Free
<1> HIDE DEF op
<1>3. /\ \A s \in Rules \ {r} : call'[s] = call[s]
      /\ call'[r].op = op
  BY <1>1, CallOthers
<1>4. ActionsOf(r)
  BY DEF ActionInv
<1>5. ActionsOf(r)'
  BY <1>2, <1>3, <1>4 DEF ActionsOf
<1>6. OthersSpared(r)
  BY <1>3 DEF OthersSpared, Spares
<1> QED
  BY <1>5, <1>6, OneRule

\* A key done with: the loose call on its flow may take action flows.
LEMMA KeyKeeps ==
  ASSUME Types, ActionInv, NEW r \in Rules, SkipKey(r) \/ AddMatch(r) \/ DelMatch(r)
  PROVE  ActionInv'
<1>1. PICK k : Done(r, k)
  BY DEF SkipKey, AddMatch, DelMatch
<1>2. CallIs(r, call[r].op, call[r].acts, call[r].keys \ {k})
  BY <1>1, DoneIs
<1>3. /\ \A s \in Rules \ {r} : call'[s] = call[s]
      /\ call'[r].op = call[r].op /\ call'[r].acts = call[r].acts
  BY <1>2, CallOthers
<1>4. Spares
  BY LooseSpares DEF SkipKey, switch, Spares, Types
<1>5. policyCache' = policyCache
  BY DEF SkipKey, AddMatch, DelMatch, client
<1>6. ActionsOf(r)
  BY DEF ActionInv
<1>7. ActionsOf(r)'
  BY <1>3, <1>4, <1>5, <1>6 DEF ActionsOf, Spares
<1>8. OthersSpared(r)
  BY <1>3, <1>4, <1>5 DEF OthersSpared, Spares
<1> QED
  BY <1>7, <1>8, OneRule

\* What an uninstall has not deleted it has still to do: nothing at its end.
LEMMA ReturnKeeps ==
  ASSUME Types, ActionInv, NEW r \in Rules, Return(r)
  PROVE  ActionInv'
<1>1. CallIs(r, "none", {}, {})
  BY DEF Return, CallIs, Idle
<1>2. /\ \A s \in Rules \ {r} : call'[s] = call[s]
      /\ call'[r].op = "none"
  BY <1>1, CallOthers
<1>3. /\ actionFlows' = actionFlows
      /\ \A s \in Rules \ {r} : s \in policyCache' <=> s \in policyCache
  BY DEF Return, switch
<1>4. call[r].op \in {"install", "uninstall", "add", "del"} /\ call[r].acts = {}
  BY DEF Return, Free, Types, Ops
<1>5. ActionsOf(r)
  BY DEF ActionInv
<1>6. r \notin policyCache' => actionFlows'[r] = {}
  <2>1. CASE call[r].op = "install"
    BY <2>1 DEF Return
  <2>2. CASE call[r].op = "uninstall"
    BY <1>3, <1>4, <1>5, <2>2 DEF ActionsOf
  <2>3. CASE call[r].op \in {"add", "del"}
    BY <1>5, <2>3 DEF ActionsOf, Return
  <2> QED
    BY <1>4, <2>1, <2>2, <2>3
<1>7. ActionsOf(r)'
  BY <1>2, <1>6 DEF ActionsOf
<1>8. OthersSpared(r)
  BY <1>2, <1>3 DEF OthersSpared
<1> QED
  BY <1>7, <1>8, OneRule

LEMMA ActionStep == Types /\ ActionInv /\ [Next]_vars => ActionInv'
<1> SUFFICES ASSUME Types, ActionInv, [Next]_vars
             PROVE  ActionInv'
  OBVIOUS
<1>1. ASSUME NEW r \in Rules,
             \/ ActionFlowFails(r) \/ AddMatchDropFails(r) \/ AddMatchFlowFails(r)
             \/ DelMatchFlowFails(r) \/ DelMatchDropFails(r)
      PROVE  ActionInv'
  <2>1. PICK ks : FailAt(r, ks)
    BY <1>1 DEF ActionFlowFails, AddMatchDropFails, AddMatchFlowFails,
                DelMatchFlowFails, DelMatchDropFails, Fail
  <2>2. policyCache' = policyCache
    BY <1>1 DEF ActionFlowFails, AddMatchDropFails, AddMatchFlowFails,
                DelMatchFlowFails, DelMatchDropFails
  <2>3. ~Free(r)
    BY <1>1 DEF ActionFlowFails, AddMatchDropFails, AddMatchFlowFails,
                DelMatchFlowFails, DelMatchDropFails, Adds, Deletes, Free
  <2>4. Spares
    BY <1>1, LooseSpares DEF ActionFlowFails, AddMatchDropFails, AddMatchFlowFails,
                DelMatchFlowFails, switch, Spares, Types
  <2> QED
    BY <2>1, <2>2, <2>3, <2>4, FailKeeps
<1>2. CASE UNCHANGED vars
  BY <1>2 DEF vars, ActionInv, ActionsOf
<1> QED
  BY <1>1, <1>2, BeginKeeps, ActionFlowKeeps, KeyKeeps, ReturnKeeps DEF Next
-----------------------------------------------------------------------------
(* Theorems.                                                               *)

\* Every step of every call, failed or not, keeps the types of the client's
\* caches and of the switch's flows (TypeOK), for any rules and values.
THEOREM TypeCorrect == Spec => []TypeOK
<1>1. Types => TypeOK
  BY DEF Types
<1> QED
  BY <1>1, TypesInit, TypesStep, PTL DEF Spec

LEMMA Invariance ==
  ASSUME Exact, StickyIsSole
  PROVE  Spec => [](Types /\ ContextInv /\ ActionInv)
<1>1. Init => Types /\ ContextInv /\ ActionInv
  BY TypesInit, ContextInit, ActionInit
<1>2. Types /\ ContextInv /\ ActionInv /\ [Next]_vars => (Types /\ ContextInv /\ ActionInv)'
  BY TypesStep, ContextStep, ActionStep
<1> QED
  BY <1>1, <1>2, PTL DEF Spec

\* Between any two calls of ovs-ofctl the match and drop flows on the switch
\* are those of the contexts in globalConjMatchFlowCache, however the rules'
\* goroutines interleave and whichever flows are refused
\* (SwitchMatchesContexts).
THEOREM SwitchMatchesContextsAlways ==
  ASSUME Exact, StickyIsSole
  PROVE  Spec => []SwitchMatchesContexts
<1>1. ContextInv => SwitchMatchesContexts
  BY DEF ContextInv
<1> QED
  BY <1>1, Invariance, PTL

\* The conjMatchFlowContext a clause points to is the one of the global cache,
\* so that rules which share a match condition share its flow
\* (OneContextPerFlow).
THEOREM OneContextPerFlowAlways ==
  ASSUME Exact, StickyIsSole
  PROVE  Spec => []OneContextPerFlow
<1>1. ContextInv => OneContextPerFlow
  BY DEF ContextInv, PointsGlobal, OneContextPerFlow
<1> QED
  BY <1>1, Invariance, PTL

\* What a clause has in its matches is on the switch, unless a call on its own
\* rule failed there: no other rule's call takes it away (ClausesRealized).
THEOREM ClausesRealizedAlways ==
  ASSUME Exact, StickyIsSole
  PROVE  Spec => []ClausesRealized
<1>1. ContextInv => ClausesRealized
  <2> SUFFICES ASSUME ContextInv, NEW r \in Rules, NEW k \in DOMAIN matches[r] \ lost[r]
               PROVE  /\ Allows(r) => k \in DOMAIN matchFlows /\ r \in matchFlows[k]
                      /\ k[1] = Guarded => k \in dropFlows
    BY DEF ClausesRealized
  <2>1. k \in DOMAIN global /\ Member(r, contexts[global[k]])
    BY DEF ContextInv, PointsGlobal, Joined
  <2>2. Allows(r) => r \in contexts[global[k]].actions
    BY <2>1 DEF Member
  <2>3. k[1] = Guarded => contexts[global[k]].drop
    BY <2>1 DEF ContextInv, DropsGuarded
  <2> QED
    BY <2>1, <2>2, <2>3, FlowsFollow DEF ContextInv, FlowIs
<1> QED
  BY <1>1, Invariance, PTL

\* A match flow names no rule but those whose clauses have it, or which noted
\* it when a call failed, and no rule has action flows that the client has
\* uninstalled: UninstallPolicyRuleFlows ends a rule's effect
\* (NoStrayActions).
THEOREM NoStrayActionsAlways ==
  ASSUME Exact, StickyIsSole
  PROVE  Spec => []NoStrayActions
<1>1. Types /\ ContextInv /\ ActionInv => NoStrayActions
  <2> SUFFICES ASSUME Types, ContextInv, ActionInv
               PROVE  NoStrayActions
    OBVIOUS
  <2>1. ASSUME NEW k \in DOMAIN matchFlows, NEW r \in matchFlows[k]
        PROVE  k \in DOMAIN matches[r] \cup lost[r]
    <3>1. k \in DOMAIN global /\ matchFlows[k] = contexts[global[k]].actions
      BY FlowsFollow DEF ContextInv, FlowIs
    <3> QED
      BY <3>1 DEF ContextInv, ActionsKnown
  <2>2. ASSUME NEW r \in Rules, actionFlows[r] # {}
        PROVE  r \in policyCache \/ call[r].op \in {"install", "failed"}
    <3>1. ActionsOf(r) /\ call[r].op \in Ops
      BY DEF ActionInv, Types
    <3> QED
      BY <2>2, <3>1 DEF ActionsOf, Ops
  <2> QED
    BY <2>1, <2>2 DEF NoStrayActions
<1> QED
  BY <1>1, Invariance, PTL
=============================================================================
