-------------------------------- MODULE Iptables --------------------------------
(***************************************************************************)
(* The rules pkg/iptables appends to the host's chains, and what they do   *)
(* with a forwarded packet.  A rule is as the fields of a rule struct: its *)
(* chain, the paths (in and out interface) or the mark it asks for, and    *)
(* its target.  Rules of other programs are left out.                      *)
(***************************************************************************)
EXTENDS Naturals, Sequences, SequencesExt

Paths == [in: {"gw", "other"}, out: {"gw", "other"}]
Outward == [in: {"gw"}, out: {"other"}]     \* -i gw ! -o gw
Inward == [in: {"other"}, out: {"gw"}]      \* ! -i gw -o gw

BuiltIn == {"FORWARD", "POSTROUTING"}
EmptyChains == [c \in BuiltIn |-> <<>>]

Rule(chain, paths, marked, target) ==
  [chain |-> chain, paths |-> paths, marked |-> marked, target |-> target]

\* The rules of SetUpRules, in the order they are appended.
PresetRules == <<
  Rule("FORWARD", Paths, FALSE, "CICCNI-FORWARD"),
  Rule("CICCNI-FORWARD", Outward, FALSE, "MARK"),
  Rule("CICCNI-FORWARD", Outward, FALSE, "ACCEPT"),
  Rule("CICCNI-FORWARD", Inward, FALSE, "ACCEPT"),
  Rule("POSTROUTING", Paths, FALSE, "CICCNI-POSTROUTING"),
  Rule("CICCNI-POSTROUTING", Paths, TRUE, "MASQUERADE"),
  Rule("CICCNI-FORWARD", Paths, FALSE, "ACCEPT")>>

\* Made unless ListChains has it.
EnsureChain(chains, c) ==
  [d \in DOMAIN chains \cup {c} |-> IF d \in DOMAIN chains THEN chains[d] ELSE <<>>]

\* Mutation: the rule is inserted before the others.
EnsureRuleFirst(chains, r) ==
  IF Contains(chains[r.chain], r) THEN chains
  ELSE [chains EXCEPT ![r.chain] = <<r>> \o @]

\* Appended unless it exists.
EnsureRule(chains, r) ==
  IF Contains(chains[r.chain], r) THEN chains
  ELSE [chains EXCEPT ![r.chain] = Append(@, r)]

-----------------------------------------------------------------------------
(* Packets the host forwards.                                              *)

Jumps(chains, from, to) ==
  to \in DOMAIN chains /\ \E r \in ToSet(chains[from]) : r.target = to

\* A rule of the target t in CICCNI-FORWARD is met on the path, with no
\* accepting rule before it.
Meets(chains, path, t) ==
  /\ Jumps(chains, "FORWARD", "CICCNI-FORWARD")
  /\ LET rules == chains["CICCNI-FORWARD"]
     IN  \E i \in DOMAIN rules :
           /\ rules[i].target = t /\ path \in rules[i].paths
           /\ \A j \in 1 .. i - 1 :
                ~(rules[j].target = "ACCEPT" /\ path \in rules[j].paths)

\* Whatever the policy of FORWARD is.
Accepted(chains, path) == Meets(chains, path, "ACCEPT")

Masqueraded(chains, path) ==
  /\ Jumps(chains, "POSTROUTING", "CICCNI-POSTROUTING")
  /\ \E r \in ToSet(chains["CICCNI-POSTROUTING"]) :
       r.target = "MASQUERADE" /\ (r.marked => Meets(chains, path, "MARK"))
=============================================================================
