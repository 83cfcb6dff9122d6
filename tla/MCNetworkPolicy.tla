---------------------------- MODULE MCNetworkPolicy ----------------------------
(* Small instances of NetworkPolicy for TLC.                               *)
EXTENDS NetworkPolicy

CONSTANTS r1, r2, r3, peer, pod, pod2, net

\* r1 and r2 let traffic pass to one pod, r2 from nobody so far.  r3 denies all
\* to a pod of its own if that one's drop flow is sticky, else to theirs.
MCShape == [r \in Rules |-> IF r = r3 THEN {"to"} ELSE {"from", "to"}]
MCMatchable ==
  [r \in Rules |-> CASE r = r1 -> {<<"from", net>>, <<"to", pod>>}
                     [] r = r2 -> {<<"to", pod>>}
                     [] r = r3 -> {<<"to", IF pod2 \in Sticky THEN pod2 ELSE pod>>}]

\* r1 lets a subnet pass, except the peer in it.
MCExcepts == [r \in Rules |-> IF r = r1 THEN {<<"from", peer>>} ELSE {}]
MCCovers == {<<<<"from", net>>, <<"from", peer>>>>}

\* r2 lets the peer itself pass.
SubnetMatchable ==
  [r \in Rules |-> {<<"from", IF r = r1 THEN net ELSE peer>>, <<"to", pod>>}]
=============================================================================
