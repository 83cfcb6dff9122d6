CONSTANTS
  p1 = p1
  p2 = p2
  n1 = n1
  n2 = n2
  o1 = o1
  o2 = o2
  Pods = {p1, p2}
  DnsPods = {p1}
  Nodes = {n1, n2}
  Numbers = {o1, o2}
  Faults = {"rules", "switch", "link", "crash"}
  Resets = TRUE
  MaxFaults = 1
SYMMETRY Symmetry
SPECIFICATION Spec
INVARIANTS
  TypeOK
  NoAmbiguousMatch
  PodToPod
  PodToExternal
  DnsRepliesRewritten
PROPERTIES
  RewritingChanges
  ImplementsAgentInit
