CONSTANTS
  p1 = p1
  n1 = n1
  n2 = n2
  Pods = {p1}
  Nodes = {n1, n2}
  Faults = {"ovsdb", "api", "rules", "link", "switch", "crash"}
  Resets = TRUE
  MaxFaults = 3
SPECIFICATION FairSpec
INVARIANTS
  TypeOK
  ServingIsWired
  CacheInPorts
  NoStaleNodeFlows
PROPERTIES
  ServesAgain
