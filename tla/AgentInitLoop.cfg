CONSTANTS
  p1 = p1
  n1 = n1
  n2 = n2
  Pods = {p1}
  Nodes = {n1, n2}
  Faults = {"crash"}
  Resets = FALSE
  MaxFaults = 1
SPECIFICATION FairSpec
PROPERTIES
  ServesAgain
