CONSTANTS
  r1 = r1
  r2 = r2
  r3 = r3
  peer = peer
  pod = pod
  pod2 = pod2
  net = net
  Rules = {r1, r3}
  Direction = "ingress"
  Values = {peer, pod, pod2, net}
  MaxContexts = 3
  Faults = {}
  Sticky = {pod}
  Shape <- MCShape
  Excepts <- MCExcepts
  Covers <- MCCovers
  Matchable <- MCMatchable
SPECIFICATION Spec
INVARIANTS
  OneContextPerFlow
