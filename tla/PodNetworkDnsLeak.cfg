CONSTANTS
  c1 = c1
  c2 = c2
  c3 = c3
  p1 = p1
  p2 = p2
  None = None
  Containers = {c1, c3}
  Pods = {p1, p2}
  CoreDNS = {p1}
  Dels = {d1}
  IPs = {a1, a2}
  OFPorts = {1, 2}
  Faults = {}
  PodOf <- MCPodOf
  NameOf <- MCNameOf
SPECIFICATION Spec
SYMMETRY Symmetric
\* A container ID is used once: the instance ends when all of them are gone.
CHECK_DEADLOCK FALSE
INVARIANTS
  DnsFlowsForDnsOnly
