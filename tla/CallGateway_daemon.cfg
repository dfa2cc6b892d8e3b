\* No console (standard input is closed, as under systemd) and no re-INVITEs.
SPECIFICATION Spec
CONSTANTS
  c1 = c1  c2 = c2
  s1 = s1  s2 = s2  s3 = s3  s4 = s4
  p1 = p1  p2 = p2  p3 = p3
  w1 = w1  w2 = w2
  None = None
  CallId = {c1, c2}
  Session = {s1, s2, s3, s4}
  Port = {p1, p2, p3}
  Worker = {w1, w2}
  WorkerOf <- TwoWorkers
  MaxCalls = 2
  Reinvite = FALSE
  Operator = FALSE
SYMMETRY CallSymmetry
INVARIANTS
  PortsHaveOwners
  RegistryMapsAgree
  AnsweredCallsAreReachable
