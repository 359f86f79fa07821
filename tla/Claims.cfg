CONSTANTS
  Rack = {r1, r2}
  Name = {n1, n2}
  Hostnames <- MCHostnames
  Address = {a1}
  From <- MCOneAddress
  ClaimId = {i1, i2, i3}
  KeyPair = {p1, p2, p3}
  Key = {k1, k2, k3, k4}
  None = None
  Lifetime = 1
  Suppression = 2
  Window = 1
  MaxAttempts = 2
  MaxPending = 1
  MaxTrouble = 1
SPECIFICATION FairSpec
CHECK_DEADLOCK FALSE
INVARIANTS TypeOK Openable PairedIsKnown QueueSound
PROPERTIES Joins
