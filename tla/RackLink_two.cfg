CONSTANTS
  Row = {1, 2}
  Rack = {r1}
  Conn = {c1, c2}
  Editor = {e1}
  None = None
  MaxVersion = 2
  MaxMinted = 4
  MaxBorn = 1
  MaxFaults = 1
  DiskFaults = {"link"}
  Unusable = {}
  Unservable = {0}
  Abroad = {}
  Unclocked = {2}
SPECIFICATION Spec
CHECK_DEADLOCK FALSE
INVARIANTS ClaimIsOwn
SYMMETRY Symmetry
