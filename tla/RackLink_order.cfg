CONSTANTS
  Row = {1, 2}
  Rack = {r1, r2}
  Conn = {c1, c2}
  Editor = {e1, e2}
  None = None
  MaxVersion = 2
  MaxMinted = 4
  MaxBorn = 1
  MaxFaults = 0
  DiskFaults = {}
  Unusable = {}
  Unservable = {}
  Abroad = {}
  Unclocked = {}
SPECIFICATION Spec
CHECK_DEADLOCK FALSE
INVARIANT PushesInOrder
SYMMETRY Symmetry
