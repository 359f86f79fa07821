CONSTANTS
  Row = {1}
  Rack = {r1}
  Conn = {c1, c2}
  Editor = {e1}
  None = None
  MaxVersion = 1
  MaxMinted = 4
  MaxBorn = 2
  MaxFaults = 0
  DiskFaults = {}
  Unusable = {}
  Unservable = {}
  Abroad = {}
  Unclocked = {}
SPECIFICATION Spec
CHECK_DEADLOCK FALSE
INVARIANT AppliedByOwnRack
