CONSTANTS
  Row = {1}
  Rack = {r1}
  Conn = {c1, c2}
  Editor = {e1}
  None = None
  MaxVersion = 2
  MaxMinted = 3
  MaxBorn = 1
  MaxFaults = 2
  DiskFaults = {"cache", "link"}
  Unusable = {1}
  Unservable = {}
  Abroad = {2}
  Unclocked = {}
SPECIFICATION FairSpec
CHECK_DEADLOCK FALSE
INVARIANTS TypeOK AckInv AckTruth InStep NothingLost OneSocketPerRow
PROPERTIES Converges
