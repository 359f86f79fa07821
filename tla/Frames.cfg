SPECIFICATION FairSpec
CHECK_DEADLOCK FALSE
CONSTANTS
  r1 = r1
  s1 = s1
  s2 = s2
  None = None
  Rack = {r1}
  Screen = {s1, s2}
  Tab = {t1, t2}
  Configured <- MCConfigured
  QueueSize = 2
  AddInGreeting = FALSE
  ReuseIds = FALSE
  MaxClicks = 4
  MaxFaults = 1
INVARIANTS TypeOK Informed StreamsWatched
PROPERTIES Settles
