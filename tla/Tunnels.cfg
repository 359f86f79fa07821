\* Two tunnels, one after the other on one port, whose processes, starts or
\* probes fail twice.
SPECIFICATION FairSpec
CHECK_DEADLOCK FALSE
CONSTANTS
  Tunnel = {t1, t2}
  Process = {p1, p2, p3}
  Reaper = Reaper
  Stopper = Stopper
  None = None
  MaxFaults = 2
INVARIANTS TypeOK NoOrphan OneForward
PROPERTIES Settles
