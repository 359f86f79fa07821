CONSTANTS
  None = None
  Device <- MCDevice
  Boot <- MCBoot
  Config <- MCChange
  Edition = {"cpu", "clock"}
  Slot = {1, 2}
  Worker = {1}
  MaxRestarts = 0
  MaxPushes = 1
  MaxSignals = 1
  MayRefuse = {}
  EarlyPush = TRUE
SPECIFICATION Spec
CHECK_DEADLOCK FALSE
INVARIANTS NoneLit
