CONSTANTS
  None = None
  Device <- MCDevice
  Boot <- MCBoot
  Config <- MCDrop
  Edition = {"cpu", "clock"}
  Slot = {1, 2}
  Worker = {1, 2, 3}
  MaxRestarts = 1
  MaxPushes = 1
  MaxSignals = 1
  MayRefuse = {"apply", "tick"}
  EarlyPush = FALSE
SPECIFICATION Spec
CHECK_DEADLOCK FALSE
INVARIANTS TypeOK NoneLit OneDrawer
