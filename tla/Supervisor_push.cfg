CONSTANTS
  None = None
  Device <- MCDevice
  Boot <- MCBoot
  Config <- MCPush
  Edition = {"cpu", "clock"}
  Slot = {1, 2, 3}
  Worker = {1, 2, 3}
  MaxRestarts = 0
  MaxPushes = 1
  MaxSignals = 1
  MayRefuse = {"apply", "tick"}
  EarlyPush = FALSE
SPECIFICATION FairSpec
CHECK_DEADLOCK FALSE
INVARIANTS ShutOnce Coherent OneOpenPerDevice OpenGuarded
PROPERTIES Stops
