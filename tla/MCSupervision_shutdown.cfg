SPECIFICATION SupSpec
CONSTANTS
  NormalAdvantage = 2
  MaxPid = 2
  MaxRef = 0
  Capacity = 1
  Reductions = 1
  DlqCapacity = 1
  DestroyRetries = 1
  MaxInFlight = 0
  MaxQueue = 1
  Reserve = 1
  Callbacks = {"Stop"}
  Bridges = {FALSE}
  ExternalRouting = FALSE
  Hooked = FALSE
  HostOps = {"Send", "Shutdown", "Tick"}
  HostPriorities = {"Normal"}
  HostTraps = {FALSE}
  Reasons = {"Normal", "Custom"}
  MaxRestarts = 1
  InitMayFail = FALSE
  NumSup = 1
  Specs <- OneChild
INVARIANTS
  ShutdownLeavesNothing
