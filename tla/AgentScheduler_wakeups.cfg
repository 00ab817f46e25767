SPECIFICATION Spec
CONSTANTS
  NormalAdvantage = 2
  MaxPid = 2
  MaxRef = 0
  Capacity = 2
  Reductions = 3
  DlqCapacity = 1
  DestroyRetries = 1
  MaxInFlight = 1
  MaxQueue = 1
  Reserve = 0
  Callbacks = {"Continue", "Send", "Io", "Panic", "Spawn"}
  Bridges = {TRUE, FALSE}
  ExternalRouting = TRUE
  Hooked = TRUE
  HostOps = {"Spawn", "Send", "Timeout", "Shutdown", "Tick"}
  HostPriorities = {"Normal"}
  HostTraps = {FALSE}
  Reasons = {"Custom"}
INVARIANTS
  WakeupsReach
  ShutdownLeavesNothing
