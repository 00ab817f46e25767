SPECIFICATION Spec
CONSTANTS
  NormalAdvantage = 2
  MaxPid = 3
  MaxRef = 2
  Capacity = 1
  Reductions = 1
  DlqCapacity = 1
  DestroyRetries = 1
  MaxInFlight = 0
  MaxQueue = 1
  Reserve = 0
  Callbacks = {"Stop", "Spawn"}
  Bridges = {FALSE}
  ExternalRouting = TRUE
  Hooked = FALSE
  HostOps = {"Spawn", "Send", "Monitor", "Demonitor", "Terminate", "Tick"}
  HostPriorities = {"Normal"}
  HostTraps = {TRUE, FALSE}
  Reasons = {"Custom"}
INVARIANTS
  TypeOK
  ExitSignals
  MonitorsKept
