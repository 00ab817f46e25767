SPECIFICATION FairSpec
CONSTANTS
  NormalAdvantage = 2
  MaxPid = 2
  MaxRef = 0
  Capacity = 1
  Reductions = 1
  DlqCapacity = 1
  DestroyRetries = 2
  MaxInFlight = 1
  MaxQueue = 1
  Reserve = 0
  Callbacks = {"Io", "Stop"}
  Bridges = {TRUE}
  ExternalRouting = FALSE
  Hooked = FALSE
  HostOps = {"Spawn", "Send", "Timeout", "Enqueue", "Tick"}
  HostPriorities = {"Normal"}
  HostTraps = {FALSE}
  Reasons = {"Normal"}
PROPERTIES
  RunnableGetsTurn
  TicksResolve
