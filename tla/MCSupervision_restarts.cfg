SPECIFICATION SupSpec
CONSTANTS
  NormalAdvantage = 2
  MaxPid = 7
  MaxRef = 0
  Capacity = 1
  Reductions = 1
  DlqCapacity = 1
  DestroyRetries = 1
  MaxInFlight = 0
  MaxQueue = 1
  Reserve = 2
  Callbacks = {}
  Bridges = {FALSE}
  ExternalRouting = FALSE
  Hooked = FALSE
  HostOps = {"Terminate"}
  HostPriorities = {"Normal"}
  HostTraps = {FALSE}
  Reasons = {"Normal", "Custom"}
  MaxRestarts = 1
  InitMayFail = TRUE
  NumSup = 2
  Specs <- EachStrategy
INVARIANTS
  ChildrenAccounted
PROPERTIES
  OneForOneIsolates
