SPECIFICATION SuiteFairSpec
CONSTANTS
  Subjects = {"queues", "pool", "agents", "limiter", "mcp"}
  NormalAdvantage = 8
  Pid = {1, 2}
  MaxQueue = 1
  BPid <- Pids
  Setups <- AllSetups
  RequestQueueSize = 1
  ResponseQueueSize = 1
  MaxPrompts = 3
  Provider = {"host"}
  RlThread = {1, 2, 3}
  RlLimits <- Limits
  MaxSets = 2
  McAgent = {"p"}
  McServer = 2
  McCaller = {1, 2, 3}
  McOps = {"tools", "call", "try", "close", "shutdown"}
  MaxSession = 2
INVARIANTS
  LowBypassBounded
  RequestsAccounted
  
  WindowRespected
  SessionsSound
PROPERTIES
  LowEventuallyTaken
  
CHECK_DEADLOCK FALSE
