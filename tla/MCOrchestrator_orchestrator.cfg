SPECIFICATION OrchFairSpec
CONSTANTS
  TaskId <- Ids
  Unnamed <- NoName
  Configs <- AllConfigs
  Goal = {"g"}
  MaxConcurrency = 2
  MaxTurns = 2
  MaxWorker = 5
  MaxRequests = 2
INVARIANTS
  PlanKept
PROPERTIES
  ResultsOnce
  
CHECK_DEADLOCK FALSE
