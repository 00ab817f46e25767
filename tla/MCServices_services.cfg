SPECIFICATION SuiteSpec
CONSTANTS
  Subjects = {"mailbox", "dets", "ets", "checkpoints", "behaviors", "cluster", "releases",
              "hotcode", "http", "mcp", "swarm", "llm", "daemon"}
  Msg = {"a", "b"}
  MaxSeq = 4
  FaultPlans <- Plans
  DKey = {"k", "l"}
  DValue = {"1", "2", "null"}
  DCaller = {"p", "q"}
  DOwner = "p"
  DAccess = {"Public", "Private"}
  MaxEntries = 1
  CompactThreshold = 2
  MaxDetsOps = 3
  EPid = {"p", "q", "r"}
  EKey = {"k", "l"}
  EValue = {"1"}
  MaxTables = 2
  MaxTableSize = 1
  MaxTableId = 2
  CKey = {"a/b", "a_b", "c"}
  CPath = {"a_b", "c"}
  FileName <- Names
  CThread = {"s", "t"}
  CStores = {"memory", "file", "sqlite"}
  Ttl = 1
  MaxTime = 2
  MaxSaves = 3
  HandlerId = {"a", "b"}
  MaxHandlers = 3
  MaxGenMessages = 2
  Partitions = 2
  ClusterMailbox = 2
  MaxClusterPids = 3
  MaxClusterEvents = 5
  Item = {"i", "j", "c", "d"}
  ConfigKey = {"c", "d"}
  Manifest <- Manifests
  MaxReleases = 3
  MaxHistory = 1
  HotPid = {1, 2}
  HotVersion = {"v1", "v2"}
  MaxRegistered = 3
  HttpClient = {"c", "d"}
  HttpPid = {"p"}
  SessionTimeout = 1
  MaxHttpMail = 1
  MaxHttpCalls = 3
  MaxHttpClock = 2
  McpPid = {"p", "q"}
  McpTimeout = 1
  MaxMcpSessions = 2
  MaxMcpClock = 4
  SwarmStep = {"s1", "s2", "s3"}
  Nowhere = "nowhere"
  LlmAgent = {"a", "b"}
  CheckpointEvery = 2
  MaxLlmMessages = 3
  ConfigFile <- Files
  ChannelSize = 1
  MaxEdits = 2
INVARIANTS
  NothingLost
  StoresKept
  UpgradesUndoable
  ListenerOwnsSession
  DagRunsInOrder
  ConversationKept
  NoStrayAgent
PROPERTIES
  PermanentStays
  DetsImplementsDisk
  NotifyRemovesAskers
  ClusterRoutes
  CallsSound
  ServicesSettle
CHECK_DEADLOCK FALSE
