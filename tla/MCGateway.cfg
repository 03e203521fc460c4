SPECIFICATION MCSpec
CONSTANTS
  Kinds = {"a", "b"}
  MaxBacklog = 2
  MaxTraffic = 4
  ToolCalls = {"t"}
  Requests = {"r"}
  Parents = {"p", "q"}
  MaxTasks = 2
  EventLimit = 6
  NoOne = NoOne
  Rows = {"tasks", "short", "restart"}
  RestartRow = "restart"
  ChildrenOf <- MCChildrenOf
  RowBudget <- MCRowBudget
  LiveEvents <- MCLiveEvents
  ControlLimit = 2
  DrainLimit = 2
  MaxIds = 5
  MaxRestarts = 1
  MaxFiles = 2
  MaxCalls = 3
  CaseBudgets = {0, 1, 4}
  MaxFaulty = 2
  MaxForeign = 2
  MaxDelegations = 2
  MaxDeliveries = 2
  MaxTranscript = 5
INVARIANTS
  GatewayTypeOK
  ClientKeepsItsTraffic
  ObserverFailsClosed
  SessionHolds
  TrialHolds
  LocalPassIsExact
  CaseHolds
  LocalTrialHolds
PROPERTIES
  GatewayEnds
  WorkspaceIsFenced
CHECK_DEADLOCK FALSE
