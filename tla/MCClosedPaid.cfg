CONSTANTS
  Parts = {"payment"}
  Users = {u1}
  Runs = {}
  Codes = {}
  Amounts = {1}
  Recharges = {o1}
  Owner <- OneOwner
  OrderUnits = 1
  MaxUnits = 2
  Requests = {q1}
  Workers = {w1}
  Batch = 1
  Place <- OneOrder
  Deadline <- OneOrder
  Jobs = {o1, q1}
  Registered = {o1}
  Schedulers = {w1}
  MaxEdits = 3
  MaxCronFaults = 2
  Firings = {q1}
  Hosts = {w1}
  MaxTokens = 1
  MaxLeaseFaults = 0
  Notices = {o1}
  Audience = {u1}
  Couriers = {w1, w2}
  MaxNoticeFaults = 2
  Exports = {o1}
  Exporters = {w1}
  MaxExportFaults = 0
  Tasks = {1}
  Executors = {w1, w2}
  TaskKinds = {"text"}
  MaxTaskRetry = 1
  MaxTaskFaults = 1
  Revisions = {1, 2}
  DocumentOf <- OneDocument
  MaxGeneration = 3
  Rebuilders = {w1, w2}
  Indexers = {q1, q2}
  MaxIndexRetry = 1
  ReconcileBatch = 2
  IndexScenes <- CalmIndex
  MaxTurns = 4
  TurnTokens <- ChatTokens
  MemoryBudget = 16
  PlanBudget = 16
  MaxMemories = 4
  Builders = {w1}
  MaxBuildRetry = 1
  ChatScenes <- OneChat
SPECIFICATION WorkSpec
PROPERTIES
  PaidIsNotClosed
CHECK_DEADLOCK FALSE
