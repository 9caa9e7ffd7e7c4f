CONSTANTS
  Parts = {"payment", "cron", "job", "notice", "export", "task", "index", "chat"}
  Users = {u1}
  Runs = {}
  Codes = {}
  Amounts = {1}
  Recharges = {o1}
  Owner <- OneOwner
  OrderUnits = 1
  MaxUnits = 2
  Requests = {q1, q2}
  Workers = {v1}
  Batch = 1
  Place <- OneOrder
  Deadline <- OneOrder
  Jobs = {o1, v1}
  Registered = {o1}
  Schedulers = {v1}
  MaxEdits = 3
  MaxCronFaults = 2
  Firings = {q1, q2}
  Hosts = {w1, w2}
  MaxTokens = 3
  MaxLeaseFaults = 1
  Notices = {o1}
  Audience = {q1, q2}
  Couriers = {w1, w2}
  MaxNoticeFaults = 3
  Exports = {o1}
  Exporters = {w1, w2}
  MaxExportFaults = 3
  Tasks = {1}
  Executors = {w1, w2}
  TaskKinds = {"image", "text"}
  MaxTaskRetry = 1
  MaxTaskFaults = 3
  Revisions = {1, 2}
  DocumentOf <- OneDocument
  MaxGeneration = 3
  Rebuilders = {w1, w2}
  Indexers = {q1, q2}
  MaxIndexRetry = 1
  ReconcileBatch = 2
  IndexScenes <- CalmIndex
  MaxTurns = 4
  TurnTokens <- ChatTokens
  MemoryBudget = 16
  PlanBudget = 16
  MaxMemories = 4
  Builders = {w1, w2}
  MaxBuildRetry = 1
  ChatScenes <- CalmChat
SPECIFICATION WorkSpec
SYMMETRY WorkSymmetry
INVARIANTS
  SettledTogether
  OneLiveFiring
  NotifiedOnce
  ExportToldOnce
  SettledWhole
  SearchableWhenReady
  MemoryIsCurrent
  PlanStaysTrue
PROPERTIES
  OutcomesAreFinal
  NoticeOutcomeStands
  RevisionsOnlyAdvance
CHECK_DEADLOCK FALSE
