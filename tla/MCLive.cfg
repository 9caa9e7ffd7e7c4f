CONSTANTS
  Parts = {"reply", "orders"}
  r1 = r1
  w1 = w1
  w2 = w2
  noWorker = noWorker
  Commands <- MCCommands
  Workers <- MCWorkers
  None = noWorker
  MaxAttempts = 2
  Environments <- Settling
  MaxSequence = 1
  Connections = {w1}
  SendBuffer = 1
  ResumeLimit = 1
  RealtimeScenes <- CalmRealtime
  Users = {u1}
  Recharges = {o1, o2}
  Payers = {q1}
  CronWorkers = {c1}
SPECIFICATION LiveSpec
PROPERTIES EveryReplySettles OrdersSettle
