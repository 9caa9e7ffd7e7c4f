CONSTANTS
  Parts = {"realtime"}
  r1 = r1
  w1 = w1
  w2 = w2
  noWorker = noWorker
  Commands <- MCCommands
  Workers <- MCWorkers
  None = noWorker
  MaxAttempts = 2
  Environments <- Refusing
  MaxSequence = 2
  Connections = {w1, w2}
  SendBuffer = 1
  ResumeLimit = 1
  RealtimeScenes <- CalmRealtime
SPECIFICATION MCSpec
SYMMETRY MCSymmetry
INVARIANTS DeferredIsResumed
