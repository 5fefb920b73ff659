CONSTANTS
  t1 = t1
  Tasks = {t1, t2}
  Workers = {w1, w2}
  NoTask = NoTask
  Kinds <- MCKinds
  Kind <- MCKind
  Priority <- MCPriority
  MayShutdown = TRUE
  MayCancel = TRUE
  Threads = {b1, b2}
  Baselines = {0, 2}
  Start = 2
  Costs = {1, 2}
  FloorDiv = 2
  CeilingMul = 4
  Keep = 50
  IncreaseInterval = 1
  AimdCooldown = 2
SPECIFICATION MCSpec
CHECK_DEADLOCK FALSE
INVARIANTS CalledOnce NoLostWakeup CountsMatch SlotsDisjoint DriftBounded
PROPERTIES AnsweredWhileRunning WorkersExit BackoffHeld FedIfUntuned
