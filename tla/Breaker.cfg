CONSTANTS
  Threads = {t1, t2, t3}
  Keys = {"default", "proxy"}
  SessionKey = "default"
  FailureKey = "default"
  FailureThreshold = 2
  SuccessThreshold = 2
  Cooldown = 2
  MayReset = TRUE
  Fetches = {q1, q2}
  QueueWorkers = 1
  Contexts = 1
  Attempts = 2
  Threshold = 1
SPECIFICATION MCSpec
INVARIANTS HeldWhileOpen SessionFailuresOpen FetchSound
PROPERTY CallsProceed
