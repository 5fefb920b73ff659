CONSTANTS
  Jobs = {j1}
  Killers = {k1, k2}
  Taggers = {t1}
  NoJob = NoJob
  Nobody = Nobody
  Watchdog = Watchdog
  MaxWorkers = 1
  MaxKills = 2
  StoreMayFail = TRUE
  MayOverrun = TRUE
  Requests = {"cancel", "pause", "resume", "shutdown"}
SPECIFICATION Spec
SYMMETRY JobSymmetry
CHECK_DEADLOCK FALSE
INVARIANTS StatusTellsThread RequestHonoured RowSettles
PROPERTY ImplementsLifecycle
