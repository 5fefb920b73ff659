CONSTANTS
  Jobs = {j1, j2}
  Killers = {k1}
  Taggers = {}
  NoJob = NoJob
  Nobody = Nobody
  Watchdog = Watchdog
  MaxWorkers = 1
  MaxKills = 1
  StoreMayFail = FALSE
  MayOverrun = TRUE
  Requests = {"cancel", "pause"}
SPECIFICATION ProgressSpec
CHECK_DEADLOCK FALSE
PROPERTIES StallsEnd KillFreesQueue JobsFinish
