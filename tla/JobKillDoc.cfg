CONSTANTS
  Jobs = {j1}
  Killers = {k1}
  Taggers = {}
  NoJob = NoJob
  Nobody = Nobody
  Watchdog = Watchdog
  MaxWorkers = 1
  MaxKills = 1
  StoreMayFail = FALSE
  MayOverrun = FALSE
  Requests = {}
SPECIFICATION Spec
CHECK_DEADLOCK FALSE
PROPERTY NoResurrection
