SPECIFICATION RestartSpec
CONSTANTS
  j1 = j1
  j2 = j2
  v1 = v1
  v2 = v2
  Videos = {v1, v2}
  Feed <- MCFeed
  Channel = {v1}
  Stubs = {v2}
  Jobs = {j1}
  Editors = {}
  EnrichCap = 0
  MaxRuns = 2
  MaxLayers = 2
  MaxStrand = 1
PROPERTIES StaleRunsFailed
CHECK_DEADLOCK FALSE
