SPECIFICATION CorpusSpec
CONSTANTS
  j1 = j1
  j2 = j2
  v1 = v1
  v2 = v2
  Videos = {v1, v2}
  Feed <- MCFeed
  Channel = {v1}
  Stubs = {v2}
  Jobs = {j1, j2}
  Editors = {e1}
  EnrichCap = 0
  MaxRuns = 3
  MaxLayers = 2
  MaxStrand = 1
  EchoJobs = {w1, w2}
  Researchers = {r1}
  MaxLayersTotal = 2
  MaxCalls = 2
INVARIANTS TablesSound LedgerExplained EchoSound
PROPERTIES ProvenanceKept CrawlEnds
CHECK_DEADLOCK FALSE
