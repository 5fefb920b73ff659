SPECIFICATION Spec
CONSTANTS
  Threads = {t1, t2}
  Clients = {c1}
  QueueMax = 2
  MaxChanges = 3
  Tasks = {k1, k2}
  Readers = {c1}
  MaxCancels = 1
  Callers = {c1, c2}
  Ids = {k1, k2}
  MaxBatches = 2
  MaxRetries = 2
  Embedders = {t1, t2}
  Window = 3
  MaxRequests = 1
  MaxTokens = 2
  MaxOwed = 3
  NumVideos = 4
  NumCommunities = 2
  MaxPerCommunity = 4
  MaxTranscripts = 3
  MaxPairs = 2
  FetchBudget = 2
  MaxSweeps = 3
INVARIANTS StreamSound AgentSound AnswerTrue RatesKept SampleSound
PROPERTIES ViewersServed EmbeddingSettles
CHECK_DEADLOCK FALSE
