CONSTANTS
  Legacy = Legacy
  Workspaces = {Legacy, w1}
  NoWs = NoWs
  Jobs = {j1}
  NoJob = NoJob
  Requests = {r1}
  Taggers = {}
  MayTear = TRUE
  MayCrash = TRUE
  Admins = {a1, a2}
  New = {n1, n2}
  Names = {"Legacy", "Study"}
  MaxCalls = 3
  MaxEnds = 1
  Kinds = {"graph", "overlap", "commenter", "analytics"}
  Readers = {a1, a2}
  Studies = {Legacy, w1}
  First = Legacy
  Addresses = {1, 2}
  Slots = {1}
  MaxEvents = 2
SPECIFICATION MCSpec
INVARIANTS BindingAgrees LiveRowOwned RegistrySound CachesSound
PROPERTIES OwnedRowSpared PhantomHealed
