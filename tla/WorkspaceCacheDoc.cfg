CONSTANTS
  Kinds = {"commenter"}
  Readers = {r1, r2}
  Studies = {w1, w2}
  First = w1
  Addresses = {1, 2}
  Slots = {1}
  MaxEvents = 1
SPECIFICATION CacheSpec
INVARIANT NoStaleEntries
