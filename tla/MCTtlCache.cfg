SPECIFICATION CacheSpec
CONSTANTS
  Keys = {k1, k2, k3}
  Values = {v1, v2}
  NoValue = NoValue
  Capacity = 2
  Ttl = 2
  MaxInstant = 5
INVARIANTS
  CacheTypeOK
  OrderMatchesEntries
  Bounded
PROPERTIES
  LiveLossJustified
  ImplementsLruCache
