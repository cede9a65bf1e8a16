SPECIFICATION FairClientSpec
CONSTANTS
  Tasks = {t1, t2}
  Blocked = {}
  ClientQueries <- OneKeyQueries
  Rejected <- EmptyQueries
  Embedded = FALSE
  Sizes = {3, 7}
  MaxFetches = 2
  NoValue = NoValue
  Capacity = 0
  Ttl = 1
  MaxInstant = 1
PROPERTY SearchReturns
