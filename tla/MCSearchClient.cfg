SPECIFICATION ClientSpec
CONSTANTS
  Tasks = {t1, t2}
  Blocked = {}
  ClientQueries <- KeyQueries
  Rejected = {}
  Embedded = TRUE
  Sizes = {7}
  MaxFetches = 2
  NoValue = NoValue
  Capacity = 1
  Ttl = 1
  MaxInstant = 2
SYMMETRY Symmetry
INVARIANTS
  AnswersOwnSelection
  RepliesFromWholeResponses
  ClearedStaysGone
  NoNeedlessFetch
