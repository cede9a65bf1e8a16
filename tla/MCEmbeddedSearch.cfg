SPECIFICATION SearchSpec
CONSTANTS
  Blocked = {"blocked"}
  Queries <- MCQueries
  Urls = {"u", "v"}
  Pages <- MCPages
  PageLimit <- MCPageLimit
  BlockedText = {2, 3}
  AllowedText = {3}
INVARIANTS
  CoverageMatchesContacts
  FailsOnlyWhenAllFail
  MergedFaithfully
  FilterTellsTheTruth
PROPERTIES
  EndsWithoutWeb
