SPECIFICATION CommandSpec
CONSTANTS
  Calls <- AllCalls
  DefaultLimit = 2
  CompileWhere <- CompileTokens
  ValueWhere <- EvalCells
  Self = self
  Writers = {self, other}
  Output = output
  TempNames = {tmp1, tmp2}
  Before = before
  Blocks = 2
  Tries = 2
  Words = {"a", "b", "c", "true", "false", "length", "i"}
  Digits = {"0", "1", "2"}
  Flags = {"i"}
  NaN = nan
  Reads <- ReadsOf
  ByteOrder <- InByteOrder
  Lengths <- LengthsOf
  Matching <- MatchingOf
  NameLetters = {"x", "y"}
  Figures = {"1"}
  Signs = {":"}
  Foreign = {"foreign"}
  OutlineMost = 3
  WordLength = 1
  ProseScore = 2
INVARIANTS
  EachShownOnce
  OmissionsAnnounced
  HintsLeadOn
  OutputWhole
  FailureLeavesNothing
  CompiledMeansGrammar
  ComparisonsAgree
  RendersExactly
  ClutterHasNoInfluence
  LocatedSelects
CHECK_DEADLOCK FALSE
