SPECIFICATION FairSpec
CONSTANTS
  Original = "q"
  Answers <- MCAnswers
  Blank = "_"
  Fence = "fence"
  JSONLines = {"json", "empty", "blank", "cut"}
  QueriesOf <- MCQueriesOf
  Lower <- MCLower
  Keyless = {"q3"}
  VectorRanks <- MCVectorRanks
  EntityRanks <- MCEntityRanks
  TopKs = {1, 2, 4}
  MaxPaths = 3
  PathCap = 3
  MergedCap = 9
  Faults = {"err", "gone"}
  None = "none"
INVARIANTS TypeOK AnswerIsMerge SourcesAreTrue StreamedAreSearched OneOutcome ErrorIsCause NothingOutlives
PROPERTIES SearchEnds
CHECK_DEADLOCK FALSE
