SPECIFICATION Spec
CONSTANTS
  Workers = {"w1", "w2", "w3"}
  Starters = {"importer"}
  Procs = {"p1", "p2"}
  ProcOf <- MCProcOf
  RowsOf <- MCRowsOf
  BadEnd = {"w1"}
  PartitionOf <- MCPartitionOf
  Default = "_default"
  Ids = {"a", "b", "c", "e", "f", "g"}
  MaxBatch = 3
  EmbedBatch = 2
  InsertBatch = 2
  ES = TRUE
  Faults = {"err", "lost", "exists", "drop", "dropAnytime"}
  None = "none"
INVARIANTS TypeOK OneEnsures FlagIsHonest WrittenIsStored EntityHasVector DropIsHealed
CHECK_DEADLOCK FALSE
