CONSTANTS
  Jobs <- TwoJobs
  NFiles <- TwoAndOne
  Chunks <- SharedChunks
  ChunkOf <- SharedChunkOf
  Keyed <- FirstKeyed
  Workers = {w1, w2}
  Procs = {w1, w2}
  ProcOf <- OwnProcess
  ApiMeta = TRUE
  WorkerMeta = TRUE
  ES = TRUE
  Faults = {"lost", "shutdown"}
  None = None
SPECIFICATION Spec
INVARIANTS
  SingleDelivery
PROPERTIES
  RowFinal
  TaskFinal
  KeepsLifecycle
