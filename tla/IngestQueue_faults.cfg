CONSTANTS
  Jobs <- TwoJobs
  NFiles <- TwoAndOne
  Chunks <- OwnChunks
  ChunkOf <- OwnChunkOf
  Keyed <- FirstKeyed
  Workers = {w1, w2}
  Procs = {p1}
  ProcOf <- OneProcess
  ApiMeta = TRUE
  WorkerMeta = TRUE
  ES = TRUE
  Faults = {"err", "lost", "crash"}
  None = None
SPECIFICATION Spec
SYMMETRY WorkerSymmetry
INVARIANTS
  TypeOK
  SucceededIsIndexed
  WorkIsWritten
  SucceededIsCounted
  CountersTrailTasks
  PayloadUntilIndexed
