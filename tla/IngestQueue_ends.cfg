CONSTANTS
  Jobs <- TwoJobs
  NFiles <- TwoAndOne
  Chunks <- OwnChunks
  ChunkOf <- OwnChunkOf
  Keyed <- FirstKeyed
  Workers = {w1, w2}
  Procs = {p1}
  ProcOf <- OneProcess
  ApiMeta = TRUE
  WorkerMeta = TRUE
  ES = TRUE
  Faults = {"expire"}
  None = None
SPECIFICATION FairSpec
PROPERTIES
  AcceptedEnds
