CONSTANTS
  Jobs <- OneJob
  NFiles <- TwoAndOne
  Chunks <- SharedChunks
  ChunkOf <- SharedChunkOf
  Keyed <- FirstKeyed
  Workers = {w1, w2}
  Procs = {p1}
  ProcOf <- OneProcess
  ApiMeta = TRUE
  WorkerMeta = TRUE
  ES = TRUE
  Faults = {"err", "resend", "shutdown"}
  None = None
SPECIFICATION FairSpec
INVARIANTS
  SucceededIsIndexed
PROPERTIES
  JobPutDown
