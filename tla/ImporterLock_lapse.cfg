CONSTANTS
  Procs = {p1, p2, p3}
  TTL = 3
  MaxMisses = 2
  Faults = {"err", "lost", "crash", "stall"}
  None = None
SPECIFICATION FairSpec
PROPERTIES
  OwnLockOnly
  LockFreed
