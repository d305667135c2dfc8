CONSTANTS
  Procs = {p1, p2, p3}
  TTL = 6
  MaxMisses = 1
  Faults = {"err", "lost", "crash"}
  None = None
SPECIFICATION Spec
SYMMETRY ProcSymmetry
INVARIANTS
  TypeOK
  SingleImporter
