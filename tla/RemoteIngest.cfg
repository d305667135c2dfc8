SPECIFICATION Spec
CONSTANTS
  Buckets = {"b1", "b2"}
  Keys = {1, 2, 3, 4}
  Prefixed = {2, 3, 4}
  Unsupported = {3}
  BadURI <- MCBadURI
  Blank = 0
  None = "none"
  Requests <- MCRequests
  Stores <- MCStores
  Faults = {"err", "lost", "change"}
INVARIANTS TypeOK AskedIsIndexed TasksAreFiles CountersAgree
CHECK_DEADLOCK FALSE
