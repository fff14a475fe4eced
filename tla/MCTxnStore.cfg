CONSTANTS
  Engine = FALSE
  Keys = {1, 2}
  Values = {v}
  Absent = Absent
  Untouched = Untouched
  Txns = {t1, t2}
  Names = {"a", "A", "b"}
  Lower <- MCLower
  MaxLog = 2
  MaxMarks = 2
  MaxHistory = 2
SPECIFICATION StoreSpec
INVARIANTS TypeOK BuffersReplayTheLog StoreReplaysCommits ScansMergePending
PROPERTIES RepeatableReads
SYMMETRY Symmetry
