CONSTANTS
  Keys = {1, 2}
  Values = {0, 1, 2, 3}
  Absent = Absent
  Untouched = Untouched
  Txns = {s1, s2}
  Names = {}
  Lower <- MCLower
  Engine = FALSE
  MaxLog = 3
  MaxMarks = 0
  MaxHistory = 3
  MySql = TRUE
  Isolations = {"RR"}
  DefaultLevel = "RR"
  Works <- MySqlWorks
  DDL = DDL
  Killers = {}
  MaxUpdates = 3
SPECIFICATION GSpec
SYMMETRY Symmetry
INVARIANTS LocksCoverBuffers IdleSessionsHoldNothing
CHECK_DEADLOCK FALSE
