CONSTANTS
  Keys = {1}
  Values = {0, 1, 2}
  Absent = Absent
  Untouched = Untouched
  Txns = {s1, s2}
  Names = {}
  Lower <- MCLower
  Engine = TRUE
  MaxLog = 2
  MaxMarks = 0
  MaxHistory = 2
  MySql = TRUE
  Isolations = {"RR"}
  DefaultLevel = "RR"
  Works <- MySqlWorks
  DDL = DDL
  Killers = {s1, s2}
  MaxUpdates = 2
SPECIFICATION GSpec
SYMMETRY Symmetry
INVARIANTS GTypeOK IdleStatusIsTrue
CHECK_DEADLOCK FALSE
