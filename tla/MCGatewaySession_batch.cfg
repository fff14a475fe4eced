CONSTANTS
  Keys = {1}
  Values = {0, 1, 2}
  Absent = Absent
  Untouched = Untouched
  Txns = {s1, s2}
  Names = {}
  Lower <- MCLower
  Engine = FALSE
  MaxLog = 2
  MaxMarks = 0
  MaxHistory = 2
  MySql = FALSE
  Isolations = {"RC"}
  DefaultLevel = "RC"
  Works <- Batches
  DDL = DDL
  Killers = {}
  MaxUpdates = 2
SPECIFICATION GSpec
SYMMETRY Symmetry
PROPERTIES BatchErrorRollsBack
