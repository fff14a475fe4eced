SPECIFICATION Spec
CONSTANTS
  Sessions = {s1}
  Places <- MCPlaces
  Tables = {"t", "u"}
  Others = {"t"}
  Locking = TRUE
  MaxStatements = 4
  MaxFaults = 1
  MaxKey = 1
INVARIANTS
  NamesAreExclusive
  RemovedRowsStayGone
  AcknowledgedRowsAreFound
  CatalogIsConsistent
CHECK_DEADLOCK FALSE
