SPECIFICATION Spec
SYMMETRY Symmetry
CONSTANTS
  BitsPerByte = 2
  Keys = {k1, k2}
  Names = {"a", "b", "c"}
  Types = {"Int32", "Int64", "Text"}
  MaxColumns = 3
  MaxAlters = 3
  MaxTears = 1
  Radix = 6
  BatchSize = 1
  Clients = {c1, c2}
  RowKeys = {r1, r2}
  None = None
  MaxTruncates = 1
  MaxQueries = 2
  MaxBatchRows = 2
  MaxBatchEntries = 8
  MaxChanges = 2
INVARIANTS
  RowsReadBack
  SelectsMatchSql
  WritesHitFirstRows
  OverlappingWritesConflict
  RangesAreExact
  LikeIsSplitting
  PushdownsMatchSql
  TopNIsTheSortedWindow
  AggregatesMatchSql
  QueriesSeeTheTable
  ChunksMatchRows
  CopyStoresFirstLines
  CopyKeepsUnique
  JoinsFindOneRow
  ListingsFailOnlyOnDrops
CHECK_DEADLOCK FALSE
