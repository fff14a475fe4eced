---------------------------- MODULE AccessPaths ----------------------------
(***************************************************************************)
(* How the fast path finds rows (plan_select, plan_update, plan_delete of  *)
(* dml_planner.rs, the scans of scans.rs, SelectRows of executor.rs,       *)
(* apply_update_rows and apply_delete_rows of mutations.rs) and what MySQL *)
(* mode locks for it (session_commands.rs).                                *)
(*                                                                         *)
(* The table has a primary key k and a column c with a secondary index or  *)
(* none.  It is a function from primary keys to rows; its keys and those   *)
(* of the index are bytes of module KeyFormat.                             *)
(***************************************************************************)
EXTENDS RowFilter, KeyFormat

CONSTANT BatchSize     \* rows of one batch of a filtered scan with a limit (256..4096)

ASSUME BatchAssumption == BatchSize \in Nat \ {0}

TableId == 1
IndexId == 2
NoLimit == -1

-----------------------------------------------------------------------------
(***************************************************************************)
(* Planning.                                                               *)
(***************************************************************************)

Access(path, filter) == [path |-> path, filter |-> filter]
RangeAccess(path, range, filter) ==
  [path |-> path, lower |-> range.lower, upper |-> range.upper, filter |-> filter]

\* extract_primary_key_in_filter: without NULLs and repetitions.
InKeys(list) ==
  FoldLeft(LAMBDA keys, v : IF v = NullValue \/ v \in Range(keys) THEN keys
                            ELSE Append(keys, v), <<>>, list)

\* The part both planners end with: index equality, index range, full scan.
PlanBySecondary(filter, indexed) ==
  IF indexed /\ filter.op = "=" /\ filter.column = "c"
    THEN [path |-> "SecondaryIndexLookup", key |-> filter.literal, filter |-> filter]
  ELSE IF indexed /\ ColumnRange(filter, "c").ok
    THEN RangeAccess("SecondaryIndexRangeScan", ColumnRange(filter, "c"), filter)
  ELSE Access("PrefixScan", filter)

\* plan_select.  A range on the primary key drops the filter.
PlanSelect(filter, indexed) ==
  IF filter.op = "=" /\ filter.column = "k"
    THEN [path |-> "PointLookup", key |-> filter.literal]
  ELSE IF filter.op = "in" /\ filter.column = "k" /\ ~filter.negated
    THEN [path |-> "PrimaryKeyInLookup", keys |-> InKeys(filter.list)]
  ELSE IF ColumnRange(filter, "k").ok
    THEN RangeAccess("PrimaryKeyRangeScan", ColumnRange(filter, "k"), NoFilter)
  ELSE PlanBySecondary(filter, indexed)

\* plan_update and plan_delete.
PlanWrite(filter, indexed) ==
  IF filter.op = "=" /\ filter.column = "k"
    THEN [path |-> "PointLookup", key |-> filter.literal]
  ELSE IF ColumnRange(filter, "k").ok
    THEN RangeAccess("PrimaryKeyRangeScan", ColumnRange(filter, "k"), filter)
  ELSE PlanBySecondary(filter, indexed)

-----------------------------------------------------------------------------
(***************************************************************************)
(* Scans.  A scan returns primary keys in the order it meets them.         *)
(***************************************************************************)

\* A bound as module KeyFormat has it.
KeyBound(b) == IF b.none THEN NoBound ELSE [value |-> b.value, inclusive |-> b.inclusive]

InKeyOrder(keys, KeyOf(_)) ==
  SortSeq(SetToSeq(keys), LAMBDA a, b : KeyLess(KeyOf(a), KeyOf(b)))

RowRange(lower, upper) == RowRangeBetween(TableId, 0, KeyBound(lower), KeyBound(upper))

\* The row keys of the table in a range, in key order.
RowsIn(table, range) ==
  InKeyOrder({k \in DOMAIN table : InRange(RowKey(TableId, 0, k), range)},
             LAMBDA k : RowKey(TableId, 0, k))

FirstOf(seq, n) == SubSeq(seq, 1, IF n < Len(seq) THEN n ELSE Len(seq))

\* The loop of all windowed scans: rows that match, the first `offset` of them
\* skipped, and a stop once `limit` are there; the test comes after the push, so
\* that LIMIT 0 keeps one row.
Collect(table, keys, filter, limit, offset) ==
  LET kept == SelectSeq(keys, LAMBDA k : RowMatches(table[k], filter))
      rest == SubSeq(kept, offset + 1, Len(kept))
  IN IF limit = NoLimit THEN rest ELSE FirstOf(rest, IF limit = 0 THEN 1 ELSE limit)

\* scan_v2_row_entries_by_pk_range_batched_at in a transaction: batches of
\* BatchSize rows, each starting after the last key of the one before.
CollectBatched(table, lower, upper, filter, limit, offset) ==
  LET batch(from) == FirstOf(RowsIn(table, RowRange(from, upper)), BatchSize)
      enough(found) == limit # NoLimit /\ found # <<>> /\ Len(found) >= limit
      add(keys, rows) ==
        [rows |-> rows, from |-> Bound(keys[Len(keys)], FALSE),
         done |-> \/ Len(keys) < BatchSize
                  \/ enough(Collect(table, rows, filter, limit, offset))]
      after(before, keys) == IF before.done \/ keys = <<>> THEN before
                             ELSE add(keys, before.rows \o keys)
      round[n \in 0..Cardinality(DOMAIN table)] ==
        IF n = 0 THEN [rows |-> <<>>, from |-> lower, done |-> FALSE]
        ELSE after(round[n - 1], batch(round[n - 1].from))
  IN Collect(table, round[Cardinality(DOMAIN table)].rows, filter, limit, offset)

\* scan_visible_row_entries_by_pk_range_at: without a filter the limit goes to the
\* store; with both, a visitor (no transaction) or batches.
ScanPkRange(table, inTxn, lower, upper, filter, limit, offset) ==
  LET from(all) == IF limit # NoLimit /\ filter = NoFilter THEN FirstOf(all, limit + offset)
                   ELSE all
  IN IF limit # NoLimit /\ filter # NoFilter /\ inTxn
       THEN CollectBatched(table, lower, upper, filter, limit, offset)
     ELSE Collect(table, from(RowsIn(table, RowRange(lower, upper))), filter, limit, offset)

\* scan_visible_row_entries_at, and the scan of a range without a window.
ScanAll(table, lower, upper, filter) ==
  SelectSeq(RowsIn(table, RowRange(lower, upper)), LAMBDA k : RowMatches(table[k], filter))

\* The entries of the index in a range, as primary keys in key order.
EntriesIn(table, range) ==
  LET key(k) == IndexEntryKey(IndexId, table[k]["c"], k)
  IN InKeyOrder({k \in DOMAIN table : InRange(key(k), range)}, key)

\* scan_index_row_entries_at
ScanIndex(table, value, filter) ==
  SelectSeq(EntriesIn(table, PrefixRange(IndexPrefix(IndexId, value))),
            LAMBDA k : RowMatches(table[k], filter))

\* value_in_bounds: what cannot be compared passes.
ValueInBounds(value, lower, upper) ==
  /\ ~lower.none => ~Less(value, lower.value) /\ (value = lower.value /\ value # NullValue
                                                    => lower.inclusive)
  /\ ~upper.none => ~Less(upper.value, value) /\ (value = upper.value /\ value # NullValue
                                                    => upper.inclusive)

\* scan_index_row_entries_by_range_at
IndexRange(lower, upper) ==
  LET prefix(b) == IndexPrefix(IndexId, b.value)
  IN [start |-> IF lower.none THEN IndexAllPrefix(IndexId)
                ELSE IF lower.inclusive THEN prefix(lower) ELSE NextPrefix(prefix(lower)),
      end |-> IF upper.none THEN NextPrefix(IndexAllPrefix(IndexId))
              ELSE IF upper.inclusive THEN NextPrefix(prefix(upper)) ELSE prefix(upper)]

ScanIndexRange(table, lower, upper, filter) ==
  SelectSeq(EntriesIn(table, IndexRange(lower, upper)),
            LAMBDA k : /\ ValueInBounds(table[k]["c"], lower, upper)
                       /\ RowMatches(table[k], filter))

\* read_visible_row_at and read_visible_rows_by_pk_in_at: in the order of the list.
Lookup(table, keys) == SelectSeq(keys, LAMBDA k : k \in DOMAIN table)

-----------------------------------------------------------------------------
(***************************************************************************)
(* Statements.                                                             *)
(***************************************************************************)

Everything == [lower |-> Unbounded, upper |-> Unbounded]

\* skip(offset).take(limit) of SelectRows.
Window(keys, limit, offset) ==
  LET rest == SubSeq(keys, offset + 1, Len(keys))
  IN IF limit = NoLimit THEN rest ELSE FirstOf(rest, limit)

\* Mutant: rows the scan has already cut to the window are cut again.
ExecuteSelect_WindowTwice(table, inTxn, access, limit, offset) ==
  LET windowed == offset > 0 \/ limit # NoLimit
      scan(a) == ScanPkRange(table, inTxn, a.lower, a.upper, access.filter, limit, offset)
  IN CASE access.path = "PointLookup" -> Window(Lookup(table, <<access.key>>), limit, offset)
       [] access.path = "PrimaryKeyInLookup" -> Window(Lookup(table, access.keys), limit, offset)
       [] access.path = "PrimaryKeyRangeScan" -> Window(scan(access), limit, offset)
       [] access.path = "SecondaryIndexLookup" ->
            Window(ScanIndex(table, access.key, access.filter), limit, offset)
       [] access.path = "SecondaryIndexRangeScan" ->
            Window(ScanIndexRange(table, access.lower, access.upper, access.filter), limit, offset)
       [] access.path = "PrefixScan" ->
            IF windowed THEN scan(Everything)
            ELSE ScanAll(table, Unbounded, Unbounded, access.filter)

\* SelectRows: scans of row keys apply the window themselves.
ExecuteSelect(table, inTxn, access, limit, offset) ==
  LET windowed == offset > 0 \/ limit # NoLimit
      scan(a) == ScanPkRange(table, inTxn, a.lower, a.upper, access.filter, limit, offset)
  IN CASE access.path = "PointLookup" -> Window(Lookup(table, <<access.key>>), limit, offset)
       [] access.path = "PrimaryKeyInLookup" -> Window(Lookup(table, access.keys), limit, offset)
       [] access.path = "PrimaryKeyRangeScan" -> scan(access)
       [] access.path = "SecondaryIndexLookup" ->
            Window(ScanIndex(table, access.key, access.filter), limit, offset)
       [] access.path = "SecondaryIndexRangeScan" ->
            Window(ScanIndexRange(table, access.lower, access.upper, access.filter), limit, offset)
       [] access.path = "PrefixScan" ->
            IF windowed THEN scan(Everything)
            ELSE ScanAll(table, Unbounded, Unbounded, access.filter)

\* apply_write_limit: sorted by primary key when ORDER BY asks for it.
ApplyWriteLimit_Unsorted(keys, limit, byKey) ==
  IF limit = NoLimit THEN keys ELSE FirstOf(keys, limit)
ApplyWriteLimit(keys, limit, byKey) ==
  LET sorted == IF byKey THEN SortSeq(keys, Less) ELSE keys
  IN IF limit = NoLimit THEN sorted ELSE FirstOf(sorted, limit)

\* The rows apply_update_rows and apply_delete_rows change, in their order.
WriteTargets(table, access, limit, byKey) ==
  LET limited(rows) == ApplyWriteLimit(rows, limit, byKey)
  IN CASE limit = 0 -> <<>>
       [] limit # 0 /\ access.path = "PointLookup" -> Lookup(table, <<access.key>>)
       [] limit # 0 /\ access.path = "PrimaryKeyRangeScan" ->
            limited(ScanAll(table, access.lower, access.upper, access.filter))
       [] limit # 0 /\ access.path = "SecondaryIndexLookup" ->
            limited(ScanIndex(table, access.key, access.filter))
       [] limit # 0 /\ access.path = "SecondaryIndexRangeScan" ->
            limited(ScanIndexRange(table, access.lower, access.upper, access.filter))
       [] limit # 0 /\ access.path = "PrefixScan" ->
            limited(ScanAll(table, Unbounded, Unbounded, access.filter))

-----------------------------------------------------------------------------
(***************************************************************************)
(* Locks.  A value is locked as the text of its Debug form, and texts are  *)
(* compared as strings: "Int32(10)" comes before "Int32(2)".  Module       *)
(* LockConflict has the rank of a text, here twice its place among the     *)
(* texts of LockNumbers so that there is room for the text next_key_prefix *)
(* makes of it.                                                            *)
(***************************************************************************)
LockNone == -1
L == INSTANCE LockConflict WITH Values <- 0..999, Indexes <- {"k", "c"},
                                Clustered <- "k", NoBound <- LockNone

LockNumbers == -20..20     \* the numbers the model locks

\* What follows "Int32(" in the text of a number, in bytes: a minus sign, the
\* digits, the closing bracket.
DebugText(n) ==
  LET m == IF n < 0 THEN -n ELSE n
      digits == IF m < 10 THEN <<48 + m>> ELSE <<48 + (m \div 10), 48 + (m % 10)>>
  IN (IF n < 0 THEN <<45>> ELSE <<>>) \o digits \o <<41>>

TextRank ==
  [n \in LockNumbers |->
     2 * Cardinality({m \in LockNumbers : KeyLess(DebugText(m), DebugText(n))})]

\* normalize_mysql_lock_value; "Null" comes after every "Int32(".
LockText(value) == IF value = NullValue THEN 900 ELSE TextRank[value.v]
LockBound(b) == IF b.none THEN LockNone ELSE LockText(b.value)
OnlyValue(value) == [lower |-> LockText(value), upper |-> LockText(value) + 1]

RecordLocks(keys) == {L!Record("k", LockText(k)) : k \in Range(keys)}

\* primary_key_record_or_gap_locks_at
KeyLock(table, key) ==
  IF key \in DOMAIN table THEN L!Record("k", LockText(key))
  ELSE L!Gap("k", OnlyValue(key).lower, OnlyValue(key).upper)

\* secondary_index_locks_at: the entries, and the rows they lead to.
IndexLocks(table, value) ==
  LET rows == ScanIndex(table, value, NoFilter)
      lower == OnlyValue(value).lower
      upper == OnlyValue(value).upper
  IN {IF rows = <<>> THEN L!Gap("c", lower, upper) ELSE L!NextKey("c", lower, upper)}
       \cup RecordLocks(rows)

\* Mutant: the rows behind the entries of a range are not locked.
IndexRangeLocks_EntriesOnly(table, lower, upper) ==
  {L!NextKey("c", LockBound(lower), LockBound(upper))}

\* secondary_index_range_locks_at
IndexRangeLocks(table, lower, upper) ==
  {L!NextKey("c", LockBound(lower), LockBound(upper))}
    \cup RecordLocks(ScanIndexRange(table, lower, upper, NoFilter))

\* write_access_locks and read_access_locks: the kinds of the locks on the table.
AccessLocks(table, access) ==
  CASE access.path = "PointLookup" -> {KeyLock(table, access.key)}
    [] access.path = "PrimaryKeyInLookup" -> {KeyLock(table, k) : k \in Range(access.keys)}
    [] access.path = "PrimaryKeyRangeScan" ->
         {L!NextKey("k", LockBound(access.lower), LockBound(access.upper))}
    [] access.path = "SecondaryIndexLookup" -> IndexLocks(table, access.key)
    [] access.path = "SecondaryIndexRangeScan" ->
         IndexRangeLocks(table, access.lower, access.upper)
    [] access.path = "PrefixScan" -> {L!TableKind}
=============================================================================
