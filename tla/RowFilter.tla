----------------------------- MODULE RowFilter -----------------------------
(***************************************************************************)
(* WHERE clauses on the fast path (filter.rs, sql/fast_path.rs, the bounds *)
(* of sql/projection.rs).  An expression is a record whose op says what it *)
(* is; AND and OR join two expressions without AND or OR, the depth the    *)
(* model stops at.  A row is a function from column names to values; a     *)
(* value is a record with the fields variant and v.                        *)
(***************************************************************************)
EXTENDS Integers, Sequences, FiniteSets

NullValue == [variant |-> "Null", v |-> 0]
IntValue(n) == [variant |-> "Int32", v |-> n]

Comparisons == {"=", "<>", "<", "<=", ">", ">="}
Comparison(op, column, literal) == [op |-> op, column |-> column, literal |-> literal]
InList(column, list, negated) ==
  [op |-> "in", column |-> column, list |-> list, negated |-> negated]
Between(column, low, high, negated) ==
  [op |-> "between", column |-> column, low |-> low, high |-> high, negated |-> negated]
IsNull(column, negated) == [op |-> "is null", column |-> column, negated |-> negated]
Both(op, left, right) == [op |-> op, left |-> left, right |-> right]
NoFilter == [op |-> "none"]

\* ColumnValue::partial_cmp between the values of one column: NULL and a value of
\* another variant are not ordered.
Ordered(a, b) == a.variant = b.variant /\ a # NullValue
Less(a, b) == Ordered(a, b) /\ a.v < b.v

\* compare_values
CompareValues(a, b, op) ==
  /\ a # NullValue /\ b # NullValue
  /\ CASE op = "=" -> a = b
       [] op = "<>" -> a # b
       [] op = "<" -> Less(a, b)
       [] op = ">" -> Less(b, a)
       [] op = "<=" -> Less(a, b) \/ a = b
       [] op = ">=" -> Less(b, a) \/ a = b

\* row_matches_filter of an expression without AND and OR.
MatchesTerm(row, e) ==
  CASE e.op = "none" -> TRUE
    [] e.op \in Comparisons -> CompareValues(row[e.column], e.literal, e.op)
    [] e.op = "in" ->
         /\ row[e.column] # NullValue
         /\ e.negated # \E i \in DOMAIN e.list :
              e.list[i] # NullValue /\ row[e.column] = e.list[i]
    [] e.op = "between" ->
         /\ row[e.column] # NullValue
         /\ e.negated # /\ CompareValues(row[e.column], e.low, ">=")
                        /\ CompareValues(row[e.column], e.high, "<=")
    [] e.op = "is null" -> (row[e.column] = NullValue) # e.negated

\* row_matches_filter
RowMatches(row, e) ==
  CASE e.op = "and" -> MatchesTerm(row, e.left) /\ MatchesTerm(row, e.right)
    [] e.op = "or" -> MatchesTerm(row, e.left) \/ MatchesTerm(row, e.right)
    [] OTHER -> MatchesTerm(row, e)

-----------------------------------------------------------------------------
(***************************************************************************)
(* Bounds on a column.  A bound is a record with fields value, inclusive.  *)
(***************************************************************************)

Unbounded == [value |-> NullValue, inclusive |-> FALSE, none |-> TRUE]
Bound(value, inclusive) == [value |-> value, inclusive |-> inclusive, none |-> FALSE]

\* merge_lower_bound, merge_upper_bound: the tighter one wins.
MergeBound(current, candidate, Tighter(_, _)) ==
  IF current.none \/ Tighter(candidate.value, current.value) THEN candidate
  ELSE IF Ordered(candidate.value, current.value) /\ candidate.value = current.value
    THEN [current EXCEPT !.inclusive = @ /\ candidate.inclusive]
  ELSE current

MergeLower(current, candidate) == MergeBound(current, candidate, LAMBDA a, b : Less(b, a))
MergeUpper(current, candidate) == MergeBound(current, candidate, Less)

NotARange == [ok |-> FALSE, lower |-> Unbounded, upper |-> Unbounded]

\* collect_column_range_bounds of one term, on top of the bounds so far.
TermBounds(range, e, column) ==
  IF e.op \in {"<", "<=", ">", ">=", "between"} /\ e.column = column
  THEN CASE e.op \in {">", ">="} ->
              [range EXCEPT !.lower = MergeLower(@, Bound(e.literal, e.op = ">="))]
         [] e.op \in {"<", "<="} ->
              [range EXCEPT !.upper = MergeUpper(@, Bound(e.literal, e.op = "<="))]
         [] e.op = "between" ->
              IF e.negated THEN NotARange
              ELSE [range EXCEPT !.lower = MergeLower(@, Bound(e.low, TRUE)),
                                 !.upper = MergeUpper(@, Bound(e.high, TRUE))]
  ELSE NotARange

\* extract_column_range_filter
ColumnRange(e, column) ==
  LET start == [NotARange EXCEPT !.ok = TRUE]
      left == TermBounds(start, e.left, column)
  IN IF e.op = "and"
       THEN IF left.ok THEN TermBounds(left, e.right, column) ELSE NotARange
       ELSE TermBounds(start, e, column)

-----------------------------------------------------------------------------
(***************************************************************************)
(* LIKE.  Values and patterns are sequences of characters.                 *)
(***************************************************************************)

\* Where a '%' that begins at i may end.
PercentEnds_AtLeastOne(i, n) == (i + 1)..n
PercentEnds(i, n) == i..n

\* like_match_chars
LikeMatches(value, pattern, escape) ==
  LET n == Len(pattern)
      at(i, c) == i < Len(value) /\ value[i + 1] = c
      match[j \in 0..n, i \in 0..(Len(value) + 1)] ==
        IF j = n THEN i = Len(value)
        ELSE LET c == pattern[j + 1]
             IN IF c = escape /\ j + 1 < n
                  THEN at(i, pattern[j + 2]) /\ match[j + 2, i + 1]
                ELSE IF c = "%" THEN \E k \in PercentEnds(i, Len(value)) : match[j + 1, k]
                ELSE IF c = "_" THEN i < Len(value) /\ match[j + 1, i + 1]
                ELSE at(i, c) /\ match[j + 1, i + 1]
  IN match[0, 0]
=============================================================================
