------------------------------ MODULE Pushdown ------------------------------
(***************************************************************************)
(* Filters that DataFusion hands to the table: their evaluation on a row   *)
(* (eval_filter_bool), the pruning of column chunks by their zone maps,    *)
(* and the predicates compiled for scans inside the store, with the range  *)
(* of primary keys they give.  Expressions are those of RowFilter, with    *)
(* NOT around a term and comparisons that name the literal first.          *)
(***************************************************************************)
EXTENDS AccessPaths

LiteralFirst(op, literal, column) ==
  [op |-> "flipped", by |-> op, column |-> column, literal |-> literal]
Negation(term) == [op |-> "not", term |-> term]

\* The literals of a term without NOT.
LiteralsOf(e) ==
  CASE e.op \in Comparisons \cup {"flipped"} -> {e.literal}
    [] e.op = "in" -> Range(e.list)
    [] e.op = "between" -> {e.low, e.high}
    [] OTHER -> {}

\* scalar_value_to_column_value has no value for a literal of Int16, a date, a decimal or
\* a string view; Int16 stands for them.
Unreadable(literal) == literal.variant = "Int16"

\* reverse_operator
ReverseOperator(op) ==
  CASE op = "<" -> ">" [] op = ">" -> "<" [] op = "<=" -> ">=" [] op = ">=" -> "<="
    [] OTHER -> op

\* filter_supported: the others stay with DataFusion.
FilterSupported(e) ==
  CASE e.op \in {"and", "or"} -> e.left.op # "in" /\ e.right.op # "in"
    [] e.op = "not" -> e.term.op # "in"
    [] OTHER -> e.op # "in"

-----------------------------------------------------------------------------
(***************************************************************************)
(* eval_filter_bool.  "unknown" is its None.                               *)
(***************************************************************************)
Some(b) == IF b THEN "true" ELSE "false"

EvalLeaf(row, e) ==
  LET value == row[e.column]
  IN IF e.op = "is null" THEN Some((value = NullValue) # e.negated)
     ELSE IF \E v \in {value} \cup LiteralsOf(e) : v = NullValue \/ Unreadable(v) THEN "unknown"
     ELSE CASE e.op \in Comparisons -> Some(CompareValues(value, e.literal, e.op))
            [] e.op = "flipped" -> Some(CompareValues(e.literal, value, e.by))
            [] e.op = "between" -> Some(e.negated # (CompareValues(value, e.low, ">=")
                                                       /\ CompareValues(value, e.high, "<=")))

EvalTerm(row, e) ==
  IF e.op = "not"
    THEN LET inner == EvalLeaf(row, e.term)
         IN IF inner = "unknown" THEN inner ELSE Some(inner = "false")
    ELSE EvalLeaf(row, e)

EvalFilterBool(row, e) ==
  LET both == {EvalTerm(row, e.left), EvalTerm(row, e.right)}
  IN CASE e.op = "and" -> IF "false" \in both THEN "false"
                          ELSE IF both = {"true"} THEN "true" ELSE "unknown"
       [] e.op = "or" -> IF "true" \in both THEN "true"
                         ELSE IF both = {"false"} THEN "false" ELSE "unknown"
       [] e.op = "none" -> "true"
       [] OTHER -> EvalTerm(row, e)

\* row_matches_datafusion_filters
RowPasses(row, e) == EvalFilterBool(row, e) = "true"

-----------------------------------------------------------------------------
(***************************************************************************)
(* Zone maps: the smallest and the largest value of a column in a chunk,   *)
(* NULLs left out.                                                         *)
(***************************************************************************)

\* update_zone
UpdateZone(zone, value) ==
  IF value = NullValue THEN zone
  ELSE [min |-> IF zone.min = NullValue \/ Less(value, zone.min) THEN value ELSE zone.min,
        max |-> IF zone.max = NullValue \/ Less(zone.max, value) THEN value ELSE zone.max]

\* zone_maps_for_rows
ZoneMaps(rows) ==
  [column \in {"k", "c"} |->
     FoldLeft(LAMBDA zone, row : UpdateZone(zone, row[column]),
              [min |-> NullValue, max |-> NullValue], rows)]

\* compare_column_values with <= and >=.
AtMost(a, b) == Less(a, b) \/ (Ordered(a, b) /\ a = b)

\* literal_column_pair and chunk_may_match_column_compare: a zone without values, or a
\* literal that was refused, prunes nothing, and a comparison with NULL always does.
ZoneMayMatch(zone, op, value) ==
  Unreadable(value) \/
  LET below == zone.min = NullValue \/ AtMost(zone.min, value)
      above == zone.max = NullValue \/ AtMost(value, zone.max)
  IN CASE op = "=" -> below /\ above
       [] op = "<>" -> TRUE
       [] op = ">" -> zone.max = NullValue \/ Less(value, zone.max)
       [] op = ">=" -> above
       [] op = "<" -> zone.min = NullValue \/ Less(zone.min, value)
       [] op = "<=" -> below

\* chunk_may_match_filter of one term.
TermMayMatch(zones, e) ==
  CASE e.op \in Comparisons -> ZoneMayMatch(zones[e.column], e.op, e.literal)
    [] e.op = "flipped" -> ZoneMayMatch(zones[e.column], ReverseOperator(e.by), e.literal)
    [] e.op = "between" -> \/ Unreadable(e.low)
                           \/ IF ZoneMayMatch(zones[e.column], ">=", e.low)
                                THEN ZoneMayMatch(zones[e.column], "<=", e.high)
                                ELSE e.negated
    [] OTHER -> TRUE

ChunkMayMatch(zones, e) ==
  CASE e.op = "and" -> TermMayMatch(zones, e.left) /\ TermMayMatch(zones, e.right)
    [] e.op = "or" -> TermMayMatch(zones, e.left) \/ TermMayMatch(zones, e.right)
    [] OTHER -> TermMayMatch(zones, e)

\* load_rows_from_chunks: the rows of the chunks that are not pruned.
ChunkRows(chunks, e) ==
  UNION {{row \in Range(chunks[i]) : RowPasses(row, e)} :
           i \in {j \in DOMAIN chunks : ChunkMayMatch(ZoneMaps(chunks[j]), e)}}

-----------------------------------------------------------------------------
(***************************************************************************)
(* Predicates compiled for the store have two truth values.                *)
(***************************************************************************)

\* compile_kv_predicate: nothing when a literal is refused (the scan then evaluates the
\* filter row by row); the literal comes second.
Compiles(e) ==
  LET terms == IF e.op \in {"and", "or"} THEN {e.left, e.right} ELSE {e}
  IN \A t \in terms : \A l \in LiteralsOf(IF t.op = "not" THEN t.term ELSE t) : ~Unreadable(l)

CompileTerm(e) ==
  IF e.op = "flipped" THEN Comparison(ReverseOperator(e.by), e.column, e.literal) ELSE e

CompilePredicate(e) ==
  CASE e.op \in {"and", "or"} -> Both(e.op, CompileTerm(e.left), CompileTerm(e.right))
    [] e.op = "not" -> Negation(CompileTerm(e.term))
    [] OTHER -> CompileTerm(e)

\* kv_predicate_matches and its three twins.
KvLeafMatches(row, p) ==
  CASE p.op \in Comparisons -> CompareValues(row[p.column], p.literal, p.op)
    [] p.op = "is null" -> (row[p.column] = NullValue) # p.negated
    [] p.op = "between" -> p.negated # /\ CompareValues(row[p.column], p.low, ">=")
                                       /\ CompareValues(row[p.column], p.high, "<=")

KvTermMatches(row, p) ==
  IF p.op = "not" THEN ~KvLeafMatches(row, p.term) ELSE KvLeafMatches(row, p)

KvPredicateMatches(row, p) ==
  CASE p.op = "and" -> KvTermMatches(row, p.left) /\ KvTermMatches(row, p.right)
    [] p.op = "or" -> KvTermMatches(row, p.left) \/ KvTermMatches(row, p.right)
    [] p.op = "none" -> TRUE
    [] OTHER -> KvTermMatches(row, p)

-----------------------------------------------------------------------------
(***************************************************************************)
(* plan_primary_key_range: conjuncts on the primary key become the range,  *)
(* the others stay.                                                        *)
(***************************************************************************)
NoRange == [lower |-> Unbounded, upper |-> Unbounded, residual |-> <<>>, used |-> FALSE]

\* tighten_lower, tighten_upper
Tighten(current, new, Tighter(_, _)) ==
  IF \/ current.none
     \/ Tighter(new.value, current.value)
     \/ Ordered(new.value, current.value) /\ new.value = current.value
          /\ ~new.inclusive /\ current.inclusive
  THEN new ELSE current
TightenLower_Last(current, new) == new
TightenLower(current, new) == Tighten(current, new, LAMBDA a, b : Less(b, a))
TightenUpper(current, new) == Tighten(current, new, Less)

\* PrimaryKeyBounds::apply
ApplyBound(bounds, op, value) ==
  [bounds EXCEPT
     !.lower = IF op \in {"=", ">", ">="} THEN TightenLower(@, Bound(value, op # ">")) ELSE @,
     !.upper = IF op \in {"=", "<", "<="} THEN TightenUpper(@, Bound(value, op # "<")) ELSE @,
     !.used = TRUE]

\* collect_primary_key_bounds of one conjunct.
CollectBounds(bounds, p) ==
  IF p.op \in Comparisons \ {"<>"} /\ p.column = "k" THEN ApplyBound(bounds, p.op, p.literal)
  ELSE IF p.op = "between" /\ p.column = "k" /\ ~p.negated
    THEN ApplyBound(ApplyBound(bounds, ">=", p.low), "<=", p.high)
  ELSE [bounds EXCEPT !.residual = Append(@, p)]

PlanPrimaryKeyRange(p) ==
  FoldLeft(CollectBounds, NoRange,
           IF p.op = "and" THEN <<p.left, p.right>> ELSE IF p.op = "none" THEN <<>> ELSE <<p>>)

\* The rows an aggregate scan meets, in key order.
PushedRows(table, e) ==
  LET plan == PlanPrimaryKeyRange(CompilePredicate(e))
  IN SelectSeq(RowsIn(table, RowRange(plan.lower, plan.upper)),
               LAMBDA k : \A i \in DOMAIN plan.residual :
                            KvPredicateMatches(table[k], plan.residual[i]))
=============================================================================
