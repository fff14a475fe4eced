---------------------------- MODULE Aggregates ----------------------------
(***************************************************************************)
(* COUNT, MIN, MAX, SUM and AVG pushed into the scan: the reduction every  *)
(* store has (mem_store.rs), and the four the storage engine chooses from  *)
(* (kv_engine_store/aggregate_scan.rs): over keys only, over numbers with  *)
(* a scratch row, over projected values, each with and without GROUP BY.   *)
(* A plan has the fields filter, group (a set of at most one column), op,  *)
(* column.  The result is a function from group values to the answer.      *)
(* AVG is the pair of sum and count.                                       *)
(***************************************************************************)
EXTENDS TopN

AggregateOps == {"count star", "count", "min", "max", "sum", "avg"}

\* kv_aggregate_initial_state, fast_aggregate_initial_state: the sum over numbers
\* begins with 0, the other with NULL.
Starting(op, fast) ==
  CASE op \in {"count star", "count"} -> 0
    [] op = "avg" -> [sum |-> 0, count |-> 0]
    [] op = "sum" -> IF fast THEN IntValue(0) ELSE NullValue
    [] op \in {"min", "max"} -> NullValue

\* kv_apply_aggregate, apply_projected_aggregate, apply_fast_aggregates
Apply(state, op, value) ==
  IF op = "count star" THEN state + 1
  ELSE IF value = NullValue THEN state
  ELSE CASE op = "count" -> state + 1
         [] op = "min" -> IF state = NullValue \/ Less(value, state) THEN value ELSE state
         [] op = "max" -> IF state = NullValue \/ Less(state, value) THEN value ELSE state
         [] op = "sum" -> IF state = NullValue THEN value ELSE IntValue(state.v + value.v)
         [] op = "avg" -> [sum |-> state.sum + value.v, count |-> state.count + 1]

\* kv_finish_aggregate_state, finish_fast_aggregates
Finish(op, state) ==
  CASE op \in {"count star", "count"} -> IntValue(state)
    [] op = "avg" -> IF state.count = 0 THEN NullValue ELSE state
    [] OTHER -> state

GroupOf(plan, row) == [column \in plan.group |-> row[column]]

\* A row joins its group, which is created when it is new.
Join(groups, group, plan, value, fast) ==
  LET state == IF group \in DOMAIN groups THEN groups[group] ELSE Starting(plan.op, fast)
  IN [g \in DOMAIN groups \cup {group} |->
        IF g = group THEN Apply(state, plan.op, value) ELSE groups[g]]

NoGroups == [g \in {} |-> NullValue]

\* Without GROUP BY there is one group, even of no rows.
Answer(plan, groups, fast) ==
  LET only == [column \in {} |-> NullValue]
      all == IF plan.group = {} /\ only \notin DOMAIN groups
               THEN [g \in {only} |-> Starting(plan.op, fast)] ELSE groups
  IN [g \in DOMAIN all |-> Finish(plan.op, all[g])]

\* plan_kv_aggregate: the range, what is left of the filter and the columns needed.
Required(plan) ==
  FilterColumns(plan.filter) \cup plan.group
    \cup (IF plan.op = "count star" THEN {} ELSE {plan.column})
KeyOnly(plan) == Required(plan) \subseteq {"k"}

Residual(plan) == PlanPrimaryKeyRange(CompilePredicate(plan.filter)).residual
InScan(table, plan) ==
  LET bounds == PlanPrimaryKeyRange(CompilePredicate(plan.filter))
  IN RowsIn(table, RowRange(bounds.lower, bounds.upper))
Passes(plan, row) ==
  \A i \in DOMAIN Residual(plan) : KvPredicateMatches(row, Residual(plan)[i])

\* The column an aggregate reads; COUNT(*) reads none.
Argument(plan, row) == IF plan.op = "count star" THEN NullValue ELSE row[plan.column]

\* The loop the reductions share; Read(k) is the row as far as it is decoded.
Reduce(table, plan, Read(_)) ==
  LET visit(groups, k) ==
        IF Passes(plan, Read(k))
          THEN Join(groups, GroupOf(plan, Read(k)), plan, Argument(plan, Read(k)), FALSE)
          ELSE groups
  IN Answer(plan, FoldLeft(visit, NoGroups, InScan(table, plan)), FALSE)

\* KvStore::aggregate_scan
GenericAggregate(table, plan) == Reduce(table, plan, LAMBDA k : table[k])

\* projected_values_for_aggregate_record: the columns needed, the primary key from
\* the key.
Projected(plan, row, k) ==
  [column \in Required(plan) |-> IF column = "k" THEN k ELSE row[column]]

\* reduce_ungrouped_projected_scan, and the loop of execute_aggregate_scan.
ProjectedAggregate(table, plan) ==
  Reduce(table, plan, LAMBDA k : Projected(plan, table[k], k))

\* reduce_ungrouped_key_only_scan: rows are not read, and keys that are only counted
\* are not decoded.
UngroupedKeyOnly(table, plan) ==
  IF Residual(plan) = <<>> /\ plan.op \in {"count star", "count"}
    THEN Answer(plan, [g \in {[column \in {} |-> NullValue]} |-> Len(InScan(table, plan))],
                FALSE)
    ELSE Reduce(table, plan, LAMBDA k : Projected(plan, <<>>, k))

\* reduce_grouped_key_only_scan
GroupedKeyOnly(table, plan) == Reduce(table, plan, LAMBDA k : Projected(plan, <<>>, k))

\* build_fast_numeric_aggregate_plan: what is decoded for a row that matched.
MatchedSlots_AggregateOnly(plan) ==
  IF plan.op = "count star" THEN {} ELSE {plan.column}
MatchedSlots(plan) ==
  plan.group \cup (IF plan.op = "count star" THEN {} ELSE {plan.column})

ResidualColumns(plan) == UNION {FilterColumns(Residual(plan)[i]) : i \in DOMAIN Residual(plan)}

\* reduce_ungrouped_fast_numeric_scan, reduce_grouped_fast_numeric_scan
FastAggregate(table, plan) ==
  LET visit(s, k) ==
        LET read == DecodeSlots(s.scratch, table[k], ResidualColumns(plan))
            all == DecodeSlots(read, table[k], MatchedSlots(plan))
        IN IF Passes(plan, read)
             THEN [scratch |-> all,
                   groups |-> Join(s.groups, GroupOf(plan, all), plan, Argument(plan, all), TRUE)]
             ELSE [s EXCEPT !.scratch = read]
      start == [scratch |-> [column \in {"k", "c"} |-> NullValue], groups |-> NoGroups]
  IN Answer(plan, FoldLeft(visit, start, InScan(table, plan)).groups, TRUE)

\* execute_aggregate_scan's choice; numeric says that the columns are numbers.
EngineAggregate(table, plan, numeric) ==
  IF KeyOnly(plan)
    THEN IF plan.group = {} THEN UngroupedKeyOnly(table, plan) ELSE GroupedKeyOnly(table, plan)
  ELSE IF numeric THEN FastAggregate(table, plan)
  ELSE ProjectedAggregate(table, plan)
=============================================================================
