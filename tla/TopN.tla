-------------------------------- MODULE TopN --------------------------------
(***************************************************************************)
(* ORDER BY one column with LIMIT, inside the scan (table_provider_topn.rs *)
(* and table_provider_scans.rs): a heap of skip + fetch rows with the      *)
(* worst on top, twice (values, numbers), and the scan in key order that   *)
(* stops when it has enough.  A plan is a record with the fields order,    *)
(* filter, descending, nullsFirst, skip and fetch.                         *)
(***************************************************************************)
EXTENDS Pushdown

HeapSize(plan) == plan.skip + plan.fetch

\* compare_topn_values, compare_fast_topn_values: NULLs where the plan puts them
\* whatever the direction, equal values by primary key ascending.
Before(a, b, plan) ==
  LET byPk == Less(a.pk, b.pk)
  IN IF a.order = NullValue
       THEN IF b.order = NullValue THEN byPk ELSE plan.nullsFirst
     ELSE IF b.order = NullValue THEN ~plan.nullsFirst
     ELSE IF a.order = b.order THEN byPk
     ELSE Less(a.order, b.order) # plan.descending

\* topn_candidate_is_worse
IsWorse(a, b, plan) == Before(b, a, plan)

Swap(heap, i, j) == [heap EXCEPT ![i] = heap[j], ![j] = heap[i]]

\* A loop over [heap, at]: Next(s) is the position to swap with, or 0 to stop.
SiftLoop(heap, from, Next(_)) ==
  LET step(s, n) == IF s.at = 0 THEN s
                    ELSE LET to == Next(s)
                         IN IF to = 0 THEN [s EXCEPT !.at = 0]
                            ELSE [heap |-> Swap(s.heap, s.at, to), at |-> to]
  IN FoldLeft(step, [heap |-> heap, at |-> from], heap).heap

\* sift_topn_candidate_up, sift_fast_topn_candidate_up
SiftUp(heap, from, plan) ==
  SiftLoop(heap, from,
    LAMBDA s : IF s.at > 1 /\ IsWorse(s.heap[s.at], s.heap[s.at \div 2], plan)
               THEN s.at \div 2 ELSE 0)

\* sift_topn_candidate_down, sift_fast_topn_candidate_down: swap with the worse child.
SiftDown_LeftOnly(heap, from, plan) ==
  SiftLoop(heap, from,
    LAMBDA s : IF 2 * s.at <= Len(s.heap) /\ IsWorse(s.heap[2 * s.at], s.heap[s.at], plan)
               THEN 2 * s.at ELSE 0)
SiftDown(heap, from, plan) ==
  LET worse(s, i, j) == IF j <= Len(s.heap) /\ IsWorse(s.heap[j], s.heap[i], plan) THEN j ELSE i
      worst(s) == worse(s, worse(s, s.at, 2 * s.at), 2 * s.at + 1)
  IN SiftLoop(heap, from, LAMBDA s : IF worst(s) = s.at THEN 0 ELSE worst(s))

\* push_topn_candidate, push_fast_topn_candidate
PushCandidate(heap, candidate, plan) ==
  IF HeapSize(plan) = 0 THEN heap
  ELSE IF Len(heap) < HeapSize(plan)
    THEN SiftUp(Append(heap, candidate), Len(heap) + 1, plan)
  ELSE IF ~Before(candidate, heap[1], plan) THEN heap
  ELSE SiftDown([heap EXCEPT ![1] = candidate], 1, plan)

\* skip and take of the sorted candidates.
Take(rows, plan) ==
  FirstOf(SubSeq(rows, plan.skip + 1, Len(rows)), plan.fetch)

AllRows(table) == RowsIn(table, RowRange(Unbounded, Unbounded))

\* execute_topn_scan: the candidates carry what they are compared by.
ValueTopN(table, plan) ==
  LET visit(heap, k) ==
        IF KvPredicateMatches(table[k], CompilePredicate(plan.filter))
          THEN PushCandidate(heap, [order |-> table[k][plan.order], pk |-> k], plan)
          ELSE heap
      heap == FoldLeft(visit, <<>>, AllRows(table))
  IN Take(SortSeq(heap, LAMBDA a, b : Before(a, b, plan)), plan)

\* decode_row_record_fast_numeric_slots_with: fills the slots asked for and leaves
\* the others as the row before left them.
DecodeSlots(scratch, row, slots) ==
  [column \in DOMAIN scratch |-> IF column \in slots THEN row[column] ELSE scratch[column]]

FilterColumns(e) ==
  CASE e.op = "none" -> {}
    [] e.op \in {"and", "or"} ->
         UNION {{IF t.op = "not" THEN t.term.column ELSE t.column} : t \in {e.left, e.right}}
    [] e.op = "not" -> {e.term.column}
    [] OTHER -> {e.column}

\* compile_fast_predicate, compile_fast_topn_scan_plan
FastFilter(plan) == CompilePredicate(plan.filter)

\* execute_topn_fast_scan: the filter's slots first, the candidate's for rows that
\* match.
FastTopN(table, plan) ==
  LET filter == FastFilter(plan)
      visit(s, k) ==
        LET read == DecodeSlots(s.scratch, table[k], FilterColumns(filter))
            all == DecodeSlots(read, table[k], {plan.order, "k"})
        IN IF KvPredicateMatches(read, filter)
             THEN [scratch |-> all,
                   heap |-> PushCandidate(s.heap, [order |-> all[plan.order], pk |-> all["k"]],
                                          plan)]
             ELSE [s EXCEPT !.scratch = read]
      start == [scratch |-> [column \in {"k", "c"} |-> NullValue], heap |-> <<>>]
  IN Take(SortSeq(FoldLeft(visit, start, AllRows(table)).heap,
                  LAMBDA a, b : Before(a, b, plan)), plan)

\* execute_primary_key_ordered_topn_scan: in key order or backwards, until the
\* window is full.
KeyOrderedTopN(table, plan) ==
  LET keys == IF plan.descending THEN Reverse(AllRows(table)) ELSE AllRows(table)
      rows == SelectSeq(keys, LAMBDA k : KvPredicateMatches(table[k],
                                           CompilePredicate(plan.filter)))
      seen == FirstOf(rows, HeapSize(plan))
  IN Take([i \in DOMAIN seen |-> [order |-> table[seen[i]][plan.order], pk |-> seen[i]]], plan)

\* execute_topn_scan's choice; numeric says that the columns are numbers.
TopNScan(table, plan, numeric) ==
  IF plan.order = "k" THEN KeyOrderedTopN(table, plan)
  ELSE IF numeric THEN FastTopN(table, plan)
  ELSE ValueTopN(table, plan)
=============================================================================
