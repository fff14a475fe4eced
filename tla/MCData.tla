------------------------------- MODULE MCData -------------------------------
(***************************************************************************)
(* The data layer: what is a function of its input (keys, filters, access  *)
(* paths, LIKE) is checked on every input of the sets below, one state per *)
(* input; ALTER TABLE, the query engine, COPY and the system catalogs run  *)
(* as the state machines they are.                                         *)
(***************************************************************************)
EXTENDS AlterTable, Aggregates, QueryEngine, Copy, SystemCatalogs

VARIABLES part,    \* what is checked: "alter", "engine", "copy", "system" or the kind of input
          input

vars == <<part, input, alterVars, engineVars, copyVars, catalogVars>>

-----------------------------------------------------------------------------
(***************************************************************************)
(* Inputs.                                                                 *)
(***************************************************************************)
PkValues == {IntValue(n) : n \in -1..1}
CValues == {IntValue(0), IntValue(1), NullValue}
Literals == {IntValue(0), IntValue(1), NullValue}
Numbers == Literals \ {NullValue}

TheRow(k, c) == [n \in {"k", "c"} |-> IF n = "k" THEN k ELSE c]
TableWith(keys, c) == [k \in keys |-> TheRow(k, c[k])]
Tables == UNION {{TableWith(keys, c) : c \in [keys -> CValues]} : keys \in SUBSET PkValues}

Lists == {<<a>> : a \in Numbers} \cup {<<a, b>> : a, b \in Numbers}
RangesBy(ops) == {Comparison(op, col, l) : op \in ops, col \in {"k", "c"}, l \in Numbers}
Terms == RangesBy({"<", "<=", ">", ">="})
  \cup {Comparison(op, col, l) : op \in {"=", "<>"}, col \in {"k", "c"}, l \in Numbers}
  \cup {InList(col, list, n) : col \in {"k", "c"}, list \in Lists, n \in BOOLEAN}
  \cup {Between(col, a, b, n) : col \in {"k", "c"}, a, b \in Numbers, n \in BOOLEAN}
  \cup {IsNull(col, n) : col \in {"k", "c"}, n \in BOOLEAN}
Filters == {NoFilter} \cup Terms
  \cup {Both("and", a, b) : a \in RangesBy({"<=", ">"}), b \in RangesBy({"<", ">="})}
  \cup {Both("or", a, b) : a \in RangesBy({"<=", ">"}), b \in RangesBy({"<"})}

\* Numbers whose texts do not come in their order: "10)" < "2)" and "-1)" < "-2)".
LockKeys == {IntValue(n) : n \in {-2, 2, 10}}
LockTables == {TableWith(LockKeys, c) : c \in [LockKeys -> {IntValue(0), IntValue(1)}]}
LockLiterals == [n \in {"k", "c"} |-> IF n = "k" THEN {IntValue(-1), IntValue(2), IntValue(10)}
                                      ELSE Numbers]
LockFilters ==
  {NoFilter}
  \cup UNION {{Comparison(op, col, l) : op \in Comparisons, l \in LockLiterals[col]} :
                col \in {"k", "c"}}
  \cup UNION {{Between(col, a, b, FALSE) : a, b \in LockLiterals[col]} : col \in {"k", "c"}}

Windows == {<<NoLimit, 0>>, <<NoLimit, 1>>, <<1, 0>>, <<2, 0>>, <<1, 1>>}

Bools == {[variant |-> "Boolean", v |-> b] : b \in BOOLEAN}
Ints(type, r) == {[variant |-> type, v |-> n] : n \in r}
Floats(type, r) == {[variant |-> type, v |-> [negative |-> s, magnitude |-> m]] :
                      s \in BOOLEAN, m \in r}
Texts == {[variant |-> "Text", v |-> s] : s \in {<<>>} \cup [1..1 -> 0..2] \cup [1..2 -> 0..2]}
Segments == {[variant |-> type, v |-> <<1>>] : type \in DOMAIN SegmentTag}
KeyValues == Bools \cup Segments \cup Texts
  \cup Ints("Int16", -1..0) \cup Ints("Int32", -3..2) \cup Ints("Int64", 0..1)
  \cup Floats("Float32", 0..0) \cup Floats("Float64", 0..1)

RawPrefixes == [1..1 -> {0, 254, 255}] \cup [1..2 -> {0, 254, 255}]
RawKeys == RawPrefixes \cup [1..3 -> {0, 254, 255}]

Chars == {"a", "b", "%"}
PatternChars == {"a", "%", "_", "#"}
Strings(chars, n) == UNION {[1..k -> chars] : k \in 0..n}

\* Filters DataFusion hands down; an Int16 literal is one the table cannot read.
SmallLiterals == Literals \cup {[variant |-> "Int16", v |-> 1]}
Leaves == {Comparison(op, col, l) : op \in Comparisons, col \in {"k", "c"}, l \in SmallLiterals}
  \cup {LiteralFirst(op, l, col) : op \in Comparisons, col \in {"k", "c"}, l \in SmallLiterals}
  \cup {Between(col, a, b, n) : col \in {"k", "c"}, a, b \in SmallLiterals, n \in BOOLEAN}
  \cup {IsNull(col, n) : col \in {"k", "c"}, n \in BOOLEAN}
FewLeaves == {Comparison("=", "c", [variant |-> "Int16", v |-> 1])}
  \cup {Comparison(op, col, l) : op \in {"=", "<", ">="}, col \in {"k", "c"}, l \in Numbers}
  \cup {Between(col, IntValue(0), IntValue(1), FALSE) : col \in {"k", "c"}}
PushFilters == {NoFilter} \cup Leaves \cup {Negation(e) : e \in Leaves}
  \cup {Both(op, a, b) : op \in {"and", "or"}, a \in FewLeaves,
                         b \in FewLeaves \cup {Negation(e) : e \in FewLeaves}}

\* Two chunks, of two rows and of one; an ANALYZE fills them in the order of the keys.
ChunkKeys == {<<IntValue(a), IntValue(b), IntValue(d)>> : a \in -1..0, b \in 0..1, d \in 1..2}
ChunkPairs ==
  {[one |-> <<TheRow(k[1], c[1]), TheRow(k[2], c[2])>>, two |-> <<TheRow(k[3], c[3])>>] :
     k \in {k \in ChunkKeys : Less(k[1], k[2]) /\ Less(k[2], k[3])}, c \in [1..3 -> CValues]}

\* Five rows, so that the heap has a node with two children and one below.
Fives == LET keys == {IntValue(n) : n \in -2..2}
         IN {TableWith(keys, c) : c \in {c \in [keys -> CValues] : c[IntValue(0)] = IntValue(1)}}
TopNWindows == {<<0, 0>>, <<1, 0>>, <<0, 2>>, <<1, 2>>, <<0, 3>>, <<2, 3>>}     \* skip, fetch
TopNPlans == [order : {"k", "c"}, filter : {NoFilter, Comparison("<>", "c", IntValue(0)),
                                            LiteralFirst(">", IntValue(1), "k")},
              descending : BOOLEAN, nullsFirst : BOOLEAN]

Grouped == [filter : {NoFilter, Comparison(">=", "k", IntValue(0)),
                      LiteralFirst("=", IntValue(1), "c"),
                      Both("and", Comparison("<", "k", IntValue(1)), IsNull("c", TRUE)),
                      Comparison("<>", "k", IntValue(0))},
            group : {{}, {"k"}, {"c"}}, op : AggregateOps, column : {"k", "c"}]

\* The state AlterTable rests in while another part is checked.
NoAlter ==
  /\ columns = <<>> /\ primaryKey = RowId /\ stored = <<>> /\ expected = <<>> /\ rewriting = NotRewriting
  /\ alters = MaxAlters /\ tears = MaxTears /\ spoiled = FALSE

Inputs == {"select", "locks", "key", "prefix", "chunks", "pushdown", "topn", "aggregate", "like"}

\* Files of two and three lines for COPY, to a table with no row or with one.
Lines == {<<"1", ",", "1">>, <<"2", ",", "1">>, <<"2", ",", "2">>, <<"1", ",">>,
          <<"q", "1", "q", ",", "1">>, <<"q", "1", ",", "1">>, <<",", "1">>, <<"1">>, <<"r">>,
          <<".">>, <<>>}
GoodLines == {<<"1", ",", "1">>, <<"2", ",", "1", "r">>, <<"2", ",", "2">>}
Files(lines, n) == {FlattenSeq([i \in 1..n |-> Append(f[i], "n")]) : f \in [1..n -> lines]}
Unended(files) == {Front(f) : f \in files}
Stored == {<<>>, [k \in {<<"1">>} |-> <<"2">>]}
CopyFiles ==
  [bytes : Files(Lines, 2) \cup Unended(Files(Lines, 2)), csv : {TRUE}, header : BOOLEAN,
   before : Stored, refuses : {{}}]
  \cup [bytes : Files(GoodLines, 3) \cup Unended(Files(GoodLines, 3)), csv : BOOLEAN,
        header : {FALSE}, before : Stored, refuses : {{}, {1}, {3}}]

\* The state COPY rests in while another part is checked.
NoCopy == CopyInit([bytes |-> <<>>, csv |-> TRUE, header |-> FALSE, before |-> <<>>,
                    refuses |-> {}])

\* Catalogs with two tables, two indexes and a view; the second column of the first
\* table may be gone while its index is still there.  The first table is in public and
\* has a legacy copy, which may be an older one; or it has only that, and is listed
\* because of it or hidden by a table of its name in another schema.  CREATE TABLE
\* makes, and ALTER TABLE leaves, a table of one column.
ColumnLists == {<<"a">>}
TableOne == [id : {1}, name : {1}, schema : {PublicSchema}, columns : {<<"a">>, <<"b", "a">>},
             hasPrimaryKey : BOOLEAN, primaryKey : {"a"}]
TableTwo(name) == [id |-> 2, name |-> name, schema |-> 2, columns |-> <<"a", "b">>,
                   hasPrimaryKey |-> TRUE, primaryKey |-> "a"]
IndexOn(t, unique) == [id |-> t, table |-> t, columns |-> <<"b", "a">>, unique |-> unique]
Described(tables, legacy, indexes, views) ==
  [schemas |-> {1, 2}, tables |-> tables, legacy |-> legacy, indexes |-> indexes,
   byTable |-> {<<x.table, x.id>> : x \in indexes}, views |-> views]
Keyed(list) == CHOOSE t \in TableOne : t.hasPrimaryKey /\ t.columns = list
Catalogs == {Described({t, TableTwo(2)}, {t}, {IndexOn(1, t.hasPrimaryKey), IndexOn(2, TRUE)},
                       {[id |-> 1, schema |-> 2]}) :
               t \in {u \in TableOne : u.hasPrimaryKey = (Len(u.columns) = 2)}}
            \cup {Described({Keyed(<<"b", "a">>)}, {Keyed(<<"a">>)}, {}, {})}
            \cup {Described(tables, {Keyed(<<"b", "a">>)}, {IndexOn(1, TRUE)}, {}) :
                    tables \in {{}, {TableTwo(1)}}}
NoSystem == SystemInit(Described({}, {}, {}, {}))

Init == /\ EngineInit
        /\ \/ part = "alter" /\ input = <<>> /\ AlterInit /\ NoCopy /\ NoSystem
           \/ part = "engine" /\ input = <<>> /\ NoAlter /\ NoCopy /\ NoSystem
           \/ part = "copy" /\ input = <<>> /\ NoAlter /\ NoSystem /\ \E f \in CopyFiles : CopyInit(f)
           \/ part = "system" /\ input = <<>> /\ NoAlter /\ NoCopy /\ \E c \in Catalogs : SystemInit(c)
           \/ part = "inputs" /\ input \in Inputs /\ NoAlter /\ NoCopy /\ NoSystem

Choose(name, set) ==
  /\ part = "inputs" /\ input = name
  /\ part' = name
  /\ input' \in set
  /\ UNCHANGED <<alterVars, engineVars, copyVars, catalogVars>>

Next ==
  \/ part = "alter" /\ AlterNext /\ UNCHANGED <<part, input, engineVars, copyVars, catalogVars>>
  \/ part = "engine" /\ EngineNext /\ UNCHANGED <<part, input, alterVars, copyVars, catalogVars>>
  \/ part = "copy" /\ CopyNext /\ UNCHANGED <<part, input, alterVars, engineVars, catalogVars>>
  \/ part = "system" /\ SystemNext(ColumnLists)
                     /\ UNCHANGED <<part, input, alterVars, engineVars, copyVars>>
  \/ Choose("select", [table : Tables, filter : Filters])
  \/ Choose("locks", [table : LockTables, filter : LockFilters, other : LockFilters])
  \/ Choose("key", [one : KeyValues, two : KeyValues])
  \/ Choose("prefix", [prefix : RawPrefixes, key : RawKeys])
  \/ Choose("chunks", [chunks : ChunkPairs, filter : Leaves])
  \/ Choose("pushdown", [table : Tables, filter : PushFilters])
  \/ Choose("topn", [table : Fives, plan : TopNPlans])
  \/ Choose("aggregate", [table : Tables, plan : Grouped])
  \/ Choose("like", [value : Strings(Chars, 3), pattern : Strings(PatternChars, 4)])

Spec == Init /\ [][Next]_vars
SpecCopy == Init /\ part = "copy" /\ [][Next]_vars

Symmetry == Permutations(Clients) \cup Permutations(RowKeys) \cup Permutations(Keys)

-----------------------------------------------------------------------------
(***************************************************************************)
(* What SQL says of a filter, with NULL as the third truth value.          *)
(***************************************************************************)
Truth(b) == IF b THEN "true" ELSE "false"
Not(t) == IF t = "unknown" THEN t ELSE Truth(t = "false")
AllOf(ts) == IF "false" \in ts THEN "false" ELSE IF "unknown" \in ts THEN "unknown" ELSE "true"
AnyOf(ts) == Not(AllOf({Not(t) : t \in ts}))

SqlCompare(a, b, op) ==
  IF NullValue \in {a, b} THEN "unknown"
  ELSE Truth(CASE op = "=" -> a.v = b.v [] op = "<>" -> a.v # b.v [] op = "<" -> a.v < b.v
               [] op = "<=" -> a.v <= b.v [] op = ">" -> a.v > b.v [] op = ">=" -> a.v >= b.v)

SqlLeaf(row, e) ==
  LET yes == CASE e.op = "none" -> "true"
               [] e.op \in Comparisons -> SqlCompare(row[e.column], e.literal, e.op)
               [] e.op = "in" ->
                    AnyOf({SqlCompare(row[e.column], e.list[i], "=") : i \in DOMAIN e.list})
               [] e.op = "between" -> AllOf({SqlCompare(row[e.column], e.low, ">="),
                                           SqlCompare(row[e.column], e.high, "<=")})
               [] e.op = "is null" -> Truth(row[e.column] = NullValue)
               [] e.op = "flipped" -> SqlCompare(e.literal, row[e.column], e.by)
  IN IF e.op \in {"in", "between", "is null"} /\ e.negated THEN Not(yes) ELSE yes

SqlTerm(row, e) == IF e.op = "not" THEN Not(SqlLeaf(row, e.term)) ELSE SqlLeaf(row, e)

SqlSelects(row, e) ==
  "true" = CASE e.op = "and" -> AllOf({SqlTerm(row, e.left), SqlTerm(row, e.right)})
             [] e.op = "or" -> AnyOf({SqlTerm(row, e.left), SqlTerm(row, e.right)})
             [] OTHER -> SqlTerm(row, e)

SqlRows(table, e) == {k \in DOMAIN table : SqlSelects(table[k], e)}

\* The literals of a filter.
FilterTerms(e) == IF e.op \in {"and", "or"} THEN {e.left, e.right} ELSE {e}
FilterLiterals(e) ==
  UNION {LiteralsOf(IF t.op = "not" THEN t.term ELSE t) : t \in FilterTerms(e)}

\* NOT around a term, or in it.
Negative(e) == \E t \in FilterTerms(e) : t.op = "not" \/ (t.op = "between" /\ t.negated)

Ascending(keys) == \A i, j \in DOMAIN keys : i < j => Less(keys[i], keys[j])

\* The sequence names n of the wanted rows, none twice.
AreSome(rows, wanted, n) ==
  /\ Range(rows) \subseteq wanted
  /\ Len(rows) = n /\ Cardinality(Range(rows)) = n

\* How many of n rows OFFSET and LIMIT leave.
InWindow(n, limit, offset) ==
  LET left == IF n < offset THEN 0 ELSE n - offset
  IN IF limit # NoLimit /\ limit < left THEN limit ELSE left

\* A SELECT returns the rows SQL asks for, whichever path it takes and whether or
\* not it is in a transaction: none twice, none that does not match, and as many
\* as LIMIT and OFFSET leave.  (Filters with a NULL literal are not among
\* the inputs: the README lists that a primary key range with NULL returns every
\* row, and that NOT IN and NOT BETWEEN with NULL return rows SQL leaves out.)
SelectsMatchSql ==
  part = "select" =>
    LET wanted == SqlRows(input.table, input.filter)
    IN \A w \in Windows, inTxn, indexed \in BOOLEAN :
         AreSome(ExecuteSelect(input.table, inTxn, PlanSelect(input.filter, indexed), w[1], w[2]),
                wanted, InWindow(Cardinality(wanted), w[1], w[2]))

\* UPDATE and DELETE change the rows SQL asks for; with ORDER BY on the primary key
\* and LIMIT n they change the first n of them, which apply_write_limit has to sort
\* because index scans come in another order.
WritesHitFirstRows ==
  part = "select" =>
    LET wanted == SqlRows(input.table, input.filter)
        first(rows) == \A k \in Range(rows), w \in wanted \ Range(rows) : Less(k, w)
        right(rows, limit, byKey) ==
          /\ AreSome(rows, wanted, InWindow(Cardinality(wanted), limit, 0))
          /\ byKey => Ascending(rows) /\ first(rows)
    IN \A limit \in {NoLimit, 0, 1, 2}, byKey, indexed \in BOOLEAN :
         right(WriteTargets(input.table, PlanWrite(input.filter, indexed), limit, byKey),
               limit, byKey)

\* The text of key k stands to the text of a bound as k stands to the bound.
InTextOrder(b, k) ==
  b.none \/ (LockText(k) < LockText(b.value) <=> Less(k, b.value))

\* Two writes of different sessions that would change one row take locks that
\* exclude each other, whatever paths they take to it.  (Two exceptions the README
\* lists, both of a range on the primary key: its lock leaves out an included upper
\* bound, and it compares texts, so that it misses a row that lies on the other side
\* of a bound as text.)
OverlappingWritesConflict ==
  part = "locks" =>
    LET covers(a, k) ==
          a.path = "PrimaryKeyRangeScan" =>
            /\ InTextOrder(a.lower, k) /\ InTextOrder(a.upper, k)
            /\ ~(a.upper.inclusive /\ a.upper.value = k)
        targets(a) == {k \in Range(WriteTargets(input.table, a, NoLimit, FALSE)) : covers(a, k)}
        right(one, two) ==
          targets(one) \cap targets(two) # {} =>
            \E a \in AccessLocks(input.table, one), b \in AccessLocks(input.table, two) :
              L!KindsConflict(a, b)
    IN \A indexed \in BOOLEAN :
         right(PlanWrite(input.filter, indexed), PlanWrite(input.other, indexed))

\* Whatever its zone map says, a chunk with a row the filter accepts is read.
\* (NOT BETWEEN is the exception the README lists: a chunk above the upper bound
\* is left out.)
ChunkPruningKeepsMatches ==
  part = "chunks" /\ ~Negative(input.filter) =>
    LET one == input.chunks.one
        two == input.chunks.two
        wanted == {row \in Range(one) \cup Range(two) : SqlSelects(row, input.filter)}
    IN /\ ChunkRows(<<one, two>>, input.filter) \subseteq wanted
       /\ Compiles(input.filter) => wanted \subseteq ChunkRows(<<one, two>>, input.filter)

\* A filter handed down as exact is not applied again above the scan, so both its
\* evaluations accept the rows SQL selects: row by row, with three truth values, and
\* compiled to a key range and two-valued predicates.  (Exceptions the README lists:
\* a filter with a literal the table cannot read selects too few rows, NOT BETWEEN with
\* a NULL bound is unknown even for rows beyond the other bound, and the compiled form
\* needs that no NULL meets a negation or a key bound.)
RowsPassAsInSql ==
  part = "pushdown" =>
    LET wanted == SqlRows(input.table, input.filter)
        passed == {k \in DOMAIN input.table : RowPasses(input.table[k], input.filter)}
        nulls == \E k \in DOMAIN input.table : input.table[k]["c"] = NullValue
        between == \E t \in FilterTerms(input.filter) :
                     t.op = "between" \/ (t.op = "not" /\ t.term.op = "between")
        halfOpen == between /\ Negative(input.filter) /\ NullValue \in FilterLiterals(input.filter)
    IN /\ FilterSupported(input.filter) => passed \subseteq wanted
       /\ FilterSupported(input.filter) /\ Compiles(input.filter) /\ ~halfOpen =>
            wanted \subseteq passed
       /\ Compiles(input.filter) /\ NullValue \notin FilterLiterals(input.filter)
            /\ (Negative(input.filter) => ~nulls) =>
            Range(PushedRows(input.table, input.filter)) = wanted

\* A filter that was handed down selects the rows SQL selects, whether it is
\* evaluated on rows, compiled, or first used to leave chunks out.
PushdownsMatchSql == RowsPassAsInSql /\ ChunkPruningKeepsMatches

\* What ORDER BY asks for: a rank per row, NULLs on the side the plan names, the
\* primary key between equals.
SortsBefore(table, plan, a, b) ==
  LET side(k) == IF table[k][plan.order] # NullValue THEN 0 ELSE IF plan.nullsFirst THEN -1 ELSE 1
      value(k) == IF side(k) # 0 THEN 0
                  ELSE (IF plan.descending THEN -1 ELSE 1) * table[k][plan.order].v
  IN \/ side(a) < side(b)
     \/ side(a) = side(b) /\ value(a) < value(b)
     \/ side(a) = side(b) /\ value(a) = value(b) /\ a.v < b.v

\* The heap of skip + fetch rows, the same over numbers in a reused scratch row, and
\* the scan in key order each return the window of the sorted matching rows that
\* OFFSET and LIMIT name, in order, also at the ends: nothing skipped, nothing
\* fetched, fewer rows than the window.
TopNIsTheSortedWindow ==
  part = "topn" =>
    LET order == input.plan.order
        wanted == SqlRows(input.table, input.plan.filter)
        rank(k) == Cardinality({o \in wanted : SortsBefore(input.table, input.plan, o, k)})
        inPlace(row, n) == /\ row.pk \in wanted /\ rank(row.pk) = n
                           /\ row.order = input.table[row.pk][order]
        right(rows, skip, fetch) ==
          /\ Len(rows) = InWindow(Cardinality(wanted), fetch, skip)
          /\ \A i \in DOMAIN rows : inPlace(rows[i], skip + i - 1)
    IN \A w \in TopNWindows, numeric \in IF order = "k" THEN {TRUE} ELSE BOOLEAN :
         right(TopNScan(input.table, input.plan @@ [skip |-> w[1], fetch |-> w[2]], numeric),
               w[1], w[2])

\* What SQL says an aggregate of some rows is; AVG is the pair of sum and count.
SqlAggregate(table, rows, plan) ==
  LET values == {k \in rows : table[k][plan.column] # NullValue}
      v(k) == table[k][plan.column].v
      all == {v(k) : k \in values}
      sum == FoldSet(LAMBDA k, acc : v(k) + acc, 0, values)
  IN CASE plan.op = "count star" -> IntValue(Cardinality(rows))
       [] plan.op = "count" -> IntValue(Cardinality(values))
       [] values = {} -> NullValue
       [] plan.op = "min" -> IntValue(CHOOSE n \in all : \A o \in all : n <= o)
       [] plan.op = "max" -> IntValue(CHOOSE n \in all : \A o \in all : n >= o)
       [] plan.op = "sum" -> IntValue(sum)
       [] plan.op = "avg" -> [sum |-> sum, count |-> Cardinality(values)]

\* Whichever reduction the store chooses (all of the row, only its key, numbers in a
\* reused scratch row), the groups and their aggregates are those of SQL, also for
\* NULL values, NULL groups and no rows at all.  (SUM of no values is the exception
\* the README lists: over numbers it is 0 and not NULL.)
AggregatesMatchSql ==
  part = "aggregate" =>
    LET plan == input.plan
        wanted == SqlRows(input.table, plan.filter)
        groups == {GroupOf(plan, input.table[k]) : k \in wanted}
                    \cup (IF plan.group = {} THEN {GroupOf(plan, <<>>)} ELSE {})
        sum(v) == IF plan.op = "sum" /\ v = NullValue THEN IntValue(0) ELSE v
        right(sql) ==
          /\ GenericAggregate(input.table, plan) = sql
          /\ EngineAggregate(input.table, plan, FALSE) = sql
          /\ EngineAggregate(input.table, plan, TRUE)
               = IF KeyOnly(plan) THEN sql ELSE [g \in DOMAIN sql |-> sum(sql[g])]
    IN right([g \in groups |->
                SqlAggregate(input.table, {k \in wanted : GroupOf(plan, input.table[k]) = g}, plan)])

\* The order SQL has on two values of one column type, as ColumnValue::partial_cmp has
\* it (-0.0 equals 0.0); texts only when they are equally long, since their length
\* comes first in the key.
Smaller(a, b) ==
  CASE a.variant \in DOMAIN IntTag -> a.v < b.v
    [] a.variant = "Boolean" -> ~a.v /\ b.v
    [] a.variant \in DOMAIN FloatTag ->
         LET number(f) == IF f.negative THEN -f.magnitude ELSE f.magnitude
         IN number(a.v) < number(b.v)
    [] a.variant \in DOMAIN SegmentTag ->
         \/ Len(a.v) < Len(b.v)
         \/ Len(a.v) = Len(b.v) /\ KeyLess(a.v, b.v)

\* -0.0 and 0.0: equal numbers with different bits.
SignedZeros(a, b) ==
  /\ a.variant = b.variant /\ a.variant \in DOMAIN FloatTag
  /\ a # b /\ a.v.magnitude = 0 /\ b.v.magnitude = 0

\* The bytes of a key order values as SQL does (texts by length first), and a range
\* scan between two bounds meets the rows between them and no row of another
\* table or epoch.  The other families of keys (versions, newest first; chunks,
\* statistics and index entries) lie outside.  (-0.0 against 0.0 is the exception the
\* README lists: they are equal, and their keys are not.)
RowRangesAreExact ==
  part = "key" /\ input.one.variant = input.two.variant
               /\ ~SignedZeros(input.one, input.two) =>
    /\ Smaller(input.one, input.two) <=> KeyLess(EncodeKey(input.one), EncodeKey(input.two))
    /\ \A low, high \in BOOLEAN, table, era \in 0..1 :
         LET bound(i) == [value |-> input.two, inclusive |-> i]
             below == RowRangeBetween(1, 0, NoBound, bound(high))
             above == RowRangeBetween(1, 0, bound(low), NoBound)
             key == RowKey(table, era, input.one)
             mine == table = 1 /\ era = 0
         IN /\ InRange(key, below) <=> mine /\ (Smaller(input.one, input.two)
                                                \/ (high /\ input.one = input.two))
            /\ InRange(key, above) <=> mine /\ (Smaller(input.two, input.one)
                                                \/ (low /\ input.one = input.two))
    /\ LET version(n) == RowVersionKey(1, 0, input.one, n)
           others == {version(0), ChunkKey(1, 1, 0, 0), StatsKey(1, 0, 0),
                      IndexEntryKey(1, input.one, input.two)}
       IN /\ \A key \in others : ~InRange(key, PrefixRange(RowPrefix(1, 0)))
          /\ KeyLess(version(1), version(0))

\* No encoded value is the beginning of another, so that an index entry falls apart
\* into its value and its primary key again, whichever of the types with that variant
\* the columns have, and an equality scan meets the entries of its value only, all
\* variants with the tag of a text counting as one.  (Exceptions the README lists:
\* an equality scan for 0.0 misses -0.0, and keys of YEAR and BIT columns cannot be
\* read.)
EntryRangesAreExact ==
  part = "key" =>
    LET one == input.one
        two == input.two
        key == IndexEntryKey(2, one, two)
        suffix == SubSeq(key, Len(IndexAllPrefix(2)) + 1, Len(key))
        texts == {v \in DOMAIN SegmentTag : SegmentTag[v] = SegmentTag["Text"]}
        same(a, b) == a = b \/ (a.variant \in texts /\ b.variant \in texts /\ a.v = b.v)
    IN /\ \A s \in KeyTypes[one.variant], t \in KeyTypes[two.variant] :
            LET first == DecodeKey(s, suffix)
            IN /\ first.value = one
               /\ DecodeKey(t, SubSeq(suffix, first.used + 1, Len(suffix))).value = two
               /\ PkAfter(IndexPrefix(2, one), key, t) = two
       /\ \A v \in {one, two} :
            ~SignedZeros(v, one) => (InRange(key, PrefixRange(IndexPrefix(2, v))) <=> same(v, one))

\* next_prefix carries: the range it ends holds the keys with the prefix, no more.
PrefixRangesAreExact ==
  part = "prefix" =>
    (InRange(input.key, PrefixRange(input.prefix))
       <=> SubSeq(input.key, 1, IF Len(input.prefix) < Len(input.key) THEN Len(input.prefix)
                                ELSE Len(input.key)) = input.prefix)

\* A scan of the store meets what it is meant to meet and nothing else: the rows
\* between two bounds, the entries of a value, the keys with a prefix.
RangesAreExact == RowRangesAreExact /\ EntryRangesAreExact /\ PrefixRangesAreExact

\* LIKE without recursion: the value falls apart into pieces, one per token.
Tokens(pattern) ==
  LET read[n \in 0..Len(pattern)] ==
        IF n = 0 THEN [tokens |-> <<>>, escaped |-> FALSE]
        ELSE IF read[n - 1].escaped
          THEN [tokens |-> Append(read[n - 1].tokens, <<"char", pattern[n]>>), escaped |-> FALSE]
        ELSE IF pattern[n] = "#" /\ n < Len(pattern)
          THEN [read[n - 1] EXCEPT !.escaped = TRUE]
        ELSE [read[n - 1] EXCEPT !.tokens = Append(@,
               IF pattern[n] = "%" THEN <<"any", 0>> ELSE IF pattern[n] = "_" THEN <<"one", 0>>
               ELSE <<"char", pattern[n]>>)]
  IN read[Len(pattern)].tokens

\* like_match_chars says yes exactly when such pieces exist.
LikeIsSplitting ==
  part = "like" =>
    LET tokens == Tokens(input.pattern)
        n == Len(tokens)
        piece(cut, i) == SubSeq(input.value, cut[i - 1] + 1, cut[i])
        fits(cut, i) == CASE tokens[i][1] = "any" -> TRUE
                          [] tokens[i][1] = "one" -> Len(piece(cut, i)) = 1
                          [] tokens[i][1] = "char" -> piece(cut, i) = <<tokens[i][2]>>
    IN LikeMatches(input.value, input.pattern, "#")
         <=> \E cut \in [0..n -> 0..Len(input.value)] :
               /\ cut[0] = 0 /\ cut[n] = Len(input.value)
               /\ \A i \in 1..n : cut[i - 1] <= cut[i] /\ fits(cut, i)
=============================================================================
