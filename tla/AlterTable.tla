----------------------------- MODULE AlterTable -----------------------------
(***************************************************************************)
(* ALTER TABLE (alter_table_at and alter_table_add_primary_key of          *)
(* core/server/row_write.rs, planned by plan_alter_table of ddl_planner.rs)*)
(* over the rows of one table, which are records of module RowFormat.      *)
(*                                                                         *)
(* Rows are rewritten one put at a time and the descriptor is stored last, *)
(* so a fault in between leaves rows and descriptor apart.  `expected` is  *)
(* what the client wrote: the model's own note, not a variable of the      *)
(* program.  A row keeps its model key when ADD PRIMARY KEY moves it: the  *)
(* values it is moved to are distinct.  The copy of a row as a marker and  *)
(* cells, and the index entries, are left out.                             *)
(***************************************************************************)
EXTENDS RowFormat

CONSTANTS Keys,         \* primary key values
          Names,        \* column names
          Types,        \* column types clients use
          MaxColumns,   \* bound on the columns of the table
          MaxAlters,    \* bound on the statements
          MaxTears      \* bound on the faults

ASSUME AlterAssumption == MaxColumns \in Nat /\ MaxAlters \in Nat /\ MaxTears \in Nat

VARIABLES columns,      \* TableSchema.columns in the catalog
          primaryKey,   \* TableSchema.primary_key; RowId for the hidden one
          stored,       \* key -> row record
          expected,     \* key -> column name -> value
          rewriting,    \* the ALTER in progress: the rows left and the new columns
          alters,       \* statements so far
          tears,        \* faults so far
          spoiled       \* a MODIFY changed a type, or a fault cut a DROP COLUMN short

alterVars == <<columns, primaryKey, stored, expected, rewriting, alters, tears, spoiled>>

-----------------------------------------------------------------------------
Value(type, v) == [variant |-> IF IsFixed(type) THEN VariantOf(type) ELSE "Text", v |-> v]
ColumnNames(cols) == {cols[i].name : i \in DOMAIN cols}
Position(cols, name) == CHOOSE i \in DOMAIN cols : cols[i].name = name
NewId(cols) == 1 + FoldLeft(LAMBDA m, c : IF c.id > m THEN c.id ELSE m, 0, cols)

\* A statement that scans the table fails when a row cannot be decoded.
Readable(cols) == \A k \in DOMAIN stored : ~TooWide(cols, stored[k])

RowId == "__rowid"

NotRewriting == [keys |-> {}, columns |-> <<>>, op |-> "none"]

\* The table of the first statement: two columns and one row that an earlier
\* release may have written.
AlterInit ==
  \E t1, t2 \in Types, k \in Keys, v \in 0..1, form \in {"fixed", "legacy", "fast"} :
    LET n1 == CHOOSE n \in Names : TRUE
        n2 == CHOOSE n \in Names \ {n1} : TRUE
        cols == <<[id |-> 1, name |-> n1, type |-> t1], [id |-> 2, name |-> n2, type |-> t2]>>
        row == [n \in {n1, n2} |-> IF n = n1 THEN Value(t1, 1)
                                   ELSE IF v = 0 THEN Null ELSE Value(t2, 1)]
        cells == [i \in 1..2 |-> [id |-> i, value |-> row[cols[i].name]]]
    IN /\ columns = cols
       /\ primaryKey \in {RowId, n1}
       /\ stored = [x \in {k} |-> CASE form = "fixed" -> EncodeRow(cols, row)
                                    [] form = "legacy" -> LegacyRecord(cells)
                                    [] form = "fast" -> FastRecord(cells)]
       /\ expected = [x \in {k} |-> row]
       /\ rewriting = NotRewriting
       /\ alters = 0 /\ tears = 0 /\ spoiled = FALSE

Begin == rewriting = NotRewriting /\ alters < MaxAlters /\ alters' = alters + 1

Renamed(row, old, new) ==
  [n \in (DOMAIN row \ {old}) \cup {new} |-> IF n = new THEN row[old] ELSE row[n]]
RenamedKey(old, new) == IF primaryKey = old THEN new ELSE primaryKey

\* The values of a column in the rows.
ValuesOf(name) == [k \in DOMAIN stored |-> DecodeRow(columns, stored[k])[name]]

\* INSERT of a new row (write_row_at); a second row with its primary key is refused.
InsertRow(k, v) ==
  /\ Begin
  /\ k \notin DOMAIN stored
  /\ primaryKey # RowId => \A x \in DOMAIN expected :
       expected[x][primaryKey] # Value(columns[Position(columns, primaryKey)].type, v)
  /\ LET row == [n \in ColumnNames(columns) |-> Value(columns[Position(columns, n)].type, v)]
     IN /\ stored' = [x \in DOMAIN stored \cup {k} |->
                        IF x = k THEN EncodeRow(columns, row) ELSE stored[x]]
        /\ expected' = [x \in DOMAIN expected \cup {k} |->
                          IF x = k THEN row ELSE expected[x]]
  /\ UNCHANGED <<columns, primaryKey, rewriting, tears, spoiled>>

\* AddColumn: every row is written with the new columns before they are stored.  NOT
\* NULL without a default is refused when there are rows.
AddColumn(name, type, default, nullable) ==
  /\ Begin
  /\ name \notin ColumnNames(columns)
  /\ Len(columns) < MaxColumns
  /\ Readable(columns)
  /\ nullable \/ default \/ stored = <<>>
  /\ LET value == IF default THEN Value(type, 1) ELSE Null
     IN /\ rewriting' = [keys |-> DOMAIN stored, op |-> "add",
                         columns |-> Append(columns, [id |-> NewId(columns), name |-> name,
                                                      type |-> type])]
        /\ expected' = [k \in DOMAIN expected |->
                          [n \in DOMAIN expected[k] \cup {name} |->
                             IF n = name THEN value ELSE expected[k][n]]]
  /\ UNCHANGED <<columns, primaryKey, stored, tears, spoiled>>

\* DropColumn: the rows are written without it.
DropColumn(name) ==
  /\ Begin
  /\ name \in ColumnNames(columns) \ {primaryKey}
  /\ Readable(columns)
  /\ rewriting' = [keys |-> DOMAIN stored, op |-> "drop",
                   columns |-> SelectSeq(columns, LAMBDA c : c.name # name)]
  /\ UNCHANGED <<columns, primaryKey, stored, expected, tears, spoiled>>

\* Mutant: the record is written with the columns the catalog still has.
RewriteRow_OldColumns(k) ==
  /\ k \in rewriting.keys
  /\ ~TooWide(rewriting.columns, stored[k])
  /\ stored' = [stored EXCEPT ![k] = EncodeRow(columns, DecodeRow(columns, stored[k]))]
  /\ rewriting' = [rewriting EXCEPT !.keys = @ \ {k}]
  /\ UNCHANGED <<columns, primaryKey, expected, alters, tears, spoiled>>

\* One iteration of the rewriting loops: write_row_at_with_olap_refresh, which
\* first reads the row with the new columns.
RewriteRow(k) ==
  /\ k \in rewriting.keys
  /\ ~TooWide(rewriting.columns, stored[k])
  /\ LET old == DecodeRow(columns, stored[k])
         row == [n \in ColumnNames(rewriting.columns) |->
                   IF n \in DOMAIN old THEN old[n] ELSE expected[k][n]]
     IN stored' = [stored EXCEPT ![k] = EncodeRow(rewriting.columns, row)]
  /\ rewriting' = [rewriting EXCEPT !.keys = @ \ {k}]
  /\ UNCHANGED <<columns, primaryKey, expected, alters, tears, spoiled>>

\* What the client may still expect of the rows once the ALTER has failed.
Restored(names) == [k \in DOMAIN expected |-> [n \in DOMAIN expected[k] \cap names |->
                                                 expected[k][n]]]

\* That read fails when the record has more columns: DROP COLUMN of a table with a
\* row of the fixed format ends here.
RewriteFails(k) ==
  /\ k \in rewriting.keys
  /\ TooWide(rewriting.columns, stored[k])
  /\ rewriting' = NotRewriting
  /\ expected' = Restored(ColumnNames(columns))
  /\ spoiled' = (spoiled \/ rewriting.keys # DOMAIN stored)
  /\ UNCHANGED <<columns, primaryKey, stored, alters, tears>>

\* A fault ends the statement between two rows or before store_table.
Tear ==
  /\ rewriting # NotRewriting
  /\ tears < MaxTears
  /\ tears' = tears + 1
  /\ rewriting' = NotRewriting
  /\ expected' = Restored(ColumnNames(columns))
  /\ spoiled' = (spoiled \/ (rewriting.op = "drop" /\ rewriting.keys # DOMAIN stored))
  /\ UNCHANGED <<columns, primaryKey, stored, alters>>

\* store_table of the new columns.
StoreColumns ==
  /\ rewriting # NotRewriting
  /\ rewriting.keys = {}
  /\ columns' = rewriting.columns
  /\ rewriting' = NotRewriting
  /\ expected' = Restored(ColumnNames(rewriting.columns))
  /\ UNCHANGED <<primaryKey, stored, alters, tears, spoiled>>

\* RenameColumn: only the descriptor changes.
RenameColumn(old, new) ==
  /\ Begin
  /\ old \in ColumnNames(columns) /\ new \notin ColumnNames(columns)
  /\ columns' = [columns EXCEPT ![Position(columns, old)].name = new]
  /\ primaryKey' = RenamedKey(old, new)
  /\ expected' = [k \in DOMAIN expected |-> Renamed(expected[k], old, new)]
  /\ UNCHANGED <<stored, rewriting, tears, spoiled>>

\* ModifyColumn (MODIFY and CHANGE COLUMN): the new type and name replace the old
\* ones and no row is rewritten.
ModifyColumn(old, new, type) ==
  /\ Begin
  /\ old \in ColumnNames(columns)
  /\ new = old \/ new \notin ColumnNames(columns)
  /\ LET i == Position(columns, old)
     IN /\ columns' = [columns EXCEPT ![i].name = new, ![i].type = type]
        /\ spoiled' = (spoiled \/ (columns[i].type # type /\ stored # <<>>))
  /\ primaryKey' = RenamedKey(old, new)
  /\ expected' = [k \in DOMAIN expected |-> Renamed(expected[k], old, new)]
  /\ UNCHANGED <<stored, rewriting, tears>>

\* alter_table_add_primary_key: another user key, a NULL or a value that is there twice
\* is refused before anything is written; then all rows are written again with the
\* current columns, under the next epoch and in batches before the descriptor is
\* stored, so that a fault leaves the rows of the old epoch as they were.
AddPrimaryKey(name) ==
  /\ Begin
  /\ primaryKey \in {RowId, name}
  /\ name \in ColumnNames(columns)
  /\ Readable(columns)
  /\ Null \notin Range(ValuesOf(name))
  /\ IsInjective(ValuesOf(name))
  /\ primaryKey' = name
  /\ stored' = [k \in DOMAIN stored |-> EncodeRow(columns, DecodeRow(columns, stored[k]))]
  /\ UNCHANGED <<columns, expected, rewriting, tears, spoiled>>

AlterNext ==
  \/ \E k \in Keys, v \in 0..1 : InsertRow(k, v)
  \/ \E n \in Names, t \in Types, d, nullable \in BOOLEAN : AddColumn(n, t, d, nullable)
  \/ \E n \in Names : DropColumn(n) \/ AddPrimaryKey(n)
  \/ \E k \in Keys : RewriteRow(k) \/ RewriteFails(k)
  \/ StoreColumns
  \/ Tear
  \/ \E o, n \in Names : RenameColumn(o, n)
  \/ \E o, n \in Names, t \in Types : ModifyColumn(o, n, t)

-----------------------------------------------------------------------------
AlterQuiet == rewriting = NotRewriting

\* Rows survive ADD, DROP and RENAME COLUMN and ADD PRIMARY KEY: between statements
\* every reader, the numeric one of the aggregates included, returns what the
\* client wrote, whatever format the row came in, and also once the record was
\* written again in the format of today (reencode_row_record_fast).
ReadBetweenStatements ==
  AlterQuiet /\ ~spoiled /\ tears = 0 =>
    \A k \in DOMAIN stored :
      /\ DecodeRow(columns, stored[k]) = expected[k]
      /\ DecodeRow(columns, Reencode(columns, stored[k])) = expected[k]
      /\ \A i \in DOMAIN columns : IsFixed(columns[i].type) =>
           DecodeNumeric(columns, stored[k], i) = expected[k][columns[i].name]

\* A fault between the rows and the descriptor of ADD COLUMN can make rows
\* unreadable; the row readers never return a wrong value for one, during the
\* statement or after it.  (DROP COLUMN of rows of an earlier release is the
\* exception: its rewritten rows read wrongly until the descriptor is stored.)
ReadDuringStatements ==
  ~spoiled /\ rewriting.op # "drop" =>
    \A k \in DOMAIN stored, i \in DOMAIN columns :
      DecodeColumn(columns, stored[k], i) \in {expected[k][columns[i].name], Failed}

\* ALTER TABLE never costs a client its data: rows read as they were written between
\* statements, and as written or not at all during one and after a fault in it.
RowsReadBack == ReadBetweenStatements /\ ReadDuringStatements

=============================================================================
