------------------------------ MODULE Catalog ------------------------------
(***************************************************************************)
(* The catalog (catalog/store.rs, legacy.rs, codec.rs), the statements that *)
(* change it (the DDL branches of execute_plan, ddl_planner.rs,            *)
(* ddl_create_table.rs) and the counters beside it (row ids and sequences, *)
(* transactions.rs).                                                       *)
(*                                                                         *)
(* All of it lives in the one key-value store, kv, and none of it in a     *)
(* transaction: a statement is a list of puts and deletes done one after   *)
(* the other.  A statement is planned first (plan_statement), which reads  *)
(* the catalog and already allocates table ids and sequence values; it     *)
(* then waits for its metadata locks (MySQL mode only) and executes the    *)
(* plan.  A fault, a store error or the end of the process, stops it       *)
(* between two writes.                                                     *)
(*                                                                         *)
(* Data of a table is a set of rows: one key per primary key value, whose  *)
(* value is the stamp of the INSERT that wrote it.                         *)
(***************************************************************************)
EXTENDS Integers, Sequences, FiniteSets, SequencesExt

CONSTANTS Sessions,      \* the client sessions
          Places,        \* pairs of a database and a schema name
          Tables,        \* names of tables
          Others,        \* names of views, indexes and free-standing sequences
          Locking,       \* TRUE in MySQL mode: metadata locks are taken
          MaxStatements, \* bound on the statements of a behaviour
          MaxFaults,     \* bound on its faults
          MaxKey         \* largest primary key value given by a client

ASSUME CatalogAssumption ==
  /\ Places \subseteq STRING \X STRING
  /\ <<"defaultdb", "public">> \in Places
  /\ Locking \in BOOLEAN
  /\ MaxStatements \in Nat /\ MaxFaults \in Nat /\ MaxKey \in Nat

VARIABLES kv,        \* the store: a function from the keys that are present
          running,   \* what every session is doing
          up,        \* the process has bootstrapped the catalog
          count,     \* statements planned so far
          faults,    \* faults so far
          done,      \* stamps of the INSERTs that were acknowledged
          gone       \* stamps whose rows an acknowledged statement removed

vars == <<kv, running, up, count, faults, done, gone>>

-----------------------------------------------------------------------------
(***************************************************************************)
(* The store and its keys (codec.rs).                                      *)
(***************************************************************************)
Put(key, value) == [put |-> TRUE, key |-> key, value |-> value]
Delete(key) == [put |-> FALSE, key |-> key, value |-> 0]

Written(store, write) ==
  IF write.put
    THEN [k \in DOMAIN store \cup {write.key} |->
            IF k = write.key THEN write.value ELSE store[k]]
    ELSE [k \in DOMAIN store \ {write.key} |-> store[k]]

AllWritten(store, writes) ==
  LET after[i \in 0..Len(writes)] ==
        IF i = 0 THEN store ELSE Written(after[i - 1], writes[i])
  IN after[Len(writes)]

Has(store, key) == key \in DOMAIN store
KeysOf(store, kind) == {k \in DOMAIN store : k[1] = kind}

DatabaseByName(name) == <<"database", name>>
DatabaseById(id) == <<"databaseId", id>>
SchemaByName(db, name) == <<"schema", db, name>>
SchemaById(id) == <<"schemaId", id>>
TableByName(db, schema, name) == <<"table", db, schema, name>>
TableById(id) == <<"tableId", id>>
LegacyTable(name) == <<"legacy", name>>
IndexByName(db, schema, name) == <<"index", db, schema, name>>
IndexById(id) == <<"indexId", id>>
IndexByTable(table, index) == <<"indexOf", table, index>>
ViewByName(db, schema, name) == <<"view", db, schema, name>>
ViewById(id) == <<"viewId", id>>
NextKey(kind) == <<"next", kind>>
SequenceKey(db, schema, name) == <<"sequence", db, schema, name>>
RowIdKey(table) == <<"rowid", table>>
RowKey(table, epoch, pk) == <<"row", table, epoch, pk>>

\* allocate_id: the id it returns; the next one is written back.
NextId(store, kind) == IF Has(store, NextKey(kind)) THEN store[NextKey(kind)] ELSE 1
AllocateId(store, kind) == Put(NextKey(kind), NextId(store, kind) + 1)

-----------------------------------------------------------------------------
(***************************************************************************)
(* Reads.  An id is 0 for None and -1 for the error "payload missing".     *)
(***************************************************************************)
Missing == 0
Broken == -1

GetDatabase(store, db) ==
  IF ~Has(store, DatabaseByName(db)) THEN Missing
  ELSE IF Has(store, DatabaseById(store[DatabaseByName(db)]))
    THEN store[DatabaseByName(db)] ELSE Broken

GetSchema(store, db, schema) ==
  LET key == SchemaByName(GetDatabase(store, db), schema)
  IN IF GetDatabase(store, db) <= 0 THEN GetDatabase(store, db)
     ELSE IF ~Has(store, key) THEN Missing
     ELSE IF Has(store, SchemaById(store[key])) THEN store[key] ELSE Broken

\* A table's descriptor.  `sequence` names the sequence of its AUTO_INCREMENT
\* column by place and table name; <<>> when it has no primary key of its own.
TableRecord(id, db, schema, place, name, epoch, sequence) ==
  [id |-> id, db |-> db, schema |-> schema, place |-> place, name |-> name,
   epoch |-> epoch, sequence |-> sequence]

NoTable(id) == TableRecord(id, 0, 0, <<>>, "", 0, <<>>)

IsDefault(place) == place = <<"defaultdb", "public">>

\* load_table: by name, then by id.  The default schema falls back to the key
\* earlier releases used.
LoadTable(store, place, name) ==
  LET db == GetDatabase(store, place[1])
      schema == GetSchema(store, place[1], place[2])
      key == TableByName(db, schema, name)
  IN IF db <= 0 THEN NoTable(db)
     ELSE IF schema <= 0 THEN NoTable(schema)
     ELSE IF ~Has(store, key)
       THEN IF IsDefault(place) /\ Has(store, LegacyTable(name))
              THEN store[LegacyTable(name)] ELSE NoTable(Missing)
     ELSE IF Has(store, TableById(store[key])) THEN store[TableById(store[key])]
     ELSE NoTable(Broken)

Exists(table) == table.id > 0

\* list_tables, restricted to a place: the payloads by id, and the legacy ones
\* whose id and name are not among them.
ListTables(store, place) ==
  LET db == GetDatabase(store, place[1])
      byId == {store[k] : k \in KeysOf(store, "tableId")}
      here == {t \in byId : t.db = db}
      legacy == {store[k] : k \in KeysOf(store, "legacy")}
  IN {t \in here : t.place[2] = place[2]}
       \cup (IF IsDefault(place)
               THEN {t \in legacy : \A u \in here : u.id # t.id /\ u.name # t.name}
               ELSE {})

\* list_indexes_for_table
IndexesOf(store, table) ==
  {store[k] : k \in {key \in KeysOf(store, "indexOf") : key[2] = table}}

GetIndex(store, place, name) ==
  LET key == IndexByName(GetDatabase(store, place[1]),
                         GetSchema(store, place[1], place[2]), name)
  IN IF ~Has(store, key) THEN Missing
     ELSE IF Has(store, IndexById(store[key])) THEN store[key] ELSE Broken

LoadView(store, place, name) ==
  LET key == ViewByName(GetDatabase(store, place[1]),
                        GetSchema(store, place[1], place[2]), name)
  IN IF ~Has(store, key) THEN Missing
     ELSE IF Has(store, ViewById(store[key])) THEN store[key] ELSE Broken

\* The rows a scan of the table finds.
RowsOf(store, table) ==
  {k \in KeysOf(store, "row") : k[2] = table.id /\ k[3] = table.epoch}

Visible(store, place, name) ==
  LET table == LoadTable(store, place, name)
  IN IF Exists(table) THEN {store[k] : k \in RowsOf(store, table)} ELSE {}

-----------------------------------------------------------------------------
(***************************************************************************)
(* The writes of every catalog operation, in the code's order.             *)
(***************************************************************************)

\* ensure_bootstrap: nothing once the default database has its name.
Bootstrap(store) ==
  IF Has(store, DatabaseByName("defaultdb")) THEN <<>>
  ELSE <<Put(NextKey("database"), 2), Put(NextKey("schema"), 2), Put(NextKey("table"), 1),
         Put(NextKey("index"), 1), Put(NextKey("view"), 1),
         Put(DatabaseById(1), "defaultdb"), Put(DatabaseByName("defaultdb"), 1),
         Put(SchemaById(1), "public"), Put(SchemaByName(1, "public"), 1)>>

WriteSchema(store, db, name) ==
  LET id == NextId(store, "schema")
  IN <<AllocateId(store, "schema"), Put(SchemaById(id), name), Put(SchemaByName(db, name), id)>>

CreateDatabase(store, db) ==
  LET id == NextId(store, "database")
  IN IF GetDatabase(store, db) # Missing THEN <<>>
     ELSE <<AllocateId(store, "database"), Put(DatabaseById(id), db),
            Put(DatabaseByName(db), id)>> \o WriteSchema(store, id, "public")

CreateSchema(store, place) ==
  IF GetDatabase(store, place[1]) <= 0 \/ GetSchema(store, place[1], place[2]) # Missing
    THEN <<>> ELSE WriteSchema(store, GetDatabase(store, place[1]), place[2])

\* store_table: the descriptor by id, its id by name, and the legacy copy.
StoreTable(store, place, table) ==
  LET db == GetDatabase(store, place[1])
      schema == GetSchema(store, place[1], place[2])
      descriptor == [table EXCEPT !.db = db, !.schema = schema, !.place = place]
  IN IF schema <= 0 THEN <<>>
     ELSE <<Put(TableById(table.id), descriptor),
            Put(TableByName(db, schema, table.name), table.id)>>
          \o (IF IsDefault(place) THEN <<Put(LegacyTable(table.name), descriptor)>> ELSE <<>>)

\* drop_index_by_id
DropIndexById(store, id) ==
  LET index == store[IndexById(id)]
  IN <<Delete(IndexById(id)), Delete(IndexByName(index.db, index.schema, index.name)),
       Delete(IndexByTable(index.table, id))>>

\* list_indexes_for_table fails when a payload is missing.  drop_table would stop
\* after its first two deletes; a DROP lists them before it, for their entries.
IndexesAreWhole(store, table) ==
  \A i \in IndexesOf(store, table) : Has(store, IndexById(i))

\* delete_index_data_for_table meets an error: the table or one of its indexes has
\* no payload.
Unlisted(store, id) == id = Broken \/ ~IndexesAreWhole(store, id)

\* Mutant: the table's indexes stay.
DropTableKeys_KeepsIndexes(store, place, name) ==
  LET table == LoadTable(store, place, name)
  IN IF ~Exists(table) THEN <<>>
     ELSE <<Delete(TableById(table.id)), Delete(TableByName(table.db, table.schema, name))>>
          \o (IF IsDefault(place) THEN <<Delete(LegacyTable(name))>> ELSE <<>>)

\* drop_table
DropTableKeys(store, place, name) ==
  LET table == LoadTable(store, place, name)
      indexes == SetToSeq(IndexesOf(store, table.id))
  IN IF ~Exists(table) THEN <<>>
     ELSE <<Delete(TableById(table.id)), Delete(TableByName(table.db, table.schema, name))>>
          \o (IF IndexesAreWhole(store, table.id)
                THEN FlattenSeq([i \in DOMAIN indexes |-> DropIndexById(store, indexes[i])])
                     \o (IF IsDefault(place) THEN <<Delete(LegacyTable(name))>> ELSE <<>>)
                ELSE <<>>)

\* Mutant: the new name is stored before the old one is deleted.
RenameTable_StoreFirst(store, place, name, new) ==
  LET table == LoadTable(store, place, name)
  IN IF LoadTable(store, place, new).id # Missing \/ ~Exists(table) THEN <<>>
     ELSE StoreTable(store, place, [table EXCEPT !.name = new])
          \o <<Delete(TableByName(table.db, table.schema, name))>>
          \o (IF IsDefault(place) THEN <<Delete(LegacyTable(name))>> ELSE <<>>)

\* rename_table: the old name is deleted first.
RenameTable(store, place, name, new) ==
  LET table == LoadTable(store, place, name)
      db == GetDatabase(store, place[1])
      schema == GetSchema(store, place[1], place[2])
  IN IF LoadTable(store, place, new).id # Missing \/ ~Exists(table) THEN <<>>
     ELSE <<Delete(TableByName(db, schema, name))>>
          \o (IF IsDefault(place) THEN <<Delete(LegacyTable(name))>> ELSE <<>>)
          \o StoreTable(store, place, [table EXCEPT !.name = new])

\* create_index of the catalog (its entries are the module RowIndexes' matter).
CreateIndex(store, place, name, index) ==
  LET table == LoadTable(store, place, name)
      id == NextId(store, "index")
  IN IF ~Exists(table) \/ GetIndex(store, place, index) # Missing THEN <<>>
     ELSE <<AllocateId(store, "index"),
            Put(IndexById(id), [db |-> table.db, schema |-> table.schema,
                                table |-> table.id, name |-> index]),
            Put(IndexByName(table.db, table.schema, index), id),
            Put(IndexByTable(table.id, id), id)>>

DropIndex(store, place, index) ==
  IF GetIndex(store, place, index) <= 0 THEN <<>>
  ELSE DropIndexById(store, GetIndex(store, place, index))

\* store_view; CREATE OR REPLACE writes the same keys again.
StoreView(store, place, name) ==
  LET db == GetDatabase(store, place[1])
      schema == GetSchema(store, place[1], place[2])
      old == LoadView(store, place, name)
      id == IF old > 0 THEN old ELSE NextId(store, "view")
  IN IF schema <= 0 \/ old = Broken \/ LoadTable(store, place, name).id # Missing THEN <<>>
     ELSE (IF old > 0 THEN <<>> ELSE <<AllocateId(store, "view")>>)
          \o <<Put(ViewById(id), [db |-> db, place |-> place, name |-> name]),
               Put(ViewByName(db, schema, name), id)>>

DropView(store, place, name) ==
  IF LoadView(store, place, name) <= 0 THEN <<>>
  ELSE <<Delete(ViewById(LoadView(store, place, name))),
         Delete(ViewByName(GetDatabase(store, place[1]),
                           GetSchema(store, place[1], place[2]), name))>>

-----------------------------------------------------------------------------
(***************************************************************************)
(* Sequences and row ids.                                                  *)
(***************************************************************************)

\* The sequence of a table: serial_sequence_name of the name it was created with.
SequenceOf(table) == SequenceKey(table.sequence[1], table.sequence[2], table.sequence[3])
HasSequence(table) == table.sequence # <<>>

CreateSequence(store, key) == IF Has(store, key) THEN <<>> ELSE <<Put(key, 1)>>

\* The sequence was dropped, or its CREATE TABLE ended before it: error 42P01.
SequenceMissing(store, table) == HasSequence(table) /\ ~Has(store, SequenceOf(table))

\* advance_sequence_to_at_least, of a sequence that is there
AdvanceSequence(store, key, minimum) ==
  IF Has(store, key) /\ minimum > store[key] THEN <<Put(key, minimum)>> ELSE <<>>

\* Mutant: the counter is not advanced.
NextRowId_Stuck(store, table) == IF Has(store, RowIdKey(table)) THEN store[RowIdKey(table)] ELSE 1

\* allocate_internal_row_id
NextRowId(store, table) == IF Has(store, RowIdKey(table)) THEN store[RowIdKey(table)] + 1 ELSE 1

-----------------------------------------------------------------------------
(***************************************************************************)
(* Plans.  A plan carries what plan_statement read: for CREATE TABLE,      *)
(* INSERT and TRUNCATE the table descriptor.                               *)
(***************************************************************************)
Plan(op, place, name, new, table, pk) ==
  [op |-> op, place |-> place, name |-> name, new |-> new, table |-> table, pk |-> pk,
   stamp |-> count + 1, before |-> {}, after |-> {}]

\* INSERT: the row, then its sequence, then the descriptor, which is the plan's.  An
\* explicit key whose sequence is missing ends in an error after the row.
InsertSteps(store, plan) ==
  LET table == plan.table
      pk == IF HasSequence(table) THEN plan.pk ELSE NextRowId(store, table.id)
      key == RowKey(table.id, table.epoch, pk)
  IN IF HasSequence(table) /\ Has(store, key) THEN <<>>      \* duplicate key
     ELSE (IF HasSequence(table) THEN <<>> ELSE <<Put(RowIdKey(table.id), pk)>>)
          \o <<Put(key, plan.stamp)>>
          \o (IF HasSequence(table)
                THEN AdvanceSequence(store, SequenceOf(table), pk + 1) ELSE <<>>)
          \o (IF SequenceMissing(store, table) THEN <<>>
              ELSE StoreTable(store, plan.place, table))

\* CREATE TABLE and CREATE TABLE AS.
CreateTableSteps(store, plan) ==
  IF StoreTable(store, plan.place, plan.table) = <<>> THEN <<>>
  ELSE StoreTable(store, plan.place, plan.table)
       \o (IF HasSequence(plan.table) THEN CreateSequence(store, SequenceOf(plan.table))
           ELSE <<>>)

\* CREATE TABLE LIKE: a copied index is named after the table; one of that name
\* there already is left alone (if_not_exists).
CreateTableLikeSteps(store, plan) ==
  LET writes == CreateTableSteps(store, plan)
      after == AllWritten(store, writes)
  IN IF writes = <<>> \/ GetIndex(after, plan.place, plan.name) # Missing THEN writes
     ELSE writes \o CreateIndex(after, plan.place, plan.name, plan.name)

CreateTableAsSteps(store, plan) ==
  IF StoreTable(store, plan.place, plan.table) = <<>> THEN <<>>
  ELSE StoreTable(store, plan.place, plan.table)
       \o <<Put(RowIdKey(plan.table.id), 1),
            Put(RowKey(plan.table.id, plan.table.epoch, 1), plan.stamp)>>

\* DROP TABLE: delete_index_data_for_table lists the indexes before anything is
\* deleted; then the catalog, then the rows of the current epoch.
DropTableSteps(store, plan) ==
  LET table == LoadTable(store, plan.place, plan.name)
      rows == SetToSeq(RowsOf(store, table))
  IN IF ~Exists(table) \/ ~IndexesAreWhole(store, table.id) THEN <<>>
     ELSE DropTableKeys(store, plan.place, plan.name)
          \o [i \in DOMAIN rows |-> Delete(rows[i])]

\* Mutant: TRUNCATE keeps the epoch.
TruncateSteps_SameEpoch(store, plan) ==
  LET table == LoadTable(store, plan.place, plan.name)
  IN IF ~Exists(table) THEN <<>> ELSE StoreTable(store, plan.place, table)

\* TRUNCATE: bump_table_epoch; the rows stay behind under the old epoch.  When the
\* sequence to reset is missing it ends in an error, after the new epoch.
TruncateSteps(store, plan) ==
  LET table == LoadTable(store, plan.place, plan.name)
  IN IF ~Exists(table) THEN <<>>
     ELSE StoreTable(store, plan.place, [table EXCEPT !.epoch = @ + 1])
          \o (IF Locking /\ HasSequence(plan.table) /\ Has(store, SequenceOf(plan.table))
                THEN <<Put(SequenceOf(plan.table), 1)>> ELSE <<>>)

\* DROP SCHEMA: the tables listed, the views, the schema.  A table that cannot be
\* loaded, or an index of it that cannot, ends it before that table is touched.
DropSchemaSteps(store, plan) ==
  LET place == plan.place
      schema == GetSchema(store, place[1], place[2])
      tables == SetToSeq({t.name : t \in ListTables(store, place)})
      views == SetToSeq({store[k].name : k \in {v \in KeysOf(store, "viewId") :
                                                 store[v].place = place}})
      drop(acc, name) ==
        IF acc.stopped THEN acc
        ELSE IF Unlisted(acc.store, LoadTable(acc.store, place, name).id)
          THEN [acc EXCEPT !.stopped = TRUE]
          ELSE LET ws == DropTableKeys(acc.store, place, name)
               IN [writes |-> acc.writes \o ws, store |-> AllWritten(acc.store, ws),
                   stopped |-> FALSE]
      after[i \in 0..Len(tables)] ==
        IF i = 0 THEN [writes |-> <<>>, store |-> store, stopped |-> FALSE]
        ELSE drop(after[i - 1], tables[i])
      dropped == after[Len(tables)]
  IN IF dropped.stopped \/ schema <= 0 THEN dropped.writes
     ELSE dropped.writes
          \o FlattenSeq([i \in DOMAIN views |-> DropView(store, place, views[i])])
          \o <<Delete(SchemaById(schema)),
               Delete(SchemaByName(GetDatabase(store, place[1]), place[2]))>>

\* execute_plan.
Steps(store, plan) ==
  CASE plan.op = "CreateDatabase" -> CreateDatabase(store, plan.place[1])
    [] plan.op = "CreateSchema" -> CreateSchema(store, plan.place)
    [] plan.op = "CreateTable" -> CreateTableSteps(store, plan)
    [] plan.op = "CreateTableAs" -> CreateTableAsSteps(store, plan)
    [] plan.op = "CreateTableLike" -> CreateTableLikeSteps(store, plan)
    [] plan.op = "CreateSequence" ->
         CreateSequence(store, SequenceKey(plan.place[1], plan.place[2], plan.name))
    [] plan.op = "CreateView" -> StoreView(store, plan.place, plan.name)
    [] plan.op = "CreateIndex" -> CreateIndex(store, plan.place, plan.name, plan.new)
    [] plan.op = "DropTable" -> DropTableSteps(store, plan)
    [] plan.op = "DropIndex" -> DropIndex(store, plan.place, plan.name)
    [] plan.op = "DropSequence" ->
         <<Delete(SequenceKey(plan.place[1], plan.place[2], plan.name))>>
    [] plan.op = "DropView" -> DropView(store, plan.place, plan.name)
    [] plan.op = "DropSchema" -> DropSchemaSteps(store, plan)
    [] plan.op = "Truncate" -> TruncateSteps(store, plan)
    [] plan.op = "RenameTable" -> RenameTable(store, plan.place, plan.name, plan.new)
    [] plan.op = "Insert" -> InsertSteps(store, plan)

\* The statement ends with an error after the writes it does: an INSERT that meets
\* no sequence, or a DROP that meets a table or an index without payload.
EndsInError(store, plan) ==
  LET met == CASE plan.op = "DropTable" -> {plan.name}
               [] plan.op = "DropSchema" -> {t.name : t \in ListTables(store, plan.place)}
               [] OTHER -> {}
  IN \/ plan.op = "Insert" /\ SequenceMissing(store, plan.table)
     \/ \E n \in met : Unlisted(store, LoadTable(store, plan.place, n).id)

\* The stamp an acknowledged statement has to have written.
Adds(store, plan) ==
  IF plan.op \in {"Insert", "CreateTableAs"} /\ ~EndsInError(store, plan)
    THEN {plan.stamp} ELSE {}

\* The stamps of the rows a finished statement has to have removed; TRUNCATE has
\* removed them when it meets no sequence to reset.
Removes(store, plan) ==
  CASE EndsInError(store, plan) -> {}
    [] plan.op \in {"DropTable", "Truncate"} -> Visible(store, plan.place, plan.name)
    [] plan.op = "DropSchema" -> UNION {Visible(store, plan.place, n) : n \in Tables}
    [] OTHER -> {}

-----------------------------------------------------------------------------
(***************************************************************************)
(* Metadata locks (plan_lock_targets): a read of the table for an INSERT,  *)
(* a write of the object for everything else.                              *)
(***************************************************************************)
LockScope(plan) ==
  CASE plan.op = "CreateDatabase" -> "Database"
    [] plan.op \in {"CreateSchema", "DropSchema"} -> "Schema"
    [] plan.op \in {"CreateView", "DropView"} -> "View"
    [] plan.op \in {"CreateSequence", "DropSequence"} -> "Sequence"
    [] plan.op = "DropIndex" -> "Index"
    [] OTHER -> "Table"

LocksConflict(p, q) ==
  /\ p.op # "Insert" \/ q.op # "Insert"
  /\ p.place[1] = q.place[1]
  /\ \/ "Database" \in {LockScope(p), LockScope(q)}
     \/ /\ p.place = q.place
        /\ \/ "Schema" \in {LockScope(p), LockScope(q)}
           \/ LockScope(p) = LockScope(q) /\ p.name = q.name

-----------------------------------------------------------------------------
Idle == [phase |-> "idle", plan |-> <<>>, todo |-> <<>>]

Init ==
  /\ kv = <<>>
  /\ running = [s \in Sessions |-> Idle]
  /\ up = FALSE
  /\ count = 0
  /\ faults = 0
  /\ done = {}
  /\ gone = {}

\* The process starts: ensure_bootstrap_for_mode, before any client is served.
\* It is the first session of the model that carries its writes.
StartUp ==
  /\ ~up
  /\ \A s \in Sessions : running[s] = Idle
  /\ LET writes == Bootstrap(kv)
         first == CHOOSE s \in Sessions : TRUE
     IN /\ running' = [running EXCEPT ![first] =
                         IF writes = <<>> THEN Idle
                         ELSE [phase |-> "starting", plan |-> <<>>, todo |-> writes]]
        /\ up' = (writes = <<>>)
  /\ UNCHANGED <<kv, count, faults, done, gone>>

\* plan_statement has produced a plan, with the one write planning can do.
Planned(s, plan, writes) ==
  /\ up /\ running[s] = Idle /\ count < MaxStatements
  /\ running' = [running EXCEPT ![s] = [phase |-> "planned", plan |-> plan, todo |-> <<>>]]
  /\ kv' = AllWritten(kv, writes)
  /\ count' = count + 1
  /\ UNCHANGED <<up, faults, done, gone>>

\* A plan that only names an object.
NamePlan(op, place, name) == Plan(op, place, name, name, NoTable(0), 0)

PlanCreateDatabase(s) ==
  \E place \in Places : Planned(s, NamePlan("CreateDatabase", place, ""), <<>>)

PlanCreateSchema(s) ==
  \E place \in Places : Planned(s, NamePlan("CreateSchema", place, ""), <<>>)

PlanDropSchema(s) ==
  \E place \in Places : Planned(s, NamePlan("DropSchema", place, ""), <<>>)

\* plan_create_sequence: the schema has to exist.
PlanCreateSequence(s) ==
  \E place \in Places, name \in Others :
    /\ GetSchema(kv, place[1], place[2]) > 0
    /\ Planned(s, NamePlan("CreateSequence", place, name), <<>>)

PlanDropSequence(s) ==
  \E place \in Places, name \in Others : Planned(s, NamePlan("DropSequence", place, name), <<>>)

PlanCreateView(s) ==
  \E place \in Places, name \in Others : Planned(s, NamePlan("CreateView", place, name), <<>>)

PlanDropView(s) ==
  \E place \in Places, name \in Others : Planned(s, NamePlan("DropView", place, name), <<>>)

\* plan_drop_index: the index is looked up while planning.
PlanDropIndex(s) ==
  \E place \in Places, name \in Others :
    /\ GetIndex(kv, place, name) > 0
    /\ Planned(s, NamePlan("DropIndex", place, name), <<>>)

\* plan_drop_table, plan_create_index and plan_alter_table resolve the table first.
PlanDropTable(s) ==
  \E place \in Places, name \in Tables :
    /\ Exists(LoadTable(kv, place, name))
    /\ Planned(s, NamePlan("DropTable", place, name), <<>>)

PlanCreateIndex(s) ==
  \E place \in Places, name \in Tables, index \in Others :
    /\ Exists(LoadTable(kv, place, name))
    /\ Planned(s, Plan("CreateIndex", place, name, index, NoTable(0), 0), <<>>)

PlanRenameTable(s) ==
  \E place \in Places, name \in Tables : \E new \in Tables \ {name} :
    /\ Exists(LoadTable(kv, place, name))
    /\ Planned(s, Plan("RenameTable", place, name, new, NoTable(0), 0), <<>>)

\* The tables plan_create_table and its siblings describe: the name is free and the
\* table id is allocated while planning.
NewTable(place, name, auto) ==
  TableRecord(NextId(kv, "table"), GetDatabase(kv, place[1]), GetSchema(kv, place[1], place[2]),
              place, name, 1, IF auto THEN <<place[1], place[2], name>> ELSE <<>>)

PlannedTable(s, op, place, name, auto) ==
  /\ GetSchema(kv, place[1], place[2]) > 0
  /\ LoadTable(kv, place, name).id = Missing
  /\ Planned(s, Plan(op, place, name, name, NewTable(place, name, auto), 0),
             <<AllocateId(kv, "table")>>)

PlanCreateTable(s) ==
  \E place \in Places, name \in Tables, auto \in BOOLEAN :
    PlannedTable(s, "CreateTable", place, name, auto)

PlanCreateTableAs(s) ==
  \E place \in Places, name \in Tables : PlannedTable(s, "CreateTableAs", place, name, FALSE)

\* plan_create_table_like: the plan lists the indexes the source has now.
PlanCreateTableLike(s) ==
  \E place \in Places, name, source \in Tables :
    LET table == LoadTable(kv, place, source)
    IN /\ Exists(table) /\ IndexesOf(kv, table.id) # {}
       /\ PlannedTable(s, "CreateTableLike", place, name, HasSequence(table))

\* plan_truncate_table
PlanTruncate(s) ==
  \E place \in Places, name \in Tables :
    /\ Exists(LoadTable(kv, place, name))
    /\ Planned(s, Plan("Truncate", place, name, name, LoadTable(kv, place, name), 0), <<>>)

\* plan_insert: a missing key takes its default from the sequence now
\* (build_insert_row_at, column_default_value_at, allocate_sequence_value).
PlanInsert(s) ==
  \E place \in Places, name \in Tables :
    LET table == LoadTable(kv, place, name)
        key == SequenceOf(table)
    IN /\ Exists(table)
       /\ \/ /\ ~HasSequence(table)
             /\ Planned(s, Plan("Insert", place, name, name, table, 0), <<>>)
          \/ /\ HasSequence(table) /\ Has(kv, key)
             /\ Planned(s, Plan("Insert", place, name, name, table, kv[key]),
                        <<Put(key, kv[key] + 1)>>)
          \/ /\ HasSequence(table)
             /\ \E pk \in 1..MaxKey :
                  Planned(s, Plan("Insert", place, name, name, table, pk), <<>>)

\* The locks are granted and execution begins.
Execute(s) ==
  LET plan == running[s].plan
  IN /\ running[s].phase = "planned"
     /\ Locking => \A o \in Sessions \ {s} :
                     running[o].phase = "writing" => ~LocksConflict(running[o].plan, plan)
     /\ running' = [running EXCEPT ![s] =
                      IF Steps(kv, plan) = <<>> THEN Idle    \* an error or nothing to do
                      ELSE [phase |-> "writing", todo |-> Steps(kv, plan),
                            plan |-> [plan EXCEPT !.before = Removes(kv, plan),
                                                  !.after = Adds(kv, plan)]]]
     /\ UNCHANGED <<kv, up, count, faults, done, gone>>

\* One put or delete; with the last one the statement is answered.
Write(s) ==
  LET todo == running[s].todo
      last == Len(todo) = 1
      plan == running[s].plan
  IN /\ running[s].phase \in {"writing", "starting"}
     /\ kv' = Written(kv, Head(todo))
     /\ running' = [running EXCEPT ![s] = IF last THEN Idle ELSE [@ EXCEPT !.todo = Tail(todo)]]
     /\ up' = (up \/ (last /\ running[s].phase = "starting"))
     /\ IF last /\ running[s].phase = "writing"
          THEN done' = done \cup plan.after /\ gone' = gone \cup plan.before
          ELSE UNCHANGED <<done, gone>>
     /\ UNCHANGED <<count, faults>>

\* A store call fails: the statement ends with XX000 and keeps what it wrote.
Fail(s) ==
  /\ running[s].phase = "writing"
  /\ faults < MaxFaults
  /\ faults' = faults + 1
  /\ running' = [running EXCEPT ![s] = Idle]
  /\ UNCHANGED <<kv, up, count, done, gone>>

\* The process ends and is started again.
Crash ==
  /\ \E s \in Sessions : running[s] # Idle
  /\ faults < MaxFaults
  /\ faults' = faults + 1
  /\ up' = FALSE
  /\ running' = [s \in Sessions |-> Idle]
  /\ UNCHANGED <<kv, count, done, gone>>

Next ==
  \/ StartUp
  \/ Crash
  \/ \E s \in Sessions :
       \/ PlanCreateDatabase(s)
       \/ PlanCreateSchema(s)
       \/ PlanDropSchema(s)
       \/ PlanCreateSequence(s)
       \/ PlanDropSequence(s)
       \/ PlanCreateView(s)
       \/ PlanDropView(s)
       \/ PlanDropIndex(s)
       \/ PlanDropTable(s)
       \/ PlanCreateIndex(s)
       \/ PlanRenameTable(s)
       \/ PlanCreateTable(s)
       \/ PlanCreateTableAs(s)
       \/ PlanCreateTableLike(s)
       \/ PlanTruncate(s)
       \/ PlanInsert(s)
       \/ Execute(s)
       \/ Write(s)
       \/ Fail(s)

Spec == Init /\ [][Next]_vars

-----------------------------------------------------------------------------
(***************************************************************************)
(* Properties.                                                             *)
(***************************************************************************)
Quiet == up /\ \A s \in Sessions : running[s] = Idle

\* Whatever a fault leaves behind, load_table (catalog/store.rs) never returns one
\* table under two names, nor a descriptor stored under another name: RENAME, DROP
\* and CREATE cannot make two names write to the same rows.
NamesAreExclusive ==
  \A p, q \in Places, m, n \in Tables :
    LET a == LoadTable(kv, p, m)
        b == LoadTable(kv, q, n)
    IN Exists(a) =>
         /\ a.name = m /\ a.place = p
         /\ Exists(b) /\ a.id = b.id => <<p, m>> = <<q, n>>

\* Rows that a finished DROP or TRUNCATE removed never come back under any name,
\* although TRUNCATE leaves them in the store and ids are kept in plain counters.
RemovedRowsStayGone ==
  \A p \in Places, n \in Tables : Visible(kv, p, n) \cap gone = {}

\* Without faults every acknowledged row is found again through the catalog until
\* a statement removes it, under RENAME and name reuse as well.
AcknowledgedRowsAreFound ==
  Quiet /\ faults = 0 =>
    \A stamp \in done \ gone : \E p \in Places, n \in Tables : stamp \in Visible(kv, p, n)

\* Without faults the three key families of the catalog agree between statements:
\* every name leads to a payload, every table is found under the name it carries,
\* and the table of every index has its payload.
CatalogIsConsistent ==
  Quiet /\ faults = 0 =>
    /\ \A p \in Places, n \in Tables \cup Others :
         Broken \notin {LoadTable(kv, p, n).id, LoadView(kv, p, n), GetIndex(kv, p, n)}
    /\ \A k \in KeysOf(kv, "tableId") : LoadTable(kv, kv[k].place, kv[k].name) = kv[k]
    /\ \A k \in KeysOf(kv, "indexId") : Has(kv, TableById(kv[k].table))

=============================================================================
