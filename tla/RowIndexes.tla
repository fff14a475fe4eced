----------------------------- MODULE RowIndexes -----------------------------
(***************************************************************************)
(* The rows of one table and the entries of its secondary indexes, written *)
(* by the statements of several sessions (core/server/row_write.rs,        *)
(* row_indexes.rs, mutations.rs, executor.rs, session_commands.rs and the  *)
(* index records of catalog/).                                             *)
(*                                                                         *)
(* The table has a user primary key and one indexed column that is never   *)
(* NULL, no foreign keys and no declared constraints; a row is the value   *)
(* of that column.  An index entry exists in two formats: one keyed by the *)
(* index id and one, older, keyed by the table's and the index's names.    *)
(* Statements run in autocommit: every put and delete reaches the store at *)
(* once, and the locks of MySQL mode last for the statement.  A statement  *)
(* is a walk through the store accesses of its handler; one visit to the   *)
(* list of indexes with the puts, deletes or scans that follow from it is  *)
(* one step.                                                               *)
(***************************************************************************)
EXTENDS LockConflict

CONSTANTS Sessions,
          Keys, Vals,    \* primary keys and values of the column, as ranks
          Names,         \* names of secondary indexes
          NoRow,
          MaxIndexId,    \* bound: index ids ever allocated
          MaxEpoch,      \* bound: how often the table may be truncated
          Clients        \* what the sessions may send: [mysql, sends]

ASSUME SessionAssumption == IsFiniteSet(Sessions)
ASSUME RankAssumption ==
  /\ Keys \subseteq Values /\ Vals \subseteq Values
  /\ \A r \in Keys \cup Vals : r + 1 \in Values
  /\ NoRow \notin Vals
ASSUME NameAssumption == Names \subseteq Indexes /\ Clustered \notin Names
ASSUME BoundAssumption == MaxIndexId \in Nat \ {0} /\ MaxEpoch \in Nat \ {0}

(***************************************************************************)
(* Statements.  Ignore, Upsert and Replace are MySQL's INSERT IGNORE,      *)
(* INSERT ... ON DUPLICATE KEY UPDATE col = VALUES(col) and REPLACE.       *)
(***************************************************************************)
InsertKinds == {"Insert", "Ignore", "Upsert", "Replace"}

Statements ==
  [kind : InsertKinds \cup {"Update"}, key : Keys, val : Vals]
    \cup [kind : {"Delete"}, key : Keys]
    \cup [kind : {"CreateIndex"}, name : Names, unique : BOOLEAN]
    \cup [kind : {"DropIndex"}, name : Names]
    \cup [kind : {"Truncate"}]

ASSUME ClientAssumption ==
  Clients \subseteq [mysql : BOOLEAN, sends : [Sessions -> SUBSET Statements]]

VARIABLES
  client,    \* the gateway's mode and clients, chosen once
  rows,      \* rows[epoch][key]: the value, or NoRow
  indexes,   \* the catalog's index records
  epoch,     \* table_epoch of the catalog's table record
  nextId,    \* the catalog's next index id
  entries,   \* <<index id, value, key>>
  legacy,    \* <<index name, value, key>>
  held,      \* the lock table
  run        \* run[s]: the statement session s executes

vars == <<client, rows, indexes, epoch, nextId, entries, legacy, held, run>>

Index    == [id : 1..MaxIndexId, name : Names, unique : BOOLEAN]
Versions == [Keys -> Vals \cup {NoRow}]
Empty    == [k \in Keys |-> NoRow]

RowLocks(kind) == RowLock("db", "public", "t", kind)
AllLocks ==
  {RowLocks(k) : k \in Kinds}
    \cup {StatementLock("db", "public", "t", MetadataWrite)}
    \cup {ObjectLock("Index", "db", "public", n) : n \in Names}

LT == INSTANCE LockTable WITH Owners <- Sessions, Locks <- AllLocks,
                              Conflicts <- LocksConflict

(***************************************************************************)
(* A running statement: the next access (pc), the epoch of the schema it   *)
(* was planned with, the locks it asks for, whether the unique index was a *)
(* conflict target when it was planned, the row it writes (key, val), the  *)
(* old row it read, and the rows or the index a DDL statement works with.  *)
(***************************************************************************)
Steps == {"idle", "lock", "start", "old", "validate", "unlink", "put", "link",
          "dropold", "dropunlink", "droprow", "store", "register", "backfill",
          "unregister", "clear", "clearlegacy", "done"}

AtRest == [pc |-> "idle", stmt |-> [kind |-> "Truncate"], epoch |-> 1, want |-> {},
           byValue |-> FALSE, key |-> NoRow, val |-> NoRow, old |-> NoRow,
           seen |-> Empty, id |-> 0]

Runs ==
  [pc : Steps, stmt : Statements, epoch : 1..MaxEpoch, want : SUBSET AllLocks,
   byValue : BOOLEAN, key : Keys \cup {NoRow}, val : Vals \cup {NoRow},
   old : Vals \cup {NoRow}, seen : Versions, id : 0..MaxIndexId]

Init ==
  /\ client \in Clients
  /\ rows = [e \in 1..MaxEpoch |-> Empty]
  /\ indexes \in {{}} \cup {{[id |-> 1, name |-> n, unique |-> TRUE]} : n \in Names}
  /\ nextId = IF indexes = {} THEN 1 ELSE 2
  /\ epoch = 1
  /\ entries = {}
  /\ legacy = {}
  /\ LT!TableInit
  /\ run = [s \in Sessions |-> AtRest]

At(s, step) == run[s].pc = step

Goto(s, step) == run' = [run EXCEPT ![s].pc = step]

\* read_visible_row_at with the planned schema
Row(s, k) == rows[run[s].epoch][k]

(***************************************************************************)
(* plan_statement and plan_lock_targets: the table's record, the indexes   *)
(* and the rows are read before any lock is held.                          *)
(***************************************************************************)
\* Mutant: the values of the new row are not locked in the indexes.
InsertRowLocks_PrimaryOnly(k, v) ==
  {RowLocks(InsertIntention(Clustered, k)), RowLocks(Record(Clustered, k)),
   RowLocks(MetadataRead)}

\* insert_row_locks_at, with the metadata lock of plan_lock_targets
InsertRowLocks(k, v) ==
  {RowLocks(InsertIntention(Clustered, k)), RowLocks(Record(Clustered, k)),
   RowLocks(MetadataRead)}
    \cup {RowLocks(InsertIntention(i.name, v)) : i \in indexes}
    \cup {RowLocks(Record(i.name, v)) : i \in indexes}

\* Mutant: a key that is not there is not locked.
PointLocks_RecordOnly(k) ==
  {RowLocks(MetadataRead)}
    \cup (IF rows[epoch][k] # NoRow THEN {RowLocks(Record(Clustered, k))} ELSE {})

\* primary_key_record_or_gap_locks_at, for UPDATE and DELETE by primary key
PointLocks(k) ==
  {IF rows[epoch][k] # NoRow THEN RowLocks(Record(Clustered, k))
                             ELSE RowLocks(Gap(Clustered, k, k + 1)),
   RowLocks(MetadataRead)}

TableDdlLock == StatementLock("db", "public", "t", MetadataWrite)

\* CREATE INDEX locks the table and the index; DROP INDEX locks the table of
\* the index only if there is one.
PlanLockTargets(st) ==
  CASE st.kind \in InsertKinds -> InsertRowLocks(st.key, st.val)
    [] st.kind \in {"Update", "Delete"} -> PointLocks(st.key)
    [] st.kind = "Truncate" -> {TableDdlLock}
    [] st.kind = "CreateIndex" ->
         {TableDdlLock, ObjectLock("Index", "db", "public", st.name)}
    [] st.kind = "DropIndex" ->
         {ObjectLock("Index", "db", "public", st.name)}
           \cup {TableDdlLock : i \in {j \in indexes : j.name = st.name}}

\* The bounds on ids and epochs, with what is already running.
Running(kind) == {s \in Sessions : ~At(s, "idle") /\ run[s].stmt.kind = kind}
WithinBounds(st) ==
  /\ st.kind = "CreateIndex" => nextId + Cardinality(Running("CreateIndex")) <= MaxIndexId
  /\ st.kind = "Truncate" => epoch + Cardinality(Running("Truncate")) < MaxEpoch

Plan(s, st) ==
  /\ At(s, "idle")
  /\ st \in client.sends[s]
  /\ WithinBounds(st)
  /\ run' = [run EXCEPT ![s] =
       [AtRest EXCEPT !.pc = IF client.mysql THEN "lock" ELSE "start",
                      !.stmt = st, !.epoch = epoch,
                      !.want = IF client.mysql THEN PlanLockTargets(st) ELSE {},
                      !.byValue = \E i \in indexes : i.unique]]
  /\ UNCHANGED <<client, rows, indexes, epoch, nextId, entries, legacy, held>>

\* acquire_plan_table_locks.  A request that times out or is refused, which the
\* session may learn late, ends the statement before it has done anything.
Lock(s) ==
  /\ At(s, "lock")
  /\ \/ LT!Acquire(s, run[s].want) /\ Goto(s, "start")
     \/ Goto(s, "done") /\ UNCHANGED held
  /\ UNCHANGED <<client, rows, indexes, epoch, nextId, entries, legacy>>

(***************************************************************************)
(* execute_plan: how each row statement starts.                            *)
(***************************************************************************)
\* scan_index_row_entries_at: the entries by name count when there is none by
\* id.
Listed(i, v, k) ==
  IF \E l \in Keys : <<i.id, v, l>> \in entries THEN <<i.id, v, k>> \in entries
                                                 ELSE <<i.name, v, k>> \in legacy

\* find_existing_row_for_conflict_columns: the listed rows that have the value;
\* when there is none, scan_visible_row_entries_at.
RowsWithValue(s, v) ==
  LET matching == {k \in Keys : Row(s, k) = v}
      indexed  == {k \in matching : \E i \in indexes : Listed(i, v, k)}
  IN  IF indexed # {} THEN indexed ELSE matching

\* find_existing_row_for_conflict: the primary key is the first target, the
\* columns of a unique index known at planning the second.
Conflicting(s) ==
  LET st == run[s].stmt IN
  IF Row(s, st.key) # NoRow THEN {st.key}
  ELSE IF run[s].byValue THEN RowsWithValue(s, st.val)
  ELSE {}

\* The statement goes on to write_row_at, or delete_row_at, of row k.
WriteRow(s, k, v) ==
  run' = [run EXCEPT ![s].pc = "old", ![s].key = k, ![s].val = v]

DeleteRow(s, k, v) ==
  run' = [run EXCEPT ![s].pc = "dropold", ![s].key = k, ![s].val = v]

StartInsert(s) ==
  LET st == run[s].stmt IN
  /\ At(s, "start") /\ st.kind = "Insert"
  /\ IF Row(s, st.key) # NoRow THEN Goto(s, "done")
                               ELSE WriteRow(s, st.key, st.val)
  /\ UNCHANGED <<client, rows, indexes, epoch, nextId, entries, legacy, held>>

\* More than one conflicting row is an error; INSERT IGNORE skips the row and
\* goes on to store_table.
StartInsertOnConflict(s) ==
  LET st == run[s].stmt
      found == Conflicting(s)
  IN
  /\ At(s, "start") /\ st.kind \in InsertKinds \ {"Insert"}
  /\ \/ found = {} /\ WriteRow(s, st.key, st.val)
     \/ Cardinality(found) > 1 /\ Goto(s, "done")
     \/ \E k \in found :
          /\ found = {k}
          /\ CASE st.kind = "Ignore"  -> Goto(s, "store")
               [] st.kind = "Upsert"  -> WriteRow(s, k, st.val)
               [] st.kind = "Replace" -> DeleteRow(s, k, st.val)
  /\ UNCHANGED <<client, rows, indexes, epoch, nextId, entries, legacy, held>>

\* apply_update_rows, apply_delete_rows with WriteAccess::PointLookup
StartPointWrite(s) ==
  LET st == run[s].stmt IN
  /\ At(s, "start") /\ st.kind \in {"Update", "Delete"}
  /\ IF Row(s, st.key) = NoRow THEN Goto(s, "done")
     ELSE IF st.kind = "Update" THEN WriteRow(s, st.key, st.val)
     ELSE DeleteRow(s, st.key, NoRow)
  /\ UNCHANGED <<client, rows, indexes, epoch, nextId, entries, legacy, held>>

(***************************************************************************)
(* write_row_at_with_olap_refresh                                          *)
(***************************************************************************)
ReadOldRow(s) ==
  /\ At(s, "old")
  /\ run' = [run EXCEPT ![s].pc = "validate", ![s].old = Row(s, run[s].key)]
  /\ UNCHANGED <<client, rows, indexes, epoch, nextId, entries, legacy, held>>

\* validate_index_entries_at: an entry of another row in either format
Taken(k, v) ==
  \E i \in indexes, other \in Keys \ {k} :
    i.unique /\ (<<i.id, v, other>> \in entries \/ <<i.name, v, other>> \in legacy)

ValidateIndexEntries(s) ==
  /\ At(s, "validate")
  /\ Goto(s, IF Taken(run[s].key, run[s].val) THEN "done"
             ELSE IF run[s].old # NoRow THEN "unlink"
             ELSE "put")
  /\ UNCHANGED <<client, rows, indexes, epoch, nextId, entries, legacy, held>>

\* delete_index_entries_at and write_index_entries_at for row k with value v
EntriesOf(k, v)       == {<<i.id, v, k>> : i \in indexes}
LegacyEntriesOf(k, v) == {<<i.name, v, k>> : i \in indexes}

DeleteIndexEntries(s, here, next) ==
  /\ At(s, here)
  /\ entries' = entries \ EntriesOf(run[s].key, run[s].old)
  /\ legacy' = legacy \ LegacyEntriesOf(run[s].key, run[s].old)
  /\ Goto(s, next)
  /\ UNCHANGED <<client, rows, indexes, epoch, nextId, held>>

PutRow(s) ==
  /\ At(s, "put")
  /\ rows' = [rows EXCEPT ![run[s].epoch][run[s].key] = run[s].val]
  /\ Goto(s, "link")
  /\ UNCHANGED <<client, indexes, epoch, nextId, entries, legacy, held>>

\* After an INSERT's row comes the table's record; an UPDATE is done.
WriteIndexEntries(s) ==
  /\ At(s, "link")
  /\ entries' = entries \cup EntriesOf(run[s].key, run[s].val)
  /\ legacy' = legacy \cup LegacyEntriesOf(run[s].key, run[s].val)
  /\ Goto(s, IF run[s].stmt.kind = "Update" THEN "done" ELSE "store")
  /\ UNCHANGED <<client, rows, indexes, epoch, nextId, held>>

\* The end of InsertRows: store_table writes the schema the statement was
\* planned with.
StoreTable(s) ==
  /\ At(s, "store")
  /\ epoch' = run[s].epoch
  /\ Goto(s, "done")
  /\ UNCHANGED <<client, rows, indexes, nextId, entries, legacy, held>>

(***************************************************************************)
(* delete_row_at, for DELETE and for the row a REPLACE replaces            *)
(***************************************************************************)
ReadDeletedRow(s) ==
  LET old == Row(s, run[s].key) IN
  /\ At(s, "dropold")
  /\ run' = [run EXCEPT ![s].old = old,
                        ![s].pc = IF old # NoRow THEN "dropunlink" ELSE "droprow"]
  /\ UNCHANGED <<client, rows, indexes, epoch, nextId, entries, legacy, held>>

DropRow(s) ==
  LET st == run[s].stmt IN
  /\ At(s, "droprow")
  /\ rows' = [rows EXCEPT ![run[s].epoch][run[s].key] = NoRow]
  /\ IF st.kind = "Replace" THEN WriteRow(s, st.key, st.val) ELSE Goto(s, "done")
  /\ UNCHANGED <<client, indexes, epoch, nextId, entries, legacy, held>>

(***************************************************************************)
(* create_index_at: the rows are read, the index is registered, and the    *)
(* entries of the rows read are written in one batch.                      *)
(***************************************************************************)
HasDuplicates(version) ==
  \E k \in Keys, l \in Keys : k # l /\ version[k] = version[l] /\ version[k] # NoRow

NameTaken(n) == \E i \in indexes : i.name = n

CreateIndexScan(s) ==
  LET st == run[s].stmt IN
  /\ At(s, "start") /\ st.kind = "CreateIndex"
  /\ IF NameTaken(st.name) \/ (st.unique /\ HasDuplicates(rows[epoch]))
     THEN Goto(s, "done")
     ELSE run' = [run EXCEPT ![s].pc = "register", ![s].seen = rows[epoch]]
  /\ UNCHANGED <<client, rows, indexes, epoch, nextId, entries, legacy, held>>

\* CatalogStore::create_index looks the name up again.
CreateIndexRegister(s) ==
  LET st == run[s].stmt IN
  /\ At(s, "register")
  /\ IF NameTaken(st.name)
     THEN Goto(s, "done") /\ UNCHANGED <<indexes, nextId>>
     ELSE /\ indexes' = indexes \cup
               {[id |-> nextId, name |-> st.name, unique |-> st.unique]}
          /\ nextId' = nextId + 1
          /\ run' = [run EXCEPT ![s].pc = "backfill", ![s].id = nextId]
  /\ UNCHANGED <<client, rows, epoch, entries, legacy, held>>

\* Mutant: keys without a row get an entry as well.
Present_All(version) == Keys

Present(version) == {k \in Keys : version[k] # NoRow}

CreateIndexBackfill(s) ==
  LET seen == run[s].seen IN
  /\ At(s, "backfill")
  /\ entries' = entries \cup {<<run[s].id, seen[k], k>> : k \in Present(seen)}
  /\ legacy' = legacy \cup {<<run[s].stmt.name, seen[k], k>> : k \in Present(seen)}
  /\ Goto(s, "done")
  /\ UNCHANGED <<client, rows, indexes, epoch, nextId, held>>

(***************************************************************************)
(* DropIndexes: the record, then the entries by id.  The entries by name   *)
(* stay: they are looked for between slashes and written between colons.   *)
(***************************************************************************)
DropIndexRecord(s) ==
  LET st == run[s].stmt IN
  /\ At(s, "start") /\ st.kind = "DropIndex"
  /\ IF NameTaken(st.name)
     THEN \E i \in indexes :
            /\ i.name = st.name
            /\ indexes' = indexes \ {i}
            /\ run' = [run EXCEPT ![s].pc = "unregister", ![s].id = i.id]
     ELSE Goto(s, "done") /\ UNCHANGED indexes
  /\ UNCHANGED <<client, rows, epoch, nextId, entries, legacy, held>>

DropIndexEntries(s) ==
  /\ At(s, "unregister")
  /\ entries' = {e \in entries : e[1] # run[s].id}
  /\ Goto(s, "done")
  /\ UNCHANGED <<client, rows, indexes, epoch, nextId, legacy, held>>

(***************************************************************************)
(* TruncateTables: the epoch moves on, the rows of the old epoch stay in   *)
(* the store, and delete_index_data_for_table deletes the entries.         *)
(***************************************************************************)
BumpEpoch(s) ==
  /\ At(s, "start") /\ run[s].stmt.kind = "Truncate"
  /\ epoch < MaxEpoch
  /\ epoch' = epoch + 1
  /\ Goto(s, "clear")
  /\ UNCHANGED <<client, rows, indexes, nextId, entries, legacy, held>>

ClearEntries(s) ==
  /\ At(s, "clear")
  /\ entries' = {e \in entries : \A i \in indexes : e[1] # i.id}
  /\ Goto(s, "clearlegacy")
  /\ UNCHANGED <<client, rows, indexes, epoch, nextId, legacy, held>>

ClearLegacyEntries(s) ==
  /\ At(s, "clearlegacy")
  /\ legacy' = {}
  /\ Goto(s, "done")
  /\ UNCHANGED <<client, rows, indexes, epoch, nextId, entries, held>>

\* release_session_table_locks, whatever the outcome
Finish(s) ==
  /\ At(s, "done")
  /\ LT!Release(s, held[s])
  /\ run' = [run EXCEPT ![s] = AtRest]
  /\ UNCHANGED <<client, rows, indexes, epoch, nextId, entries, legacy>>

Next ==
  \E s \in Sessions :
    \/ \E st \in Statements : Plan(s, st)
    \/ Lock(s)
    \/ StartInsert(s)
    \/ StartInsertOnConflict(s)
    \/ StartPointWrite(s)
    \/ ReadOldRow(s)
    \/ ValidateIndexEntries(s)
    \/ DeleteIndexEntries(s, "unlink", "put")
    \/ PutRow(s)
    \/ WriteIndexEntries(s)
    \/ StoreTable(s)
    \/ ReadDeletedRow(s)
    \/ DeleteIndexEntries(s, "dropunlink", "droprow")
    \/ DropRow(s)
    \/ CreateIndexScan(s)
    \/ CreateIndexRegister(s)
    \/ CreateIndexBackfill(s)
    \/ DropIndexRecord(s)
    \/ DropIndexEntries(s)
    \/ BumpEpoch(s)
    \/ ClearEntries(s)
    \/ ClearLegacyEntries(s)
    \/ Finish(s)

Spec == Init /\ [][Next]_vars

(***************************************************************************)
(* Properties                                                              *)
(***************************************************************************)
\* Type invariant: the stored rows, the entries, the catalog's records and the
\* running statements have the types of the program.
RTypeOK ==
  /\ client \in Clients
  /\ rows \in [1..MaxEpoch -> Versions]
  /\ indexes \subseteq Index
  /\ epoch \in 1..MaxEpoch
  /\ nextId \in 1..(MaxIndexId + 1)
  /\ entries \subseteq (1..MaxIndexId) \X Vals \X Keys
  /\ legacy \subseteq Names \X Vals \X Keys
  /\ held \in [Sessions -> SUBSET AllLocks]
  /\ run \in [Sessions -> Runs]

\* A statement is between deleting the old entries of row k and writing the new
\* ones, or between the two halves of a DDL statement.
RowInFlight(k) ==
  \E s \in Sessions : run[s].key = k /\ run[s].pc \in {"put", "link", "droprow"}
BeingBuilt(i)  == \E s \in Sessions : At(s, "backfill") /\ run[s].id = i.id
BeingTruncated == \E s \in Sessions : run[s].pc \in {"clear", "clearlegacy"}

\* Whenever no statement is in the middle of writing a row, every index has
\* exactly one entry for it, the entry of the value the row has, and has none
\* for a row that is not there: an index lookup and a table scan find the same
\* rows (write_row_at, delete_row_at, create_index_at under the statements'
\* locks, or in one session alone).
EntriesMatchRows ==
  ~BeingTruncated =>
    \A i \in indexes, k \in Keys :
      (~BeingBuilt(i) /\ ~RowInFlight(k)) =>
        \A v \in Vals :
          /\ (<<i.id, v, k>> \in entries) <=> (rows[epoch][k] = v)
          /\ rows[epoch][k] = v => <<i.name, v, k>> \in legacy

\* INSERTs and DELETEs of any number of MySQL sessions never give two rows one
\* value of a unique index: the check of validate_index_entries_at and the
\* write after it are not atomic, and the index record locks of
\* insert_row_locks_at make up for it.  Only a row whose entries a DELETE has
\* already removed may still be seen beside its successor.
OnlyInsertsAndDeletes ==
  \A s \in Sessions : \A st \in client.sends[s] : st.kind \in {"Insert", "Delete"}

BeingDeleted(k) == \E s \in Sessions : At(s, "droprow") /\ run[s].key = k

InsertsNeverDuplicate ==
  client.mysql /\ OnlyInsertsAndDeletes /\ (\E i \in indexes : i.unique) =>
    ~HasDuplicates([k \in Keys |-> IF BeingDeleted(k) THEN NoRow ELSE rows[epoch][k]])

\* When a step changes a row, at most one statement is between its read and its
\* write of that row (MySQL mode, statements that write the row they name).
SoleWriter ==
  [][client.mysql => \A k \in Keys : (rows[epoch][k])' # rows[epoch][k] =>
       Cardinality({s \in Sessions : run[s].key = k
                      /\ run[s].pc \in {"old", "validate", "unlink", "put", "link",
                                        "dropold", "dropunlink", "droprow"}}) <= 1]_vars
=============================================================================
