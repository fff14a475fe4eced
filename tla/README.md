# TLA+ specifications of the uni5db gateway

uni5db (`src/src`) is a SQL gateway in Rust: it speaks the MySQL or the
Postgres wire protocol, plans and executes statements itself or through
DataFusion, and keeps rows, index entries and its catalog in a key-value store
behind two traits (`KvStore`, `KvTransaction`). This directory holds the
specifications of its core: the MySQL lock manager, the transactional store, the
sessions that use both, the rows and index entries they write, the catalog and
its DDL, and the data layer below and beside them (row and key formats, filters,
access paths, the query engine's caches and chunks, COPY, the system catalogs).
Paths below are relative to `src/src` unless they begin with `docs/`;
`PROJECT.json` maps every definition to its lines.

## 1. Inventory

| Part | State | Operations | Talks to | What is hard |
|---|---|---|---|---|
| Lock manager, `core/server/mysql_locks.rs`, releases in `context_session.rs` | `active_mysql_locks`, `active_mysql_lock_queue`, `active_mysql_lock_waits` (three tokio mutexes), `mysql_lock_notify` | `acquire_mysql_locks`, `release_session_statement_locks`, `release_session_table_locks`, `remove_mysql_lock_waiter`, KILL | called by every MySQL statement | three mutexes taken one after the other; wake-ups without a permit; deadlock search on a map of one edge per waiter; timeouts against late grants |
| Store, `mem_store.rs`, `kv_engine_store/*` | committed map; per transaction: snapshot, pending writes, savepoint stack | put, batch, delete, begin, get, snapshot get, range scans, savepoints, commit, rollback | everything persistent | savepoint names used twice; limits against pending deletions; a commit that fails after the buffer is gone |
| Sessions, `core/server/context_session.rs`, `session_commands.rs`, `search_path.rs`, `transactions.rs` | per session: transaction, isolation level, read-only mark, current-read mark, client status, autocommit flag | BEGIN, COMMIT, ROLLBACK, SET, multi-statement queries, DDL's implicit commit, KILL, disconnect | lock manager, store | five maps under five mutexes that must agree; errors half way through a query; KILL by another task |
| Row path, `mutations.rs`, `row_write.rs`, `scans.rs`, `executor_reads.rs` | rows | read visible row, staleness check, constraints, put | store, indexes, catalog | read, check and write are separate awaits |
| Indexes and constraints, `row_indexes.rs`, `row_constraints.rs` | index entries in two key formats | validate, delete, write entries; CREATE INDEX backfill | row path, catalog | entries and rows written one by one outside a transaction |
| Sequences, `transactions.rs` | counters in the store | nextval, advance, reset, row ids | INSERT, COPY | read-modify-write without a lock; found by the table's name |
| COPY and LOAD DATA, `copy.rs`, `protocol_traits.rs` | line buffer, pending writes | message, done, fail | row keys, indexes | messages cut anywhere; batches; errors in the middle |
| Catalog, `catalog/*` | databases, schemas, tables, views, indexes, id counters, legacy table keys | create, drop, load, list, rename, bootstrap | store | several keys per change, in no transaction; id allocation; crashes |
| DDL, `ddl_planner.rs`, `ddl_create_table.rs`, `executor.rs`, `row_write.rs` | table descriptors, row bytes | create, drop, alter, rename, truncate | catalog, rows, sequences | planned before its locks; rows rewritten one by one; epochs |
| Lock planning, `session_commands.rs:248-915` | none | access path to lock set | catalog, rows, lock manager | targets computed before the locks are held; ranges compared as text |
| DML planning and scans, `dml_planner.rs`, `scans.rs`, `executor.rs` | none | SELECT, UPDATE, DELETE by primary key, key range, index or full scan | filters, keys, transactions | LIMIT against filter, OFFSET and order of the path |
| OLAP statistics, `olap_refresh.rs` | chunks, zone maps, statistics | recompute | row path, query engine | scan, delete and write while others write |
| Storage layout, `storage_layout/*`, `codec.rs` | none | order-preserving keys, three row formats | store | order of encodings; rows read with another schema than they were written with |
| Aggregate pushdown, `kv_engine_store/aggregate_scan.rs` and fast numeric plans | none | fold over a scan | store, query engine | four reductions that must agree |
| SQL evaluation and values, `sql/*`, `filter.rs`, `types/*` | none | expressions, coercions | planner | three-valued logic, numeric edges |
| Front ends, `protocol/mysql/*`, `protocol/postgres.rs`, `prepared.rs` | connection, prepared statements | handshake, queries, cancel | sessions | drop of a connection, cancel requests |
| DataFusion bridge, `datafusion_bridge/*` | cached table providers per database | scans, filters handed down, TopN, aggregates | external engine, store | cached epochs; chunks read when there are no rows |
| System catalogs, `datafusion_bridge/pg_type_rows.rs` and others | none; built per query | registration of `pg_catalog` and `information_schema` tables | catalog | each table reads the catalog anew |

What makes each correct, in short: locks exclude and every request ends; a
transaction is all or nothing and reads one state; a session's maps, its locks
and the status its client sees agree after every path through a query; index
entries are exactly those of the rows; names lead to one table, rows that were
removed stay gone and rows that were acknowledged are found, over crashes, RENAME
and TRUNCATE; bytes are read as they were written; whichever path a statement takes
it reads, writes and locks the rows SQL means.

## 2. Modules

| Module | Models |
|---|---|
| `LockConflict` | Lock objects, their constructors and the compatibility relation (`mysql_locks_conflict`, `mysql_range_contains_value`, `mysql_ranges_overlap`). `Reserves` is the reference meaning: which index entries a lock reserves. |
| `LockManager` | The lock manager as tasks between awaits. `pc` names the control point: `check` (loop head, under the table's mutex), `register` (wait-for map), `arm` (before `Notified` exists), `sleep`, `run` (granted), and the release tail `unqueue`, `unwait`, `ring`. |
| `LockTable` | The abstract promise: a map from owners to locks, changed by granting a whole compatible request or by releasing. |
| `TxnStore` | Both stores; the constant `Engine` chooses. History variables `log`, `marks` and `history` record what a transaction means. |
| `GatewaySession` | Sessions over `TxnStore` (extended) and `LockTable` (instantiated): queries, transaction commands, autocommit, DDL's commit, KILL, disconnect, in MySQL or Postgres mode. |
| `RowIndexes` | One table's rows and index entries over `LockTable` (instantiated): each statement is a walk through the store accesses of its handler, with the schema, indexes and locks it was planned with. `run[s].pc` names the next access: `old`, `validate`, `unlink`, `put`, `link` are `write_row_at`, `dropold`, `dropunlink`, `droprow` are `delete_row_at`, `register`, `backfill` are `create_index_at`. |
| `Catalog` | The catalog as the keys it is made of. A DDL statement is planned (`Plan...`), waits for its metadata locks, and then executes its list of puts and deletes one at a time; a fault stops it between two, and a restart runs the bootstrap. Row ids, sequences and INSERT are in it because their keys are. |
| `RowFormat` | The bytes of a row: the writer's fixed format and the readers of all three formats, with the schema the reader has. |
| `AlterTable` | ALTER TABLE over `RowFormat` (extended): rows rewritten one put at a time, the descriptor last, faults in between. |
| `KeyFormat` | The bytes of row, index, version, chunk and statistics keys, their ranges and `next_prefix`. |
| `RowFilter` | WHERE on the fast path: evaluation, the bounds a filter gives, LIKE. |
| `AccessPaths` | Plans, scans, LIMIT and OFFSET, write targets and lock sets over `RowFilter` and `KeyFormat`. |
| `Pushdown` | Filters handed down by DataFusion, zone maps, predicates compiled into the store. |
| `TopN` | The heaps and the key-order scan of ORDER BY ... LIMIT. |
| `Aggregates` | The reductions of both stores. |
| `QueryEngine` | Cached providers, their scans, chunk refresh, row writes and TRUNCATE, store access by store access. |
| `Copy` | COPY FROM STDIN and LOAD DATA LOCAL: message, line, field, batch, done, fail. |
| `SystemCatalogs` | The registration of `pg_namespace`, `pg_type`, `pg_class`, `pg_attribute`, `pg_index` and `pg_constraint`, read by read, among other sessions' DDL. |
| `LockConflictProofs`, `LockManagerProofs`, `GatewayProofs`, `RowIndexesProofs`, `CatalogProofs`, `SystemCatalogsProofs`, `CopyProofs`, `QueryEngineProofs` | Theorems about the module of the name, with their proofs (section 4). `GatewayProofs` also holds those about `TxnStore`, which `GatewaySession` extends. |
| `MCLockManager`, `MCTxnStore`, `MCGatewaySession`, `MCRowIndexes`, `MCCatalog`, `MCData` | Instances for TLC. `MCData` holds what SQL says of filters, windows, order and aggregates, the reference the data layer is compared with. |

Composition: `LockManager` implements `LockTable` (checked and proved), and
`GatewaySession` and `RowIndexes` use `LockTable` for their locks, so that the detail of
queueing does not multiply with the detail of sessions. `AccessPaths` uses the
compatibility relation of `LockConflict` for the locks it plans. `MCData` puts the
modules of the data layer side by side: variable `part` says which of them a
behaviour is about, and a part that is a function of its input has one state per
input.

### Abstractions

- The lock vector is a set per owner; "the first conflict in insertion order"
  becomes "some conflict". Values are ranks in the order of the texts the locks
  compare: `AccessPaths` computes them from the Debug text of the number, digit by
  digit.
- Granting happens in one action: the task holds the lock table's mutex from
  the check to the insertion, and the other two tables are only reached through
  it or through single-entry removals of the owner.
- A row in `GatewaySession` is a counter and an UPDATE adds one. That is the
  smallest payload in which a lost update can be seen.
- A lock request in `GatewaySession` can fail at any time (timeouts and
  deadlocks can be reported after the conflict is gone).
- KILL takes the transaction object out of the map and drops it; a statement of
  the victim that runs on finds no transaction and reads and writes the store.
- `BEGIN` inside a transaction is modelled without options, DDL as a query of
  its own, KILL never of oneself. `active_transaction_snapshots` and the clock
  are written and never read by the program and are left out.
- Status `Error` of the Postgres front end is partly set by the pgwire crate and
  not modelled.
- `RowIndexes` has statements in autocommit only, one indexed column that is never
  NULL, no declared constraints and no foreign keys. Visiting the list of
  indexes and the scans, puts or deletes that follow from it is one step, and so
  is planning with the computation of the lock set; the statistics refresh after
  a write, auto-increment counters and the old row format are left out. Upserts
  assign the inserted value.
- The storage engine is external: a write batch is atomic or fails as a whole.
- `Catalog`: a row is its key and the stamp of the INSERT that wrote it. Keys are
  records, one per family of keys in the code. A planned statement keeps what it
  read; its writes are computed from that and from what it reads when it executes.
- `RowFormat` and `AlterTable`: a byte is a triple of kind, value and position, so
  that bytes read as something they were not written as are seen to be garbled.
  ADD PRIMARY KEY is one step, because its rows are written under a new epoch before
  the descriptor; the index entries and the markers and cells of the old format, which
  it deletes first, so that a fault leaves the indexes empty, are left out.
- `KeyFormat`: numbers have digits of `Radix` values and few digits; tags keep the
  code's numbers. A key is decoded by the type of its column; arrays are left out.
- `RowFilter`: an AND or OR joins two terms without AND or OR. Numbers and NULL are
  the values of filters; texts are covered by `KeyFormat` and LIKE.
- `QueryEngine`: one table outside transactions; a key is inserted once. TRUNCATE's new
  epoch is one step; `bump_table_epoch` loads the table and stores it in two
  (`catalog/store.rs:757`). An INSERT that stores its schema between the two stores the
  epoch that was loaded, as if it came first, unless it met an earlier TRUNCATE (`raced`).
- `Copy`: a table with a primary key and one unique index, one character per token; a
  batch is put whole or refused whole.
- `SystemCatalogs`: columns no other system table refers to are left out; other
  sessions' DDL is its puts and deletes of the keys the registration reads, legacy
  tables included. Tables are listed in two scans, as in `list_tables`: those of the
  catalog, and then the legacy ones whose name and id no listed table has.

## 3. Runs

| Run | Instance | Checks |
|---|---|---|
| `lock_safety` | three sessions that INSERT key 2, lock keys [1,3) or ALTER the table, all may KILL; 870,875 states | `TypeOK`, `MutualExclusion`, `NoGhostWaiters`, `WaitForMapIsAcyclic`, `NoOvertaking`, `ImplementsLockTable` |
| `lock_live` | two sessions, point, range, insert, ALTER and DROP SCHEMA requests, KILL; 60,283 states | `EveryRequestEnds` |
| `store` | both stores, the engine's with failing commits; two transactions, two keys, savepoints `a`, `A`, `b`; 245,512 states | `TypeOK`, `BuffersReplayTheLog`, `StoreReplaysCommits`; of the memory store `ScansMergePending`, `RepeatableReads` |
| `row_indexes` | two sessions, two keys, two values, one index name; four groups of clients (`MCClients`); 3,491,187 states | `RTypeOK`, `EntriesMatchRows`, `InsertsNeverDuplicate`, `SoleWriter` |
| `gateway_locks` | MySQL mode, two sessions, two rows, queries of one or two updates, DDL, autocommit; 429,492 states | `LocksCoverBuffers`, `IdleSessionsHoldNothing` |
| `gateway_kill` | MySQL mode over the engine, failing commits, KILL at any step; 104,851 states | `GTypeOK`, `IdleStatusIsTrue` |
| `gateway_postgres` | Postgres mode, both isolation levels, level changes, batches; 43,997 states | `ReadsRepeat` |
| `catalog` | one session, places `defaultdb.public` and `d.public`, tables `t` and `u`, a view or index name `t`, four statements, one fault; 568,980 states | `NamesAreExclusive`, `RemovedRowsStayGone`, `AcknowledgedRowsAreFound`, `CatalogIsConsistent` |
| `data` | the parts below; 1,610,572 states | fifteen invariants, below |
| `gateway_lostupdate` | MySQL mode, one row | violation of `NoLostUpdate` |
| `gateway_batch` | Postgres mode, queries of two updates | violation of `BatchErrorRollsBack` |
| `copy_indexes` | the part `copy` of `data` | violation of `CopyMaintainsIndexes` |

The parts of `data`, with what each compares:

| Part | Inputs | Invariants |
|---|---|---|
| `alter` | two columns of three types, one row in any of the three formats, with or without a primary key, INSERTs, three statements, one fault | `RowsReadBack`: a row reads as it was written between statements; during one, and after a fault, a value is right or an error |
| `select` | every table of keys -1..1 and a column of 0, 1 and NULL; all filters of one term, ANDs and ORs of ranges; with and without an index, in and outside a transaction, five windows | `SelectsMatchSql`, `WritesHitFirstRows` |
| `locks` | tables of the keys -2, 2 and 10, whose texts come in another order; pairs of comparisons and BETWEENs with and without an index | `OverlappingWritesConflict` |
| `key`, `prefix` | pairs of booleans, integers, floats with both zeros, texts and the other types kept as texts or bytes, read back as a column of every type; prefixes with 0, 254 and 255 | `RangesAreExact`: rows between bounds, entries of a value, keys of a prefix |
| `like` | texts to three, patterns to four characters | `LikeIsSplitting` |
| `chunks`, `pushdown` | two chunks, all leaves with NULL literals and with a literal the table cannot read; NOT, AND, OR of leaves | `PushdownsMatchSql`: on rows, compiled, and through zone maps |
| `topn` | tables of five rows, the column of four of them free, six windows | `TopNIsTheSortedWindow` |
| `aggregate` | all small tables, five filters, group by none or either column | `AggregatesMatchSql` |
| `engine` | two clients, two rows, one TRUNCATE, two queries, refreshes | `QueriesSeeTheTable`, `ChunksMatchRows` |
| `copy` | files of two lines from eleven and of three from three, with and without final newline and header, cut into any messages, into an empty table and one with a row; the store refuses a batch or none | `CopyStoresFirstLines`, `CopyKeepsUnique` |
| `system` | up to two tables, two indexes, a view, a legacy table that is a copy, hidden by a table of its name or visible; two DDL steps at any moment | `JoinsFindOneRow`, `ListingsFailOnlyOnDrops` |

Bounds. Three sessions are the fewest in which the queue, the wait-for map and a
third party disagree: a circle of three, a waiter behind a waiter, a KILL of one
of two waiters. The requests of `lock_safety` hold a point, an insert, a range
and a metadata write, so every line of the compatibility relation between them is
used; those of `lock_live` add the levels of the object hierarchy. Two
transactions and two keys suffice for a store in which operations look at one
transaction and at the committed map; savepoints are bounded for two
transactions together (`MaxMarks`), since a savepoint of one is invisible to the
other, and `a`/`A` are one name to the program. In `GatewaySession` the bound
is the number of statements submitted (`MaxUpdates`); commands are not bounded.
`RowIndexes` starts with an empty table, with or without a unique index; ids and
epochs are bounded by `MaxIndexId` and `MaxEpoch`, 2 each: an index dropped and
made again, and one TRUNCATE. Its clients are a constant because what the
statements guarantee depends on which of them meet: a session writes both rows
and drops the index while another writes the first row and makes and drops the
index; two sessions insert and delete; and each mode's statements run in one
session. Statements are not bounded. `catalog` has four statements because the
shortest way to a name that leads to the wrong table is create, rename, create,
drop or truncate; two places are needed since only the default one falls back to
legacy keys. It has one session, since with two the counters that are read and
written without a lock give one id out twice (below). The tables of `data` are
complete up to their size: three rows make both ends and the middle of a range,
five make a heap with two levels; three columns and three statements let a
column be dropped and another take its place; `MaxBatchRows = 2` makes a file of
three lines end in the middle of the second batch. `Radix = 6` is the smallest digit
in which the lengths and numbers of `key` fit and a carry still happens. Deadlock checking is off in
the MySQL gateway runs because clients may all disconnect and stay away.

Fairness (`lock_live` only). `WF` on a session's own steps: a tokio task that can
run is run, and tokio mutexes are fair. `SF` on `TimeOut`: the deadline counts
from the start of `acquire_mysql_locks`, not from the last wake-up, so a session
that is woken again and again meets it. Nothing is assumed about clients: holders
may never finish.

Symmetry is used only in runs without temporal properties beyond safety;
sessions and transactions are interchangeable there, and in `data` clients, the
query engine's rows and ALTER TABLE's keys.

### Where code and documents disagree

- `gateway_lostupdate`: `commit_session_transaction` releases the locks before
  `txn.commit()`; a second session can lock and read the old row in between.
  `docs/MYSQL_TODO.md:75` says locks are kept to the end of the transaction.
- `gateway_batch`: a statement that fails while executing returns through `?`
  and leaves the query's implicit transaction open; the test at
  `core/server/tests/copy_transactions.rs:495` expects a rollback.
- `copy_indexes`: a line of COPY whose primary key is in the table overwrites the row, and
  the index entries of the old values stay (`copy.rs:560`). `docs/POSTGRES_COMPAT_PLAN.md`
  lists index maintenance for COPY in line 67 and immediate enforcement of primary keys
  in line 72. `CopyStoresFirstLines` says nothing of a key that is named twice or was
  in the table.

The models show more behaviour of this kind, found while building them, that has
no run here. In the lock manager and the sessions:

- `acquire_mysql_locks` drops the table's mutex, registers the wait, and only then
  creates `Notified`; `notify_waiters` leaves no permit, so a release in between
  is missed (`mysql_locks.rs:494`). The session sleeps, blocked by nobody, until the
  next release or its timeout. `docs/MYSQL_TODO.md:76` promises the wake-up.
- The MySQL backend's drop rolls back only under status `Transaction`
  (`protocol/mysql/client_state.rs:21`); after a failed statement (`Error`) the
  transaction and its locks stay. `docs/MYSQL_TODO.md:69` says drop rolls back.

Further, the wait-for map keeps one edge per waiter and does not refresh it, so a circle
through a second blocker is left to the timeout and a stale edge can make a
victim of a session in no circle; a session that asks again for a lock it holds
queues behind the waiters for it; under the storage engine `snapshot_get` is the
trait's default and repeatable read is not repeatable; in Postgres mode two
repeatable-read transactions that update one row both commit, because staleness
is checked at the write only; a KILL in the middle of a statement leaves the
locks the statement takes afterwards; after a failed COMMIT under
`autocommit = 0` the next write is not in a transaction; in MySQL mode an UPDATE
of a row committed after the transaction's snapshot is refused although it is a
current read; `KvEngineTransaction::scan_range` stops its cursor after `limit`
records and merges the buffer afterwards, so a row deleted in the transaction uses
up the limit and hides a live one (`Storage!ScansMergePending` in `MCTxnStore`).

`RowIndexes` with other clients than those of `row_indexes` shows:

- an UPDATE takes no lock on the value it gives a row, so an INSERT and an UPDATE
  of two MySQL sessions can both find a unique value free and both write it;
- INSERT ends with `store_table` of the schema it was planned with
  (`executor.rs:748`): when a TRUNCATE of another session ran while it waited for
  its locks, the table's epoch goes back and the rows of that epoch, which
  TRUNCATE leaves in the store, are visible again; an UPDATE planned before the
  TRUNCATE writes entries for a row that is no longer there;
- an INSERT that finds its conflict through a unique value writes a row whose key
  it has not locked: with an UPDATE of that row beside it, an entry of the old
  value stays (`EntriesMatchRows` and `SoleWriter` break);
- in Postgres mode nothing keeps two writers of one row apart, and the same
  happens with plain UPDATEs.

Read in the code and part of the model without a property of its own: DROP INDEX
never deletes the entries by name (`executor.rs:376` looks for `/name/`, the keys
are written with colons), so an index made again under the name can refuse values
no row has; and a REPLACE that fails validation has already deleted the row it
replaces.

`Catalog` and `AlterTable`:

- statements are planned before they hold their metadata locks
  (`search_path.rs:566`): with two sessions an INSERT that waited ends with
  `store_table` of the schema it was planned with, which undoes a TRUNCATE or ALTER
  or brings a dropped table back;
- table ids, row ids and sequence values are read and written back without a lock:
  two sessions get one, and a row overwrites another;
- a crash in the bootstrap after the database and before the schema leaves
  `public` missing, since the next start looks for the database only
  (`catalog/store.rs:30`); a crash in RENAME after the old keys are deleted loses
  the table; one in DROP TABLE leaves index keys (`catalog/store.rs:499`);
- sequences are found by the table's name (`ddl_create_table.rs:95`): after RENAME
  and CREATE two tables share one, TRUNCATE of one resets both, and DROP TABLE keeps
  it; CREATE TABLE does not look for a view of the name;
- when the sequence of an AUTO_INCREMENT column is gone, an INSERT with an explicit
  value has written its row before it fails with 42P01 (`transactions.rs:517`), and
  TRUNCATE has bumped the epoch;
- an index key whose payload is missing after a fault fails
  `delete_index_data_for_table` (`row_indexes.rs:188`), with which DROP TABLE and DROP
  SCHEMA begin: the table cannot be dropped any more;
- DROP COLUMN fails as soon as a row in the writer's own format exists
  (`fast_row_decode.rs:270`, the row is read with the new schema); ADD or DROP COLUMN
  cut short by a fault leaves rows that are misread or unreadable, and MODIFY
  COLUMN with another type misreads all rows (`spoiled` marks these cases).

`AccessPaths`, `RowFilter` and `KeyFormat`:

- NOT LIKE on NULL and NOT IN and NOT BETWEEN with a NULL are true;
- text keys carry their length first, so ranges of texts are not those of SQL;
- a primary key range with NULL returns every row; LIMIT 0 with a filter returns
  one; ORDER BY the primary key is ignored for key lists and index range scans;
- the lock of a primary key range leaves its inclusive upper bound out
  (`mysql_locks.rs:35`), and compares the Debug texts of the values (`mysql_locks.rs:20`):
  `Int32(10)` comes before `Int32(2)` and `Int32(-1)` before `Int32(-2)`, so UPDATEs of
  `k >= 2` and of `k = 10` do not conflict though both write row 10.
  `docs/MYSQL_TODO.md:73` promises next-key locks on ranges. `OverlappingWritesConflict`
  leaves out exactly the rows at an inclusive upper bound and those on the other side of a
  bound as text (`InTextOrder`);
- -0.0 and 0.0 are equal to SQL and to `ColumnValue` (`types/column_value.rs:74`) and have
  different keys (`encode_ordered_f64`, `tuple_codec.rs:376`): a lookup or a range from 0.0 misses a row
  with -0.0, and both can be in the table. `RangesAreExact` leaves that pair out;
- key columns of type YEAR and BIT are written and cannot be decoded
  (`olap_stats.rs:155`); NUMERIC keys are texts and ordered as such.

`Pushdown`, `TopN` and `Aggregates`:

- NOT BETWEEN leaves out chunks that lie above the upper bound
  (`table_provider_scans.rs:846`), and with a NULL bound it is unknown also for rows
  beyond the other; a comparison under IS NULL or IS NOT TRUE is accepted as exact
  and never true;
- a filter with a literal `scalar_value_to_column_value` does not read (Int16, dates,
  decimals, Utf8View; `physical_predicates.rs:10`) is accepted as exact and unknown for every
  row, so that rows are missing (`table_provider_trait.rs:81`);
- predicates compiled into the store have two truth values: NOT of a comparison
  with NULL is true;
- SUM over numbers is 0 and not NULL when there is no value
  (`fast_numeric_eval.rs:68`); the memory store's group key joins texts, so that
  groups can collide (`mem_store.rs:296`).

`QueryEngine`:

- a provider built before an invalidation and cached after it stays
  (`core/server/context.rs:81`); a row inserted between TRUNCATE's new epoch and the
  invalidation is invisible to the cached provider (`executor.rs:508`);
- two refreshes that overlap leave chunks of deleted rows, which a query returns
  once the table has no rows (`olap_refresh.rs:33`); a query between the delete of
  a chunk's columns and of its meta record fails;
- rows in the old format are invisible as soon as one row in the new one exists,
  and TopN and aggregate scans read neither old rows nor chunks; queries through
  DataFusion do not see the session's own transaction.

`Copy`:

- the pending writes are taken before the store is asked to put them (`copy.rs:671`): a
  batch the store refuses is lost, after earlier ones were written;
- the row is queued before its unique value is checked; one key and value twice is
  accepted inside a batch and refused across batches;
- a newline inside quotes ends the line, a blank line that ends in CR LF is an
  error, another escape character than the quote is not removed; COPY takes no
  locks.

`SystemCatalogs`:

- a CREATE or ALTER between two registrations leaves references that find nothing
  (`JoinsFindOneRow` without its condition); so does a DROP of a table that hid a legacy
  table of its name or id, which the next list then has (`catalog/store.rs:405`: `pg_attribute`
  lists a table `pg_class` does not have); an index dropped while it is listed
  fails the query with "catalog index payload missing" (`catalog/store.rs:859`);
- `atttypid` names types `pg_type` does not have; an index has `relnatts` 1
  whatever its columns; views have no attributes; an index whose column was
  dropped stays with column number 0.

## 4. Proofs

Every theorem holds for any values of the constants that satisfy the named ASSUMEs:
any number of sessions, rows, values, names. A hypothesis beyond those is written in the
theorem and given here with its reason: what TLC finds without it is in section 3.

`LockConflictProofs`: conflict is symmetric, two locks that reserve a common index
entry conflict, and so do a metadata write and anything under it. Facts about the relation
alone, used by the next module.

`LockManagerProofs`

- `TypeCorrect`: `Spec => []TypeOK`.
- `LocksExclude`: `Spec => []MutualExclusion`. The inductive invariant is that
  no two sessions hold conflicting locks (`LockTableOK`); it is preserved because
  a grant checks the table in the same step.
- `NoGhosts`: `Spec => []NoGhostWaiters`, with the strengthening that a task
  works on another session's entries only in the release tail of a KILL.
- `WaitsNeverCircle`: `Spec => []WaitForMapIsAcyclic`. Only registration adds an
  edge, and it walks the map from the blocker first. An edge from `s` changes no walk
  that does not pass `s`, so a circle in the new map passes `s`, and a
  shortest one is a walk from the blocker to `s` in the old map: the walk
  `ClosesCycle` does. Removing an edge only shortens walks.
- `QueueIsFair`: `Spec => NoOvertaking`. The strengthening (`QueuedAsAsked`) says that the
  queue holds what each session asks for in the request it is in. What a session holds
  from earlier statements may conflict with those in front, so the property compares the
  requests.
- `ManagerImplementsTable`: `Spec => ImplementsLockTable`, the refinement of
  `LockTable` by the identity on `held`.

`GatewayProofs`, the store (both stores unless said otherwise; no assumption of
`GatewaySession` is used)

- `StoreTypes`: `Spec => []TypeOK`.
- `SavepointsAreExact`: `Spec => []BuffersReplayTheLog`. The strengthening says
  that the places of the savepoints in the log are non-decreasing: without it a
  ROLLBACK TO could leave an older savepoint beyond the end of the log.
- `CommitsAreAtomic`: `Spec => []StoreReplaysCommits`; a commit appends the log
  and applies the buffer, and the two agree by `SavepointsAreExact`.
- `MemoryReadsRepeat`: for the memory store, `Spec => RepeatableReads`.
- `ScansAreExact`: for the memory store, `Spec => []ScansMergePending`. The rows of a scan
  are placed by how many come before them; places are different, lie in `1..n`, and
  so take all of `1..n`, which makes the cut at the limit a cut in the order. This is
  a fact about the merge in any state; the engine cuts before it merges and violates it.

`GatewayProofs`, the sessions. The invariant has layers, each using those before it: `Control` (what
a task at each control point still has to do), `Transactions` (an entry of
`active_transactions` is an open transaction, and there is none at Idle),
`Buffers` (only open transactions have pending writes), `Locks` (from the moment its
locks are taken a statement holds the lock of its row, and a session without a
transaction holds locks only while a statement runs), `Counters` (types of rows).

- `StatusIsTrue`: `GSpec => []IdleStatusIsTrue`, both modes and stores, KILL included.
- `BuffersAreLocked`, `NoLockLeftBehind`: `LocksCoverBuffers` and
  `IdleSessionsHoldNothing` if `Killers = {}`: KILL releases the locks of a
  statement that runs on.
- `OneWriter`: in MySQL mode without KILL the pending writes of two open transactions
  never meet in a row. It follows from `BuffersAreLocked` and
  `GatewayUsesLockTable` (`GSpec => Table!TableSpec`: sessions change locks only as
  `LockTable` allows, which is what `LockManager` implements).
- `GatewayReadsRepeat`: `ReadsRepeat` on the memory store.
- `GatewayTypes`: `[]GTypeOK` if `Nat \subseteq Values`. A row counts updates,
  so a proof for any number of them needs rows that hold any number; TLC's instance bounds
  updates instead.

`RowIndexesProofs`. Four layers: `Types` (with a bound on index ids that counts the
CREATE INDEX statements still to register), `Guarded` (held locks are compatible, and each
statement holds what its plan reserves from its first read to its last write),
`Linked` (an index has exactly the entry of a row, or some statement is at that row or
index, and knows what it still has to do), `Distinct` (two rows share a value of a unique
index only while one is being deleted).

- `RowTypes`: `Spec => []RTypeOK`.
- `EntriesFollowRows`: `[]EntriesMatchRows` for orderly clients: MySQL sessions with point
  statements and index DDL, or one session alone in either mode. Others break
  it (section 3).
- `RowsHaveOneWriter`: `SoleWriter` if MySQL clients send no upsert and no REPLACE,
  which write rows they have not locked.
- `UniqueUnderInserts`: `Spec => []InsertsNeverDuplicate`.

`CatalogProofs`: `NamesStayExclusive`, `Spec => []NamesAreExclusive` with one session, any
places, names, statements and faults. Two sessions can be given one table id (section
3). The invariant has two halves. `Good` holds between any two writes: ids are below
their counters, a database or schema id has one name, a table id has one name and its
descriptor and legacy copy agree with it, and nothing is there before the default
database has its name. `RunOK` says that the writes a statement has left keep `Good`
whichever of them are still done: `SchemaTodo` (counters before the names that use the
id, an id nothing refers to; every DROP, which cannot harm) or `TableTodo` (one
descriptor by id before by name, after the deletes of every other name of that table:
the order `rename_table` has). Of the recursion over lists in DROP TABLE, DROP SCHEMA and
CREATE TABLE LIKE only this is proved, by induction over the length: it writes nothing
else than deletes.

`SystemCatalogsProofs`: `ListingsSucceed`, `[]ListingsFailOnlyOnDrops` from any catalogs
whose index keys have payloads (`Linked`), with any DDL beside. The invariant also
speaks of the ids a listing has already read (`KeysLeadToPayloads`).

`JoinsAreSound`, `[]JoinsFindOneRow`. The registration lists tables and their indexes again for
each system table, so two of them come from different catalogs; the property holds
because DDL that only drops, and uncovers no legacy table, makes later lists smaller and
because of the order of the registrations. The property's condition (`~ddl.grew`) is that
no step made the visible tables more; what is visible, legacy fallback included, is
`View`. Between the two scans of a list, whatever is visible was found by the
first or will be by the second (`Scanned`). The invariant (`Sound`, about views of
the catalogs) has five parts: `Shrunk` (the catalog is
part of the first one, and its tables and views have their schemas), `Control` (what the
registration has in hand), `Provenance` (each row comes from a table or an index of the first
catalog, and nothing is in a table whose turn has not come), `Homes` (schemas and types
that tables still to be listed refer to are registered), `Covers` (a table
that may still be listed has its rows, with those of its indexes, in all system tables before).
The view of the catalog at the start is `WellFormed`, its legacy keys may hold anything: ids are not used twice and lie in 1..99999, an
index is listed under its own table only, and schemas are there. The bound is the
distance of the oid ranges (`oid = id + 100000` and so on); the counters themselves have
none in the code, so a catalog that has used more ids is outside the theorem.

`CopyProofs`, for any file, cut into messages anywhere, any batch size, text and CSV, with
a cancel at any moment. The table's rows had different values of the unique column before.

- `CopiesStayUnique`: `[]CopyKeepsUnique`. The strengthening is about the writes that wait
  (`Waiting`): a row waits with its index entry, entries of one value are of one key, and
  the store's index has no entry of such a value. A line breaks it when it is refused
  (its row is queued before the index is asked), and a refused line ends the COPY before
  any batch is put: the proof needs exactly that order.
- `CopiesAreFirstLines`: `[]CopyStoresFirstLines`: for some first lines of the file, every key
  that exactly one of them names and that was not in the table has the row and the entry of
  that line, and every key none of them names has what it had. `Reached` says that the buffer is what follows
  the last line end of the bytes sent so far; `Progress` that the store holds the rows of
  some first lines, and with the writes that wait those of all lines read, until a line
  or a batch is refused. That messages can
  be cut anywhere is a lemma (`CutMore`): cutting a longer text gives the lines of
  the shorter one and then those of its rest with what was added.

`QueryEngineProofs`: the invariant is `Inv == ~raced => Consistent`, where `Consistent`
says what clients were told against what the epochs hold (`Told`), what each statement at
each access knows (`Each`), which statements cannot meet (`Pairs`), that a cached
provider of an old epoch has its invalidation under way (`StaleCache`), and that chunk
and statistics are those of the rows or a refresh is pending (`Settled`).

- `InvHolds`: `EngineSpec => []Inv`.
- `AnswersAreTheTable`, `ChunksAreTheRows`: `[]QueriesSeeTheTable` and `[]ChunksMatchRows`.
  `raced` marks the interleavings of section 3 after which they do not hold; both properties
  name it, as in the run.

Induction. The provers cannot instantiate the library's induction schemes, which take an
operator. `LockManagerProofs`, `CatalogProofs` and `CopyProofs` prove induction over sets instead
(`LeastNumber`, `InductionOnNat`: a set of numbers with 0 and closed under successor is
`Nat`) and unfold the walk through the wait-for map, the lists of writes, and the bytes and lines
of a file with it.

Only model-checked:

- `EveryRequestEnds`: liveness, which needs fairness and ENABLED.
- `RowsReadBack` and the invariants of `MCData`: what folds and recursive functions over
  sequences (bytes, heaps, filters) compute for every input; in `MCData` both sides of
  the comparison are such. In `CopyProofs` one induction each for lines, data and rows was
  enough, because the server and the reference take the same steps.
- `RemovedRowsStayGone`, `AcknowledgedRowsAreFound`, `CatalogIsConsistent`: they need
  exactly which keys the lists of DROP TABLE and DROP SCHEMA delete, a computation over
  lists.

## 5. Plan

1. Done: locks, store, sessions, and the first theorems.
2. Done: catalog and DDL, ALTER TABLE over row bytes, keys, filters, access paths
   and their locks, pushdown, TopN, aggregates, the query engine's caches and
   chunks, COPY, the system catalogs.
3. Done: proofs of the safety of locks, store, sessions, rows and indexes, of the query
   engine's caches, of names in the catalog, of the system catalogs and of COPY (section 4).
4. Left to prove: `RemovedRowsStayGone`, `AcknowledgedRowsAreFound` and
   `CatalogIsConsistent` of `Catalog`, from the keys a DROP deletes, computed over its lists
   as `CopyProofs` does for lines; `RowsReadBack`, from a lemma that a row's bytes are read as
   they were written.
5. Left to model: declared unique constraints and foreign keys
   (`row_constraints.rs`), statements over several rows in transactions,
   prepared statements and cancel requests, the information schemas, arithmetic
   and functions in expressions.

## 6. Not modelled

Wire formats, handshakes and TLS, result encoding, parsing and formatting of
literals, coercions, SQL dialects, startup, DataFusion's own planning and the
system tables of fixed rows: sequential code without state shared between
sessions, or external crates. Cancel requests: a flag that stays set until the
next query, and no document says which query it is for. Durability of the storage
engine is external. `PROJECT.json` lists each part.
