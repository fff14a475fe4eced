---------------------------- MODULE QueryEngine ----------------------------
(***************************************************************************)
(* Queries that DataFusion runs.  The provider of a table is cached per    *)
(* database with the schema, hence the epoch, the table had when it was    *)
(* built; its scan reads the rows of that epoch from the store, and the    *)
(* column chunks when it finds no rows.  Row writes, ANALYZE and TRUNCATE  *)
(* of other sessions run meanwhile, each store access a step of its own.   *)
(* One table, outside transactions, without MySQL's locks; rows are        *)
(* identified by their key and a key is inserted once.                     *)
(***************************************************************************)
EXTENDS Naturals, FiniteSets

CONSTANTS Clients,         \* the sessions
          RowKeys,         \* primary keys
          None,            \* no entry in the store or the cache
          MaxTruncates,    \* bound on the epochs
          MaxQueries       \* bound on ANALYZEs and queries together

ASSUME TruncatesAssumption == MaxTruncates \in Nat

Epochs == 1..(MaxTruncates + 1)

VARIABLES epoch,      \* table_epoch in the catalog
          v2Rows,     \* the row records of each epoch
          chunkMeta,  \* the rows the chunk's meta entry counts, or None
          chunkCols,  \* the rows in its column entries, or None
          stats,      \* the rows the statistics record was computed from, or None
          cached,     \* datafusion_user_catalogs: the epoch of the provider, or None
          client,     \* what each session is doing
          truth,      \* what the sessions were told, see below
          raced,      \* a race happened that leaves stale chunks or rows
          issued      \* ANALYZEs and queries so far

engineVars == <<epoch, v2Rows, chunkMeta, chunkCols, stats, cached, client, truth, raced, issued>>
storeVars == <<epoch, v2Rows, chunkMeta, chunkCols, stats>>

\* truth: inserts begun and acknowledged, removals begun, and removals that were
\* acknowledged of rows whose insert had been acknowledged before they began.
NoRows == [begun |-> {}, acked |-> {}, condemned |-> {}, gone |-> {}]
Surely == truth.acked \ truth.condemned
Possibly == truth.begun \ truth.gone

Quiet == [at |-> "idle", stmt |-> "none", epoch |-> 0, keys |-> {}, settled |-> {},
          scanned |-> {}, must |-> {}, may |-> {}]

\* A statement begins: it is planned with the epoch the catalog has now.  Queries
\* under way may or may not see what it changes.
Start(c, stmt, at, keys) ==
  /\ client[c].at = "idle"
  /\ client' = [x \in Clients |->
       IF x = c
       THEN [Quiet EXCEPT !.at = at, !.stmt = stmt, !.epoch = epoch, !.keys = keys,
               !.settled = keys \cap truth.acked, !.must = Surely, !.may = Possibly]
       ELSE CASE stmt = "insert" -> [client[x] EXCEPT !.may = @ \cup keys]
              [] stmt \in {"delete", "truncate"} -> [client[x] EXCEPT !.must = @ \ keys]
              [] OTHER -> client[x]]

At(c, at) == client[c].at = at
Goto(c, at) == client' = [client EXCEPT ![c].at = at]

\* The client is told that the statement is done.
End(c) ==
  LET s == client[c]
  IN /\ client' = [client EXCEPT ![c] = Quiet]
     /\ truth' = CASE s.stmt = "insert" -> [truth EXCEPT !.acked = @ \cup s.keys]
                   [] s.stmt \in {"delete", "truncate"} -> [truth EXCEPT !.gone = @ \cup s.settled]
                   [] OTHER -> truth

\* A refresh of epoch e has scanned the rows and not written its chunks yet.
Refreshing(x, e) ==
  client[x].epoch = e /\ client[x].at \in {"drop meta", "drop columns", "drop stats", "put"}
RefreshIsStale(c) == \E x \in Clients \ {c} : Refreshing(x, client[c].epoch)

-----------------------------------------------------------------------------
(***************************************************************************)
(* INSERT and DELETE of one row, and ANALYZE.                              *)
(***************************************************************************)
BeginInsert(c, k) ==
  /\ k \notin truth.begun
  /\ Start(c, "insert", "row", {k})
  /\ truth' = [truth EXCEPT !.begun = @ \cup {k}]
  /\ UNCHANGED <<storeVars, cached, raced, issued>>

BeginDelete(c, k) ==
  /\ k \in truth.begun \ truth.condemned
  /\ Start(c, "delete", "row", {k})
  /\ truth' = [truth EXCEPT !.condemned = @ \cup {k}]
  /\ UNCHANGED <<storeVars, cached, raced, issued>>

Issue == issued < MaxQueries /\ issued' = issued + 1

BeginAnalyze(c) ==
  /\ Issue /\ Start(c, "analyze", "scan", {})
  /\ UNCHANGED <<storeVars, cached, truth, raced>>

\* The row may also be of an epoch that cached providers do not know yet.
WriteRow(c) ==
  LET e == client[c].epoch
  IN /\ At(c, "row") /\ client[c].stmt = "insert"
     /\ v2Rows' = [v2Rows EXCEPT ![e] = @ \cup client[c].keys]
     /\ raced' = (raced \/ RefreshIsStale(c)
                  \/ \E x \in Clients : client[x].stmt = "truncate" /\ At(x, "invalidate"))
     /\ Goto(c, "scan")
     /\ UNCHANGED <<epoch, chunkMeta, chunkCols, stats, cached, truth, issued>>

\* A row that is not there is not deleted, and nothing is refreshed.
DeleteRow(c) ==
  LET e == client[c].epoch
  IN /\ At(c, "row") /\ client[c].stmt = "delete"
     /\ \/ /\ client[c].keys \subseteq v2Rows[e]
           /\ v2Rows' = [v2Rows EXCEPT ![e] = @ \ client[c].keys]
           /\ raced' = (raced \/ RefreshIsStale(c))
           /\ Goto(c, "scan")
           /\ UNCHANGED truth
        \/ /\ ~(client[c].keys \subseteq v2Rows[e])
           /\ End(c)
           /\ UNCHANGED <<v2Rows, raced>>
     /\ UNCHANGED <<epoch, chunkMeta, chunkCols, stats, cached, issued>>

-----------------------------------------------------------------------------
(***************************************************************************)
(* refresh_olap_storage_at: scan the rows, delete the entries under three  *)
(* prefixes, and put the new ones in a batch.  All rows fit in one chunk.  *)
(***************************************************************************)
RefreshScan(c) ==
  /\ At(c, "scan")
  /\ client' = [client EXCEPT ![c].at = "drop meta", ![c].scanned = v2Rows[client[c].epoch]]
  /\ UNCHANGED <<storeVars, cached, truth, raced, issued>>

\* The three prefixes of one epoch, emptied one after the other.
DropMeta_OtherEpoch(c, then) ==
  /\ chunkMeta' = [chunkMeta EXCEPT ![MaxTruncates + 2 - client[c].epoch] = None]
  /\ Goto(c, then)
  /\ UNCHANGED <<epoch, v2Rows, chunkCols, stats, cached, truth, raced, issued>>
DropMeta(c, then) ==
  /\ chunkMeta' = [chunkMeta EXCEPT ![client[c].epoch] = None]
  /\ Goto(c, then)
  /\ UNCHANGED <<epoch, v2Rows, chunkCols, stats, cached, truth, raced, issued>>

DropColumns(c, then) ==
  /\ chunkCols' = [chunkCols EXCEPT ![client[c].epoch] = None]
  /\ Goto(c, then)
  /\ UNCHANGED <<epoch, v2Rows, chunkMeta, stats, cached, truth, raced, issued>>

DropStats(c) ==
  stats' = [stats EXCEPT ![client[c].epoch] = None]

RefreshDropMeta(c) == At(c, "drop meta") /\ DropMeta(c, "drop columns")
RefreshDropColumns(c) == At(c, "drop columns") /\ DropColumns(c, "drop stats")
RefreshDropStats(c) ==
  /\ At(c, "drop stats")
  /\ DropStats(c) /\ Goto(c, "put")
  /\ UNCHANGED <<epoch, v2Rows, chunkMeta, chunkCols, cached, truth, raced, issued>>

\* invalidate_datafusion_catalog removes the provider.
Invalidated_Kept == cached
Invalidated == None

\* The batch, and what follows the refresh: INSERT stores the schema it was planned
\* with, ANALYZE drops the cached providers.
RefreshPut(c) ==
  LET e == client[c].epoch
      rows == client[c].scanned
  IN /\ At(c, "put")
     /\ stats' = [stats EXCEPT ![e] = rows]
     /\ IF rows = {} THEN UNCHANGED <<chunkMeta, chunkCols>>
        ELSE /\ chunkMeta' = [chunkMeta EXCEPT ![e] = rows]
             /\ chunkCols' = [chunkCols EXCEPT ![e] = rows]
     /\ \/ /\ client[c].stmt = "delete"
           /\ End(c)
        \/ /\ client[c].stmt = "insert"
           /\ Goto(c, "store") /\ UNCHANGED truth
        \/ /\ client[c].stmt = "analyze"
           /\ Goto(c, "invalidate") /\ UNCHANGED truth
     /\ UNCHANGED <<epoch, v2Rows, cached, raced, issued>>

StoreSchema(c) ==
  /\ At(c, "store")
  /\ epoch' = client[c].epoch
  /\ End(c)
  /\ UNCHANGED <<v2Rows, chunkMeta, chunkCols, stats, cached, raced, issued>>

-----------------------------------------------------------------------------
(***************************************************************************)
(* TRUNCATE: a new epoch, no cached provider, and the old chunks deleted.  *)
(***************************************************************************)
BeginTruncate(c) ==
  /\ epoch < MaxTruncates + 1
  /\ Start(c, "truncate", "bump", truth.begun)
  /\ truth' = [truth EXCEPT !.condemned = truth.begun]
  /\ UNCHANGED <<storeVars, cached, raced, issued>>

\* Rows inserted since the TRUNCATE began go with the others.  A row statement planned
\* with the old epoch and still running writes, and INSERT stores, what no longer counts.
BumpEpoch(c) ==
  /\ At(c, "bump") /\ epoch < MaxTruncates + 1
  /\ epoch' = epoch + 1
  /\ client' = [x \in Clients |->
       IF x = c THEN [client[x] EXCEPT !.at = "invalidate", !.epoch = epoch]
       ELSE [client[x] EXCEPT !.must = {}]]
  /\ truth' = [truth EXCEPT !.condemned = truth.begun]
  /\ raced' = (raced \/ \E x \in Clients : client[x].stmt \in {"insert", "delete"})
  /\ UNCHANGED <<v2Rows, chunkMeta, chunkCols, stats, cached, issued>>

Invalidate(c) ==
  /\ At(c, "invalidate")
  /\ cached' = Invalidated
  /\ IF client[c].stmt = "truncate" THEN Goto(c, "old meta") /\ UNCHANGED truth ELSE End(c)
  /\ UNCHANGED <<storeVars, raced, issued>>

TruncateMeta(c) == At(c, "old meta") /\ DropMeta(c, "old columns")
TruncateColumns(c) == At(c, "old columns") /\ DropColumns(c, "old stats")
TruncateStats(c) ==
  /\ At(c, "old stats")
  /\ DropStats(c) /\ End(c)
  /\ UNCHANGED <<epoch, v2Rows, chunkMeta, chunkCols, cached, raced, issued>>

-----------------------------------------------------------------------------
(***************************************************************************)
(* A query: cached_user_catalog_provider, then load_rows_with_columns.     *)
(***************************************************************************)
BeginQuery(c) ==
  /\ Issue /\ Start(c, "query", "provider", {})
  /\ UNCHANGED <<storeVars, cached, truth, raced>>

FindProvider(c) ==
  /\ At(c, "provider")
  /\ client' = [client EXCEPT ![c].at = IF cached # None THEN "rows" ELSE "build",
                             ![c].epoch = IF cached # None THEN cached ELSE 0]
  /\ UNCHANGED <<storeVars, cached, truth, raced, issued>>

\* build_user_catalog_provider lists the tables; the insertion comes later.
BuildProvider(c) ==
  /\ At(c, "build")
  /\ client' = [client EXCEPT ![c].at = "cache", ![c].epoch = epoch]
  /\ UNCHANGED <<storeVars, cached, truth, raced, issued>>

CacheProvider(c) ==
  /\ At(c, "cache")
  /\ cached' = client[c].epoch
  /\ raced' = (raced \/ client[c].epoch # epoch)
  /\ Goto(c, "rows")
  /\ UNCHANGED <<storeVars, truth, issued>>

Result(c, rows) ==
  client' = [client EXCEPT ![c].at = "result", ![c].scanned = rows]

ScanRows(c) ==
  LET rows == v2Rows[client[c].epoch]
  IN /\ At(c, "rows")
     /\ IF rows # {} THEN Result(c, rows) ELSE Goto(c, "meta")
     /\ UNCHANGED <<storeVars, cached, truth, raced, issued>>

ScanChunkMeta(c) ==
  /\ At(c, "meta")
  /\ IF chunkMeta[client[c].epoch] = None THEN Result(c, {}) ELSE Goto(c, "columns")
  /\ UNCHANGED <<storeVars, cached, truth, raced, issued>>

\* "missing OLAP column chunk": the query fails.
ReadColumns(c) ==
  LET columns == chunkCols[client[c].epoch]
  IN /\ At(c, "columns")
     /\ IF columns = None THEN client' = [client EXCEPT ![c] = Quiet]
        ELSE Result(c, columns)
     /\ UNCHANGED <<storeVars, cached, truth, raced, issued>>

Respond(c) ==
  /\ At(c, "result") /\ End(c)
  /\ UNCHANGED <<storeVars, cached, raced, issued>>

-----------------------------------------------------------------------------
EngineInit ==
  /\ epoch = 1
  /\ v2Rows = [e \in Epochs |-> {}]
  /\ chunkMeta = [e \in Epochs |-> None] /\ chunkCols = [e \in Epochs |-> None]
  /\ stats = [e \in Epochs |-> None]
  /\ cached = None
  /\ client = [c \in Clients |-> Quiet]
  /\ truth = NoRows /\ raced = FALSE /\ issued = 0

EngineNext == \E c \in Clients :
  \/ \E k \in RowKeys : BeginInsert(c, k) \/ BeginDelete(c, k)
  \/ BeginAnalyze(c) \/ WriteRow(c) \/ DeleteRow(c)
  \/ RefreshScan(c) \/ RefreshDropMeta(c) \/ RefreshDropColumns(c) \/ RefreshDropStats(c)
  \/ RefreshPut(c) \/ StoreSchema(c)
  \/ BeginTruncate(c) \/ BumpEpoch(c) \/ Invalidate(c)
  \/ TruncateMeta(c) \/ TruncateColumns(c) \/ TruncateStats(c)
  \/ BeginQuery(c) \/ FindProvider(c) \/ BuildProvider(c) \/ CacheProvider(c)
  \/ ScanRows(c) \/ ScanChunkMeta(c) \/ ReadColumns(c) \/ Respond(c)

EngineSpec == EngineInit /\ [][EngineNext]_engineVars

-----------------------------------------------------------------------------
\* What DataFusion answers is a state of the table during the query: every row that
\* was acknowledged and not being removed, and no row whose removal had been
\* acknowledged before the query began, whatever runs meanwhile, unless one of the
\* races the README lists has happened (a refresh that missed a row, a row statement
\* that overlaps a TRUNCATE, a provider cached after the TRUNCATE that makes it old).
QueriesSeeTheTable ==
  \A c \in Clients : client[c].at = "result" /\ ~raced =>
    client[c].must \subseteq client[c].scanned /\ client[c].scanned \subseteq client[c].may

\* When nothing runs, the chunks and the statistics are those of the rows; a new
\* epoch has none until its first write.
ChunksMatchRows ==
  (\A c \in Clients : client[c].at = "idle") /\ ~raced =>
    LET rows == v2Rows[epoch]
    IN /\ chunkMeta[epoch] = IF rows = {} THEN None ELSE rows
       /\ chunkCols[epoch] = chunkMeta[epoch]
       /\ stats[epoch] \in {rows, None} /\ (rows # {} => stats[epoch] = rows)
=============================================================================
