--------------------------- MODULE GatewaySession ---------------------------
(***************************************************************************)
(* Sessions of the gateway that update rows: the path of a query through   *)
(* run_query_with_format (search_path.rs), the transaction commands        *)
(* (context_session.rs, session_commands.rs), the update of a row          *)
(* (mutations.rs, row_write.rs, scans.rs, executor_reads.rs), and what the *)
(* MySQL front end does around them (protocol/mysql).                      *)
(*                                                                         *)
(* It composes two components.  The store and its transactions are those   *)
(* of TxnStore, one transaction object per session; a row is a counter and *)
(* an UPDATE adds one to it.  The row locks of MySQL mode are LockTable,   *)
(* which the lock manager implements.                                      *)
(*                                                                         *)
(* A step ends where the code awaits something another task can change.    *)
(* pc[s] is the control point of the session's task:                       *)
(*   "idle" .. "plan" "lock" "read" "stale" "write" "finish" "next"        *)
(*             a query and its statements,                                 *)
(*   "release" "apply" "restart"                                           *)
(*             the tail of COMMIT, ROLLBACK, BEGIN and DDL,                *)
(*   "kill"    the second half of rollback_session_by_id(target[s]),       *)
(*   "gone"    disconnected.                                               *)
(***************************************************************************)
EXTENDS TxnStore

CONSTANTS MySql,        \* the gateway's mode: TRUE for MySQL, FALSE for Postgres
          Isolations,   \* the isolation levels clients ask for
          DefaultLevel, \* the mode's default_isolation
          Works,        \* the queries: sequences of rows to update, or <<DDL>>
          DDL,          \* a DDL statement
          Killers,      \* the sessions that issue KILL
          MaxUpdates    \* bound: statements submitted

Sessions == Txns

ASSUME ModeAssumption == MySql \in BOOLEAN /\ DDL \notin Keys /\ Killers \subseteq Sessions
ASSUME LevelAssumption ==
  Isolations \subseteq {"RC", "RR"} /\ DefaultLevel \in Isolations
ASSUME WorkAssumption ==
  \A w \in Works : w = <<DDL>> \/ (w \in Seq(Keys) /\ w # <<>>)
ASSUME CounterAssumption == MaxUpdates \in Nat /\ 0..MaxUpdates \subseteq Values

VARIABLES held,       \* row locks, by session
          attached,   \* sessions with an entry in active_transactions
          iso,        \* active_transaction_isolations; "none": no entry
          readonly,   \* active_transaction_read_only
          current,    \* active_mysql_current_reads
          level,      \* client metadata: transaction isolation
          manual,     \* client metadata: sessions with autocommit = 0
          status,     \* the client's transaction status
          pc,
          work,       \* statements of the query still to run
          implicit,   \* implicit_transaction
          hold,       \* hold_mysql_locks, read before the locks are taken
          seen,       \* the row the statement read
          failed,     \* execute_result is an error
          after,      \* what the commit tail is for: "end", "begin" or "ddl"
          target,     \* the session a "kill" is about
          updates     \* statements submitted

txnMaps == <<attached, iso, readonly, current>>
client  == <<level, manual, status>>
locals  == <<work, implicit, hold, seen, failed, after, target, updates>>
storeVars == <<inner, active, snapshot, pending, savepoints, log, marks, history>>

gvars == <<storeVars, held, txnMaps, client, pc, locals>>

SameRow(l, m) == l = m
Table == INSTANCE LockTable WITH Owners <- Sessions, Locks <- Keys, Conflicts <- SameRow

Goto(s, point) == pc' = [pc EXCEPT ![s] = point]

\* The rows a statement locks.  Every row lock comes with a metadata read
\* lock on the table, so a DDL's metadata write conflicts with all of them.
RowsOf(stmt) == IF stmt = DDL THEN Keys ELSE {stmt}

-----------------------------------------------------------------------------
(***************************************************************************)
(* Transactions of a session.                                              *)
(***************************************************************************)

\* Mutant: the client's status is not updated.
OpenTxn_SilentBegin(s, lvl, ro) ==
  /\ Begin(s)
  /\ attached' = attached \cup {s}
  /\ iso' = [iso EXCEPT ![s] = lvl]
  /\ readonly' = IF ro THEN readonly \cup {s} ELSE readonly \ {s}
  /\ level' = [level EXCEPT ![s] = lvl]
  /\ UNCHANGED <<current, manual, status>>

\* begin_session_transaction_with_options with no transaction open.
OpenTxn(s, lvl, ro) ==
  /\ Begin(s)
  /\ attached' = attached \cup {s}
  /\ iso' = [iso EXCEPT ![s] = lvl]
  /\ readonly' = IF ro THEN readonly \cup {s} ELSE readonly \ {s}
  /\ level' = [level EXCEPT ![s] = lvl]
  /\ status' = [status EXCEPT ![s] = "Transaction"]
  /\ UNCHANGED <<current, manual>>

\* The session's entries leave the maps; the transaction object, if any, is
\* now in the hands of the caller.
Detach(s) ==
  /\ attached' = attached \ {s}
  /\ iso' = [iso EXCEPT ![s] = "none"]
  /\ readonly' = readonly \ {s}
  /\ current' = current \ {s}

\* txn.rollback() on what Detach took out, or nothing.
DropTxn(s) == IF s \in attached THEN Rollback(s) ELSE UNCHANGED storeVars

\* COMMIT, and the first half of BEGIN or DDL inside a transaction.
DetachToCommit(s, for) ==
  /\ Detach(s)
  /\ after' = [after EXCEPT ![s] = for]
  /\ Goto(s, "release")
  /\ UNCHANGED <<storeVars, held, client, work, implicit, hold, seen, failed, target, updates>>

CommitTxn(s) == pc[s] = "idle" /\ DetachToCommit(s, "end")

\* BEGIN and START TRANSACTION, with or without a level and READ ONLY.  Inside a
\* transaction MySQL commits it first, and Postgres keeps it.
BeginTxn(s, lvl, ro) ==
  /\ pc[s] = "idle" /\ s \notin attached
  /\ OpenTxn(s, lvl, ro)
  /\ UNCHANGED <<held, pc, locals>>

\* Without options, as the front ends send it.
BeginAgain(s) ==
  pc[s] = "idle" /\ MySql /\ s \in attached /\ DetachToCommit(s, "begin")

BeginReadOnlyAgain(s) ==
  /\ pc[s] = "idle" /\ ~MySql /\ s \in attached
  /\ readonly' = readonly \cup {s}
  /\ status' = [status EXCEPT ![s] = "Transaction"]
  /\ UNCHANGED <<storeVars, held, attached, iso, current, level, manual, pc, locals>>

RollbackTxn(s) ==
  /\ pc[s] = "idle"
  /\ DropTxn(s) /\ Detach(s)
  /\ after' = [after EXCEPT ![s] = "end"]
  /\ Goto(s, "release")
  /\ UNCHANGED <<held, client, work, implicit, hold, seen, failed, target, updates>>

\* release_session_table_locks, before txn.commit().
ReleaseLocks(s) ==
  /\ pc[s] = "release"
  /\ Table!Release(s, held[s])
  /\ Goto(s, "apply")
  /\ UNCHANGED <<storeVars, txnMaps, client, locals>>

\* What the query still does once a commit or rollback is over: a BEGIN opens
\* its transaction, a DDL statement runs, autocommit = 0 restarts.
Continue(s) ==
  CASE after[s] = "begin" -> "restart"
    [] after[s] = "ddl" -> "plan"
    [] OTHER -> IF s \in manual THEN "restart" ELSE "idle"

\* The locals of the tail are done with.
EndOfTail(s) ==
  /\ implicit' = [implicit EXCEPT ![s] = FALSE]
  /\ after' = [after EXCEPT ![s] = "end"]

Apply(s) ==
  /\ pc[s] = "apply"
  /\ IF s \in active THEN Commit(s) ELSE UNCHANGED storeVars
  /\ status' = [status EXCEPT ![s] = "Idle"]
  /\ Goto(s, Continue(s))
  /\ EndOfTail(s)
  /\ work' = [work EXCEPT ![s] = IF after[s] = "ddl" THEN @ ELSE <<>>]
  /\ UNCHANGED <<held, txnMaps, level, manual, hold, seen, failed, target, updates>>

\* txn.commit() fails: COMMIT sets the error status, BEGIN and DDL just return,
\* an implicit transaction goes on to roll back what is left (nothing).
ApplyFails(s) ==
  /\ pc[s] = "apply"
  /\ CommitFails(s)
  /\ status' =
       [status EXCEPT ![s] = IF implicit[s] THEN "Idle"
                             ELSE IF after[s] = "end" THEN "Error" ELSE @]
  /\ Goto(s, IF implicit[s] THEN Continue(s) ELSE "idle")
  /\ EndOfTail(s)
  /\ work' = [work EXCEPT ![s] = <<>>]
  /\ UNCHANGED <<held, txnMaps, level, manual, hold, seen, failed, target, updates>>

Restart(s) ==
  /\ pc[s] = "restart"
  /\ OpenTxn(s, level[s], FALSE)
  /\ Goto(s, "idle")
  /\ UNCHANGED <<held, locals>>

\* SET TRANSACTION ISOLATION LEVEL, also in the middle of a transaction.
SetIsolation(s, lvl) ==
  /\ pc[s] = "idle"
  /\ level' = [level EXCEPT ![s] = lvl]
  /\ iso' = IF s \in attached THEN [iso EXCEPT ![s] = lvl] ELSE iso
  /\ UNCHANGED <<storeVars, held, attached, readonly, current, manual, status, pc, locals>>

\* SET autocommit = 0 and = 1, by the status the MySQL front end keeps.
AutocommitOff(s) ==
  /\ pc[s] = "idle" /\ MySql /\ s \notin manual
  /\ manual' = manual \cup {s}
  /\ Goto(s, IF status[s] = "Idle" THEN "restart" ELSE "idle")
  /\ UNCHANGED <<storeVars, held, txnMaps, level, status, locals>>

AutocommitOn(s) ==
  /\ pc[s] = "idle" /\ MySql /\ s \in manual
  /\ manual' = manual \ {s}
  /\ IF status[s] = "Transaction"
     THEN Detach(s) /\ after' = [after EXCEPT ![s] = "end"] /\ Goto(s, "release")
     ELSE UNCHANGED <<txnMaps, after, pc>>
  /\ UNCHANGED <<storeVars, held, level, status, work, implicit, hold, seen, failed, target, updates>>

-----------------------------------------------------------------------------
(***************************************************************************)
(* A query and its statements.                                             *)
(***************************************************************************)

\* The front end opens a transaction under autocommit = 0, the gateway opens an
\* implicit one around several statements.
NeedsTxn(s, w) ==
  s \notin attached /\ (Len(w) > 1 \/ (s \in manual /\ status[s] = "Idle"))

Submit(s, w) ==
  /\ pc[s] = "idle" /\ updates + Len(w) <= MaxUpdates
  /\ updates' = updates + Len(w)
  /\ work' = [work EXCEPT ![s] = w]
  /\ Goto(s, "plan")
  /\ IF NeedsTxn(s, w)
     THEN OpenTxn(s, level[s], FALSE)
     ELSE UNCHANGED <<storeVars, txnMaps, client>>
  /\ implicit' =
       [implicit EXCEPT ![s] = Len(w) > 1 /\ s \notin attached
                                 /\ ~(s \in manual /\ status[s] = "Idle")]
  /\ UNCHANGED <<held, hold, seen, failed, after, target>>

\* The query returns an error from the middle of run_query_with_format.
ReturnError(s) ==
  /\ Goto(s, "idle")
  /\ work' = [work EXCEPT ![s] = <<>>]
  /\ implicit' = [implicit EXCEPT ![s] = FALSE]
  /\ failed' = [failed EXCEPT ![s] = FALSE]

DdlCommits(s) ==
  MySql /\ pc[s] = "plan" /\ Head(work[s]) = DDL /\ s \in attached
    /\ DetachToCommit(s, "ddl")

Planning(s) == pc[s] = "plan" /\ ~(MySql /\ Head(work[s]) = DDL /\ s \in attached)

\* plan_statement fails (an unknown column, say).
PlanFails(s) ==
  /\ Planning(s) /\ ~implicit[s]
  /\ status' = [status EXCEPT ![s] = IF s \in attached THEN "Error" ELSE @]
  /\ ReturnError(s)
  /\ UNCHANGED <<storeVars, held, txnMaps, level, manual, hold, seen, after, target, updates>>

\* The same inside an implicit transaction, which is rolled back.
PlanFailsInBatch(s) ==
  /\ Planning(s) /\ implicit[s]
  /\ DropTxn(s) /\ Detach(s)
  /\ status' = [status EXCEPT ![s] = "Error"]
  /\ after' = [after EXCEPT ![s] = "end"]
  /\ work' = [work EXCEPT ![s] = <<>>]
  /\ Goto(s, "release")
  /\ UNCHANGED <<held, level, manual, implicit, hold, seen, failed, target, updates>>

RefuseReadOnly(s) ==
  /\ Planning(s) /\ s \in readonly
  /\ status' = [status EXCEPT ![s] = "Error"]
  /\ ReturnError(s)
  /\ UNCHANGED <<storeVars, held, txnMaps, level, manual, hold, seen, after, target, updates>>

Planned(s) ==
  /\ Planning(s) /\ s \notin readonly
  /\ hold' = [hold EXCEPT ![s] = s \in attached]
  /\ Goto(s, IF MySql THEN "lock" ELSE "read")
  /\ UNCHANGED <<storeVars, held, txnMaps, client, work, implicit, seen, failed, after, target, updates>>

\* acquire_plan_table_locks, then enter_mysql_current_read.
Lock(s) ==
  /\ pc[s] = "lock"
  /\ Table!Acquire(s, RowsOf(Head(work[s])))
  /\ current' = current \cup {s}
  /\ Goto(s, "read")
  /\ UNCHANGED <<storeVars, attached, iso, readonly, client, locals>>

\* Lock wait timeout or deadlock: the error is returned at once.  Either can be
\* reported late, when the locks are free again.
LockFails(s) ==
  /\ pc[s] = "lock"
  /\ ReturnError(s)
  /\ UNCHANGED <<storeVars, held, txnMaps, client, hold, seen, after, target, updates>>

\* read_visible_row_at: reads outside a transaction, or after it was taken
\* away, go to the store.
ConsistentRead(s) == iso[s] = "RR" /\ s \notin current

\* Mutant: a consistent read looks at the latest committed row.
Visible_Latest(s, k) == IF s \in attached THEN Get(s, k) ELSE inner[k]

Visible(s, k) ==
  IF s \notin attached THEN inner[k]
  ELSE IF ConsistentRead(s) THEN SnapshotGet(s, k) ELSE Get(s, k)

\* The UPDATE's own read.  What a DDL does to the catalog is not modelled here.
Read(s) ==
  /\ pc[s] = "read"
  /\ IF Head(work[s]) = DDL
     THEN Goto(s, "finish") /\ UNCHANGED seen
     ELSE Goto(s, "stale") /\ seen' = [seen EXCEPT ![s] = Visible(s, Head(work[s]))]
  /\ UNCHANGED <<storeVars, held, txnMaps, client, work, implicit, hold, failed, after, target, updates>>

\* ensure_row_write_not_stale.
Stale(s, k) ==
  /\ iso[s] = "RR"
  /\ ~(s \in attached /\ pending[s][k] # Untouched)
  /\ (IF s \in attached THEN SnapshotGet(s, k) ELSE inner[k]) # inner[k]

CheckStale(s) ==
  /\ pc[s] = "stale"
  /\ IF Stale(s, Head(work[s]))
     THEN Goto(s, "finish") /\ failed' = [failed EXCEPT ![s] = TRUE]
     ELSE Goto(s, "write") /\ UNCHANGED failed
  /\ UNCHANGED <<storeVars, held, txnMaps, client, work, implicit, hold, seen, after, target, updates>>

\* A constraint is violated.
Invalid(s) ==
  /\ pc[s] = "write"
  /\ failed' = [failed EXCEPT ![s] = TRUE]
  /\ Goto(s, "finish")
  /\ UNCHANGED <<storeVars, held, txnMaps, client, work, implicit, hold, seen, after, target, updates>>

\* txn_put: into the transaction if the session still has one, else straight
\* into the store.
WriteRow(s) ==
  LET k == Head(work[s]) IN
  /\ pc[s] = "write"
  /\ IF s \in attached THEN TxnWrite(s, k, seen[s] + 1) ELSE StoreWrite(k, seen[s] + 1)
  /\ Goto(s, "finish")
  /\ UNCHANGED <<held, txnMaps, client, locals>>

\* Mutant: every statement lets go of its row locks.
ReleasedAtEnd_All(s) == held[s]

\* Mutant: locks are let go of only when a transaction ends.
ReleasedAtEnd_Never(s) == {}

\* Row locks have transaction duration: a statement of a transaction keeps them,
\* any other (a DDL has committed the transaction first) releases all it holds.
ReleasedAtEnd(s) == IF hold[s] THEN {} ELSE held[s]

\* exit_mysql_current_read and the release of the statement's locks.
Finish(s) ==
  /\ pc[s] = "finish"
  /\ Table!Release(s, IF MySql THEN ReleasedAtEnd(s) ELSE {})
  /\ current' = current \ {s}
  /\ hold' = [hold EXCEPT ![s] = FALSE]
  /\ seen' = [seen EXCEPT ![s] = 0]
  /\ Goto(s, "next")
  /\ UNCHANGED <<storeVars, attached, iso, readonly, client, work, implicit, failed, after, target, updates>>

Last(s) == pc[s] = "next" /\ ~failed[s] /\ Len(work[s]) = 1

NextStatement(s) ==
  /\ pc[s] = "next" /\ ~failed[s] /\ Len(work[s]) > 1
  /\ work' = [work EXCEPT ![s] = Tail(@)]
  /\ Goto(s, "plan")
  /\ UNCHANGED <<storeVars, held, txnMaps, client, implicit, hold, seen, failed, after, target, updates>>

\* execute_result?
StatementFails(s) ==
  /\ pc[s] = "next" /\ failed[s]
  /\ ReturnError(s)
  /\ UNCHANGED <<storeVars, held, txnMaps, client, hold, seen, after, target, updates>>

QueryCommits(s) == Last(s) /\ implicit[s] /\ DetachToCommit(s, "end")

QueryEnds(s) ==
  /\ Last(s) /\ ~implicit[s]
  /\ Goto(s, IF Head(work[s]) = DDL /\ MySql /\ s \in manual THEN "restart" ELSE "idle")
  /\ work' = [work EXCEPT ![s] = <<>>]
  /\ UNCHANGED <<storeVars, held, txnMaps, client, implicit, hold, seen, failed, after, target, updates>>

-----------------------------------------------------------------------------
(***************************************************************************)
(* KILL and disconnection: rollback_session_by_id, by another task.        *)
(***************************************************************************)
Kill(s, v) ==
  /\ pc[s] = "idle" /\ s \in Killers /\ v # s /\ pc[v] # "gone"
  /\ DropTxn(v) /\ Detach(v)
  /\ target' = [target EXCEPT ![s] = v]
  /\ Goto(s, "kill")
  /\ UNCHANGED <<held, client, work, implicit, hold, seen, failed, after, updates>>

KillReleases(s) ==
  /\ pc[s] = "kill"
  /\ Table!Release(target[s], held[target[s]])
  /\ Goto(s, IF target[s] = s THEN "gone" ELSE "idle")
  /\ target' = [target EXCEPT ![s] = s]
  /\ UNCHANGED <<storeVars, txnMaps, client, work, implicit, hold, seen, failed, after, updates>>

\* Drop of MySqlBackend: rolls back if the client's status is Transaction.
Disconnect(s) ==
  /\ pc[s] = "idle" /\ MySql
  /\ IF status[s] = "Transaction"
     THEN DropTxn(s) /\ Detach(s) /\ target' = [target EXCEPT ![s] = s] /\ Goto(s, "kill")
     ELSE Goto(s, "gone") /\ UNCHANGED <<storeVars, txnMaps, target>>
  /\ UNCHANGED <<held, client, work, implicit, hold, seen, failed, after, updates>>

-----------------------------------------------------------------------------
GInit ==
  /\ inner = [k \in Keys |-> 0]
  /\ active = {}
  /\ snapshot = [t \in Txns |-> [k \in Keys |-> Absent]]
  /\ pending = [t \in Txns |-> NoWrites]
  /\ savepoints = [t \in Txns |-> <<>>]
  /\ log = [t \in Txns |-> <<>>]
  /\ marks = [t \in Txns |-> <<>>]
  /\ history = <<>>
  /\ Table!TableInit
  /\ attached = {} /\ readonly = {} /\ current = {} /\ manual = {}
  /\ iso = [s \in Sessions |-> "none"]
  /\ level = [s \in Sessions |-> DefaultLevel]
  /\ status = [s \in Sessions |-> "Idle"]
  /\ pc = [s \in Sessions |-> "idle"]
  /\ work = [s \in Sessions |-> <<>>]
  /\ implicit = [s \in Sessions |-> FALSE]
  /\ hold = [s \in Sessions |-> FALSE]
  /\ seen = [s \in Sessions |-> 0]
  /\ failed = [s \in Sessions |-> FALSE]
  /\ after = [s \in Sessions |-> "end"]
  /\ target = [s \in Sessions |-> s]
  /\ updates = 0

Statement(s) ==
  \/ DdlCommits(s) \/ PlanFails(s) \/ PlanFailsInBatch(s) \/ RefuseReadOnly(s)
  \/ Planned(s) \/ Lock(s) \/ LockFails(s) \/ Read(s) \/ CheckStale(s)
  \/ Invalid(s) \/ WriteRow(s) \/ Finish(s)
  \/ NextStatement(s) \/ StatementFails(s) \/ QueryCommits(s) \/ QueryEnds(s)

Command(s) ==
  \/ CommitTxn(s) \/ BeginAgain(s) \/ BeginReadOnlyAgain(s) \/ RollbackTxn(s)
  \/ \E lvl \in Isolations, ro \in BOOLEAN : BeginTxn(s, lvl, ro)
  \/ \E lvl \in Isolations : SetIsolation(s, lvl)
  \/ AutocommitOff(s) \/ AutocommitOn(s)
  \/ ReleaseLocks(s) \/ Apply(s) \/ ApplyFails(s) \/ Restart(s)

GNext ==
  \E s \in Sessions :
    \/ Command(s) \/ Statement(s)
    \/ \E w \in Works : Submit(s, w)
    \/ \E v \in Sessions : Kill(s, v)
    \/ KillReleases(s) \/ Disconnect(s)

GSpec == GInit /\ [][GNext]_gvars

-----------------------------------------------------------------------------
(***************************************************************************)
(* Properties.                                                             *)
(***************************************************************************)

Points == {"idle", "plan", "lock", "read", "stale", "write", "finish", "next",
           "release", "apply", "restart", "kill", "gone"}

\* Type invariant of the gateway's maps, its clients and its tasks.
GTypeOK ==
  /\ TypeOK
  /\ held \in [Sessions -> SUBSET Keys]
  /\ attached \subseteq active /\ readonly \subseteq Sessions
  /\ current \subseteq Sessions /\ manual \subseteq Sessions
  /\ iso \in [Sessions -> Isolations \cup {"none"}]
  /\ level \in [Sessions -> Isolations]
  /\ status \in [Sessions -> {"Idle", "Transaction", "Error"}]
  /\ pc \in [Sessions -> Points]
  /\ work \in [Sessions -> Seq(Keys \cup {DDL})]
  /\ implicit \in [Sessions -> BOOLEAN] /\ hold \in [Sessions -> BOOLEAN]
  /\ seen \in [Sessions -> Options] /\ failed \in [Sessions -> BOOLEAN]
  /\ after \in [Sessions -> {"end", "begin", "ddl"}]
  /\ target \in [Sessions -> Sessions]
  /\ updates \in 0..MaxUpdates

\* In MySQL mode a row lock outlives the statement that wrote the row: while a
\* transaction has an uncommitted write of a row, and until COMMIT or ROLLBACK
\* takes the transaction out of active_transactions, its session holds the
\* row's lock, through failed statements, batches, DDL and autocommit changes.
LocksCoverBuffers ==
  MySql => \A s \in attached : \A k \in Keys : pending[s][k] # Untouched => k \in held[s]

\* A session between two queries holds locks only for its open transaction:
\* no path through a query, its errors included, leaves a lock behind.
IdleSessionsHoldNothing ==
  \A s \in Sessions : pc[s] = "idle" /\ s \notin attached => held[s] = {}

\* Between two queries the status the client is told is the truth about its
\* transaction: the MySQL front end decides by that status alone whether to
\* open a transaction, to commit it, or to roll it back when the client goes.
IdleStatusIsTrue ==
  \A s \in Sessions : pc[s] = "idle" /\ status[s] = "Idle" => s \notin attached

\* In a repeatable-read transaction the rows a session sees do not change under
\* it, whatever the other sessions commit.
ReadsRepeat ==
  [][\A s \in attached \cap attached' :
       ConsistentRead(s) /\ ConsistentRead(s)' /\ pending'[s] = pending[s] =>
         \A k \in Keys : Visible(s, k)' = Visible(s, k)]_gvars

\* The committed writes of a row, every one of which added one to the row it
\* read, count 1, 2, 3 ...: no update is lost under another.
NoLostUpdate ==
  \A i \in 1..Len(history) :
    history[i].value = Cardinality({j \in 1..i : history[j].key = history[i].key})

\* A query of several statements is all or nothing: when it returns to the
\* client, with an error or not, its implicit transaction is over.
BatchErrorRollsBack ==
  [][\A s \in Sessions : implicit[s] /\ pc'[s] = "idle" => s \notin attached']_gvars
=============================================================================
