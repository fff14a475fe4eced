------------------------------ MODULE TxnStore ------------------------------
(***************************************************************************)
(* The key-value store under the gateway and its transactions: the traits  *)
(* KvStore and KvTransaction (mem_store.rs) as MemoryKvStore implements    *)
(* them, and as KvEngineStore does over the storage engine, which is not   *)
(* part of the repository (kv_engine_store/store.rs, transaction.rs).      *)
(* The constant Engine chooses the implementation.                         *)
(*                                                                         *)
(* A transaction buffers its writes in a map, pending, from keys to Some   *)
(* value or None (a deletion); a savepoint is a copy of that map.  Every   *)
(* operation runs under the server's mutex on the transaction map, and a   *)
(* commit under the store's write lock (one write batch in the engine), so *)
(* each is one action.                                                     *)
(*                                                                         *)
(* Two history variables record what the program does not keep: the log of *)
(* a transaction's writes with the places of its savepoints, which is what *)
(* SQL says a transaction is, and the log of everything committed.         *)
(***************************************************************************)
EXTENDS Integers, Sequences, FiniteSets

CONSTANTS Keys,        \* keys of the store, in byte order
          Values,      \* the payloads
          Absent,      \* Option::None: no such key, or a pending deletion
          Untouched,   \* no entry in pending
          Txns,        \* the transactions that may be open at a time
          Names,       \* savepoint names as clients spell them
          Lower,       \* to_ascii_lowercase on Names
          Engine,      \* TRUE: KvEngineStore, FALSE: MemoryKvStore
          MaxLog,      \* bound: writes buffered in any two transactions together
          MaxMarks,    \* bound: savepoints set in any two together
          MaxHistory   \* bound: writes committed

ASSUME KeyAssumption == Keys \subseteq Int /\ IsFiniteSet(Keys)
ASSUME OptionAssumption == Absent \notin Values /\ Untouched \notin Values \cup {Absent}
ASSUME LowerAssumption == Lower \in [Names -> Names]
ASSUME EngineAssumption == Engine \in BOOLEAN
ASSUME BoundAssumption == MaxLog \in Nat /\ MaxMarks \in Nat /\ MaxHistory \in Nat

VARIABLES inner,       \* the committed map
          active,      \* the open transactions
          snapshot,    \* MemoryTransaction.snapshot: the map at begin
          pending,     \* buffered writes of each transaction
          savepoints,  \* stack of (lowercased name, copy of pending)
          log,         \* history: the transaction's surviving writes, in order
          marks,       \* history: its savepoints as (name, length of the log)
          history      \* history: every committed write, in order

vars == <<inner, active, snapshot, pending, savepoints, log, marks, history>>

Options == Values \cup {Absent}
Map     == [Keys -> Options]
Buffer  == [Keys -> Options \cup {Untouched}]
Write   == [key : Keys, value : Options]

NoWrites == [k \in Keys |-> Untouched]

\* The bound on two per-transaction sequences together.
Room(seqs, t, bound) ==
  \A u \in Txns : Len(seqs[t]) + (IF u = t THEN 0 ELSE Len(seqs[u])) < bound

-----------------------------------------------------------------------------
(***************************************************************************)
(* Reads.                                                                  *)
(***************************************************************************)

\* Mutant: the absence of an entry is taken for an entry.
Overlay_NoFallThrough(buffer, map) == [k \in Keys |-> buffer[k]]

\* overlay_pending: the buffered writes on top of a map.
Overlay(buffer, map) ==
  [k \in Keys |-> IF buffer[k] # Untouched THEN buffer[k] ELSE map[k]]

\* get: own writes first, then the latest committed value.
Get(t, k) == Overlay(pending[t], inner)[k]

\* Mutant: the snapshot is not consulted.
SnapshotGet_Latest(t, k) == Get(t, k)

\* snapshot_get.  KvEngineTransaction does not implement it, so the trait's
\* default applies, which is get.
SnapshotGet(t, k) ==
  IF Engine THEN Get(t, k) ELSE Overlay(pending[t], snapshot[t])[k]

InRange(start, end) == {k \in Keys : k >= start /\ k < end}

\* The elements of a finite set of keys in scan order.
InOrder(S, reverse) ==
  [i \in 1..Cardinality(S) |->
     CHOOSE k \in S :
       Cardinality({j \in S : IF reverse THEN j >= k ELSE j <= k}) = i]

\* Iterator::take
Take(seq, limit) == SubSeq(seq, 1, IF limit < Len(seq) THEN limit ELSE Len(seq))

Live(map, range) == {k \in range : map[k] # Absent}

\* The first `limit` live keys of a map in scan order.
First(map, range, limit, reverse) == Take(InOrder(Live(map, range), reverse), limit)

\* KvEngineTransaction::scan_range: the cursor stops after `limit` records of
\* the table, the buffer is merged into those, and the result is cut again.
LimitThenMerge(t, range, limit, reverse) ==
  LET read == First(inner, range, limit, reverse)
      seen == {read[i] : i \in 1..Len(read)}
      base == [k \in Keys |-> IF k \in seen THEN inner[k] ELSE Absent]
  IN  First(Overlay(pending[t], base), range, limit, reverse)

\* MemoryTransaction: merge, then limit (materialize_range, collect_range).
MergeThenLimit(t, range, limit, reverse) ==
  First(Overlay(pending[t], inner), range, limit, reverse)

\* The keys scan_range(start, end, limit, reverse) returns, in order.
ScanRange(t, start, end, limit, reverse) ==
  IF Engine
  THEN LimitThenMerge(t, InRange(start, end), limit, reverse)
  ELSE MergeThenLimit(t, InRange(start, end), limit, reverse)

\* Mutant: position instead of rposition.
Rposition_First(t, name, pos) ==
  /\ savepoints[t][pos].name = Lower[name]
  /\ \A j \in 1..(pos - 1) : savepoints[t][j].name # Lower[name]

\* savepoints.iter().rposition(..) is Some(pos).
Rposition(t, name, pos) ==
  /\ savepoints[t][pos].name = Lower[name]
  /\ \A j \in (pos + 1)..Len(savepoints[t]) : savepoints[t][j].name # Lower[name]

\* History: the most recent savepoint of that name, case folded.
SameName(n, m) == Lower[n] = Lower[m]

IsMark(t, name, i) ==
  /\ SameName(marks[t][i].name, name)
  /\ \A j \in (i + 1)..Len(marks[t]) : ~SameName(marks[t][j].name, name)

-----------------------------------------------------------------------------
Init ==
  /\ inner = [k \in Keys |-> Absent]
  /\ active = {}
  /\ snapshot = [t \in Txns |-> [k \in Keys |-> Absent]]
  /\ pending = [t \in Txns |-> NoWrites]
  /\ savepoints = [t \in Txns |-> <<>>]
  /\ log = [t \in Txns |-> <<>>]
  /\ marks = [t \in Txns |-> <<>>]
  /\ history = <<>>

\* KvStore::put and delete, outside any transaction.
StoreWrite(k, v) ==
  /\ Len(history) < MaxHistory
  /\ inner' = [inner EXCEPT ![k] = v]
  /\ history' = Append(history, [key |-> k, value |-> v])
  /\ UNCHANGED <<active, snapshot, pending, savepoints, log, marks>>

\* KvStore::put_batch of two entries: both under one write lock (one batch).
StoreWriteBatch(k, v, j, w) ==
  /\ Len(history) + 1 < MaxHistory
  /\ inner' = [inner EXCEPT ![k] = v, ![j] = w]
  /\ history' = history \o <<[key |-> k, value |-> v], [key |-> j, value |-> w]>>
  /\ UNCHANGED <<active, snapshot, pending, savepoints, log, marks>>

Begin(t) ==
  /\ t \notin active
  /\ active' = active \cup {t}
  /\ snapshot' = IF Engine THEN snapshot ELSE [snapshot EXCEPT ![t] = inner]
  /\ UNCHANGED <<inner, pending, savepoints, log, marks, history>>

\* KvTransaction::put and delete.
TxnWrite(t, k, v) ==
  /\ t \in active /\ Room(log, t, MaxLog)
  /\ pending' = [pending EXCEPT ![t][k] = v]
  /\ log' = [log EXCEPT ![t] = Append(@, [key |-> k, value |-> v])]
  /\ UNCHANGED <<inner, active, snapshot, savepoints, marks, history>>

\* The transaction object is dropped; the next begin makes a new one.
Forget(t) ==
  /\ active' = active \ {t}
  /\ pending' = [pending EXCEPT ![t] = NoWrites]
  /\ savepoints' = [savepoints EXCEPT ![t] = <<>>]
  /\ log' = [log EXCEPT ![t] = <<>>]
  /\ marks' = [marks EXCEPT ![t] = <<>>]
  /\ snapshot' = [snapshot EXCEPT ![t] = [k \in Keys |-> Absent]]

\* The buffered entries, one per key, are applied in key order.
Commit(t) ==
  /\ t \in active
  /\ Len(history) + Len(log[t]) <= MaxHistory
  /\ inner' = Overlay(pending[t], inner)
  /\ history' = history \o log[t]
  /\ Forget(t)

\* Mutant: a failed write has applied some of the batch.
CommitFails_Partial(t) ==
  /\ Engine /\ t \in active /\ pending[t] # NoWrites
  /\ \E k \in Keys : inner' = [inner EXCEPT ![k] = Get(t, k)]
  /\ Forget(t)
  /\ UNCHANGED history

\* The engine's write fails: commit has already taken the buffer.
CommitFails(t) ==
  /\ Engine /\ t \in active /\ pending[t] # NoWrites
  /\ Forget(t)
  /\ UNCHANGED <<inner, history>>

Rollback(t) ==
  /\ t \in active
  /\ Forget(t)
  /\ UNCHANGED <<inner, history>>

\* The engine has no savepoints: the trait's defaults return an error and
\* change nothing.
Savepoint(t, name) ==
  /\ ~Engine /\ t \in active /\ Room(savepoints, t, MaxMarks)
  /\ savepoints' =
       [savepoints EXCEPT ![t] =
          Append(@, [name |-> Lower[name], pending |-> pending[t]])]
  /\ marks' = [marks EXCEPT ![t] = Append(@, [name |-> name, at |-> Len(log[t])])]
  /\ UNCHANGED <<inner, active, snapshot, pending, log, history>>

\* A name that is not set is an error and changes nothing.
RollbackToSavepoint(t, name) ==
  /\ ~Engine /\ t \in active
  /\ \E pos \in 1..Len(savepoints[t]) :
       /\ Rposition(t, name, pos)
       /\ pending' = [pending EXCEPT ![t] = savepoints[t][pos].pending]
       /\ savepoints' = [savepoints EXCEPT ![t] = SubSeq(@, 1, pos)]
  /\ \E i \in 1..Len(marks[t]) :
       /\ IsMark(t, name, i)
       /\ log' = [log EXCEPT ![t] = SubSeq(@, 1, marks[t][i].at)]
       /\ marks' = [marks EXCEPT ![t] = SubSeq(@, 1, i)]
  /\ UNCHANGED <<inner, active, snapshot, history>>

ReleaseSavepoint(t, name) ==
  /\ ~Engine /\ t \in active
  /\ \E pos \in 1..Len(savepoints[t]) :
       /\ Rposition(t, name, pos)
       /\ savepoints' = [savepoints EXCEPT ![t] = SubSeq(@, 1, pos - 1)]
  /\ \E i \in 1..Len(marks[t]) :
       /\ IsMark(t, name, i)
       /\ marks' = [marks EXCEPT ![t] = SubSeq(@, 1, i - 1)]
  /\ UNCHANGED <<inner, active, snapshot, pending, log, history>>

Next ==
  \/ \E k \in Keys, v \in Options : StoreWrite(k, v)
  \/ \E k \in Keys, j \in Keys : \E v \in Values, w \in Values :
        j # k /\ StoreWriteBatch(k, v, j, w)
  \/ \E t \in Txns :
       \/ Begin(t)
       \/ \E k \in Keys, v \in Options : TxnWrite(t, k, v)
       \/ Commit(t) \/ CommitFails(t) \/ Rollback(t)
       \/ \E n \in Names :
            Savepoint(t, n) \/ RollbackToSavepoint(t, n) \/ ReleaseSavepoint(t, n)

Spec == Init /\ [][Next]_vars

-----------------------------------------------------------------------------
(***************************************************************************)
(* Properties.                                                             *)
(***************************************************************************)

\* Type invariant of the store, the transactions and the history variables.
TypeOK ==
  /\ inner \in Map
  /\ active \subseteq Txns
  /\ snapshot \in [Txns -> Map]
  /\ pending \in [Txns -> Buffer]
  /\ savepoints \in [Txns -> Seq([name : Names, pending : Buffer])]
  /\ log \in [Txns -> Seq(Write)]
  /\ marks \in [Txns -> Seq([name : Names, at : Nat])]
  /\ history \in Seq(Write)

\* v is what a log of writes, replayed in order from the start up to its n-th
\* entry, leaves at key k; none is its result when nothing wrote k.
Replays(l, n, k, v, none) ==
  \/ v = none /\ \A i \in 1..n : l[i].key # k
  \/ \E i \in 1..n :
       /\ l[i].key = k /\ l[i].value = v
       /\ \A j \in (i + 1)..n : l[j].key # k

\* The buffer of a transaction is always what its surviving writes amount to,
\* and the copy kept by every savepoint, those with reused names included, is
\* what they amounted to when it was set, whatever sequence of SAVEPOINT,
\* ROLLBACK TO and RELEASE led here.
BuffersReplayTheLog ==
  \A t \in Txns :
    /\ \A k \in Keys :
         Replays(log[t], Len(log[t]), k, pending[t][k], Untouched)
    /\ Len(savepoints[t]) = Len(marks[t])
    /\ \A i \in 1..Len(marks[t]) :
         /\ savepoints[t][i].name = Lower[marks[t][i].name]
         /\ marks[t][i].at <= Len(log[t])
         /\ \A k \in Keys :
              Replays(log[t], marks[t][i].at, k, savepoints[t][i].pending[k], Untouched)

\* The committed map is the replay of the surviving writes of the committed
\* transactions and of the autocommit writes, in commit order: nothing rolled
\* back, to a savepoint or altogether, ever shows, and no commit is partial.
StoreReplaysCommits ==
  \A k \in Keys : Replays(history, Len(history), k, inner[k], Absent)

\* Consistent reads are repeatable: no step of anyone else changes what
\* snapshot_get returns inside an open transaction.
ReadsStay ==
  \A t \in active : t \in active' /\ pending'[t] = pending[t] =>
    \A k \in Keys : SnapshotGet(t, k)' = SnapshotGet(t, k)

\* The same of every step.
RepeatableReads == [][ReadsStay]_vars

Precedes(j, k, reverse) == IF reverse THEN j > k ELSE j < k

\* A limited scan inside a transaction returns rows that exist in the
\* transaction's view, in order and without leaving one out, and stops early
\* only when the limit is reached.
ScansMergePending ==
  \A t \in active, start \in Keys, end \in {k + 1 : k \in Keys},
     limit \in 1..Cardinality(Keys), reverse \in BOOLEAN :
    LET rows == ScanRange(t, start, end, limit, reverse)
        got  == {rows[i] : i \in 1..Len(rows)}
        live == {k \in Keys : start <= k /\ k < end /\ Get(t, k) # Absent}
    IN  /\ \A i, j \in 1..Len(rows) : i < j => Precedes(rows[i], rows[j], reverse)
        /\ got \subseteq live
        /\ \A k \in live \ got :
             Len(rows) = limit /\ \A j \in got : Precedes(j, k, reverse)
=============================================================================
