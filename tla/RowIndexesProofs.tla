-------------------------- MODULE RowIndexesProofs --------------------------
(***************************************************************************)
(* Proofs about RowIndexes, for any sessions, keys, values, index names,   *)
(* clients and bounds.                                                     *)
(*                                                                         *)
(*   Types     what a statement carries from step to step, and that an     *)
(*             admitted CREATE INDEX finds an index id;                    *)
(*   Guarded   a statement in work holds the locks it planned, locks of    *)
(*             two sessions are compatible, and a statement that names a   *)
(*             row works on that row: two statements in work are Apart;    *)
(*   Linked    what each statement knows of the rows and the entries it is *)
(*             about to change is still true, and every index has exactly  *)
(*             the entry of every row no statement is in the middle of;    *)
(*   Distinct  an INSERT that has been validated still finds its value     *)
(*             free.                                                       *)
(*                                                                         *)
(* Each layer rests on the ones before it.                                 *)
(***************************************************************************)
EXTENDS RowIndexes, LockConflictProofs, FiniteSetTheorems

(***************************************************************************)
(* Types.                                                                  *)
(***************************************************************************)

\* Steps at which a statement works on row run[s].key.
Writing  == {"old", "validate", "unlink", "put", "link"}
Deleting == {"dropold", "dropunlink", "droprow"}
RowKinds == InsertKinds \cup {"Update", "Delete"}

\* A running statement: types, and what is set at which step.
RunOK(r) ==
  /\ r \in Runs
  /\ r.pc \in Writing => r.key \in Keys /\ r.val \in Vals /\
       r.stmt.kind \in RowKinds \ {"Delete"}
  /\ r.pc \in Deleting => r.key \in Keys /\ r.stmt.kind \in {"Delete", "Replace"}
  /\ r.pc \in {"register", "backfill"} => r.stmt.kind = "CreateIndex"
  /\ r.pc = "backfill" => r.id # 0
  /\ r.pc = "unregister" => r.stmt.kind = "DropIndex" /\ r.id # 0
  /\ r.pc \in {"clear", "clearlegacy"} => r.stmt.kind = "Truncate"
  /\ r.pc = "store" => r.stmt.kind \in InsertKinds

\* The fields of a statement, by its kind.
LEMMA StatementShape ==
  ASSUME NEW st \in Statements
  PROVE  /\ st.kind \in RowKinds \cup {"CreateIndex", "DropIndex", "Truncate"}
         /\ st.kind \in RowKinds => st.key \in Keys
         /\ st.kind \in RowKinds \ {"Delete"} => st.val \in Vals
         /\ st.kind \in {"CreateIndex", "DropIndex"} => st.name \in Names
         /\ st.kind = "CreateIndex" => st.unique \in BOOLEAN
BY DEF Statements, RowKinds, InsertKinds

\* plan_lock_targets asks for locks of the table and its indexes only.
LEMMA LocksPlanned ==
  ASSUME RTypeOK, NEW st \in Statements
  PROVE  PlanLockTargets(st) \in SUBSET AllLocks
<1>0. /\ st.kind \in RowKinds => st.key \in Values /\ st.key + 1 \in Values
      /\ st.kind \in RowKinds \ {"Delete"} => st.val \in Values
      /\ st.kind \in {"CreateIndex", "DropIndex"} => st.name \in Names
      /\ st.kind \in RowKinds \cup {"CreateIndex", "DropIndex", "Truncate"}
  BY StatementShape, RankAssumption
<1> USE IndexAssumption
<1>1. /\ RowLocks(MetadataRead) \in AllLocks
      /\ TableDdlLock \in AllLocks
      /\ \A n \in Names : ObjectLock("Index", "db", "public", n) \in AllLocks
  BY DEF AllLocks, Kinds, TableDdlLock
<1>2. ASSUME NEW i \in Indexes, NEW v \in Values
      PROVE  /\ RowLocks(Record(i, v)) \in AllLocks
             /\ RowLocks(InsertIntention(i, v)) \in AllLocks
  BY DEF AllLocks, Kinds, Record, InsertIntention, PointTags
<1>3. ASSUME NEW i \in Indexes, NEW v \in Values, v + 1 \in Values
      PROVE  RowLocks(Gap(i, v, v + 1)) \in AllLocks
  BY <1>3 DEF AllLocks, Kinds, Gap, RangeTags, Bounds
<1>4. CASE st.kind \in InsertKinds
  <2>1. st.key \in Values /\ st.val \in Values
    BY <1>0, <1>4 DEF RowKinds, InsertKinds
  <2>2. \A i \in indexes : i.name \in Indexes
    <3>1. \A i \in indexes : i \in Index
      BY DEF RTypeOK
    <3>2. \A i \in Index : i.name \in Names
      BY DEF Index
    <3> QED  BY <3>1, <3>2, NameAssumption
  <2>3. PlanLockTargets(st) = InsertRowLocks(st.key, st.val)
    BY <1>4 DEF PlanLockTargets, InsertKinds
  <2> QED  BY <1>1, <1>2, <2>1, <2>2, <2>3 DEF InsertRowLocks
<1>5. CASE st.kind \in {"Update", "Delete"}
  <2>1. st.key \in Values /\ st.key + 1 \in Values
    BY <1>0, <1>5 DEF RowKinds
  <2>2. PlanLockTargets(st) = PointLocks(st.key)
    BY <1>5 DEF PlanLockTargets, InsertKinds
  <2> QED  BY <1>1, <1>2, <1>3, <2>1, <2>2 DEF PointLocks
<1>6. CASE st.kind \in {"CreateIndex", "DropIndex", "Truncate"}
  BY <1>0, <1>1, <1>6 DEF PlanLockTargets, InsertKinds
<1> QED  BY <1>0, <1>4, <1>5, <1>6 DEF RowKinds

\* CREATE INDEX statements that have not taken their id yet.
Unregistered ==
  {s \in Sessions : run[s].stmt.kind = "CreateIndex" /\
    run[s].pc \in {"lock", "start", "register"}}

\* The first layer.
Types ==
  /\ RTypeOK
  /\ \A s \in Sessions : RunOK(run[s])
  /\ nextId + Cardinality(Unregistered) <= MaxIndexId + 1

\* A session without a statement.
LEMMA RestOK == RunOK(AtRest)
<1>1. AtRest \in Runs
  BY BoundAssumption DEF AtRest, Runs, Steps, Statements, Versions, Empty
<1> QED  BY <1>1 DEF RunOK, AtRest, Writing, Deleting

\* One statement moves, the others stay where they are.
LEMMA OneRuns ==
  ASSUME Types, NEW s \in Sessions, NEW r, RunOK(r), run' = [run EXCEPT ![s] = r]
  PROVE  /\ run' \in [Sessions -> Runs]
         /\ \A t \in Sessions : RunOK(run'[t])
         /\ run'[s] = r
         /\ \A t \in Sessions \ {s} : run'[t] = run[t]
BY DEF Types, RTypeOK, RunOK

\* The steps that move a statement on without touching what it knows.
LEMMA PlainSteps ==
  ASSUME NEW r, RunOK(r),
         NEW p \in {"done", "start"}
  PROVE  RunOK([r EXCEPT !.pc = p])
<1>1. [r EXCEPT !.pc = p] \in Runs
  BY SMTT(30) DEF RunOK, Runs, Steps
<1> QED  BY <1>1 DEF RunOK, Writing, Deleting, Runs

\* The steps of session s.
Step(s) ==
  \/ \E st \in Statements : Plan(s, st)
  \/ Lock(s)
  \/ StartInsert(s)
  \/ StartInsertOnConflict(s)
  \/ StartPointWrite(s)
  \/ ReadOldRow(s)
  \/ ValidateIndexEntries(s)
  \/ DeleteIndexEntries(s, "unlink", "put")
  \/ PutRow(s)
  \/ WriteIndexEntries(s)
  \/ StoreTable(s)
  \/ ReadDeletedRow(s)
  \/ DeleteIndexEntries(s, "dropunlink", "droprow")
  \/ DropRow(s)
  \/ CreateIndexScan(s)
  \/ CreateIndexRegister(s)
  \/ CreateIndexBackfill(s)
  \/ DropIndexRecord(s)
  \/ DropIndexEntries(s)
  \/ BumpEpoch(s)
  \/ ClearEntries(s)
  \/ ClearLegacyEntries(s)
  \/ Finish(s)

\* Between its locks and its end.
InWork(s) == run[s].pc \notin {"idle", "lock", "done"}

\* Which steps change what.
LEMMA Frame ==
  ASSUME NEW s \in Sessions, Step(s)
  PROVE  /\ client' = client
         /\ rows' = rows \/ PutRow(s) \/ DropRow(s)
         /\ indexes' = indexes \/ CreateIndexRegister(s) \/ DropIndexRecord(s)
         /\ \/ epoch' = epoch
            \/ epoch' = run[s].epoch
            \/ epoch < MaxEpoch /\ epoch' = epoch + 1
         /\ nextId' = nextId \/ (CreateIndexRegister(s) /\ ~NameTaken(run[s].stmt.name))
         /\ \/ entries' \subseteq entries /\ legacy' \subseteq legacy
            \/ WriteIndexEntries(s)
            \/ CreateIndexBackfill(s)
         /\ held' = held \/ Lock(s) \/ Finish(s)
         /\ (\E st \in Statements : Plan(s, st)) \/ Lock(s) \/ Finish(s) \/ InWork(s)
<1> USE DEF Plan, Lock, StartInsert, StartInsertOnConflict, StartPointWrite, ReadOldRow,
        ValidateIndexEntries, DeleteIndexEntries, PutRow, WriteIndexEntries, StoreTable,
        ReadDeletedRow, DropRow, CreateIndexScan, CreateIndexRegister, CreateIndexBackfill,
        DropIndexRecord, DropIndexEntries, BumpEpoch, ClearEntries, ClearLegacyEntries,
        Finish
<1>1. client' = client
  BY Zenon DEF Step
<1>2. rows' = rows \/ PutRow(s) \/ DropRow(s)
  BY Zenon DEF Step
<1>3. indexes' = indexes \/ CreateIndexRegister(s) \/ DropIndexRecord(s)
  BY Zenon DEF Step
<1>4. \/ epoch' = epoch
      \/ epoch' = run[s].epoch
      \/ epoch < MaxEpoch /\ epoch' = epoch + 1
  BY Zenon DEF Step
<1>5. nextId' = nextId \/ (CreateIndexRegister(s) /\ ~NameTaken(run[s].stmt.name))
  BY Zenon DEF Step
<1>6. \/ entries' \subseteq entries /\ legacy' \subseteq legacy
      \/ WriteIndexEntries(s)
      \/ CreateIndexBackfill(s)
  BY Zenon DEF Step
<1>7. held' = held \/ Lock(s) \/ Finish(s)
  BY Zenon DEF Step
<1>8. (\E st \in Statements : Plan(s, st)) \/ Lock(s) \/ Finish(s) \/ InWork(s)
  BY DEF Step, InWork, At
<1> QED  BY <1>1, <1>2, <1>3, <1>4, <1>5, <1>6, <1>7, <1>8, Zenon

\* A CREATE INDEX that registers its index finds an id within the bound.
LEMMA IdLeft ==
  ASSUME Types, NEW s \in Sessions, At(s, "register")
  PROVE  nextId \in 1..MaxIndexId
<1>1. s \in Unregistered
  BY DEF Types, RunOK, At, Unregistered
<1>2. IsFiniteSet(Unregistered)
  BY SessionAssumption, FS_Subset DEF Unregistered
<1>3. Cardinality(Unregistered) \in Nat /\ Cardinality(Unregistered) # 0
  BY <1>1, <1>2, FS_CardinalityType, FS_EmptySet
<1> QED  BY <1>3, BoundAssumption DEF Types, RTypeOK

\* Every step leaves its statement well formed.
LEMMA RunStep ==
  ASSUME Types, NEW s \in Sessions
  PROVE  Step(s) => RunOK(run'[s])
<1> DEFINE r == run[s]
<1>1. RunOK(r) /\ r \in Runs /\ DOMAIN run = Sessions
  BY DEF Types, RunOK, RTypeOK
<1>2. /\ r.stmt \in Statements /\ r.epoch \in 1..MaxEpoch /\ epoch \in 1..MaxEpoch
      /\ rows \in [1..MaxEpoch -> Versions]
  BY <1>1 DEF Runs, Types, RTypeOK
<1>3. \A k \in Keys : Row(s, k) \in Vals \cup {NoRow}
  BY <1>2 DEF Row, Versions
<1>4. ASSUME NEW st \in Statements, Plan(s, st) PROVE RunOK(run'[s])
  <2>1. PlanLockTargets(st) \in SUBSET AllLocks
    BY LocksPlanned DEF Types
  <2> DEFINE locked == IF client.mysql THEN PlanLockTargets(st) ELSE {}
             unique == \E i \in indexes : i.unique
             point == IF client.mysql THEN "lock" ELSE "start"
  <2>2. locked \in SUBSET AllLocks /\ unique \in BOOLEAN /\ point \in {"lock", "start"}
    BY <2>1
  <2>3. run'[s] = [AtRest EXCEPT !.pc = point, !.stmt = st, !.epoch = epoch,
                                 !.want = locked, !.byValue = unique]
    BY <1>1, <1>4 DEF Plan
  <2> HIDE DEF locked, unique, point
  <2>4. run'[s] \in Runs
    BY <1>2, <2>2, <2>3, RestOK DEF RunOK, Runs, Steps
  <2> QED  BY <2>2, <2>3, <2>4 DEF RunOK, AtRest, Writing, Deleting
<1>5. ASSUME Lock(s) PROVE RunOK(run'[s])
  BY <1>1, <1>5, PlainSteps DEF Lock, Goto
<1>6. ASSUME NEW k \in Keys, NEW v \in Vals, r.stmt.kind \in RowKinds \ {"Delete"},
             WriteRow(s, k, v)
      PROVE  RunOK(run'[s])
  <2>1. run'[s] \in Runs
    BY <1>1, <1>6 DEF WriteRow, Runs, Steps
  <2> QED  BY <1>1, <1>6, <2>1 DEF WriteRow, RunOK, Writing, Deleting
<1>7. ASSUME NEW k \in Keys, NEW v \in Vals \cup {NoRow},
             r.stmt.kind \in {"Delete", "Replace"}, DeleteRow(s, k, v)
      PROVE  RunOK(run'[s])
  <2>1. run'[s] \in Runs
    BY <1>1, <1>7 DEF DeleteRow, Runs, Steps
  <2> QED  BY <1>1, <1>7, <2>1 DEF DeleteRow, RunOK, Writing, Deleting
<1>8. ASSUME StartInsert(s) PROVE RunOK(run'[s])
  <2>1. r.stmt.key \in Keys /\ r.stmt.val \in Vals /\ r.stmt.kind \in RowKinds \ {"Delete"}
    BY <1>2, <1>8, StatementShape DEF StartInsert, RowKinds, InsertKinds
  <2> QED  BY <1>1, <1>6, <1>8, <2>1, PlainSteps DEF StartInsert, Goto
<1>9. ASSUME StartInsertOnConflict(s) PROVE RunOK(run'[s])
  <2>1. r.stmt.key \in Keys /\ r.stmt.val \in Vals /\ r.stmt.kind \in RowKinds \ {"Delete"}
    BY <1>2, <1>9, StatementShape DEF StartInsertOnConflict, RowKinds, InsertKinds
  <2>2. Conflicting(s) \subseteq Keys
    BY <2>1 DEF Conflicting, RowsWithValue
  <2>3. RunOK([r EXCEPT !.pc = "store"]) \/ r.stmt.kind \notin InsertKinds
    <3>1. [r EXCEPT !.pc = "store"] \in Runs
      BY <1>1 DEF Runs, Steps
    <3> QED  BY <1>1, <3>1 DEF RunOK, Writing, Deleting, Runs
  <2>4. r.stmt.kind \in {"Ignore", "Upsert", "Replace"}
    BY <1>9 DEF StartInsertOnConflict, InsertKinds
  <2>5. CASE WriteRow(s, r.stmt.key, r.stmt.val)
    BY <1>6, <2>1, <2>5
  <2>6. CASE Goto(s, "done")
    BY <1>1, <2>6, PlainSteps DEF Goto
  <2>7. ASSUME NEW k \in Conflicting(s),
               CASE r.stmt.kind = "Ignore"  -> Goto(s, "store")
                 [] r.stmt.kind = "Upsert"  -> WriteRow(s, k, r.stmt.val)
                 [] r.stmt.kind = "Replace" -> DeleteRow(s, k, r.stmt.val)
        PROVE RunOK(run'[s])
    <3>1. k \in Keys
      BY <2>2
    <3>2. CASE r.stmt.kind = "Ignore"
      <4>1. Goto(s, "store")  BY <2>7, <3>2
      <4> QED  BY <1>1, <2>3, <3>2, <4>1 DEF Goto, InsertKinds
    <3>3. CASE r.stmt.kind = "Upsert"
      <4>1. WriteRow(s, k, r.stmt.val)  BY <2>7, <3>3
      <4> QED  BY <1>6, <2>1, <3>1, <4>1
    <3>4. CASE r.stmt.kind = "Replace"
      <4>1. DeleteRow(s, k, r.stmt.val)  BY <2>7, <3>4
      <4> QED  BY <1>7, <2>1, <3>1, <3>4, <4>1
    <3> QED  BY <2>4, <3>2, <3>3, <3>4
  <2> QED  BY <1>9, <2>5, <2>6, <2>7 DEF StartInsertOnConflict
<1>10. ASSUME StartPointWrite(s) PROVE RunOK(run'[s])
  <2>1. r.stmt.key \in Keys /\ r.stmt.kind \in {"Update", "Delete"}
        /\ (r.stmt.kind = "Update" => r.stmt.val \in Vals)
    BY <1>2, <1>10, StatementShape DEF StartPointWrite, RowKinds, InsertKinds
  <2>2. \/ Goto(s, "done")
        \/ r.stmt.kind = "Update" /\ WriteRow(s, r.stmt.key, r.stmt.val)
        \/ r.stmt.kind = "Delete" /\ DeleteRow(s, r.stmt.key, NoRow)
    BY <1>10, <2>1 DEF StartPointWrite
  <2>3. CASE Goto(s, "done")
    BY <1>1, <2>3, PlainSteps DEF Goto
  <2>4. CASE r.stmt.kind = "Update" /\ WriteRow(s, r.stmt.key, r.stmt.val)
    BY <1>6, <2>1, <2>4 DEF RowKinds
  <2>5. CASE r.stmt.kind = "Delete" /\ DeleteRow(s, r.stmt.key, NoRow)
    BY <1>7, <2>1, <2>5
  <2> QED  BY <2>2, <2>3, <2>4, <2>5
<1>11. ASSUME ReadOldRow(s) PROVE RunOK(run'[s])
  <2>1. r.key \in Keys
    BY <1>1, <1>11 DEF ReadOldRow, At, RunOK, Writing
  <2>2. run'[s] = [r EXCEPT !.pc = "validate", !.old = Row(s, r.key)]
    BY <1>1, <1>11 DEF ReadOldRow
  <2>3. run'[s] \in Runs
    BY <1>1, <1>3, <2>1, <2>2 DEF Runs, Steps
  <2> QED  BY <1>1, <1>11, <2>2, <2>3 DEF ReadOldRow, At, RunOK, Writing, Deleting, Runs
<1>12. ASSUME r.pc \in Writing, NEW p \in {"unlink", "put", "link"}, Goto(s, p)
       PROVE  RunOK(run'[s])
  <2>1. run'[s] = [r EXCEPT !.pc = p] /\ run'[s] \in Runs
    BY <1>1, <1>12 DEF Goto, Runs, Steps
  <2> QED  BY <1>1, <1>12, <2>1 DEF RunOK, Writing, Deleting, Runs
<1>13. ASSUME Goto(s, "done") PROVE RunOK(run'[s])
  BY <1>1, <1>13, PlainSteps DEF Goto
<1>14. ASSUME ValidateIndexEntries(s) PROVE RunOK(run'[s])
  <2>1. r.pc \in Writing
    BY <1>14 DEF ValidateIndexEntries, At, Writing
  <2>2. Goto(s, "done") \/ Goto(s, "unlink") \/ Goto(s, "put")
    BY <1>14 DEF ValidateIndexEntries
  <2> QED  BY <1>12, <1>13, <2>1, <2>2
<1>15. ASSUME DeleteIndexEntries(s, "unlink", "put") PROVE RunOK(run'[s])
  BY <1>12, <1>15 DEF DeleteIndexEntries, At, Writing
<1>16. ASSUME PutRow(s) PROVE RunOK(run'[s])
  BY <1>12, <1>16 DEF PutRow, At, Writing
<1>17. ASSUME WriteIndexEntries(s) PROVE RunOK(run'[s])
  <2>1. r.stmt.kind \in RowKinds \ {"Delete"}
    BY <1>1, <1>17 DEF WriteIndexEntries, At, RunOK, Writing
  <2>2. CASE r.stmt.kind = "Update"
    BY <1>13, <1>17, <2>2 DEF WriteIndexEntries
  <2>3. CASE r.stmt.kind # "Update"
    <3>1. run'[s] = [r EXCEPT !.pc = "store"]
      BY <1>1, <1>17, <2>3 DEF WriteIndexEntries, Goto
    <3>2. run'[s] \in Runs
      BY <1>1, <3>1 DEF Runs, Steps
    <3> QED  BY <1>1, <2>1, <2>3, <3>1, <3>2 DEF RunOK, RowKinds, Writing, Deleting, Runs
  <2> QED  BY <2>2, <2>3
<1>18. ASSUME StoreTable(s) PROVE RunOK(run'[s])
  BY <1>13, <1>18 DEF StoreTable
<1>19. ASSUME ReadDeletedRow(s) PROVE RunOK(run'[s])
  <2>1. r.pc \in Deleting /\ r.key \in Keys
    BY <1>1, <1>19 DEF ReadDeletedRow, At, RunOK, Deleting
  <2> DEFINE old == Row(s, r.key)
             point == IF old # NoRow THEN "dropunlink" ELSE "droprow"
  <2>2. run'[s] = [r EXCEPT !.old = old, !.pc = point]
    BY <1>1, <1>19 DEF ReadDeletedRow
  <2>3. old \in Vals \cup {NoRow} /\ point \in {"dropunlink", "droprow"}
    BY <1>3, <2>1
  <2> HIDE DEF old, point
  <2>4. run'[s] \in Runs
    BY <1>1, <2>2, <2>3 DEF Runs, Steps
  <2> QED  BY <1>1, <2>1, <2>2, <2>3, <2>4 DEF RunOK, Writing, Deleting, Runs
<1>20. ASSUME DeleteIndexEntries(s, "dropunlink", "droprow") PROVE RunOK(run'[s])
  <2>1. r.pc \in Deleting /\ run'[s] = [r EXCEPT !.pc = "droprow"]
    BY <1>1, <1>20 DEF DeleteIndexEntries, At, Goto, Deleting
  <2>2. run'[s] \in Runs
    BY <1>1, <2>1 DEF Runs, Steps
  <2> QED  BY <1>1, <2>1, <2>2 DEF RunOK, Writing, Deleting, Runs
<1>21. ASSUME DropRow(s) PROVE RunOK(run'[s])
  <2>1. CASE r.stmt.kind = "Replace"
    <3>1. WriteRow(s, r.stmt.key, r.stmt.val)
      BY <1>21, <2>1 DEF DropRow
    <3>2. r.stmt.key \in Keys /\ r.stmt.val \in Vals
      BY <1>2, <2>1, StatementShape DEF RowKinds, InsertKinds
    <3> QED  BY <1>6, <2>1, <3>1, <3>2 DEF RowKinds, InsertKinds
  <2>2. CASE r.stmt.kind # "Replace"
    BY <1>13, <1>21, <2>2 DEF DropRow
  <2> QED  BY <2>1, <2>2
<1>22. ASSUME CreateIndexScan(s) PROVE RunOK(run'[s])
  <2>1. \/ Goto(s, "done")
        \/ run' = [run EXCEPT ![s].pc = "register", ![s].seen = rows[epoch]]
    BY <1>22 DEF CreateIndexScan
  <2>2. CASE run' = [run EXCEPT ![s].pc = "register", ![s].seen = rows[epoch]]
    <3>1. run'[s] = [r EXCEPT !.pc = "register", !.seen = rows[epoch]]
      BY <1>1, <2>2
    <3>2. rows[epoch] \in Versions
      BY <1>2
    <3>3. run'[s] \in Runs
      BY <1>1, <3>1, <3>2 DEF Runs, Steps
    <3> QED  BY <1>1, <1>22, <3>1, <3>3 DEF CreateIndexScan, RunOK, Writing, Deleting, Runs
  <2> QED  BY <1>13, <2>1, <2>2
<1>23. ASSUME CreateIndexRegister(s) PROVE RunOK(run'[s])
  <2>0. r.stmt.kind = "CreateIndex"
    BY <1>1, <1>23 DEF CreateIndexRegister, At, RunOK
  <2>1. \/ Goto(s, "done")
        \/ run' = [run EXCEPT ![s].pc = "backfill", ![s].id = nextId]
    BY <1>23 DEF CreateIndexRegister
  <2>2. CASE run' = [run EXCEPT ![s].pc = "backfill", ![s].id = nextId]
    <3>1. run'[s] = [r EXCEPT !.pc = "backfill", !.id = nextId]
      BY <1>1, <2>2
    <3>2. nextId \in 1..MaxIndexId
      BY <1>23, IdLeft DEF CreateIndexRegister
    <3>4. nextId \in 0..MaxIndexId
      BY <3>2, BoundAssumption
    <3>3. run'[s] \in Runs
      BY <1>1, <3>1, <3>4 DEF Runs, Steps
    <3> QED  BY <1>1, <2>0, <3>1, <3>2, <3>3 DEF RunOK, Writing, Deleting, Runs
  <2> QED  BY <1>13, <2>1, <2>2
<1>24. ASSUME CreateIndexBackfill(s) PROVE RunOK(run'[s])
  BY <1>13, <1>24 DEF CreateIndexBackfill
<1>25. ASSUME DropIndexRecord(s) PROVE RunOK(run'[s])
  <2>1. \/ Goto(s, "done")
        \/ \E i \in indexes : run' = [run EXCEPT ![s].pc = "unregister", ![s].id = i.id]
    BY <1>25 DEF DropIndexRecord
  <2>2. ASSUME NEW i \in indexes, run' = [run EXCEPT ![s].pc = "unregister", ![s].id = i.id]
        PROVE  RunOK(run'[s])
    <3>1. run'[s] = [r EXCEPT !.pc = "unregister", !.id = i.id]
      BY <1>1, <2>2
    <3>2. i.id \in 1..MaxIndexId
      BY DEF Types, RTypeOK, Index
    <3>4. i.id \in 0..MaxIndexId
      BY <3>2, BoundAssumption
    <3>3. run'[s] \in Runs
      BY <1>1, <3>1, <3>4 DEF Runs, Steps
    <3> QED  BY <1>1, <1>25, <3>1, <3>2, <3>3
             DEF DropIndexRecord, RunOK, Writing, Deleting, Runs
  <2> QED  BY <1>13, <2>1, <2>2
<1>26. ASSUME DropIndexEntries(s) PROVE RunOK(run'[s])
  BY <1>13, <1>26 DEF DropIndexEntries
<1>27. ASSUME BumpEpoch(s) PROVE RunOK(run'[s])
  <2>1. run'[s] = [r EXCEPT !.pc = "clear"]
    BY <1>1, <1>27 DEF BumpEpoch, Goto
  <2>2. run'[s] \in Runs
    BY <1>1, <2>1 DEF Runs, Steps
  <2> QED  BY <1>1, <1>27, <2>1, <2>2 DEF BumpEpoch, RunOK, Writing, Deleting, Runs
<1>28. ASSUME ClearEntries(s) PROVE RunOK(run'[s])
  <2>1. run'[s] = [r EXCEPT !.pc = "clearlegacy"]
    BY <1>1, <1>28 DEF ClearEntries, Goto
  <2>2. run'[s] \in Runs
    BY <1>1, <2>1 DEF Runs, Steps
  <2> QED  BY <1>1, <1>28, <2>1, <2>2 DEF ClearEntries, At, RunOK, Writing, Deleting, Runs
<1>29. ASSUME ClearLegacyEntries(s) PROVE RunOK(run'[s])
  BY <1>13, <1>29 DEF ClearLegacyEntries
<1>30. ASSUME Finish(s) PROVE RunOK(run'[s])
  <2>1. run'[s] = AtRest
    BY <1>1, <1>30 DEF Finish
  <2> QED  BY <2>1, RestOK
<1> QED
  BY <1>4, <1>5, <1>8, <1>9, <1>10, <1>11, <1>14, <1>15, <1>16, <1>17, <1>18, <1>19,
     <1>20, <1>21, <1>22, <1>23, <1>24, <1>25, <1>26, <1>27, <1>28, <1>29, <1>30
  DEF Step

\* A step moves one statement.
LEMMA OthersStay ==
  ASSUME Types, NEW s \in Sessions, Step(s)
  PROVE  /\ run' = [run EXCEPT ![s] = run'[s]]
         /\ \A t \in Sessions \ {s} : run'[t] = run[t]
<1> DEFINE P == run' = [run EXCEPT ![s] = run'[s]]
<1>1. run \in [Sessions -> Runs]
  BY DEF Types, RTypeOK
<1>2. ASSUME NEW p, Goto(s, p) PROVE P
  BY <1>1, <1>2 DEF Goto
<1>3. ASSUME NEW k, NEW v, WriteRow(s, k, v) PROVE P
  BY <1>1, <1>3 DEF WriteRow
<1>4. ASSUME NEW k, NEW v, DeleteRow(s, k, v) PROVE P
  BY <1>1, <1>4 DEF DeleteRow
<1>5. ASSUME NEW r, run' = [run EXCEPT ![s] = r] PROVE P
  BY <1>1, <1>5
<1>6. ASSUME NEW st \in Statements, Plan(s, st) PROVE P
  BY <1>5, <1>6 DEF Plan
<1>7. ASSUME Lock(s) PROVE P
  BY <1>2, <1>7 DEF Lock
<1>8. ASSUME StartInsert(s) PROVE P
  BY <1>2, <1>3, <1>8 DEF StartInsert
<1>9. ASSUME StartInsertOnConflict(s) PROVE P
  <2>1. run[s].stmt.kind \in {"Ignore", "Upsert", "Replace"}
    BY <1>9 DEF StartInsertOnConflict, InsertKinds
  <2> QED  BY <1>2, <1>3, <1>4, <1>9, <2>1 DEF StartInsertOnConflict
<1>10. ASSUME StartPointWrite(s) PROVE P
  BY <1>2, <1>3, <1>4, <1>10 DEF StartPointWrite
<1>11. ASSUME ReadOldRow(s) PROVE P
  BY <1>1, <1>11 DEF ReadOldRow
<1>12. ASSUME ValidateIndexEntries(s) \/ PutRow(s) \/ WriteIndexEntries(s) \/ StoreTable(s)
       PROVE  P
  BY <1>2, <1>12 DEF ValidateIndexEntries, PutRow, WriteIndexEntries, StoreTable
<1>13. ASSUME DeleteIndexEntries(s, "unlink", "put") \/
              DeleteIndexEntries(s, "dropunlink", "droprow")
       PROVE  P
  BY <1>2, <1>13 DEF DeleteIndexEntries
<1>14. ASSUME ReadDeletedRow(s) PROVE P
  BY <1>1, <1>14 DEF ReadDeletedRow
<1>15. ASSUME DropRow(s) PROVE P
  BY <1>2, <1>3, <1>15 DEF DropRow
<1>16. ASSUME CreateIndexScan(s) PROVE P
  <2>1. CASE Goto(s, "done")
    BY <1>2, <2>1
  <2>2. CASE run' = [run EXCEPT ![s].pc = "register", ![s].seen = rows[epoch]]
    BY <1>1, <2>2
  <2> QED  BY <1>16, <2>1, <2>2 DEF CreateIndexScan
<1>17. ASSUME CreateIndexRegister(s) PROVE P
  <2>1. CASE Goto(s, "done")
    BY <1>2, <2>1
  <2>2. CASE run' = [run EXCEPT ![s].pc = "backfill", ![s].id = nextId]
    BY <1>1, <2>2
  <2> QED  BY <1>17, <2>1, <2>2 DEF CreateIndexRegister
<1>18. ASSUME DropIndexRecord(s) PROVE P
  <2>1. CASE Goto(s, "done")
    BY <1>2, <2>1
  <2>2. ASSUME NEW i \in indexes, run' = [run EXCEPT ![s].pc = "unregister", ![s].id = i.id]
        PROVE  P
    BY <1>1, <2>2
  <2> QED  BY <1>18, <2>1, <2>2 DEF DropIndexRecord
<1>19. ASSUME CreateIndexBackfill(s) \/ DropIndexEntries(s) \/ BumpEpoch(s) \/
              ClearEntries(s)
              \/ ClearLegacyEntries(s)
       PROVE  P
  BY <1>2, <1>19 DEF CreateIndexBackfill, DropIndexEntries, BumpEpoch, ClearEntries,
     ClearLegacyEntries
<1>20. ASSUME Finish(s) PROVE P
  BY <1>5, <1>20 DEF Finish
<1>21. P
  BY <1>6, <1>7, <1>8, <1>9, <1>10, <1>11, <1>12, <1>13, <1>14, <1>15, <1>16, <1>17,
     <1>18, <1>19, <1>20 DEF Step
<1> QED  BY <1>1, <1>21

\* The data a step leaves has the types of the program.
LEMMA DataStep ==
  ASSUME Types, NEW s \in Sessions, Step(s)
  PROVE  /\ client' = client
         /\ rows' \in [1..MaxEpoch -> Versions]
         /\ indexes' \subseteq Index
         /\ epoch' \in 1..MaxEpoch
         /\ entries' \subseteq (1..MaxIndexId) \X Vals \X Keys
         /\ legacy' \subseteq Names \X Vals \X Keys
         /\ held' \in [Sessions -> SUBSET AllLocks]
<1> DEFINE r == run[s]
           ETyped == entries' \subseteq (1..MaxIndexId) \X Vals \X Keys
           LTyped == legacy' \subseteq Names \X Vals \X Keys
<1>1. /\ RunOK(r) /\ r \in Runs /\ r.epoch \in 1..MaxEpoch /\ r.stmt \in Statements
      /\ rows \in [1..MaxEpoch -> Versions] /\ indexes \subseteq Index
      /\ epoch \in 1..MaxEpoch /\ nextId \in 1..(MaxIndexId + 1)
      /\ entries \subseteq (1..MaxIndexId) \X Vals \X Keys
      /\ legacy \subseteq Names \X Vals \X Keys
      /\ held \in [Sessions -> SUBSET AllLocks]
  BY DEF Types, RTypeOK, RunOK, Runs
<1>2. client' = client
  BY Frame
<1>3. rows' \in [1..MaxEpoch -> Versions]
  <2>1. rows' = rows \/ PutRow(s) \/ DropRow(s)
    BY Frame
  <2>2. ASSUME NEW v \in Vals \cup {NoRow}, rows' = [rows EXCEPT ![r.epoch][r.key] = v]
        PROVE  rows' \in [1..MaxEpoch -> Versions]
    BY <1>1, <2>2 DEF Versions
  <2>3. CASE PutRow(s)
    BY <1>1, <2>2, <2>3 DEF PutRow, At, RunOK, Writing
  <2>4. CASE DropRow(s)
    BY <1>1, <2>2, <2>4 DEF DropRow
  <2> QED  BY <1>1, <2>1, <2>3, <2>4
<1>4. indexes' \subseteq Index
  <2>1. indexes' = indexes \/ CreateIndexRegister(s) \/ DropIndexRecord(s)
    BY Frame
  <2>2. CASE CreateIndexRegister(s)
    <3>1. nextId \in 1..MaxIndexId
      BY <2>2, IdLeft DEF CreateIndexRegister
    <3>2. r.stmt.kind = "CreateIndex"
      BY <1>1, <2>2 DEF CreateIndexRegister, At, RunOK
    <3>3. r.stmt.name \in Names /\ r.stmt.unique \in BOOLEAN
      BY <1>1, <3>2, StatementShape
    <3>4. [id |-> nextId, name |-> r.stmt.name, unique |-> r.stmt.unique] \in Index
      BY <3>1, <3>3 DEF Index
    <3> QED  BY <1>1, <2>2, <3>4 DEF CreateIndexRegister
  <2>3. CASE DropIndexRecord(s)
    BY <1>1, <2>3 DEF DropIndexRecord
  <2> QED  BY <1>1, <2>1, <2>2, <2>3
<1>5. epoch' \in 1..MaxEpoch
  <2>1. epoch' = epoch \/ epoch' = r.epoch \/ (epoch < MaxEpoch /\ epoch' = epoch + 1)
    BY Frame
  <2> QED  BY <1>1, <2>1, BoundAssumption
<1>6. \A i \in indexes : i.id \in 1..MaxIndexId /\ i.name \in Names
  BY <1>1 DEF Index
<1>7. ETyped /\ LTyped
  <2>1. (entries' \subseteq entries /\ legacy' \subseteq legacy) \/ WriteIndexEntries(s) \/
          CreateIndexBackfill(s)
    BY Frame
  <2>2. CASE WriteIndexEntries(s)
    <3>1. r.key \in Keys /\ r.val \in Vals
      BY <1>1, <2>2 DEF WriteIndexEntries, At, RunOK, Writing
    <3>2. EntriesOf(r.key, r.val) \subseteq (1..MaxIndexId) \X Vals \X Keys
      BY <1>6, <3>1 DEF EntriesOf
    <3>3. LegacyEntriesOf(r.key, r.val) \subseteq Names \X Vals \X Keys
      BY <1>6, <3>1 DEF LegacyEntriesOf
    <3> QED  BY <1>1, <2>2, <3>2, <3>3 DEF WriteIndexEntries
  <2>3. CASE CreateIndexBackfill(s)
    <3>1. r.id \in 1..MaxIndexId /\ r.stmt.name \in Names /\ r.seen \in Versions
      <4>1. r.id \in 0..MaxIndexId /\ r.id # 0 /\ r.stmt.kind = "CreateIndex" /\
              r.seen \in Versions
        BY <1>1, <2>3 DEF CreateIndexBackfill, At, RunOK, Runs
      <4> QED  BY <1>1, <4>1, StatementShape, BoundAssumption
    <3>2. \A k \in Present(r.seen) : k \in Keys /\ r.seen[k] \in Vals
      BY <3>1 DEF Present, Versions
    <3> HIDE DEF r
    <3>3. /\ {<<r.id, r.seen[k], k>> : k \in Present(r.seen)} \subseteq
               (1..MaxIndexId) \X Vals \X Keys
          /\ {<<r.stmt.name, r.seen[k], k>> : k \in Present(r.seen)} \subseteq
               Names \X Vals \X Keys
      BY <3>1, <3>2
    <3> QED  BY <1>1, <2>3, <3>3 DEF CreateIndexBackfill, r
  <2> QED  BY <1>1, <2>1, <2>2, <2>3
<1>8. held' \in [Sessions -> SUBSET AllLocks]
  <2>1. held' = held \/ LT!Acquire(s, r.want) \/ LT!Release(s, held[s])
    BY Frame DEF Lock, Finish
  <2>2. r.want \in SUBSET AllLocks
    BY <1>1 DEF Runs
  <2> QED  BY <1>1, <2>1, <2>2 DEF LT!Acquire, LT!Release
<1> QED  BY <1>2, <1>3, <1>4, <1>5, <1>7, <1>8

\* A statement keeps its place in its session, its locks and the schema it was
\* planned with.
LEMMA StatementStays ==
  ASSUME Types, NEW s \in Sessions, Step(s)
  PROVE  \/ \E st \in Statements : Plan(s, st)
         \/ Finish(s)
         \/ /\ run'[s].stmt = run[s].stmt /\ run'[s].epoch = run[s].epoch
            /\ run'[s].want = run[s].want /\ run'[s].byValue = run[s].byValue
            /\ run[s].pc # "idle" /\ run'[s].pc # "idle"
            /\ \/ run'[s].pc \notin {"lock", "start", "register"}
               \/ Lock(s)
               \/ CreateIndexScan(s)
<1> DEFINE r == run[s]
           q == run'[s]
           P == /\ q.stmt = r.stmt /\ q.epoch = r.epoch /\ q.want = r.want /\
                     q.byValue = r.byValue
                /\ q.pc # "idle" /\ q.pc \notin {"lock", "start", "register"}
<1>1. run \in [Sessions -> Runs] /\ r \in Runs
  BY DEF Types, RTypeOK
<1>2. ASSUME NEW p \in Steps, Goto(s, p) PROVE q = [r EXCEPT !.pc = p]
  BY <1>1, <1>2 DEF Goto
<1>3. ASSUME Goto(s, "done") PROVE P
  <2>1. q = [r EXCEPT !.pc = "done"]
    BY <1>2, <1>3 DEF Steps
  <2> QED  BY <1>1, <2>1 DEF Runs
<1>4. ASSUME NEW p \in {"unlink", "put", "link", "store", "droprow", "clear",
             "clearlegacy"},
             Goto(s, p)
      PROVE  P
  <2>1. q = [r EXCEPT !.pc = p]
    BY <1>2, <1>4 DEF Steps
  <2> QED  BY <1>1, <2>1 DEF Runs
<1>5. ASSUME NEW k, NEW v, WriteRow(s, k, v) \/ DeleteRow(s, k, v) PROVE P
  BY <1>1, <1>5 DEF WriteRow, DeleteRow, Runs
<1>6. ASSUME StartInsert(s) PROVE P
  BY <1>3, <1>5, <1>6 DEF StartInsert
<1>7. ASSUME StartInsertOnConflict(s) PROVE P
  <2>1. run[s].stmt.kind \in {"Ignore", "Upsert", "Replace"}
    BY <1>7 DEF StartInsertOnConflict, InsertKinds
  <2> QED  BY <1>3, <1>4, <1>5, <1>7, <2>1 DEF StartInsertOnConflict
<1>8. ASSUME StartPointWrite(s) PROVE P
  BY <1>3, <1>5, <1>8 DEF StartPointWrite
<1>9. ASSUME ReadOldRow(s) PROVE P
  BY <1>1, <1>9 DEF ReadOldRow, Runs
<1>10. ASSUME ReadDeletedRow(s) PROVE P
  BY <1>1, <1>10 DEF ReadDeletedRow, Runs
<1>11. ASSUME DropRow(s) PROVE P
  BY <1>3, <1>5, <1>11 DEF DropRow
<1>12. ASSUME ValidateIndexEntries(s) PROVE P
  BY <1>3, <1>4, <1>12 DEF ValidateIndexEntries
<1>13. ASSUME DeleteIndexEntries(s, "unlink", "put") \/
              DeleteIndexEntries(s, "dropunlink", "droprow")
       PROVE  P
  BY <1>4, <1>13 DEF DeleteIndexEntries
<1>14. ASSUME PutRow(s) \/ WriteIndexEntries(s) \/ StoreTable(s) PROVE P
  BY <1>3, <1>4, <1>14 DEF PutRow, WriteIndexEntries, StoreTable
<1>15. ASSUME CreateIndexRegister(s) PROVE P
  <2>1. CASE run' = [run EXCEPT ![s].pc = "backfill", ![s].id = nextId]
    BY <1>1, <2>1 DEF Runs
  <2> QED  BY <1>3, <1>15, <2>1 DEF CreateIndexRegister
<1>16. ASSUME DropIndexRecord(s) PROVE P
  <2>1. ASSUME NEW i \in indexes, run' = [run EXCEPT ![s].pc = "unregister", ![s].id = i.id]
        PROVE  P
    BY <1>1, <2>1 DEF Runs
  <2> QED  BY <1>3, <1>16, <2>1 DEF DropIndexRecord
<1>17. ASSUME CreateIndexBackfill(s) \/ DropIndexEntries(s) \/ BumpEpoch(s) \/
              ClearEntries(s)
              \/ ClearLegacyEntries(s)
       PROVE  P
  BY <1>3, <1>4, <1>17 DEF CreateIndexBackfill, DropIndexEntries, BumpEpoch, ClearEntries,
     ClearLegacyEntries
<1>18. ASSUME Lock(s) PROVE /\ q.stmt = r.stmt /\ q.epoch = r.epoch /\ q.want = r.want
                            /\ q.byValue = r.byValue /\ q.pc # "idle"
  <2>1. q = [r EXCEPT !.pc = "done"] \/ q = [r EXCEPT !.pc = "start"]
    BY <1>2, <1>18 DEF Lock, Steps
  <2> QED  BY <1>1, <2>1 DEF Runs
<1>19. ASSUME CreateIndexScan(s)
       PROVE  /\ q.stmt = r.stmt /\ q.epoch = r.epoch /\ q.want = r.want
                                       /\ q.byValue = r.byValue /\ q.pc # "idle"
  <2>1. CASE run' = [run EXCEPT ![s].pc = "register", ![s].seen = rows[epoch]]
    BY <1>1, <2>1 DEF Runs
  <2> QED  BY <1>3, <1>19, <2>1 DEF CreateIndexScan
<1>20. (\E st \in Statements : Plan(s, st)) \/ Finish(s) \/ r.pc # "idle"
  BY Frame DEF Lock, InWork, At
<1> QED
  BY <1>6, <1>7, <1>8, <1>9, <1>10, <1>11, <1>12, <1>13, <1>14, <1>15, <1>16, <1>17, <1>18,
     <1>19, <1>20 DEF Step

\* Index ids do not run out: every CREATE INDEX that is admitted finds one.
LEMMA IdsSuffice ==
  ASSUME Types, NEW s \in Sessions, Step(s)
  PROVE  nextId' \in 1..(MaxIndexId + 1) /\
         nextId' + Cardinality(Unregistered') <= MaxIndexId + 1
<1> DEFINE r == run[s]
           q == run'[s]
<1>1. nextId \in 1..(MaxIndexId + 1) /\ nextId + Cardinality(Unregistered) <= MaxIndexId + 1
  BY DEF Types, RTypeOK
<1>2. \A t \in Sessions \ {s} : run'[t] = run[t]
  BY OthersStay
<1>3. \A S \in SUBSET Sessions : IsFiniteSet(S) /\ Cardinality(S) \in Nat
  BY SessionAssumption, FS_Subset, FS_CardinalityType
<1>4. Unregistered \in SUBSET Sessions /\ Unregistered' \in SUBSET Sessions
  BY DEF Unregistered
<1>5. CASE \E st \in Statements : Plan(s, st)
  <2>1. PICK st \in Statements : Plan(s, st)
    BY <1>5
  <2>2. q.stmt = st /\ nextId' = nextId /\ r.pc = "idle"
    BY <2>1 DEF Plan, AtRest, Types, RTypeOK, At
  <2>3. CASE st.kind = "CreateIndex"
    <3> DEFINE Busy == Running("CreateIndex")
    <3>1. nextId + Cardinality(Busy) <= MaxIndexId
      BY <2>1, <2>3 DEF Plan, WithinBounds
    <3>2. Unregistered' \subseteq Busy \cup {s} /\ Busy \in SUBSET Sessions
      BY <1>2 DEF Unregistered, Running, At
    <3>3. IsFiniteSet(Busy) /\ Cardinality(Busy) \in Nat
      BY <1>3, <3>2
    <3>4. IsFiniteSet(Busy \cup {s}) /\ Cardinality(Busy \cup {s}) \in Nat
          /\ Cardinality(Busy \cup {s}) <= Cardinality(Busy) + 1
      <4> HIDE DEF Busy
      <4>1. IsFiniteSet(Busy \cup {s})
            /\ Cardinality(Busy \cup {s}) = IF s \in
                 Busy THEN Cardinality(Busy) ELSE Cardinality(Busy) + 1
        BY <3>3, FS_AddElement
      <4> QED  BY <3>3, <4>1
    <3>5. Cardinality(Unregistered') <= Cardinality(Busy \cup {s})
      BY <3>2, <3>4, FS_Subset
    <3> HIDE DEF Busy
    <3>6. Cardinality(Unregistered') \in Nat
      BY <1>3, <1>4
    <3> QED  BY <1>1, <2>2, <3>1, <3>3, <3>4, <3>5, <3>6, BoundAssumption
  <2>4. CASE st.kind # "CreateIndex"
    <3>1. Unregistered' \subseteq Unregistered
      BY <1>2, <2>2, <2>4 DEF Unregistered
    <3>2. Cardinality(Unregistered') <= Cardinality(Unregistered)
      BY <1>3, <1>4, <3>1, FS_Subset
    <3> QED  BY <1>1, <1>3, <1>4, <2>2, <3>2, BoundAssumption
  <2> QED  BY <2>3, <2>4
<1>6. CASE CreateIndexRegister(s) /\ ~NameTaken(r.stmt.name)
  <2>1. nextId' = nextId + 1 /\ q.pc = "backfill"
    <3>1. nextId' = nextId + 1 /\ run' = [run EXCEPT ![s].pc = "backfill", ![s].id = nextId]
      BY <1>6 DEF CreateIndexRegister
    <3> QED  BY <3>1 DEF Types, RTypeOK, Runs
  <2>2. s \in Unregistered /\ Unregistered' \subseteq Unregistered \ {s}
    BY <1>2, <1>6, <2>1 DEF Unregistered, CreateIndexRegister, At, Types, RunOK
  <2>3. Cardinality(Unregistered \ {s}) = Cardinality(Unregistered) - 1
    BY <1>3, <1>4, <2>2, FS_RemoveElement
  <2>4. Cardinality(Unregistered') <= Cardinality(Unregistered \ {s})
    BY <1>3, <1>4, <2>2, FS_Subset
  <2>5. nextId \in 1..MaxIndexId
    BY <1>6, IdLeft DEF CreateIndexRegister
  <2>6. Cardinality(Unregistered) \in Nat /\ Cardinality(Unregistered') \in Nat
    BY <1>3, <1>4
  <2> QED  BY <1>1, <2>1, <2>3, <2>4, <2>5, <2>6, BoundAssumption
<1>7. CASE /\ ~(\E st \in Statements : Plan(s, st))
           /\ ~(CreateIndexRegister(s) /\ ~NameTaken(r.stmt.name))
  <2>1. nextId' = nextId
    BY <1>7, Frame
  <2>2. s \in Unregistered' => s \in Unregistered
    <3>1. CASE Finish(s)
      BY <3>1 DEF Finish, AtRest, Types, RTypeOK, Unregistered
    <3>2. CASE Lock(s)
      BY <1>7, <3>2, StatementStays DEF Unregistered, Lock, Finish, At
    <3>3. CASE CreateIndexScan(s)
      BY <1>7, <3>3, StatementStays DEF Unregistered, CreateIndexScan, Finish, At
    <3> QED  BY <1>7, <3>1, <3>2, <3>3, StatementStays DEF Unregistered
  <2>3. Unregistered' \subseteq Unregistered
    BY <1>2, <2>2 DEF Unregistered
  <2>4. Cardinality(Unregistered') <= Cardinality(Unregistered)
    BY <1>3, <1>4, <2>3, FS_Subset
  <2> QED  BY <1>1, <1>3, <1>4, <2>1, <2>4, BoundAssumption
<1> QED  BY <1>5, <1>6, <1>7

\* The initial states are typed.
LEMMA TypesStart ==
  Init => Types
<1> SUFFICES ASSUME Init PROVE Types
  OBVIOUS
<1>1. /\ client \in Clients /\ rows = [e \in 1..MaxEpoch |-> Empty] /\ epoch = 1
      /\ entries = {} /\ legacy = {} /\ run = [s \in Sessions |-> AtRest]
      /\ held = [s \in Sessions |-> {}]
  BY DEF Init, LT!TableInit
<1>2. indexes \subseteq Index /\ nextId \in {1, 2}
  <2>1. indexes = {} \/ \E n \in Names : indexes = {[id |-> 1, name |-> n, unique |-> TRUE]}
    BY DEF Init
  <2>2. \A n \in Names : [id |-> 1, name |-> n, unique |-> TRUE] \in Index
    BY BoundAssumption DEF Index
  <2> QED  BY <2>1, <2>2 DEF Init
<1>3. \A s \in Sessions : RunOK(run[s])
  BY <1>1, RestOK
<1>4. RTypeOK
  BY <1>1, <1>2, <1>3, BoundAssumption DEF RTypeOK, Versions, Empty, RunOK
<1>5. Unregistered = {}
  BY <1>1 DEF Unregistered, AtRest
<1> QED  BY <1>2, <1>3, <1>4, <1>5, FS_EmptySet, BoundAssumption DEF Types

\* Every step keeps the types.
LEMMA TypesStep ==
  Types /\ [Next]_vars => Types'
<1> SUFFICES ASSUME Types, [Next]_vars PROVE Types'
  OBVIOUS
<1>1. CASE UNCHANGED vars
  BY <1>1 DEF vars, Types, RTypeOK, Unregistered
<1>2. ASSUME NEW s \in Sessions, Step(s) PROVE Types'
  <2>1. RunOK(run'[s])
    BY <1>2, RunStep
  <2>2. run' = [run EXCEPT ![s] = run'[s]]
    BY <1>2, OthersStay
  <2>3. run' \in [Sessions -> Runs] /\ \A t \in Sessions : RunOK(run'[t])
    BY <2>1, <2>2, OneRuns
  <2>4. RTypeOK'
    BY <1>2, <2>3, DataStep, IdsSuffice DEF RTypeOK, Types
  <2> QED  BY <1>2, <2>3, <2>4, IdsSuffice DEF Types
<1> QED  BY <1>1, <1>2 DEF Next, Step

\* Type correctness: the rows, the entries, the catalog's records and the
\* running statements keep the types of the program, and index ids stay within
\* their bound whatever sessions send and however they interleave.
THEOREM RowTypes == Spec => []RTypeOK
<1>1. Types => RTypeOK
  BY DEF Types
<1> QED  BY <1>1, TypesStart, TypesStep, PTL DEF Spec

(***************************************************************************)
(* What the locks keep apart.                                              *)
(***************************************************************************)
\* Statements that write the row they name.
PointKinds == {"Insert", "Ignore", "Update", "Delete"}
TableDdl   == {"CreateIndex", "Truncate"}

\* The locks w of statement st: a row statement reserves its key and reads the
\* table's metadata, CREATE INDEX and TRUNCATE write it.
Planned(st, w) ==
  /\ st.kind \in RowKinds =>
       /\ RowLocks(MetadataRead) \in w
       /\ \E k \in Kinds : RowLocks(k) \in w /\ Reserves(RowLocks(k), Clustered, st.key)
  /\ st.kind \in TableDdl => TableDdlLock \in w

\* A statement its client sent, its locks, and the row it is on.
StatementOK(s) ==
  /\ ~At(s, "idle") => run[s].stmt \in client.sends[s]
  /\ client.mysql /\ ~At(s, "idle") => Planned(run[s].stmt, run[s].want)
  /\ client.mysql /\ InWork(s) => run[s].want \subseteq held[s]
  /\ run[s].stmt.kind \in PointKinds /\ run[s].pc \in Writing \cup Deleting =>
       run[s].key = run[s].stmt.key

\* The lock table's guarantee.
Compatible ==
  \A s \in Sessions : \A t \in Sessions \ {s} :
    \A l \in held[s], m \in held[t] : ~LocksConflict(l, m)

\* The second layer.
Guarded == Types /\ Compatible /\ \A s \in Sessions : StatementOK(s)

\* plan_lock_targets plans what Planned says, for every statement.
LEMMA PlanReserves ==
  ASSUME Types, NEW st \in Statements
  PROVE  Planned(st, PlanLockTargets(st))
<1> USE IndexAssumption
<1>1. CASE st.kind \in InsertKinds
  <2>1. st.key \in Values
    BY <1>1, StatementShape, RankAssumption DEF RowKinds
  <2>2. PlanLockTargets(st) = InsertRowLocks(st.key, st.val)
    BY <1>1 DEF PlanLockTargets, InsertKinds
  <2>3. Record(Clustered, st.key) \in Kinds /\
          Reserves(RowLocks(Record(Clustered, st.key)), Clustered, st.key)
    BY <2>1 DEF Kinds, Record, PointTags, Reserves, RowLocks, RowLock, MySqlLock
  <2> QED  BY <1>1, <2>2, <2>3 DEF InsertRowLocks, Planned, TableDdl, InsertKinds
<1>2. CASE st.kind \in {"Update", "Delete"}
  <2>1. st.key \in Values /\ st.key + 1 \in Values
    BY <1>2, StatementShape, RankAssumption DEF RowKinds
  <2>2. PlanLockTargets(st) = PointLocks(st.key)
    BY <1>2 DEF PlanLockTargets, InsertKinds
  <2>3. Record(Clustered, st.key) \in Kinds /\
          Reserves(RowLocks(Record(Clustered, st.key)), Clustered, st.key)
    BY <2>1 DEF Kinds, Record, PointTags, Reserves, RowLocks, RowLock, MySqlLock
  <2>4. Gap(Clustered, st.key, st.key + 1) \in Kinds
    BY <2>1 DEF Kinds, Gap, RangeTags, Bounds
  <2>5. Reserves(RowLocks(Gap(Clustered, st.key, st.key + 1)), Clustered, st.key)
    <3>1. \A v \in Int : RangeContains(Gap(Clustered, v, v + 1), v)
      BY DEF Gap, RangeContains
    <3>2. RangeContains(Gap(Clustered, st.key, st.key + 1), st.key)
      BY <2>1, <3>1, ValueAssumption
    <3> QED  BY <3>2 DEF Gap, RangeTags, Reserves, RowLocks, RowLock, MySqlLock
  <2> QED  BY <1>2, <2>2, <2>3, <2>4, <2>5 DEF PointLocks, Planned, TableDdl
<1>3. CASE st.kind \in {"CreateIndex", "DropIndex", "Truncate"}
  BY <1>3 DEF PlanLockTargets, Planned, TableDdl, RowKinds, InsertKinds
<1> QED  BY <1>1, <1>2, <1>3, StatementShape DEF RowKinds

\* Two statements whose locks are compatible do not work on the same row, and
\* none works on a row of a table whose indexes or epoch another changes.
Apart(a, b) ==
  /\ a.kind \in RowKinds /\ b.kind \in RowKinds => a.key # b.key
  /\ a.kind \in TableDdl => b.kind \notin RowKinds \cup TableDdl

\* What the lock table guarantees of two statements in work at the same time.
LEMMA LocksKeepApart ==
  ASSUME Guarded, client.mysql, NEW s \in Sessions, NEW t \in Sessions \ {s}, InWork(s),
         InWork(t)
  PROVE  Apart(run[s].stmt, run[t].stmt)
<1> DEFINE a == run[s].stmt
           b == run[t].stmt
<1>1. /\ run[s].want \subseteq held[s] /\ run[t].want \subseteq held[t]
      /\ Planned(a, run[s].want) /\ Planned(b, run[t].want)
  BY DEF Guarded, StatementOK, InWork, At
<1>2. \A l \in run[s].want, m \in run[t].want : ~LocksConflict(l, m)
  BY <1>1 DEF Guarded, Compatible
<1>3. ASSUME a.kind \in RowKinds, b.kind \in RowKinds PROVE a.key # b.key
  <2>1. PICK k \in Kinds : RowLocks(k) \in run[s].want /\
          Reserves(RowLocks(k), Clustered, a.key)
    BY <1>1, <1>3 DEF Planned
  <2>2. PICK q \in Kinds : RowLocks(q) \in run[t].want /\
          Reserves(RowLocks(q), Clustered, b.key)
    BY <1>1, <1>3 DEF Planned
  <2>3. a.key \in Values
    BY <1>3, StatementShape, RankAssumption DEF Guarded, Types, RTypeOK, Runs
  <2>4. ~LocksConflict(RowLocks(k), RowLocks(q))
    BY <1>2, <2>1, <2>2
  <2>5. SameObject(RowLocks(k), RowLocks(q)) /\ RowLocks(k).kind \in Kinds /\
          RowLocks(q).kind \in Kinds
    BY DEF SameObject, RowLocks, RowLock, MySqlLock
  <2> QED  BY <2>1, <2>2, <2>3, <2>4, <2>5, CompatibleReserve, IndexAssumption
<1>4. ASSUME a.kind \in TableDdl PROVE b.kind \notin RowKinds \cup TableDdl
  <2>1. TableDdlLock \in run[s].want
    BY <1>1, <1>4 DEF Planned
  <2>2. ASSUME NEW m \in run[t].want, m = TableDdlLock \/ m = RowLocks(MetadataRead)
        PROVE  FALSE
    <3>1. ~LocksConflict(TableDdlLock, m)
      BY <1>2, <2>1
    <3>2. TableDdlLock.kind.tag = "MetadataWrite" /\ Within(m, TableDdlLock)
      BY <2>2 DEF Within, SameObject, TableDdlLock, StatementLock, RowLocks, RowLock,
         MySqlLock, MetadataWrite
    <3> QED  BY <3>1, <3>2, CompatibleMetadata
  <2> QED  BY <1>1, <2>2 DEF Planned
<1> QED  BY <1>3, <1>4 DEF Apart

\* A statement on the row it names stays on that row.
LEMMA KeyStays ==
  ASSUME Guarded, NEW s \in Sessions, Step(s),
         run'[s].stmt.kind \in PointKinds, run'[s].pc \in Writing \cup Deleting
  PROVE  run'[s].key = run'[s].stmt.key
<1> DEFINE r == run[s]
           q == run'[s]
<1> USE DEF Writing, Deleting
<1>1. run \in [Sessions -> Runs] /\ r \in Runs /\ StatementOK(s)
  BY DEF Guarded, Types, RTypeOK
<1>2. ASSUME NEW p, Goto(s, p)
      PROVE  q.key = r.key /\ q.stmt = r.stmt /\ q.pc = p
  BY <1>1, <1>2 DEF Goto, Runs
<1>3. ASSUME NEW k, NEW v, WriteRow(s, k, v) \/ DeleteRow(s, k, v)
      PROVE  q.key = k /\ q.stmt = r.stmt
  BY <1>1, <1>3 DEF WriteRow, DeleteRow, Runs
<1>4. ASSUME NEW st \in Statements, Plan(s, st) PROVE FALSE
  BY <1>1, <1>4 DEF Plan, AtRest
<1>5. ASSUME Finish(s) PROVE FALSE
  BY <1>1, <1>5 DEF Finish, AtRest
<1>6. ASSUME Lock(s) PROVE FALSE
  BY <1>2, <1>6 DEF Lock
<1>7. CASE StartInsert(s)
  BY <1>2, <1>3, <1>7 DEF StartInsert
<1>8. CASE StartInsertOnConflict(s)
  <2>1. q.stmt = r.stmt
    BY <1>8, <1>4, <1>5, StatementStays DEF Guarded
  <2>2. r.stmt.kind = "Ignore"
    BY <1>8, <2>1 DEF StartInsertOnConflict, PointKinds, InsertKinds
  <2>3. Goto(s, "done") \/ Goto(s, "store") \/ WriteRow(s, r.stmt.key, r.stmt.val)
    BY <1>8, <2>2 DEF StartInsertOnConflict
  <2> QED  BY <1>2, <1>3, <2>3
<1>9. CASE StartPointWrite(s)
  BY <1>2, <1>3, <1>9 DEF StartPointWrite
<1>10. CASE ReadOldRow(s)
  BY <1>1, <1>10 DEF ReadOldRow, Runs, StatementOK, At
<1>11. CASE ReadDeletedRow(s)
  BY <1>1, <1>11 DEF ReadDeletedRow, Runs, StatementOK, At
<1>12. CASE DropRow(s)
  BY <1>2, <1>3, <1>12 DEF DropRow
<1>13. CASE ValidateIndexEntries(s)
  BY <1>1, <1>2, <1>13 DEF ValidateIndexEntries, StatementOK, At
<1>14. CASE DeleteIndexEntries(s, "unlink", "put")
  BY <1>1, <1>2, <1>14 DEF DeleteIndexEntries, StatementOK, At
<1>15. CASE DeleteIndexEntries(s, "dropunlink", "droprow")
  BY <1>1, <1>2, <1>15 DEF DeleteIndexEntries, StatementOK, At
<1>16. CASE PutRow(s)
  BY <1>1, <1>2, <1>16 DEF PutRow, StatementOK, At
<1>17. CASE WriteIndexEntries(s)
  BY <1>2, <1>17 DEF WriteIndexEntries
<1>18. CASE StoreTable(s)
  BY <1>2, <1>18 DEF StoreTable
<1>19. CASE CreateIndexScan(s)
  <2>1. ASSUME run' = [run EXCEPT ![s].pc = "register", ![s].seen = rows[epoch]] PROVE FALSE
    BY <1>1, <2>1 DEF Runs
  <2> QED  BY <1>2, <1>19, <2>1 DEF CreateIndexScan
<1>20. CASE CreateIndexRegister(s)
  <2>1. ASSUME run' = [run EXCEPT ![s].pc = "backfill", ![s].id = nextId] PROVE FALSE
    BY <1>1, <2>1 DEF Runs
  <2> QED  BY <1>2, <1>20, <2>1 DEF CreateIndexRegister
<1>21. CASE DropIndexRecord(s)
  <2>1. ASSUME NEW i \in indexes, run' = [run EXCEPT ![s].pc = "unregister", ![s].id = i.id]
        PROVE  FALSE
    BY <1>1, <2>1 DEF Runs
  <2> QED  BY <1>2, <1>21, <2>1 DEF DropIndexRecord
<1>22. CASE CreateIndexBackfill(s) \/ DropIndexEntries(s) \/ BumpEpoch(s) \/ ClearEntries(s)
            \/ ClearLegacyEntries(s)
  BY <1>2, <1>22 DEF CreateIndexBackfill, DropIndexEntries, BumpEpoch, ClearEntries,
     ClearLegacyEntries
<1> QED
  BY <1>4, <1>5, <1>6, <1>7, <1>8, <1>9, <1>10, <1>11, <1>12, <1>13, <1>14, <1>15, <1>16,
     <1>17, <1>18, <1>19, <1>20, <1>21, <1>22 DEF Step

\* Every step keeps the locks and the statements in order.
LEMMA GuardedStep ==
  ASSUME Guarded, NEW s \in Sessions, Step(s), Types'
  PROVE  Guarded'
<1> DEFINE r == run[s]
           q == run'[s]
<1>1. /\ Types /\ Compatible /\ \A t \in Sessions : StatementOK(t)
      /\ run \in [Sessions -> Runs] /\ r \in Runs /\ held \in [Sessions -> SUBSET AllLocks]
      /\ client' = client
  BY DataStep DEF Guarded, Types, RTypeOK
<1>2. \A t \in Sessions \ {s} : run'[t] = run[t]
  BY <1>1, OthersStay
<1>3. \/ held' = held /\ ~(Lock(s) /\ q.pc = "start")
      \/ Lock(s) /\ LT!Acquire(s, r.want)
      \/ Finish(s)
  <2>1. held' = held \/ Lock(s) \/ Finish(s)
    BY Frame
  <2>2. CASE Lock(s)
    <3>1. Goto(s, "done") => q.pc = "done"
      BY <1>1 DEF Goto, Runs
    <3> QED  BY <2>2, <3>1 DEF Lock
  <2> QED  BY <2>1, <2>2
<1>4. \A t \in Sessions \ {s} : held'[t] = held[t]
  BY <1>1, <1>3 DEF LT!Acquire, LT!Release, Finish
<1>5. held'[s] = held[s] \/ held'[s] \subseteq held[s] \/
        (Lock(s) /\ LT!Acquire(s, r.want) /\ held'[s] = held[s] \cup r.want)
  BY <1>1, <1>3 DEF LT!Acquire, LT!Release, Finish
<1>6. Compatible'
  <2>1. CASE held'[s] \subseteq held[s]
    BY <1>1, <1>4, <2>1 DEF Compatible
  <2>2. CASE LT!Acquire(s, r.want) /\ held'[s] = held[s] \cup r.want
    <3>1. \A t \in Sessions \ {s} : \A l \in held[t], m \in r.want : ~LocksConflict(l, m)
      BY <2>2 DEF LT!Acquire, LT!Grantable
    <3>2. \A t \in Sessions \ {s} : \A l \in held[t], m \in held'[s] :
            ~LocksConflict(l, m) /\ ~LocksConflict(m, l)
      BY <1>1, <2>2, <3>1, ConflictSymmetric DEF Compatible
    <3> QED  BY <1>1, <1>4, <3>2 DEF Compatible
  <2> QED  BY <1>5, <2>1, <2>2
<1>7. \A t \in Sessions \ {s} : StatementOK(t)'
  BY <1>1, <1>2, <1>4 DEF StatementOK, At, InWork
<1>8. StatementOK(s)'
  <2>1. CASE \E st \in Statements : Plan(s, st)
    <3>1. PICK st \in Statements : Plan(s, st)
      BY <2>1
    <3>2. /\ q.stmt = st /\ st \in client.sends[s]
          /\ client.mysql => q.pc = "lock" /\ q.want = PlanLockTargets(st)
          /\ q.pc \in {"lock", "start"}
      BY <1>1, <3>1 DEF Plan, AtRest
    <3> QED  BY <1>1, <3>2, PlanReserves DEF StatementOK, At, InWork, Writing, Deleting
  <2>2. CASE Finish(s)
    <3>1. q.pc = "idle"
      BY <1>1, <2>2 DEF Finish, AtRest
    <3> QED  BY <3>1 DEF StatementOK, At, InWork, Writing, Deleting
  <2>3. CASE ~(\E st \in Statements : Plan(s, st)) /\ ~Finish(s)
    <3>1. q.stmt = r.stmt /\ q.want = r.want /\ ~At(s, "idle")
      BY <1>1, <2>3, StatementStays DEF At
    <3>2. CASE Lock(s)
      <4>1. q.pc = "start" => q.want \subseteq held'[s]
        BY <1>1, <1>3, <2>3, <3>1, <3>2 DEF LT!Acquire
      <4>2. q.pc \in {"start", "done"}
        BY <1>1, <3>2 DEF Lock, Goto, Runs
      <4> QED  BY <1>1, <3>1, <4>1, <4>2 DEF StatementOK, At, InWork, Writing, Deleting
    <3>3. CASE ~Lock(s)
      <4>1. InWork(s)
        BY <2>3, <3>3, Frame
      <4>2. held' = held
        BY <1>3, <2>3, <3>3
      <4> QED  BY <1>1, <3>1, <4>1, <4>2, KeyStays DEF StatementOK, At
    <3> QED  BY <3>2, <3>3
  <2> QED  BY <2>1, <2>2, <2>3
<1> QED  BY <1>6, <1>7, <1>8 DEF Guarded

\* Nothing is locked and nothing runs at first.
LEMMA GuardedStart == Init => Guarded
<1> SUFFICES ASSUME Init PROVE Guarded
  OBVIOUS
<1>1. run = [s \in Sessions |-> AtRest] /\ held = [s \in Sessions |-> {}]
  BY DEF Init, LT!TableInit
<1>2. \A s \in Sessions : run[s].pc = "idle" /\ held[s] = {}
  BY <1>1 DEF AtRest
<1> QED  BY <1>2, TypesStart
         DEF Guarded, Compatible, StatementOK, At, InWork, Writing, Deleting

\* So it is in every behaviour, whatever the clients send.
LEMMA GuardedAlways == Spec => []Guarded
<1>1. Guarded /\ UNCHANGED vars => Guarded'
  BY DEF vars, Guarded, Types, RTypeOK, Unregistered, Compatible, StatementOK, At, InWork
<1>2. Guarded /\ [Next]_vars => Guarded'
  BY <1>1, TypesStep, GuardedStep DEF Next, Step, Guarded
<1> QED  BY <1>2, GuardedStart, PTL DEF Spec

(***************************************************************************)
(* Index entries and rows.                                                 *)
(***************************************************************************)
\* Clients for which the statements' locks are enough: MySQL sessions that
\* write the rows they name and build or drop indexes, or one session alone
\* in either mode.
Orderly(c) ==
  \/ c.mysql /\ \A s \in Sessions : \A st \in c.sends[s] :
                  st.kind \in PointKinds \cup {"CreateIndex", "DropIndex"}
  \/ \A s, t \in Sessions : c.sends[s] # {} /\ c.sends[t] # {} => s = t

\* Index i has exactly the entry of row k.
Matches(i, k) ==
  \A v \in Vals :
    /\ (<<i.id, v, k>> \in entries) <=> (rows[epoch][k] = v)
    /\ rows[epoch][k] = v => <<i.name, v, k>> \in legacy

\* Statement r is in the middle of writing row k or the entries of index i.
Touching(r, i, k) ==
  \/ r.pc \in {"put", "link", "droprow"} /\ r.key = k
  \/ r.pc = "backfill" /\ r.id = i.id
  \/ r.pc \in {"clear", "clearlegacy"}

\* No index has an entry of row k.
NoEntries(k) == \A i \in indexes, v \in Vals : <<i.id, v, k>> \notin entries

\* What a running statement knows of the table.
LocalOK(r) ==
  /\ r.pc # "idle" /\ r.stmt.kind # "Truncate" => r.epoch = epoch
  /\ r.id < nextId
  /\ r.pc = "unregister" => \A i \in indexes : i.id # r.id
  /\ r.pc \in {"put", "link", "droprow"} => NoEntries(r.key)
  /\ r.pc = "link" => rows[epoch][r.key] = r.val
  /\ r.pc \in {"validate", "unlink", "dropunlink"} => r.old = rows[epoch][r.key]
  /\ r.pc \in {"unlink", "dropunlink"} => r.old # NoRow
  /\ r.pc \in {"register", "backfill"} => r.seen = rows[epoch]
  /\ r.pc = "backfill" => /\ \A e \in entries : e[1] # r.id
                          /\ \A i \in indexes : i.id = r.id => i.name = r.stmt.name
  /\ r.pc \in {"clear", "clearlegacy"} => rows[epoch] = Empty
  /\ r.pc = "clearlegacy" => \A i \in indexes, e \in entries : e[1] # i.id

\* Index ids are new when they are given out.
IdsOK ==
  /\ \A i \in indexes : i.id < nextId
  /\ \A e \in entries : e[1] < nextId
  /\ \A i, j \in indexes : i.id = j.id => i = j

\* The epochs to come have no rows.
LaterEmpty == \A e \in 1..MaxEpoch : e > epoch => rows[e] = Empty

\* EntriesMatchRows, by statement.
AllMatch ==
  \A i \in indexes, k \in Keys : Matches(i, k) \/ \E t \in Sessions : Touching(run[t], i, k)

\* The third layer.
Linked ==
  /\ IdsOK /\ LaterEmpty /\ AllMatch
  /\ \A s \in Sessions : LocalOK(run[s])

\* Orderly clients are kept apart, by their locks or by being alone.
LEMMA OrderlyApart ==
  ASSUME Guarded, Orderly(client), NEW s \in Sessions, NEW t \in Sessions \ {s},
         ~At(s, "idle")
  PROVE  /\ InWork(s) /\ InWork(t) => Apart(run[s].stmt, run[t].stmt)
         /\ run[s].pc \in Writing \cup Deleting /\ run[t].pc \in Writing \cup Deleting
              => run[s].key # run[t].key
         /\ run[s].stmt.kind = "Truncate" => At(t, "idle")
<1>0. StatementOK(s) /\ StatementOK(t) /\ RunOK(run[s]) /\ RunOK(run[t])
  BY DEF Guarded, Types
<1>1. CASE /\ client.mysql
           /\ \A u \in Sessions : \A st \in client.sends[u] :
                st.kind \in PointKinds \cup {"CreateIndex", "DropIndex"}
  <2>1. ~At(t, "idle") => run[t].stmt.kind \in PointKinds \cup {"CreateIndex", "DropIndex"}
    BY <1>0, <1>1 DEF StatementOK
  <2>2. run[s].stmt.kind \in PointKinds \cup {"CreateIndex", "DropIndex"}
    BY <1>0, <1>1 DEF StatementOK
  <2>3. InWork(s) /\ InWork(t) => Apart(run[s].stmt, run[t].stmt)
    BY <1>1, LocksKeepApart
  <2>4. ASSUME run[s].pc \in Writing \cup Deleting, run[t].pc \in Writing \cup Deleting
        PROVE  run[s].key # run[t].key
    <3>1. InWork(s) /\ InWork(t) /\ run[s].stmt.kind \in RowKinds /\
            run[t].stmt.kind \in RowKinds
          /\ ~At(t, "idle")
      BY <1>0, <2>4 DEF RunOK, Writing, Deleting, InWork, RowKinds, InsertKinds, At
    <3>2. run[s].stmt.kind \in PointKinds /\ run[t].stmt.kind \in PointKinds
      BY <2>1, <2>2, <3>1 DEF RowKinds, InsertKinds
    <3>3. run[s].key = run[s].stmt.key /\ run[t].key = run[t].stmt.key
      BY <1>0, <2>4, <3>2 DEF StatementOK
    <3> QED  BY <2>3, <3>1, <3>3 DEF Apart
  <2> QED  BY <2>2, <2>3, <2>4 DEF PointKinds
<1>2. CASE \A u, w \in Sessions : client.sends[u] # {} /\ client.sends[w] # {} => u = w
  <2>1. At(t, "idle")
    BY <1>0, <1>2 DEF StatementOK
  <2> QED  BY <2>1 DEF At, InWork, Writing, Deleting
<1> QED  BY <1>1, <1>2 DEF Orderly

\* Nobody else works on the row of a row statement, builds an index or clears
\* the table meanwhile.
LEMMA RowAlone ==
  ASSUME Guarded, Orderly(client), NEW s \in Sessions, run[s].pc \in Writing \cup Deleting,
         NEW t \in Sessions \ {s}
  PROVE  /\ run[t].pc \in Writing \cup Deleting => run[t].key # run[s].key
         /\ run[t].pc \notin {"register", "backfill", "clear", "clearlegacy"}
<1>1. InWork(s) /\ run[s].stmt.kind \in RowKinds /\ ~At(s, "idle") /\ RunOK(run[t])
  BY DEF Guarded, Types, RunOK, Writing, Deleting, InWork, RowKinds, InsertKinds, At
<1>2. run[t].pc \in {"register", "backfill", "clear", "clearlegacy"} =>
        InWork(t) /\ run[t].stmt.kind \in TableDdl /\ ~At(t, "idle")
  BY <1>1 DEF RunOK, InWork, TableDdl, At
<1>3. InWork(t) /\ ~At(t, "idle") => Apart(run[t].stmt, run[s].stmt)
  BY <1>1, OrderlyApart
<1> QED  BY <1>1, <1>2, <1>3, OrderlyApart DEF Apart

\* The other way round.
LEMMA DdlAlone ==
  ASSUME Guarded, Orderly(client), NEW s \in Sessions,
         run[s].pc \in {"register", "backfill", "clear", "clearlegacy"},
         NEW t \in Sessions \ {s}
  PROVE  /\ run[t].pc \notin Writing \cup Deleting
         /\ run[t].pc \notin {"register", "backfill", "clear", "clearlegacy"}
<1>1. InWork(s) /\ run[s].stmt.kind \in TableDdl /\ ~At(s, "idle") /\ RunOK(run[t])
  BY DEF Guarded, Types, RunOK, InWork, TableDdl, At
<1>2. run[t].pc \in {"register", "backfill", "clear", "clearlegacy"} =>
        InWork(t) /\ run[t].stmt.kind \in TableDdl
  BY <1>1 DEF RunOK, InWork, TableDdl
<1>3. InWork(t) => Apart(run[s].stmt, run[t].stmt)
  BY <1>1, OrderlyApart
<1>4. run[t].pc \in Writing \cup Deleting => InWork(t) /\ run[t].stmt.kind \in RowKinds
  BY <1>1 DEF RunOK, Writing, Deleting, InWork, RowKinds, InsertKinds
<1> QED  BY <1>1, <1>2, <1>3, <1>4 DEF Apart

\* A row statement that has not started to change its row finds every index
\* in agreement with it.
LEMMA RowMatches ==
  ASSUME Guarded, Orderly(client), Linked, NEW s \in Sessions,
         run[s].pc \in {"old", "validate", "unlink", "dropold", "dropunlink"},
         NEW i \in indexes
  PROVE  Matches(i, run[s].key)
<1>1. run[s].key \in Keys /\ run[s].pc \in Writing \cup Deleting
  BY DEF Guarded, Types, RunOK, Writing, Deleting
<1>2. ~Touching(run[s], i, run[s].key)
  BY DEF Touching
<1>3. ASSUME NEW t \in Sessions \ {s} PROVE ~Touching(run[t], i, run[s].key)
  BY <1>1, RowAlone DEF Touching, Writing, Deleting
<1> QED  BY <1>1, <1>2, <1>3 DEF Linked, AllMatch

\* Steps that leave the data alone and end nothing that was half done.
Quiet(s) ==
  /\ UNCHANGED <<rows, indexes, epoch, nextId, entries, legacy>>
  /\ run[s].pc \notin {"put", "link", "droprow", "backfill", "clear", "clearlegacy"}

\* They keep the entries in order if their statement does.
LEMMA QuietStep ==
  ASSUME Linked, NEW s \in Sessions, Quiet(s),
         \A t \in Sessions \ {s} : run'[t] = run[t],
         LocalOK(run[s])'
  PROVE  Linked'
<1>1. IdsOK' /\ LaterEmpty'
  BY DEF Linked, Quiet, IdsOK, LaterEmpty
<1>2. \A i, k : ~Touching(run[s], i, k)
  BY DEF Quiet, Touching
<1>3. AllMatch'
  <2> SUFFICES ASSUME NEW i \in indexes, NEW k \in Keys
               PROVE  Matches(i, k)' \/ \E t \in Sessions : Touching(run'[t], i, k)
    BY DEF Quiet, AllMatch, Touching
  <2>1. Matches(i, k)' <=> Matches(i, k)
    BY DEF Quiet, Matches
  <2> QED  BY <1>2, <2>1 DEF Linked, AllMatch
<1>4. \A t \in Sessions \ {s} : LocalOK(run[t])'
  BY DEF Linked, Quiet, LocalOK, NoEntries
<1> QED  BY <1>1, <1>3, <1>4 DEF Linked

\* The steps of planning, locking, reading and finishing.
LEMMA ControlLinked ==
  ASSUME Guarded, Orderly(client), Linked, NEW s \in Sessions, Step(s),
         \/ \E st \in Statements : Plan(s, st)
         \/ Lock(s) \/ Finish(s) \/ StartInsert(s) \/ StartInsertOnConflict(s)
         \/ StartPointWrite(s) \/ ReadOldRow(s) \/ ValidateIndexEntries(s) \/ StoreTable(s)
         \/ ReadDeletedRow(s) \/ CreateIndexScan(s)
  PROVE  Linked'
<1> DEFINE r == run[s]
           q == run'[s]
<1>1. /\ run \in [Sessions -> Runs] /\ r \in Runs /\ RunOK(r) /\ Types
      /\ LocalOK(r) /\ nextId \in Nat \ {0}
  BY DEF Guarded, Types, RTypeOK, Linked
<1>2. \A t \in Sessions \ {s} : run'[t] = run[t]
  BY <1>1, OthersStay, SMTT(30)
<1>3. Quiet(s)
  <2>1. CASE StoreTable(s)
    <3>1. r.epoch = epoch
      BY <1>1, <2>1 DEF LocalOK, StoreTable, At, RunOK, InsertKinds
    <3> QED  BY <2>1, <3>1 DEF StoreTable, Quiet, At
  <2> QED  BY <2>1 DEF Plan, Lock, Finish, StartInsert, StartInsertOnConflict,
        StartPointWrite,
           ReadOldRow, ValidateIndexEntries, ReadDeletedRow, CreateIndexScan, Quiet, At
<1>4. UNCHANGED <<rows, indexes, epoch, nextId, entries, legacy>>
  BY <1>3 DEF Quiet
<1> DEFINE Same == /\ q.stmt = r.stmt /\ q.epoch = r.epoch /\ q.id = r.id
<1>5. ASSUME Same, r.pc # "idle",
             q.pc \in {"start", "done", "old", "dropold", "store"}
      PROVE  LocalOK(run[s])'
  BY <1>1, <1>4, <1>5 DEF LocalOK
<1>6. ASSUME NEW p, Goto(s, p) PROVE Same /\ q.pc = p /\ q.old = r.old /\ q.key = r.key
  BY <1>1, <1>6 DEF Goto, Runs
<1>7. ASSUME NEW k, NEW v, WriteRow(s, k, v) \/ DeleteRow(s, k, v)
      PROVE  Same /\ q.pc \in {"old", "dropold"}
  BY <1>1, <1>7 DEF WriteRow, DeleteRow, Runs
<1>8. CASE \E st \in Statements : Plan(s, st)
  <2>0. PICK st \in Statements : Plan(s, st)
    BY <1>8, SMTT(30)
  <2>1. q.epoch = epoch /\ q.id = 0 /\ q.pc \in {"lock", "start"}
    BY <1>1, <2>0 DEF Plan, AtRest
  <2>2. LocalOK(run[s])'
    BY <1>1, <1>4, <2>1 DEF LocalOK
  <2> QED  BY <1>2, <1>3, <2>2, QuietStep
<1>9. CASE Finish(s)
  <2>1. q.id = 0 /\ q.pc = "idle"
    BY <1>1, <1>9 DEF Finish, AtRest
  <2>2. LocalOK(run[s])'
    BY <1>1, <1>4, <2>1 DEF LocalOK
  <2> QED  BY <1>2, <1>3, <2>2, QuietStep
<1>10. CASE Lock(s)
  <2>1. LocalOK(run[s])'
    BY <1>5, <1>6, <1>10 DEF Lock, At
  <2> QED  BY <1>2, <1>3, <2>1, QuietStep
<1>11. CASE StartInsert(s)
  <2>1. LocalOK(run[s])'
    BY <1>5, <1>6, <1>7, <1>11 DEF StartInsert, At
  <2> QED  BY <1>2, <1>3, <2>1, QuietStep
<1>12. CASE StartInsertOnConflict(s)
  <2>1. r.stmt.kind \in {"Ignore", "Upsert", "Replace"} /\ r.pc # "idle"
    BY <1>12 DEF StartInsertOnConflict, InsertKinds, At
  <2>2. (\E p \in {"done", "store"} : Goto(s, p)) \/ \E k, v : WriteRow(s, k, v) \/
          DeleteRow(s, k, v)
    BY <1>12, <2>1 DEF StartInsertOnConflict
  <2>3. LocalOK(run[s])'
    BY <1>5, <1>6, <1>7, <2>1, <2>2
  <2> QED  BY <1>2, <1>3, <2>3, QuietStep
<1>13. CASE StartPointWrite(s)
  <2>1. LocalOK(run[s])'
    BY <1>5, <1>6, <1>7, <1>13 DEF StartPointWrite, At
  <2> QED  BY <1>2, <1>3, <2>1, QuietStep
<1>14. CASE ReadOldRow(s)
  <2>1. r.epoch = epoch
    BY <1>1, <1>14 DEF LocalOK, ReadOldRow, At, RunOK, Writing, RowKinds, InsertKinds
  <2>2. Same /\ q.pc = "validate" /\ q.key = r.key /\ q.old = rows[epoch][r.key] /\
          r.pc # "idle"
    BY <1>1, <1>14, <2>1 DEF ReadOldRow, Row, Runs, At
  <2>3. LocalOK(run[s])'
    BY <1>1, <1>4, <2>2 DEF LocalOK
  <2> QED  BY <1>2, <1>3, <2>3, QuietStep
<1>15. CASE ReadDeletedRow(s)
  <2>1. r.epoch = epoch /\ r.pc = "dropold" /\ r.key \in Keys
    BY <1>1, <1>15 DEF LocalOK, ReadDeletedRow, At, RunOK, Deleting
  <2>2. /\ Same /\ q.key = r.key /\ q.old = rows[epoch][r.key]
        /\ q.pc = IF rows[epoch][r.key] # NoRow THEN "dropunlink" ELSE "droprow"
    BY <1>1, <1>15, <2>1 DEF ReadDeletedRow, Row, Runs
  <2>3. rows[epoch][r.key] = NoRow => NoEntries(r.key)
    BY <2>1, RowMatches, RankAssumption DEF Matches, NoEntries
  <2>4. q.pc = "droprow" => NoEntries(r.key)'
    BY <1>4, <2>2, <2>3 DEF NoEntries
  <2>5. LocalOK(run[s])'
    BY <1>1, <1>4, <2>1, <2>2, <2>4 DEF LocalOK
  <2> QED  BY <1>2, <1>3, <2>5, QuietStep
<1>16. CASE ValidateIndexEntries(s)
  <2>1. r.pc = "validate" /\ r.key \in Keys /\ r.old = rows[epoch][r.key]
    BY <1>1, <1>16 DEF LocalOK, ValidateIndexEntries, At, RunOK, Writing
  <2>2. /\ Same /\ q.key = r.key /\ q.old = r.old
        /\ \/ q.pc = "done"
           \/ q.pc = "unlink" /\ r.old # NoRow
           \/ q.pc = "put" /\ r.old = NoRow
    BY <1>6, <1>16 DEF ValidateIndexEntries
  <2>3. rows[epoch][r.key] = NoRow => NoEntries(r.key)
    BY <2>1, RowMatches, RankAssumption DEF Matches, NoEntries
  <2>4. q.pc = "put" => NoEntries(r.key)'
    BY <1>4, <2>1, <2>2, <2>3 DEF NoEntries
  <2>5. LocalOK(run[s])'
    BY <1>1, <1>4, <2>1, <2>2, <2>4 DEF LocalOK
  <2> QED  BY <1>2, <1>3, <2>5, QuietStep
<1>17. CASE StoreTable(s)
  <2>1. LocalOK(run[s])'
    BY <1>5, <1>6, <1>17 DEF StoreTable, At
  <2> QED  BY <1>2, <1>3, <2>1, QuietStep
<1>18. CASE CreateIndexScan(s)
  <2>1. r.pc = "start"
    BY <1>18 DEF CreateIndexScan, At
  <2>2. CASE Goto(s, "done")
    BY <1>2, <1>3, <1>5, <1>6, <2>1, <2>2, QuietStep
  <2>3. CASE run' = [run EXCEPT ![s].pc = "register", ![s].seen = rows[epoch]]
    <3>1. Same /\ q.pc = "register" /\ q.seen = rows[epoch]
      BY <1>1, <2>3 DEF Runs
    <3>2. LocalOK(run[s])'
      BY <1>1, <1>4, <2>1, <3>1 DEF LocalOK
    <3> QED  BY <1>2, <1>3, <3>2, QuietStep
  <2> QED  BY <1>18, <2>2, <2>3 DEF CreateIndexScan
<1> QED
  BY <1>8, <1>9, <1>10, <1>11, <1>12, <1>13, <1>14, <1>15, <1>16, <1>17, <1>18

\* delete_index_entries_at: the row has the old value, so what is deleted is
\* all there is of it.
LEMMA UnlinkLinked ==
  ASSUME Guarded, Orderly(client), Linked, NEW s \in Sessions, Step(s),
         NEW here \in {"unlink", "dropunlink"}, NEW next \in {"put", "droprow"},
         DeleteIndexEntries(s, here, next)
  PROVE  Linked'
<1> DEFINE r == run[s]
           q == run'[s]
<1>1. /\ run \in [Sessions -> Runs] /\ r \in Runs /\ RunOK(r) /\ Types
      /\ \A t \in Sessions : LocalOK(run[t])
  BY DEF Guarded, Types, RTypeOK, Linked
<1>2. \A t \in Sessions \ {s} : run'[t] = run[t]
  BY <1>1, OthersStay
<1>3. /\ r.pc = here /\ q = [r EXCEPT !.pc = next]
      /\ entries' = entries \ EntriesOf(r.key, r.old)
      /\ legacy' = legacy \ LegacyEntriesOf(r.key, r.old)
      /\ UNCHANGED <<rows, indexes, epoch, nextId>>
  BY <1>1 DEF DeleteIndexEntries, At, Goto
<1>4. r.key \in Keys /\ r.old = rows[epoch][r.key] /\ r.old \in Vals
  BY <1>1, <1>3 DEF RunOK, Writing, Deleting, LocalOK, Runs
<1>5. NoEntries(r.key)'
  <2> SUFFICES ASSUME NEW i \in indexes, NEW v \in Vals, <<i.id, v, r.key>> \in entries
               PROVE  <<i.id, v, r.key>> \in EntriesOf(r.key, r.old)
    BY <1>3 DEF NoEntries
  <2>1. rows[epoch][r.key] = v
    BY <1>3, RowMatches DEF Matches
  <2> QED  BY <1>4, <2>1 DEF EntriesOf
<1>6. LocalOK(run[s])'
  BY <1>1, <1>3, <1>5 DEF LocalOK, Runs
<1>7. \A t \in Sessions \ {s} : LocalOK(run[t])'
  BY <1>1, <1>2, <1>3 DEF LocalOK, NoEntries
<1>8. IdsOK' /\ LaterEmpty'
  BY <1>3 DEF Linked, IdsOK, LaterEmpty
<1>9. AllMatch'
  <2> SUFFICES ASSUME NEW i \in indexes, NEW k \in Keys
               PROVE  Matches(i, k)' \/ \E t \in Sessions : Touching(run'[t], i, k)
    BY <1>3 DEF AllMatch, Touching
  <2>1. CASE k = r.key
    BY <1>1, <1>3, <2>1 DEF Touching, Runs
  <2>2. CASE k # r.key
    <3>1. Matches(i, k) => Matches(i, k)'
      <4>1. \A v \in Vals : /\ <<i.id, v, k>> \in entries' <=> <<i.id, v, k>> \in entries
                            /\ <<i.name, v, k>> \in legacy' <=> <<i.name, v, k>> \in legacy
        BY <1>3, <2>2 DEF EntriesOf, LegacyEntriesOf
      <4> QED  BY <1>3, <4>1 DEF Matches
    <3>2. ~Touching(run[s], i, k)
      BY <1>3 DEF Touching
    <3> QED  BY <1>2, <3>1, <3>2 DEF Linked, AllMatch
  <2> QED  BY <2>1, <2>2
<1> QED  BY <1>6, <1>7, <1>8, <1>9 DEF Linked

\* The put or the delete of the row itself, while it has no entry.
LEMMA RowLinked ==
  ASSUME Guarded, Orderly(client), Linked, NEW s \in Sessions, Step(s), PutRow(s) \/
         DropRow(s)
  PROVE  Linked'
<1> DEFINE r == run[s]
           q == run'[s]
           new == IF PutRow(s) THEN r.val ELSE NoRow
<1>1. /\ run \in [Sessions -> Runs] /\ r \in Runs /\ RunOK(r) /\ Types
      /\ \A t \in Sessions : LocalOK(run[t])
      /\ rows \in [1..MaxEpoch -> Versions] /\ epoch \in 1..MaxEpoch
  BY DEF Guarded, Types, RTypeOK, Linked
<1>2. \A t \in Sessions \ {s} : run'[t] = run[t]
  BY <1>1, OthersStay
<1>3. /\ r.pc \in Writing \cup Deleting /\ r.pc \in {"put", "droprow"}
      /\ r.key \in Keys /\ r.stmt.kind # "Truncate" /\ r.epoch = epoch
  BY <1>1 DEF PutRow, DropRow, At, RunOK, Writing, Deleting, LocalOK, RowKinds, InsertKinds
<1>4. /\ UNCHANGED <<indexes, epoch, nextId, entries, legacy>>
      /\ rows' = [rows EXCEPT ![epoch][r.key] = new]
      /\ q.stmt = r.stmt /\ q.epoch = r.epoch /\ q.id = r.id
      /\ \/ r.pc = "put" /\ q.pc = "link" /\ q.key = r.key /\ q.val = r.val /\ new = r.val
         \/ r.pc = "droprow" /\ q.pc \in {"old", "done"} /\ new = NoRow
  <2>1. CASE PutRow(s)
    <3>1. q = [r EXCEPT !.pc = "link"]
      BY <1>1, <2>1 DEF PutRow, Goto
    <3> QED  BY <1>1, <1>3, <2>1, <3>1 DEF PutRow, At, Runs
  <2>2. CASE ~PutRow(s)
    <3>1. DropRow(s)
      BY <2>2
    <3>2. CASE r.stmt.kind = "Replace"
      <4>1. WriteRow(s, r.stmt.key, r.stmt.val)
        BY <3>1, <3>2 DEF DropRow
      <4> QED  BY <1>1, <1>3, <2>2, <3>1, <4>1 DEF DropRow, At, WriteRow, Runs
    <3>3. CASE r.stmt.kind # "Replace"
      <4>1. q = [r EXCEPT !.pc = "done"]
        BY <1>1, <3>1, <3>3 DEF DropRow, Goto
      <4> QED  BY <1>1, <1>3, <2>2, <3>1, <4>1 DEF DropRow, At, Runs
    <3> QED  BY <3>2, <3>3
  <2> QED  BY <2>1, <2>2
<1> HIDE DEF new
<1>5. rows'[epoch'][r.key] = new /\ \A k \in Keys \ {r.key} :
        rows'[epoch'][k] = rows[epoch][k]
  BY <1>1, <1>3, <1>4 DEF Versions
<1>6. NoEntries(r.key) /\ \A i \in indexes', v \in Vals : <<i.id, v, r.key>> \notin entries'
  BY <1>1, <1>3, <1>4 DEF LocalOK, NoEntries
<1>7. LocalOK(run[s])'
  BY <1>1, <1>3, <1>4, <1>5, <1>6 DEF LocalOK, NoEntries
<1>8. ASSUME NEW t \in Sessions \ {s} PROVE LocalOK(run[t])'
  <2>1. run[t].pc \in Writing \cup Deleting => run[t].key \in Keys \ {r.key}
    BY <1>3, RowAlone DEF Guarded, Types, RunOK
  <2>2. run[t].pc \notin {"register", "backfill", "clear", "clearlegacy"}
    BY <1>3, RowAlone
  <2>3. run[t].pc \in Writing \cup Deleting =>
          rows'[epoch'][run[t].key] = rows[epoch][run[t].key]
    BY <1>5, <2>1
  <2> QED  BY <1>1, <1>2, <1>4, <2>2, <2>3 DEF LocalOK, NoEntries, Writing, Deleting
<1>9. IdsOK' /\ LaterEmpty'
  BY <1>1, <1>4 DEF Linked, IdsOK, LaterEmpty
<1>10. AllMatch'
  <2> SUFFICES ASSUME NEW i \in indexes, NEW k \in Keys
               PROVE  Matches(i, k)' \/ \E t \in Sessions : Touching(run'[t], i, k)
    BY <1>4 DEF AllMatch, Touching
  <2>1. CASE k = r.key
    <3>1. CASE r.pc = "put"
      BY <1>3, <1>4, <2>1, <3>1 DEF Touching
    <3>2. CASE r.pc = "droprow"
      <4>1. Matches(i, k)'
        BY <1>4, <1>5, <1>6, <2>1, <3>2, RankAssumption DEF Matches, NoEntries
      <4> QED  BY <4>1
    <3> QED  BY <1>3, <3>1, <3>2
  <2>2. CASE k # r.key
    <3>1. Matches(i, k) => Matches(i, k)'
      BY <1>4, <1>5, <2>2 DEF Matches
    <3>2. ~Touching(run[s], i, k)
      BY <1>3, <2>2 DEF Touching
    <3> QED  BY <1>2, <3>1, <3>2 DEF Linked, AllMatch
  <2> QED  BY <2>1, <2>2
<1> QED  BY <1>7, <1>8, <1>9, <1>10 DEF Linked

\* write_index_entries_at: every index gets the entry of the value just put.
LEMMA LinkLinked ==
  ASSUME Guarded, Orderly(client), Linked, NEW s \in Sessions, Step(s), WriteIndexEntries(s)
  PROVE  Linked'
<1> DEFINE r == run[s]
           q == run'[s]
<1>1. /\ run \in [Sessions -> Runs] /\ r \in Runs /\ RunOK(r) /\ Types
      /\ \A t \in Sessions : LocalOK(run[t])
      /\ indexes \subseteq Index
  BY DEF Guarded, Types, RTypeOK, Linked
<1>2. \A t \in Sessions \ {s} : run'[t] = run[t]
  BY <1>1, OthersStay
<1>3. /\ r.pc = "link" /\ r.key \in Keys /\ r.val \in Vals
      /\ entries' = entries \cup EntriesOf(r.key, r.val)
      /\ legacy' = legacy \cup LegacyEntriesOf(r.key, r.val)
      /\ UNCHANGED <<rows, indexes, epoch, nextId>>
      /\ q.stmt = r.stmt /\ q.epoch = r.epoch /\ q.id = r.id /\ q.pc \in {"store", "done"}
  BY <1>1 DEF WriteIndexEntries, At, Goto, RunOK, Writing, Runs
<1>4. NoEntries(r.key) /\ rows[epoch][r.key] = r.val
  BY <1>1, <1>3 DEF LocalOK
<1>5. LocalOK(run[s])'
  BY <1>1, <1>3 DEF LocalOK
<1>6. ASSUME NEW t \in Sessions \ {s} PROVE LocalOK(run[t])'
  <2>1. /\ run[t].pc \in Writing \cup Deleting => run[t].key # r.key
        /\ run[t].pc \notin {"register", "backfill", "clear", "clearlegacy"}
    BY <1>3, RowAlone DEF Writing
  <2>2. run[t].pc \in {"put", "link", "droprow"} /\ NoEntries(run[t].key) =>
          NoEntries(run[t].key)'
    BY <1>2, <1>3, <2>1 DEF NoEntries, EntriesOf, Writing, Deleting
  <2> QED  BY <1>1, <1>2, <1>3, <2>1, <2>2 DEF LocalOK
<1>7. IdsOK' /\ LaterEmpty'
  <2>1. \A e \in EntriesOf(r.key, r.val) : e[1] < nextId
    BY DEF EntriesOf, Linked, IdsOK
  <2> QED  BY <1>3, <2>1 DEF Linked, IdsOK, LaterEmpty
<1>8. AllMatch'
  <2> SUFFICES ASSUME NEW i \in indexes, NEW k \in Keys
               PROVE  Matches(i, k)' \/ \E t \in Sessions : Touching(run'[t], i, k)
    BY <1>3 DEF AllMatch, Touching
  <2>1. CASE k = r.key
    <3>1. ASSUME NEW v \in Vals PROVE <<i.id, v, k>> \in entries' <=> v = r.val
      BY <1>3, <1>4, <2>1 DEF NoEntries, EntriesOf
    <3>2. <<i.name, r.val, k>> \in legacy'
      BY <1>3, <2>1 DEF LegacyEntriesOf
    <3> QED  BY <1>3, <1>4, <2>1, <3>1, <3>2 DEF Matches
  <2>2. CASE k # r.key
    <3>1. \A v \in Vals : <<i.id, v, k>> \in entries' <=> <<i.id, v, k>> \in entries
      BY <1>3, <2>2 DEF EntriesOf
    <3>2. Matches(i, k) => Matches(i, k)'
      BY <1>3, <3>1 DEF Matches
    <3>3. ~Touching(run[s], i, k)
      BY <1>3, <2>2 DEF Touching
    <3> QED  BY <1>2, <3>2, <3>3 DEF Linked, AllMatch
  <2> QED  BY <2>1, <2>2
<1> QED  BY <1>5, <1>6, <1>7, <1>8 DEF Linked

\* CatalogStore::create_index: the new index has an id no entry has.
LEMMA RegisterLinked ==
  ASSUME Guarded, Orderly(client), Linked, NEW s \in Sessions, Step(s),
         CreateIndexRegister(s)
  PROVE  Linked'
<1> DEFINE r == run[s]
           q == run'[s]
           new == [id |-> nextId, name |-> r.stmt.name, unique |-> r.stmt.unique]
<1>1. /\ run \in [Sessions -> Runs] /\ r \in Runs /\ RunOK(r) /\ Types
      /\ \A t \in Sessions : LocalOK(run[t])
      /\ nextId \in Nat
  BY DEF Guarded, Types, RTypeOK, Linked
<1>2. \A t \in Sessions \ {s} : run'[t] = run[t]
  BY <1>1, OthersStay
<1>3. r.pc = "register" /\ r.stmt.kind = "CreateIndex" /\ r.epoch = epoch
  BY <1>1 DEF CreateIndexRegister, At, RunOK, LocalOK
<1>4. CASE NameTaken(r.stmt.name)
  <2>1. /\ UNCHANGED <<rows, indexes, epoch, nextId, entries, legacy>>
        /\ q.stmt = r.stmt /\ q.epoch = r.epoch /\ q.id = r.id /\ q.pc = "done"
    BY <1>1, <1>4 DEF CreateIndexRegister, Goto, Runs
  <2>2. LocalOK(run[s])'
    BY <1>1, <1>3, <2>1 DEF LocalOK
  <2> QED  BY <1>2, <1>3, <2>1, <2>2, QuietStep DEF Quiet
<1>5. CASE ~NameTaken(r.stmt.name)
  <2>1. /\ UNCHANGED <<rows, epoch, entries, legacy>>
        /\ indexes' = indexes \cup {new} /\ nextId' = nextId + 1
        /\ run' = [run EXCEPT ![s].pc = "backfill", ![s].id = nextId]
    BY <1>5 DEF CreateIndexRegister
  <2>2. /\ q.stmt = r.stmt /\ q.epoch = r.epoch /\ q.id = nextId /\ q.pc = "backfill"
        /\ q.seen = r.seen
    BY <1>1, <2>1 DEF Runs
  <2>3. IdsOK
    BY DEF Linked
  <2>4. new.id = nextId /\ new.name = r.stmt.name
    OBVIOUS
  <2>5. \A v, k : <<nextId, v, k>> \notin entries
    BY <1>1, <2>3 DEF IdsOK
  <2>6. \A i \in indexes : i.id < nextId /\ i.id \in Nat /\ i.id # nextId
    BY <1>1, <2>3 DEF IdsOK, Guarded, Types, RTypeOK, Index
  <2>7. \A e \in entries : e[1] < nextId /\ e[1] \in Nat /\ e[1] # nextId
    BY <1>1, <2>3 DEF IdsOK, Guarded, Types, RTypeOK
  <2> HIDE DEF new
  <2>8. LocalOK(run[s])'
    <3>1. \A e \in entries' : e[1] # q.id
      BY <2>1, <2>2, <2>7
    <3>2. \A i \in indexes' : i.id = q.id => i.name = q.stmt.name
      BY <2>1, <2>2, <2>4, <2>6
    <3>3. q.seen = rows'[epoch'] /\ q.epoch = epoch' /\ q.id < nextId'
      BY <1>1, <1>3, <2>1, <2>2 DEF LocalOK
    <3> QED  BY <2>2, <3>1, <3>2, <3>3 DEF LocalOK
  <2>9. ASSUME NEW t \in Sessions \ {s} PROVE LocalOK(run[t])'
    <3>1. run[t].id < nextId /\ run[t].id \in Nat /\ run[t].id # nextId /\
            run'[t] = run[t] /\ LocalOK(run[t])
      BY <1>1, <1>2 DEF LocalOK, Runs
    <3>2. NoEntries(run[t].key) => NoEntries(run[t].key)'
      BY <2>1, <2>4, <2>5, <3>1 DEF NoEntries
    <3>3. run[t].pc \notin {"register", "backfill", "clear", "clearlegacy"}
      BY <1>3, DdlAlone
    <3>4. run[t].id < nextId'
      BY <1>1, <2>1, <3>1
    <3>5. run[t].pc = "unregister" => \A i \in indexes' : i.id # run[t].id
      BY <2>1, <2>4, <3>1 DEF LocalOK
    <3> QED  BY <2>1, <3>1, <3>2, <3>3, <3>4, <3>5 DEF LocalOK
  <2>10. IdsOK'
    <3>1. (\A i \in indexes' : i.id < nextId') /\ (\A e \in entries' : e[1] < nextId')
      BY <1>1, <2>1, <2>4, <2>6, <2>7
    <3>2. \A i, j \in indexes' : i.id = j.id => i = j
      BY <2>1, <2>3, <2>4, <2>6 DEF IdsOK
    <3> QED  BY <3>1, <3>2 DEF IdsOK
  <2>11. LaterEmpty'
    BY <2>1 DEF Linked, LaterEmpty
  <2>12. AllMatch'
    <3> SUFFICES ASSUME NEW i \in indexes', NEW k \in Keys
                 PROVE  Matches(i, k)' \/ \E t \in Sessions : Touching(run'[t], i, k)
      BY DEF AllMatch, Touching
    <3>1. CASE i = new
      BY <2>2, <2>4, <3>1 DEF Touching
    <3>2. CASE i \in indexes
      <4>1. Matches(i, k) => Matches(i, k)'
        BY <2>1 DEF Matches
      <4>2. ~Touching(run[s], i, k)
        BY <1>3 DEF Touching
      <4> QED  BY <1>2, <3>2, <4>1, <4>2 DEF Linked, AllMatch
    <3> QED  BY <2>1, <3>1, <3>2
  <2> QED  BY <2>8, <2>9, <2>10, <2>11, <2>12 DEF Linked
<1> QED  BY <1>4, <1>5

\* The backfill: the rows read before are still the rows of the table.
LEMMA BackfillLinked ==
  ASSUME Guarded, Orderly(client), Linked, NEW s \in Sessions, Step(s),
         CreateIndexBackfill(s)
  PROVE  Linked'
<1> DEFINE r == run[s]
           q == run'[s]
<1>1. /\ run \in [Sessions -> Runs] /\ r \in Runs /\ RunOK(r) /\ Types
      /\ \A t \in Sessions : LocalOK(run[t])
  BY DEF Guarded, Types, RTypeOK, Linked
<1>2. \A t \in Sessions \ {s} : run'[t] = run[t]
  BY <1>1, OthersStay
<1>3. /\ r.pc = "backfill" /\ r.stmt.kind = "CreateIndex"
      /\ entries' = entries \cup {<<r.id, r.seen[k], k>> : k \in Present(r.seen)}
      /\ legacy' = legacy \cup {<<r.stmt.name, r.seen[k], k>> : k \in Present(r.seen)}
      /\ UNCHANGED <<rows, indexes, epoch, nextId>>
      /\ q.stmt = r.stmt /\ q.epoch = r.epoch /\ q.id = r.id /\ q.pc = "done"
  BY <1>1 DEF CreateIndexBackfill, At, Goto, RunOK, Runs
<1>4. /\ r.seen = rows[epoch] /\ r.seen \in Versions /\ r.id < nextId
      /\ \A e \in entries : e[1] # r.id
      /\ \A i \in indexes : i.id = r.id => i.name = r.stmt.name
  BY <1>1, <1>3 DEF LocalOK, Runs
<1>5. LocalOK(run[s])'
  BY <1>1, <1>3 DEF LocalOK
<1>6. ASSUME NEW t \in Sessions \ {s} PROVE LocalOK(run[t])'
  <2>1. run[t].pc \notin Writing \cup Deleting
        /\ run[t].pc \notin {"register", "backfill", "clear", "clearlegacy"}
    BY <1>3, DdlAlone
  <2> QED  BY <1>1, <1>2, <1>3, <2>1 DEF LocalOK, Writing, Deleting
<1>7. IdsOK' /\ LaterEmpty'
  <2>1. \A e \in {<<r.id, r.seen[k], k>> : k \in Present(r.seen)} : e[1] < nextId
    BY <1>4
  <2> QED  BY <1>3, <2>1 DEF Linked, IdsOK, LaterEmpty
<1>8. AllMatch'
  <2> SUFFICES ASSUME NEW i \in indexes, NEW k \in Keys
               PROVE  Matches(i, k)' \/ \E t \in Sessions : Touching(run'[t], i, k)
    BY <1>3 DEF AllMatch, Touching
  <2> HIDE DEF r
  <2>1. CASE i.id = r.id
    <3>1. ASSUME NEW v \in Vals PROVE <<i.id, v, k>> \in entries' <=> rows[epoch][k] = v
      <4>1. <<i.id, v, k>> \notin entries
        BY <1>4, <2>1
      <4>2. <<i.id, v, k>> \in {<<r.id, r.seen[l], l>> : l \in Present(r.seen)} <=>
              r.seen[k] = v
        BY <2>1, RankAssumption DEF Present
      <4> QED  BY <1>3, <1>4, <4>1, <4>2
    <3>2. ASSUME NEW v \in Vals, rows[epoch][k] = v PROVE <<i.name, v, k>> \in legacy'
      <4>1. <<r.stmt.name, v, k>> \in
              {<<r.stmt.name, r.seen[l], l>> : l \in Present(r.seen)}
        BY <1>4, <3>2, RankAssumption DEF Present
      <4> QED  BY <1>3, <1>4, <2>1, <4>1
    <3> QED  BY <1>3, <3>1, <3>2 DEF Matches
  <2>2. CASE i.id # r.id
    <3>1. \A v \in Vals : <<i.id, v, k>> \in entries' <=> <<i.id, v, k>> \in entries
      BY <1>3, <2>2
    <3>2. Matches(i, k) => Matches(i, k)'
      BY <1>3, <3>1 DEF Matches
    <3>3. ~Touching(run[s], i, k)
      BY <1>3, <2>2 DEF Touching, r
    <3> QED  BY <1>2, <3>2, <3>3 DEF Linked, AllMatch
  <2> QED  BY <2>1, <2>2
<1> QED  BY <1>5, <1>6, <1>7, <1>8 DEF Linked

\* DROP INDEX: the record, then the entries of an id no index has any more.
LEMMA DropLinked ==
  ASSUME Guarded, Orderly(client), Linked, NEW s \in Sessions, Step(s),
         DropIndexRecord(s) \/ DropIndexEntries(s)
  PROVE  Linked'
<1> DEFINE r == run[s]
           q == run'[s]
<1>1. /\ run \in [Sessions -> Runs] /\ r \in Runs /\ RunOK(r) /\ Types
      /\ \A t \in Sessions : LocalOK(run[t])
      /\ IdsOK
  BY DEF Guarded, Types, RTypeOK, Linked
<1>2. \A t \in Sessions \ {s} : run'[t] = run[t]
  BY <1>1, OthersStay
<1>3. CASE DropIndexRecord(s) /\ ~NameTaken(r.stmt.name)
  <2>1. /\ UNCHANGED <<rows, indexes, epoch, nextId, entries, legacy>> /\ r.pc = "start"
        /\ q.stmt = r.stmt /\ q.epoch = r.epoch /\ q.id = r.id /\ q.pc = "done"
    BY <1>1, <1>3 DEF DropIndexRecord, Goto, Runs, At
  <2>2. LocalOK(run[s])'
    BY <1>1, <2>1 DEF LocalOK
  <2> QED  BY <1>2, <2>1, <2>2, QuietStep DEF Quiet
<1>4. CASE DropIndexRecord(s) /\ NameTaken(r.stmt.name)
  <2>1. PICK i \in indexes :
          /\ indexes' = indexes \ {i}
          /\ run' = [run EXCEPT ![s].pc = "unregister", ![s].id = i.id]
    BY <1>4 DEF DropIndexRecord
  <2>2. /\ UNCHANGED <<rows, epoch, nextId, entries, legacy>> /\ r.pc = "start"
        /\ q.stmt = r.stmt /\ q.epoch = r.epoch /\ q.id = i.id /\ q.pc = "unregister"
    BY <1>1, <1>4, <2>1 DEF DropIndexRecord, Runs, At
  <2>3. LocalOK(run[s])'
    BY <1>1, <2>1, <2>2 DEF LocalOK, IdsOK
  <2>4. \A t \in Sessions \ {s} : LocalOK(run[t])'
    BY <1>1, <1>2, <2>1, <2>2 DEF LocalOK, NoEntries
  <2>5. IdsOK' /\ LaterEmpty'
    BY <2>1, <2>2 DEF Linked, IdsOK, LaterEmpty
  <2>6. AllMatch'
    <3> SUFFICES ASSUME NEW j \in indexes, NEW k \in Keys
                 PROVE  Matches(j, k)' \/ \E t \in Sessions : Touching(run'[t], j, k)
      BY <2>1 DEF AllMatch, Touching
    <3>1. Matches(j, k) => Matches(j, k)'
      BY <2>2 DEF Matches
    <3>2. ~Touching(run[s], j, k)
      BY <2>2 DEF Touching
    <3> QED  BY <1>2, <3>1, <3>2 DEF Linked, AllMatch
  <2> QED  BY <2>3, <2>4, <2>5, <2>6 DEF Linked
<1>5. CASE DropIndexEntries(s)
  <2>1. /\ UNCHANGED <<rows, indexes, epoch, nextId, legacy>> /\ r.pc = "unregister"
        /\ entries' = {e \in entries : e[1] # r.id}
        /\ q.stmt = r.stmt /\ q.epoch = r.epoch /\ q.id = r.id /\ q.pc = "done"
    BY <1>1, <1>5 DEF DropIndexEntries, Goto, Runs, At
  <2>2. LocalOK(run[s])'
    BY <1>1, <2>1 DEF LocalOK
  <2>3. \A t \in Sessions \ {s} : LocalOK(run[t])'
    BY <1>1, <1>2, <2>1 DEF LocalOK, NoEntries
  <2>4. IdsOK' /\ LaterEmpty'
    BY <2>1 DEF Linked, IdsOK, LaterEmpty
  <2>5. AllMatch'
    <3> SUFFICES ASSUME NEW j \in indexes, NEW k \in Keys
                 PROVE  Matches(j, k)' \/ \E t \in Sessions : Touching(run'[t], j, k)
      BY <2>1 DEF AllMatch, Touching
    <3>1. j.id # r.id
      BY <1>1, <2>1 DEF LocalOK
    <3>2. \A v \in Vals : <<j.id, v, k>> \in entries' <=> <<j.id, v, k>> \in entries
      BY <2>1, <3>1
    <3>3. Matches(j, k) => Matches(j, k)'
      BY <2>1, <3>2 DEF Matches
    <3>4. ~Touching(run[s], j, k)
      BY <2>1 DEF Touching
    <3> QED  BY <1>2, <3>3, <3>4 DEF Linked, AllMatch
  <2> QED  BY <2>2, <2>3, <2>4, <2>5 DEF Linked
<1> QED  BY <1>3, <1>4, <1>5

\* TRUNCATE, which orderly clients send only when they are alone.
LEMMA TruncateLinked ==
  ASSUME Guarded, Orderly(client), Linked, NEW s \in Sessions, Step(s),
         BumpEpoch(s) \/ ClearEntries(s) \/ ClearLegacyEntries(s)
  PROVE  Linked'
<1> DEFINE r == run[s]
           q == run'[s]
<1>1. /\ run \in [Sessions -> Runs] /\ r \in Runs /\ RunOK(r) /\ Types
      /\ \A t \in Sessions : LocalOK(run[t])
      /\ rows \in [1..MaxEpoch -> Versions] /\ epoch \in 1..MaxEpoch
  BY DEF Guarded, Types, RTypeOK, Linked
<1>2. \A t \in Sessions \ {s} : run'[t] = run[t]
  BY <1>1, OthersStay
<1>3. r.stmt.kind = "Truncate" /\ ~At(s, "idle")
  BY <1>1 DEF BumpEpoch, ClearEntries, ClearLegacyEntries, At, RunOK
<1>4. \A t \in Sessions \ {s} : run[t].pc = "idle"
  BY <1>3, OrderlyApart DEF At
<1>5. nextId' = nextId /\ indexes' = indexes /\ rows' = rows /\ entries' \subseteq entries
  BY DEF BumpEpoch, ClearEntries, ClearLegacyEntries
<1>6. \A t \in Sessions \ {s} : LocalOK(run[t])'
  BY <1>1, <1>2, <1>4, <1>5 DEF LocalOK
<1>7. IdsOK'
  BY <1>5 DEF Linked, IdsOK
<1>8. q.stmt = r.stmt /\ q.id = r.id
  BY <1>1 DEF BumpEpoch, ClearEntries, ClearLegacyEntries, Goto, Runs
<1>9. CASE BumpEpoch(s)
  <2>1. q.pc = "clear" /\ epoch < MaxEpoch /\ epoch' = epoch + 1
    BY <1>1, <1>9 DEF BumpEpoch, Goto, Runs
  <2>2. epoch + 1 \in 1..MaxEpoch /\ epoch + 1 > epoch
    BY <1>1, <2>1, BoundAssumption
  <2>3. rows'[epoch'] = Empty
    BY <1>5, <2>1, <2>2 DEF Linked, LaterEmpty
  <2>4. LocalOK(run[s])'
    BY <1>1, <1>3, <1>5, <1>8, <2>1, <2>3 DEF LocalOK
  <2>5. LaterEmpty'
    BY <1>1, <1>5, <2>1 DEF Linked, LaterEmpty
  <2>6. AllMatch'
    BY <2>1 DEF AllMatch, Touching
  <2> QED  BY <1>6, <1>7, <2>4, <2>5, <2>6 DEF Linked
<1>10. CASE ClearEntries(s)
  <2>1. /\ r.pc = "clear" /\ q.pc = "clearlegacy" /\ epoch' = epoch
        /\ entries' = {e \in entries : \A i \in indexes : e[1] # i.id}
    BY <1>1, <1>10 DEF ClearEntries, At, Goto, Runs
  <2>2. LocalOK(run[s])'
    BY <1>1, <1>3, <1>5, <1>8, <2>1 DEF LocalOK
  <2>3. LaterEmpty'
    BY <1>5, <2>1 DEF Linked, LaterEmpty
  <2>4. AllMatch'
    BY <2>1 DEF AllMatch, Touching
  <2> QED  BY <1>6, <1>7, <2>2, <2>3, <2>4 DEF Linked
<1>11. CASE ClearLegacyEntries(s)
  <2>1. r.pc = "clearlegacy" /\ q.pc = "done" /\ epoch' = epoch /\ entries' = entries
    BY <1>1, <1>11 DEF ClearLegacyEntries, At, Goto, Runs
  <2>2. LocalOK(run[s])'
    BY <1>1, <1>3, <1>5, <1>8, <2>1 DEF LocalOK
  <2>3. LaterEmpty'
    BY <1>5, <2>1 DEF Linked, LaterEmpty
  <2>4. rows[epoch] = Empty /\ \A i \in indexes, e \in entries : e[1] # i.id
    BY <1>1, <2>1 DEF LocalOK
  <2>5. ASSUME NEW i \in indexes, NEW k \in Keys PROVE Matches(i, k)'
    <3>1. rows'[epoch'][k] = NoRow
      BY <1>5, <2>1, <2>4 DEF Empty
    <3>2. \A v \in Vals : <<i.id, v, k>> \notin entries'
      BY <2>1, <2>4
    <3> QED  BY <3>1, <3>2, RankAssumption DEF Matches
  <2>6. AllMatch'
    BY <1>5, <2>5 DEF AllMatch, Matches
  <2> QED  BY <1>6, <1>7, <2>2, <2>3, <2>6 DEF Linked
<1> QED  BY <1>9, <1>10, <1>11

\* The table is empty at first.
LEMMA LinkedStart == Init => Linked
<1> SUFFICES ASSUME Init PROVE Linked
  OBVIOUS
<1>1. /\ rows = [e \in 1..MaxEpoch |-> Empty] /\ epoch = 1
      /\ entries = {} /\ legacy = {} /\ run = [s \in Sessions |-> AtRest]
  BY DEF Init
<1>2. \/ indexes = {} /\ nextId = 1
      \/ nextId = 2 /\ \E i : i.id = 1 /\ indexes = {i}
  <2>1. indexes = {} \/ \E n \in Names : indexes = {[id |-> 1, name |-> n, unique |-> TRUE]}
    BY DEF Init
  <2>2. ASSUME NEW n \in Names, indexes = {[id |-> 1, name |-> n, unique |-> TRUE]}
        PROVE  nextId = 2 /\ \E i : i.id = 1 /\ indexes = {i}
    <3>1. indexes # {} /\ [id |-> 1, name |-> n, unique |-> TRUE].id = 1
      BY <2>2
    <3>2. nextId = 2
      BY <3>1 DEF Init
    <3> QED  BY <2>2, <3>1, <3>2
  <2> QED  BY <2>1, <2>2 DEF Init
<1>3. IdsOK
  BY <1>1, <1>2 DEF IdsOK
<1>4. \A k \in Keys : rows[epoch][k] = NoRow
  BY <1>1, BoundAssumption DEF Empty
<1>5. LaterEmpty /\ AllMatch
  BY <1>1, <1>4, RankAssumption DEF LaterEmpty, AllMatch, Matches
<1>6. \A s \in Sessions : LocalOK(run[s])
  BY <1>1, <1>2 DEF LocalOK, AtRest
<1> QED  BY <1>3, <1>5, <1>6 DEF Linked

\* Every step of orderly clients keeps rows and entries together.
LEMMA LinkedStep ==
  ASSUME Guarded, Orderly(client), Linked, [Next]_vars
  PROVE  Linked'
<1>1. CASE UNCHANGED vars
  BY <1>1 DEF vars, Linked, IdsOK, LaterEmpty, AllMatch, Matches, Touching, LocalOK,
     NoEntries
<1>2. ASSUME NEW s \in Sessions, Step(s) PROVE Linked'
  <2>1. CASE DeleteIndexEntries(s, "unlink", "put")
    BY <1>2, <2>1, UnlinkLinked
  <2>2. CASE DeleteIndexEntries(s, "dropunlink", "droprow")
    BY <1>2, <2>2, UnlinkLinked
  <2>3. CASE PutRow(s) \/ DropRow(s)
    BY <1>2, <2>3, RowLinked
  <2>4. CASE WriteIndexEntries(s)
    BY <1>2, <2>4, LinkLinked
  <2>5. CASE CreateIndexRegister(s)
    BY <1>2, <2>5, RegisterLinked
  <2>6. CASE CreateIndexBackfill(s)
    BY <1>2, <2>6, BackfillLinked
  <2>7. CASE DropIndexRecord(s) \/ DropIndexEntries(s)
    BY <1>2, <2>7, DropLinked
  <2>8. CASE BumpEpoch(s) \/ ClearEntries(s) \/ ClearLegacyEntries(s)
    BY <1>2, <2>8, TruncateLinked
  <2> QED
    BY <1>2, <2>1, <2>2, <2>3, <2>4, <2>5, <2>6, <2>7, <2>8, ControlLinked DEF Step
<1> QED  BY <1>1, <1>2 DEF Next, Step

\* Whenever no statement is in the middle of writing a row, every index has
\* exactly the entry of its value: write_row_at, delete_row_at, create_index_at
\* and truncation under the statements' locks, for any number of MySQL sessions
\* with point statements and index DDL, or for one session alone.
THEOREM EntriesFollowRows ==
  ASSUME \A c \in Clients : Orderly(c)
  PROVE  Spec => []EntriesMatchRows
<1>1. Guarded => Orderly(client)
  BY DEF Guarded, Types, RTypeOK
<1>2. Guarded /\ Linked /\ [Next]_vars => Linked'
  BY <1>1, LinkedStep
<1>3. Linked => EntriesMatchRows
  <2> SUFFICES ASSUME Linked, ~BeingTruncated, NEW i \in indexes, NEW k \in Keys,
                      ~BeingBuilt(i), ~RowInFlight(k)
               PROVE  Matches(i, k)
    BY DEF EntriesMatchRows, Matches
  <2>1. \A t \in Sessions : ~Touching(run[t], i, k)
    BY DEF BeingTruncated, BeingBuilt, RowInFlight, Touching, At
  <2> QED  BY <2>1 DEF Linked, AllMatch
<1> QED  BY <1>2, <1>3, GuardedAlways, LinkedStart, PTL DEF Spec

\* A set without two different members.
LEMMA AtMostOne ==
  ASSUME NEW W, \A x, y \in W : x = y
  PROVE  Cardinality(W) <= 1
<1>1. CASE W = {}
  <2>1. Cardinality({}) = 0
    BY FS_EmptySet
  <2> QED  BY <1>1, <2>1
<1>2. ASSUME NEW x \in W PROVE Cardinality(W) <= 1
  <2>1. W = {x}
    OBVIOUS
  <2>2. Cardinality({x}) = 1
    BY FS_Singleton
  <2> QED  BY <2>1, <2>2
<1> QED  BY <1>1, <1>2

\* While a row changes, one statement at most is between reading and writing it:
\* for MySQL clients whose statements write only the row they name, which
\* INSERT ... ON DUPLICATE KEY UPDATE and REPLACE do not.
THEOREM RowsHaveOneWriter ==
  ASSUME \A c \in Clients : c.mysql => 
           \A s \in Sessions : \A st \in c.sends[s] : st.kind \notin {"Upsert", "Replace"}
  PROVE  Spec => SoleWriter
<1> DEFINE Writers(k) == {s \in Sessions : run[s].key = k
                      /\ run[s].pc \in {"old", "validate", "unlink", "put", "link",
                                        "dropold", "dropunlink", "droprow"}}
           Sole == client.mysql => \A k \in Keys : (rows[epoch][k])' # rows[epoch][k] =>
                     Cardinality(Writers(k)) <= 1
<1>1. ASSUME Guarded, client.mysql, NEW k \in Keys PROVE Cardinality(Writers(k)) <= 1
  <2>1. ASSUME NEW s \in Writers(k), NEW t \in Writers(k), s # t PROVE FALSE
    <3>1. /\ s \in Sessions /\ t \in Sessions \ {s} /\ run[s].key = k /\ run[t].key = k
          /\ run[s].pc \in Writing \cup Deleting /\ run[t].pc \in Writing \cup Deleting
      BY <2>1 DEF Writing, Deleting
    <3>2. /\ StatementOK(s) /\ StatementOK(t) /\ RunOK(run[s]) /\ RunOK(run[t])
          /\ client \in Clients
      BY <1>1, <3>1 DEF Guarded, Types, RTypeOK
    <3>3. /\ InWork(s) /\ InWork(t) /\ ~At(s, "idle") /\ ~At(t, "idle")
          /\ run[s].stmt.kind \in RowKinds /\ run[t].stmt.kind \in RowKinds
      BY <3>1, <3>2 DEF RunOK, Writing, Deleting, InWork, RowKinds, InsertKinds, At
    <3>4. run[s].stmt.kind \in PointKinds /\ run[t].stmt.kind \in PointKinds
      BY <1>1, <3>1, <3>2, <3>3 DEF StatementOK, RowKinds, InsertKinds, PointKinds
    <3>5. run[s].stmt.key = k /\ run[t].stmt.key = k
      BY <3>1, <3>2, <3>4 DEF StatementOK
    <3> QED  BY <1>1, <3>1, <3>3, <3>5, LocksKeepApart DEF Apart
  <2> HIDE DEF Writers
  <2> QED  BY <2>1, AtMostOne
<1>2. Guarded /\ [Next]_vars => [Sole]_vars
  BY <1>1
<1> QED  BY <1>2, GuardedAlways, PTL DEF Spec, SoleWriter

(***************************************************************************)
(* Unique indexes under INSERTs and DELETEs.                               *)
(***************************************************************************)
\* MySQL sessions that only insert and delete, and a unique index.
InsertsOnly == client.mysql /\ OnlyInsertsAndDeletes /\ \E i \in indexes : i.unique

\* What an INSERT has locked and seen: the value in every index; that its key
\* was free; and, once validated, that no other row has the value.
InsertOK(s) ==
  /\ ~At(s, "idle") /\ run[s].stmt.kind = "Insert" =>
       \A i \in indexes : RowLocks(Record(i.name, run[s].stmt.val)) \in run[s].want
  /\ run[s].pc \in Writing => run[s].val = run[s].stmt.val
  /\ run[s].pc \in {"old", "validate", "unlink", "put"} => rows[epoch][run[s].key] = NoRow
  /\ run[s].pc = "put" =>
       \A k \in Keys \ {run[s].key} : BeingDeleted(k) \/ rows[epoch][k] # run[s].val

\* InsertsNeverDuplicate, by pairs of rows.
NoDuplicates ==
  \A k \in Keys : \A l \in Keys \ {k} :
    rows[epoch][k] = rows[epoch][l] =>
      BeingDeleted(k) \/ BeingDeleted(l) \/ rows[epoch][k] = NoRow

\* The fourth layer.
Distinct == NoDuplicates /\ \A s \in Sessions : InsertOK(s)

\* The second and, for orderly clients, the third layer.
Linking == Guarded /\ (Orderly(client) => Linked)

\* Such clients are orderly.
LEMMA InsertsAreOrderly ==
  ASSUME client.mysql, OnlyInsertsAndDeletes
  PROVE  Orderly(client)
BY DEF OnlyInsertsAndDeletes, Orderly, PointKinds

\* The steps such sessions take.
LEMMA InsertSteps ==
  ASSUME Linking, client.mysql, OnlyInsertsAndDeletes, NEW s \in Sessions, Step(s)
  PROVE  /\ \/ \E st \in {"Insert", "Delete"} : run[s].stmt.kind = st
            \/ At(s, "idle")
         /\ \/ \E st \in Statements : Plan(s, st)
            \/ Lock(s) \/ Finish(s) \/ StartInsert(s) \/ StartPointWrite(s) \/ ReadOldRow(s)
            \/ ValidateIndexEntries(s) \/ StoreTable(s) \/ ReadDeletedRow(s)
            \/ DeleteIndexEntries(s, "unlink", "put")
            \/ DeleteIndexEntries(s, "dropunlink", "droprow")
            \/ PutRow(s) \/ DropRow(s) \/ WriteIndexEntries(s)
         /\ indexes' = indexes /\ epoch' = epoch /\ client' = client
<1>1. At(s, "idle") \/ run[s].stmt.kind \in {"Insert", "Delete"}
  BY DEF Linking, Guarded, StatementOK, OnlyInsertsAndDeletes
<1>2. RunOK(run[s]) /\ LocalOK(run[s]) /\ Types
  BY InsertsAreOrderly DEF Linking, Guarded, Types, Linked
<1>3. \/ \E st \in Statements : Plan(s, st)
      \/ Lock(s) \/ Finish(s) \/ StartInsert(s) \/ StartPointWrite(s) \/ ReadOldRow(s)
      \/ ValidateIndexEntries(s) \/ StoreTable(s) \/ ReadDeletedRow(s)
      \/ DeleteIndexEntries(s, "unlink", "put")
      \/ DeleteIndexEntries(s, "dropunlink", "droprow")
      \/ PutRow(s) \/ DropRow(s) \/ WriteIndexEntries(s)
  BY <1>1, <1>2 DEF Step, RunOK, StartInsertOnConflict, CreateIndexScan,
     CreateIndexRegister,
     CreateIndexBackfill, DropIndexRecord, DropIndexEntries, BumpEpoch, ClearEntries,
     ClearLegacyEntries, At, InsertKinds
<1>4. StoreTable(s) => epoch' = epoch
  BY <1>1, <1>2 DEF StoreTable, At, LocalOK
<1>5. indexes' = indexes /\ epoch' = epoch
  BY <1>3, <1>4 DEF Plan, Lock, Finish, StartInsert, StartPointWrite, ReadOldRow,
     ValidateIndexEntries, StoreTable, ReadDeletedRow, DeleteIndexEntries, PutRow, DropRow,
     WriteIndexEntries
<1> QED  BY <1>1, <1>2, <1>3, <1>5, DataStep

\* Two INSERTs at work in a table with an index have different values.
LEMMA ValuesApart ==
  ASSUME Linking, client.mysql, Distinct, NEW i \in indexes,
         NEW s \in Sessions, NEW t \in Sessions \ {s}, InWork(s), InWork(t),
         run[s].stmt.kind = "Insert", run[t].stmt.kind = "Insert"
  PROVE  run[s].stmt.val # run[t].stmt.val
<1> DEFINE l == RowLocks(Record(i.name, run[s].stmt.val))
           m == RowLocks(Record(i.name, run[t].stmt.val))
<1>1. l \in run[s].want /\ m \in run[t].want
  BY DEF Distinct, InsertOK, InWork, At
<1>2. run[s].want \subseteq held[s] /\ run[t].want \subseteq held[t]
  BY DEF Linking, Guarded, StatementOK
<1>3. ~LocksConflict(l, m)
  BY <1>1, <1>2 DEF Linking, Guarded, Compatible
<1>4. run[s].stmt.val \in Values /\ run[t].stmt.val \in Values
  BY StatementShape, RankAssumption
  DEF Linking, Guarded, Types, RTypeOK, Runs, RowKinds, InsertKinds
<1>5. i.name \in Indexes
  BY NameAssumption DEF Linking, Guarded, Types, RTypeOK, Index
<1>6. /\ SameObject(l, m)
      /\ Reserves(l, i.name, run[s].stmt.val) /\ Reserves(m, i.name, run[t].stmt.val)
  BY DEF SameObject, Reserves, RowLocks, RowLock, MySqlLock, Record
<1>7. l.kind \in Kinds /\ m.kind \in Kinds
  BY <1>4, <1>5 DEF RowLocks, RowLock, MySqlLock, Record, Kinds, PointTags
<1> HIDE DEF l, m
<1> QED  BY <1>3, <1>4, <1>5, <1>6, <1>7, CompatibleReserve

\* Steps that leave the rows alone and do not end a delete.
LEMMA DistinctQuiet ==
  ASSUME Distinct, NEW s \in Sessions, UNCHANGED <<rows, indexes, epoch>>,
         \A t \in Sessions \ {s} : run'[t] = run[t],
         run[s].pc # "droprow", InsertOK(s)'
  PROVE  Distinct'
<1>1. \A k : BeingDeleted(k) => BeingDeleted(k)'
  BY DEF BeingDeleted, At
<1>2. NoDuplicates'
  BY <1>1 DEF Distinct, NoDuplicates
<1>3. \A t \in Sessions \ {s} : InsertOK(t)'
  BY <1>1 DEF Distinct, InsertOK, At
<1> QED  BY <1>2, <1>3 DEF Distinct

\* validate_index_entries_at under the locks: an INSERT that goes on to put its
\* row has found the value free.
LEMMA ValidatedValue ==
  ASSUME Linking, InsertsOnly, Distinct, NEW s \in Sessions, run[s].pc = "validate",
         ~Taken(run[s].key, run[s].val), NEW k \in Keys \ {run[s].key}
  PROVE  BeingDeleted(k) \/ rows[epoch][k] # run[s].val
<1> DEFINE r == run[s]
<1>1. PICK i \in indexes : i.unique
  BY DEF InsertsOnly
<1>2. /\ RunOK(r) /\ StatementOK(s) /\ InsertOK(s) /\ Linked
      /\ \A t \in Sessions : RunOK(run[t]) /\ StatementOK(t) /\ InsertOK(t) /\
           LocalOK(run[t])
  BY InsertsAreOrderly DEF InsertsOnly, Linking, Guarded, Types, Distinct, Linked
<1>3. \A t \in Sessions : ~At(t, "idle") => run[t].stmt.kind \in {"Insert", "Delete"}
  BY <1>2 DEF InsertsOnly, OnlyInsertsAndDeletes, StatementOK
<1>4. /\ r.val \in Vals /\ r.val = r.stmt.val /\ r.stmt.kind = "Insert" /\ InWork(s)
  BY <1>2, <1>3 DEF RunOK, Writing, At, InWork, InsertOK
<1>5. <<i.id, r.val, k>> \notin entries
  BY <1>1 DEF Taken
<1>6. CASE Matches(i, k)
  BY <1>4, <1>5, <1>6 DEF Matches
<1>7. ASSUME NEW t \in Sessions, Touching(run[t], i, k)
      PROVE  BeingDeleted(k) \/ rows[epoch][k] # r.val
  <2>1. t \in Sessions \ {s}
    BY <1>7 DEF Touching
  <2>2. run[t].pc \in {"put", "link", "droprow"} /\ run[t].key = k
    BY <1>2, <1>3, <1>7 DEF Touching, RunOK, At
  <2>3. CASE run[t].pc = "droprow"
    BY <2>2, <2>3 DEF BeingDeleted, At
  <2>4. CASE run[t].pc = "put"
    BY <1>2, <1>4, <2>2, <2>4, RankAssumption DEF InsertOK
  <2>5. CASE run[t].pc = "link"
    <3>1. run[t].stmt.kind = "Insert" /\ InWork(t) /\ run[t].val = run[t].stmt.val
      BY <1>2, <1>3, <2>5 DEF RunOK, Writing, At, InWork, InsertOK
    <3>2. run[t].stmt.val # r.stmt.val
      BY <1>4, <2>1, <3>1, ValuesApart DEF InsertsOnly
    <3>3. rows[epoch][k] = run[t].val
      BY <1>2, <2>2, <2>5 DEF LocalOK
    <3> QED  BY <1>4, <3>1, <3>2, <3>3
  <2> QED  BY <2>2, <2>3, <2>4, <2>5
<1> QED  BY <1>2, <1>6, <1>7 DEF Linked, AllMatch

\* The put of an INSERT and the delete of a row.
LEMMA DistinctRows ==
  ASSUME Linking, InsertsOnly, Distinct, NEW s \in Sessions, Step(s), PutRow(s) \/
         DropRow(s)
  PROVE  Distinct'
<1> DEFINE r == run[s]
           q == run'[s]
           new == IF PutRow(s) THEN r.val ELSE NoRow
<1>1. /\ run \in [Sessions -> Runs] /\ r \in Runs /\ Types
      /\ rows \in [1..MaxEpoch -> Versions] /\ epoch \in 1..MaxEpoch
      /\ Guarded /\ Orderly(client)
      /\ indexes' = indexes /\ epoch' = epoch
      /\ \A t \in Sessions : RunOK(run[t]) /\ StatementOK(t) /\ InsertOK(t) /\
           LocalOK(run[t])
  BY InsertsAreOrderly, InsertSteps
  DEF InsertsOnly, Linking, Guarded, Types, RTypeOK, Distinct, Linked
<1>2. \A t \in Sessions \ {s} : run'[t] = run[t]
  BY <1>1, OthersStay
<1>3. \A t \in Sessions : ~At(t, "idle") => run[t].stmt.kind \in {"Insert", "Delete"}
  BY <1>1 DEF InsertsOnly, OnlyInsertsAndDeletes, StatementOK
<1>4. /\ r.pc \in Writing \cup Deleting /\ r.key \in Keys /\ r.epoch = epoch
      /\ r.stmt.kind \in {"Insert", "Delete"}
      /\ r.pc = "put" => r.stmt.kind = "Insert" /\ r.val = r.stmt.val /\ InWork(s) /\
           r.val \in Vals
  BY <1>1, <1>3 DEF PutRow, DropRow, At, RunOK, Writing, Deleting, LocalOK, InWork, InsertOK
<1>5. /\ rows' = [rows EXCEPT ![epoch][r.key] = new]
      /\ q.stmt = r.stmt /\ q.key = r.key /\ q.val = r.val /\ q.want = r.want
      /\ \/ r.pc = "put" /\ q.pc = "link" /\ new = r.val
         \/ r.pc = "droprow" /\ q.pc = "done" /\ new = NoRow
  <2>1. CASE PutRow(s)
    <3>1. q = [r EXCEPT !.pc = "link"]
      BY <1>1, <2>1 DEF PutRow, Goto
    <3> QED  BY <1>1, <1>4, <2>1, <3>1 DEF PutRow, At, Runs
  <2>2. CASE ~PutRow(s)
    <3>1. q = [r EXCEPT !.pc = "done"]
      BY <1>1, <1>4, <2>2 DEF DropRow, Goto
    <3> QED  BY <1>1, <1>4, <2>2, <3>1 DEF DropRow, At, Runs
  <2> QED  BY <2>1, <2>2
<1> HIDE DEF new
<1>6. rows'[epoch'][r.key] = new /\ \A k \in Keys \ {r.key} :
        rows'[epoch'][k] = rows[epoch][k]
  BY <1>1, <1>4, <1>5 DEF Versions
<1>7. \A k \in Keys \ {r.key} : BeingDeleted(k) => BeingDeleted(k)'
  BY <1>2 DEF BeingDeleted, At
<1>8. new # NoRow => r.pc = "put" /\ new = r.val
                     /\ \A k \in Keys \ {r.key} : BeingDeleted(k)' \/ rows'[epoch'][k] # new
  BY <1>1, <1>5, <1>6, <1>7 DEF InsertOK
<1>9. NoDuplicates'
  <2> SUFFICES ASSUME NEW k \in Keys, NEW l \in Keys \ {k},
                      rows'[epoch'][k] = rows'[epoch'][l]
               PROVE  BeingDeleted(k)' \/ BeingDeleted(l)' \/ rows'[epoch'][k] = NoRow
    BY DEF NoDuplicates
  <2>1. CASE k = r.key
    BY <1>6, <1>8, <2>1
  <2>2. CASE l = r.key
    BY <1>6, <1>8, <2>2
  <2>3. CASE k # r.key /\ l # r.key
    BY <1>6, <1>7, <2>3 DEF Distinct, NoDuplicates
  <2> QED  BY <2>1, <2>2, <2>3
<1>10. InsertOK(s)'
  BY <1>1, <1>4, <1>5 DEF InsertOK, At, Writing
<1>11. ASSUME NEW t \in Sessions \ {s} PROVE InsertOK(t)'
  <2>1. run[t].pc \in Writing => run[t].key \in Keys \ {r.key}
    BY <1>1, <1>4, RowAlone DEF RunOK
  <2>2. run[t].pc \in {"old", "validate", "unlink", "put"} =>
          rows'[epoch'][run[t].key] = NoRow
    BY <1>1, <1>6, <2>1 DEF InsertOK, Writing
  <2>3. ASSUME run[t].pc = "put", NEW k \in Keys \ {run[t].key}
        PROVE  BeingDeleted(k)' \/ rows'[epoch'][k] # run[t].val
    <3>1. run[t].val \in Vals /\ run[t].stmt.kind = "Insert" /\ InWork(t) /\
            run[t].val = run[t].stmt.val
      BY <1>1, <1>3, <2>3 DEF RunOK, Writing, At, InWork, InsertOK
    <3>2. CASE k # r.key
      BY <1>1, <1>6, <1>7, <2>3, <3>2 DEF InsertOK
    <3>3. CASE k = r.key /\ new = NoRow
      BY <1>6, <3>1, <3>3, RankAssumption
    <3>4. CASE k = r.key /\ new # NoRow
      <4>1. PICK i \in indexes : i.unique
        BY DEF InsertsOnly
      <4>2. r.stmt.val # run[t].stmt.val
        BY <1>4, <1>8, <3>1, <3>4, ValuesApart DEF InsertsOnly
      <4> QED  BY <1>4, <1>6, <1>8, <3>1, <3>4, <4>2
    <3> QED  BY <3>2, <3>3, <3>4
  <2> QED  BY <1>1, <1>2, <2>2, <2>3 DEF InsertOK, At
<1> QED  BY <1>9, <1>10, <1>11 DEF Distinct

\* Every step of such sessions keeps the values of the rows distinct.
LEMMA DistinctStep ==
  ASSUME Linking, InsertsOnly, Distinct, NEW s \in Sessions, Step(s)
  PROVE  Distinct'
<1> DEFINE r == run[s]
           q == run'[s]
<1>1. /\ run \in [Sessions -> Runs] /\ r \in Runs /\ Types
      /\ Guarded /\ Orderly(client)
      /\ indexes' = indexes /\ epoch' = epoch
      /\ RunOK(r) /\ StatementOK(s) /\ InsertOK(s) /\ LocalOK(r)
      /\ At(s, "idle") \/ r.stmt.kind \in {"Insert", "Delete"}
  BY InsertsAreOrderly, InsertSteps
  DEF InsertsOnly, Linking, Guarded, Types, RTypeOK, Distinct, Linked
<1>2. \A t \in Sessions \ {s} : run'[t] = run[t]
  BY <1>1, OthersStay
<1>3. CASE PutRow(s) \/ DropRow(s)
  BY <1>3, DistinctRows
<1>4. ASSUME ~PutRow(s), ~DropRow(s) PROVE rows' = rows /\ r.pc # "droprow"
  BY <1>4, InsertSteps DEF InsertsOnly, Plan, Lock, Finish, StartInsert, StartPointWrite,
     ReadOldRow,
     ValidateIndexEntries, StoreTable, ReadDeletedRow, DeleteIndexEntries,
     WriteIndexEntries, At
<1> DEFINE Same == q.stmt = r.stmt /\ q.want = r.want
<1>5. ASSUME NEW p, Goto(s, p) PROVE Same /\ q.pc = p /\ q.key = r.key /\ q.val = r.val
  BY <1>1, <1>5 DEF Goto, Runs
<1>6. ASSUME ~PutRow(s), ~DropRow(s), Same, ~At(s, "idle"), q.pc \notin Writing
      PROVE  InsertOK(s)'
  BY <1>1, <1>4, <1>6 DEF InsertOK, At, Writing
<1>7. CASE \E st \in Statements : Plan(s, st)
  <2>1. PICK st \in Statements : Plan(s, st)
    BY <1>7
  <2>2. q.stmt = st /\ q.want = PlanLockTargets(st) /\ q.pc = "lock" /\ rows' = rows /\
          r.pc # "droprow"
    BY <1>1, <2>1 DEF Plan, AtRest, At, InsertsOnly
  <2>3. st.kind = "Insert" => \A i \in indexes : RowLocks(Record(i.name, st.val)) \in
          PlanLockTargets(st)
    BY DEF PlanLockTargets, InsertKinds, InsertRowLocks
  <2>4. InsertOK(s)'
    BY <1>1, <2>2, <2>3 DEF InsertOK, At, Writing
  <2> QED  BY <1>1, <1>2, <2>2, <2>4, DistinctQuiet
<1>8. CASE Finish(s)
  <2>1. q.pc = "idle" /\ rows' = rows /\ r.pc # "droprow"
    BY <1>1, <1>8 DEF Finish, AtRest, At
  <2>2. InsertOK(s)'
    BY <2>1 DEF InsertOK, At, Writing
  <2> QED  BY <1>1, <1>2, <2>1, <2>2, DistinctQuiet
<1>9. CASE Lock(s)
  <2>1. Same /\ ~At(s, "idle") /\ q.pc \in {"start", "done"} /\ rows' = rows /\
          r.pc = "lock"
    BY <1>5, <1>9 DEF Lock, At
  <2>2. InsertOK(s)'
    BY <1>6, <2>1 DEF PutRow, DropRow, At, Writing
  <2> QED  BY <1>1, <1>2, <2>1, <2>2, DistinctQuiet
<1>10. CASE StartInsert(s)
  <2>1. r.pc = "start" /\ rows' = rows /\ r.stmt.kind = "Insert"
    BY <1>10 DEF StartInsert, At
  <2>2. CASE Goto(s, "done")
    <3>1. InsertOK(s)'
      BY <1>5, <1>6, <2>1, <2>2 DEF PutRow, DropRow, At, Writing
    <3> QED  BY <1>1, <1>2, <2>1, <3>1, DistinctQuiet
  <2>3. CASE ~Goto(s, "done")
    <3>1. WriteRow(s, r.stmt.key, r.stmt.val) /\ Row(s, r.stmt.key) = NoRow
      BY <1>10, <2>3 DEF StartInsert
    <3>2. Same /\ q.pc = "old" /\ q.key = r.stmt.key /\ q.val = r.stmt.val
      BY <1>1, <3>1 DEF WriteRow, Runs
    <3>3. rows[epoch][r.stmt.key] = NoRow
      BY <1>1, <2>1, <3>1 DEF Row, LocalOK
    <3>4. InsertOK(s)'
      BY <1>1, <2>1, <3>2, <3>3 DEF InsertOK, At, Writing
    <3> QED  BY <1>1, <1>2, <2>1, <3>4, DistinctQuiet
  <2> QED  BY <2>2, <2>3
<1>11. CASE StartPointWrite(s)
  <2>1. r.pc = "start" /\ rows' = rows /\ r.stmt.kind = "Delete"
    BY <1>1, <1>11 DEF StartPointWrite, At
  <2>2. Goto(s, "done") \/ DeleteRow(s, r.stmt.key, NoRow)
    BY <1>11, <2>1 DEF StartPointWrite
  <2>3. Same /\ q.pc \in {"done", "dropold"}
    BY <1>1, <1>5, <2>2 DEF DeleteRow, Runs
  <2>4. InsertOK(s)'
    BY <1>6, <2>1, <2>3 DEF PutRow, DropRow, At, Writing
  <2> QED  BY <1>1, <1>2, <2>1, <2>4, DistinctQuiet
<1>12. CASE ReadOldRow(s)
  <2>1. r.pc = "old" /\ rows' = rows
    BY <1>12 DEF ReadOldRow, At
  <2>2. Same /\ q.pc = "validate" /\ q.key = r.key /\ q.val = r.val
    BY <1>1, <1>12 DEF ReadOldRow, Runs
  <2>3. InsertOK(s)'
    BY <1>1, <2>1, <2>2 DEF InsertOK, At, Writing
  <2> QED  BY <1>1, <1>2, <2>1, <2>3, DistinctQuiet
<1>13. CASE ValidateIndexEntries(s)
  <2>1. r.pc = "validate" /\ rows' = rows /\ r.old = NoRow
    BY <1>1, <1>13 DEF ValidateIndexEntries, At, LocalOK, InsertOK
  <2>2. CASE Taken(r.key, r.val)
    <3>1. Goto(s, "done")
      BY <1>13, <2>2 DEF ValidateIndexEntries
    <3>2. InsertOK(s)'
      BY <1>5, <1>6, <2>1, <3>1 DEF PutRow, DropRow, At, Writing
    <3> QED  BY <1>1, <1>2, <2>1, <3>2, DistinctQuiet
  <2>3. CASE ~Taken(r.key, r.val)
    <3>1. Goto(s, "put")
      BY <1>13, <2>1, <2>3 DEF ValidateIndexEntries
    <3>2. Same /\ q.pc = "put" /\ q.key = r.key /\ q.val = r.val
      BY <1>5, <3>1
    <3>3. \A k \in Keys \ {r.key} : BeingDeleted(k) \/ rows[epoch][k] # r.val
      BY <2>1, <2>3, ValidatedValue
    <3>4. \A k : BeingDeleted(k) => BeingDeleted(k)'
      BY <1>2, <2>1 DEF BeingDeleted, At
    <3>5. InsertOK(s)'
      BY <1>1, <2>1, <3>2, <3>3, <3>4 DEF InsertOK, At, Writing
    <3> QED  BY <1>1, <1>2, <2>1, <3>5, DistinctQuiet
  <2> QED  BY <2>2, <2>3
<1>14. CASE DeleteIndexEntries(s, "unlink", "put")
  BY <1>1, <1>14 DEF DeleteIndexEntries, At, LocalOK, InsertOK
<1>15. CASE DeleteIndexEntries(s, "dropunlink", "droprow")
  <2>1. r.pc = "dropunlink" /\ rows' = rows /\ Same /\ q.pc = "droprow"
    BY <1>5, <1>15 DEF DeleteIndexEntries, At
  <2>2. InsertOK(s)'
    BY <1>6, <2>1 DEF PutRow, DropRow, At, Writing
  <2> QED  BY <1>1, <1>2, <2>1, <2>2, DistinctQuiet
<1>16. CASE ReadDeletedRow(s)
  <2>1. r.pc = "dropold" /\ rows' = rows /\ Same /\ q.pc \in {"dropunlink", "droprow"}
    BY <1>1, <1>16 DEF ReadDeletedRow, At, Runs
  <2>2. InsertOK(s)'
    BY <1>6, <2>1 DEF PutRow, DropRow, At, Writing
  <2> QED  BY <1>1, <1>2, <2>1, <2>2, DistinctQuiet
<1>17. CASE WriteIndexEntries(s)
  <2>1. r.pc = "link" /\ rows' = rows /\ Same /\ q.pc \in {"done", "store"}
    BY <1>5, <1>17 DEF WriteIndexEntries, At
  <2>2. InsertOK(s)'
    BY <1>6, <2>1 DEF PutRow, DropRow, At, Writing
  <2> QED  BY <1>1, <1>2, <2>1, <2>2, DistinctQuiet
<1>18. CASE StoreTable(s)
  <2>1. r.pc = "store" /\ rows' = rows /\ Same /\ q.pc = "done"
    BY <1>5, <1>18 DEF StoreTable, At
  <2>2. InsertOK(s)'
    BY <1>6, <2>1 DEF PutRow, DropRow, At, Writing
  <2> QED  BY <1>1, <1>2, <2>1, <2>2, DistinctQuiet
<1> QED
  BY <1>3, <1>7, <1>8, <1>9, <1>10, <1>11, <1>12, <1>13, <1>14, <1>15, <1>16, <1>17, <1>18,
     InsertSteps DEF InsertsOnly

\* INSERTs and DELETEs of any number of MySQL sessions never give two rows one
\* value of a unique index: the index record locks of insert_row_locks_at cover
\* the time between validate_index_entries_at and the put.
THEOREM UniqueUnderInserts == Spec => []InsertsNeverDuplicate
<1>1. Init => Linking /\ (InsertsOnly => Distinct)
  <2> SUFFICES ASSUME Init PROVE Linking /\ (InsertsOnly => Distinct)
    OBVIOUS
  <2>1. \A s \in Sessions : run[s].pc = "idle"
    BY DEF Init, AtRest
  <2>2. \A k \in Keys : rows[epoch][k] = NoRow
    BY BoundAssumption DEF Init, Empty
  <2> QED  BY <2>1, <2>2, GuardedStart, LinkedStart
           DEF Linking, Distinct, NoDuplicates, InsertOK, At, Writing
<1>2. ASSUME Linking, InsertsOnly => Distinct, [Next]_vars
      PROVE  Linking' /\ (InsertsOnly' => Distinct')
  <2>1. CASE UNCHANGED vars
    BY <1>2, <2>1 DEF vars, Linking, Guarded, Types, RTypeOK, Unregistered, Compatible,
       StatementOK,
       At, InWork, Linked, IdsOK, LaterEmpty, AllMatch, Matches, Touching, LocalOK,
       NoEntries,
       InsertsOnly, OnlyInsertsAndDeletes, Distinct, NoDuplicates, InsertOK, BeingDeleted
  <2>2. ASSUME NEW s \in Sessions, Step(s)
        PROVE  Linking' /\ (InsertsOnly' => Distinct')
    <3>1. Guarded' /\ client' = client
      BY <1>2, <2>2, TypesStep, GuardedStep, DataStep DEF Linking, Guarded
    <3>2. Linking'
      BY <1>2, <3>1, LinkedStep DEF Linking
    <3>3. ASSUME InsertsOnly' PROVE Distinct'
      <4>1. client.mysql /\ OnlyInsertsAndDeletes
        BY <3>1, <3>3 DEF InsertsOnly, OnlyInsertsAndDeletes
      <4>2. indexes' = indexes
        BY <1>2, <2>2, <4>1, InsertSteps
      <4>3. InsertsOnly
        BY <3>3, <4>1, <4>2 DEF InsertsOnly
      <4> QED  BY <1>2, <2>2, <4>3, DistinctStep
    <3> QED  BY <3>2, <3>3
  <2> QED  BY <1>2, <2>1, <2>2 DEF Next, Step
<1>3. (InsertsOnly => Distinct) => InsertsNeverDuplicate
  BY DEF InsertsOnly, Distinct, NoDuplicates, InsertsNeverDuplicate, HasDuplicates
<1> QED  BY <1>1, <1>2, <1>3, PTL DEF Spec
=============================================================================
