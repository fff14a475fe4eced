---------------------------- MODULE LockConflict ----------------------------
(***************************************************************************)
(* The lock objects of the gateway's MySQL mode and the compatibility      *)
(* relation between them (core/server/mysql_locks.rs).                     *)
(*                                                                         *)
(* A lock names an object by its scope, database, schema and object name,  *)
(* and says with its kind what part of the object it locks.  The program   *)
(* has one set of kinds for the rows of a table (Record, Gap, ...) and a   *)
(* second one for the entries of a secondary index (IndexRecord, IndexGap, *)
(* ...) whose conflicts are the same with the index name compared first.   *)
(* Here a kind carries the index it is about, Clustered for the rows, so   *)
(* that one set of tags serves both.                                       *)
(*                                                                         *)
(* Values are the Debug texts the program compares; only their order       *)
(* matters, so a value is its rank in that order.                          *)
(***************************************************************************)
EXTENDS Integers, FiniteSets

CONSTANTS Values,      \* ranks of the index values, in text order
          Indexes,     \* the secondary indexes, and the table itself
          Clustered,   \* the "index" of row locks: the table itself
          NoBound      \* Option::None as a range bound

ASSUME ValueAssumption == Values \subseteq Int /\ NoBound \notin Values
ASSUME IndexAssumption == Clustered \in Indexes

Scopes    == {"Database", "Schema", "Table", "Index", "View", "Sequence"}

PointTags == {"Record", "InsertIntention"}
RangeTags == {"Gap", "NextKey"}

(***************************************************************************)
(* Kinds, as the program's enum constructors.                              *)
(***************************************************************************)
MetadataRead        == [tag |-> "MetadataRead"]
MetadataWrite       == [tag |-> "MetadataWrite"]
TableKind           == [tag |-> "Table"]
Record(i, v)        == [tag |-> "Record", index |-> i, value |-> v]
InsertIntention(i, v) == [tag |-> "InsertIntention", index |-> i, value |-> v]
Gap(i, lo, hi)      == [tag |-> "Gap", index |-> i, lower |-> lo, upper |-> hi]
NextKey(i, lo, hi)  == [tag |-> "NextKey", index |-> i, lower |-> lo, upper |-> hi]

Bounds == Values \cup {NoBound}

Kinds ==
  {MetadataRead, MetadataWrite, TableKind}
    \cup [tag : PointTags, index : Indexes, value : Values]
    \cup [tag : RangeTags, index : Indexes, lower : Bounds, upper : Bounds]

(***************************************************************************)
(* mysql_range_contains_value: ranges are half open, a missing bound is    *)
(* unbounded.                                                              *)
(***************************************************************************)
RangeContains(r, v) ==
  /\ r.lower = NoBound \/ v >= r.lower
  /\ r.upper = NoBound \/ v < r.upper

EndsBefore(r, q) ==
  r.upper # NoBound /\ q.lower # NoBound /\ r.upper <= q.lower

RangesOverlap(r, q) == ~EndsBefore(r, q) /\ ~EndsBefore(q, r)

(***************************************************************************)
(* mysql_object_scopes_overlap: a database lock covers its database, a     *)
(* schema lock its schema; other objects overlap only with themselves.     *)
(***************************************************************************)
ScopesOverlap(a, b) ==
  /\ a.database = b.database
  /\ \/ "Database" \in {a.scope, b.scope}
     \/ /\ a.schema = b.schema
        /\ \/ "Schema" \in {a.scope, b.scope}
           \/ a.scope = b.scope /\ a.object = b.object

PointInRange(p, r) ==
  p.tag \in PointTags /\ r.tag \in RangeTags /\ p.index = r.index
    /\ RangeContains(r, p.value)

\* Mutant: a point held inside a requested range is not looked for.
EntriesConflict_OneWay(k, q) ==
  \/ k.tag = "Record" /\ q.tag = "Record" /\ k.index = q.index /\ k.value = q.value
  \/ PointInRange(q, k)
  \/ k.tag \in RangeTags /\ q.tag \in RangeTags /\ k.index = q.index
       /\ RangesOverlap(k, q)

\* The arms of mysql_locks_conflict between the kinds that lock rows or index
\* entries.  What no disjunct names (an insert intention against a record or
\* another insert intention) does not conflict.
EntriesConflict(k, q) ==
  \/ k.tag = "Record" /\ q.tag = "Record" /\ k.index = q.index /\ k.value = q.value
  \/ PointInRange(k, q)
  \/ PointInRange(q, k)
  \/ k.tag \in RangeTags /\ q.tag \in RangeTags /\ k.index = q.index
       /\ RangesOverlap(k, q)

KindsConflict(k, q) ==
  IF "MetadataRead" \in {k.tag, q.tag}
  THEN "MetadataWrite" \in {k.tag, q.tag}
  ELSE \/ {k.tag, q.tag} \cap {"MetadataWrite", "Table"} # {}
       \/ EntriesConflict(k, q)

\* mysql_locks_conflict(existing, requested)
LocksConflict(existing, requested) ==
  /\ ScopesOverlap(existing, requested)
  /\ KindsConflict(existing.kind, requested.kind)

(***************************************************************************)
(* The constructors the planner uses.  A lock record of the model has no   *)
(* owner: the lock table is indexed by it.                                 *)
(***************************************************************************)
MySqlLock(scope, duration, db, schema, object, kind) ==
  [scope |-> scope, duration |-> duration, database |-> db, schema |-> schema,
   object |-> object, kind |-> kind]

RowLock(db, schema, table, kind) ==
  MySqlLock("Table", "Transaction", db, schema, table, kind)

StatementLock(db, schema, table, kind) ==
  MySqlLock("Table", "Statement", db, schema, table, kind)

\* mysql_index_lock, mysql_view_lock, mysql_sequence_lock
ObjectLock(scope, db, schema, object) ==
  MySqlLock(scope, "Statement", db, schema, object, MetadataWrite)

SchemaLock(db, schema) ==
  MySqlLock("Schema", "Statement", db, schema, "", MetadataWrite)

(***************************************************************************)
(* What a lock is for, stated without the compatibility matrix: the index  *)
(* entries it reserves for its owner, and the objects a metadata lock      *)
(* keeps others away from.                                                 *)
(***************************************************************************)
Reserves(l, i, v) ==
  \/ l.kind.tag = "Table"
  \/ l.kind.tag = "Record" /\ l.kind.index = i /\ l.kind.value = v
  \/ l.kind.tag \in RangeTags /\ l.kind.index = i /\ RangeContains(l.kind, v)

SameObject(l, m) ==
  l.scope = m.scope /\ l.database = m.database /\ l.schema = m.schema
    /\ l.object = m.object

Within(m, l) ==
  \/ l.scope = "Database" /\ m.database = l.database
  \/ l.scope = "Schema" /\ m.database = l.database /\ m.schema = l.schema
  \/ SameObject(m, l)
=============================================================================
