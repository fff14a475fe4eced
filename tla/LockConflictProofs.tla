------------------------- MODULE LockConflictProofs -------------------------
(***************************************************************************)
(* What the compatibility relation of LockConflict guarantees of two locks *)
(* that do not conflict, for any indexes and values.  The lock manager's   *)
(* and the row and index entries' proofs rest on these lemmas.             *)
(***************************************************************************)
EXTENDS LockConflict, TLAPS

\* mysql_locks_conflict does not depend on which lock is the existing one and
\* which is the requested one, although its arms are written for an ordered
\* pair.  The grant check tests one direction only.
LEMMA ConflictSymmetric ==
  ASSUME NEW l, NEW m, LocksConflict(l, m)
  PROVE  LocksConflict(m, l)
<1>1. ScopesOverlap(m, l)
  BY DEF LocksConflict, ScopesOverlap
<1>2. KindsConflict(l.kind, m.kind)
  BY DEF LocksConflict
<1>3. EntriesConflict(l.kind, m.kind) => EntriesConflict(m.kind, l.kind)
  BY DEF EntriesConflict, RangesOverlap
<1>4. KindsConflict(m.kind, l.kind)
  BY <1>2, <1>3 DEF KindsConflict
<1> QED
  BY <1>1, <1>4 DEF LocksConflict

\* Two half-open ranges with a common value overlap.
LEMMA CommonValueOverlap ==
  ASSUME NEW r, NEW q, NEW v \in Values,
         r.lower \in Bounds, r.upper \in Bounds,
         q.lower \in Bounds, q.upper \in Bounds,
         RangeContains(r, v), RangeContains(q, v)
  PROVE  RangesOverlap(r, q)
<1>1. ASSUME NEW a, NEW b, a.upper \in Bounds, b.lower \in Bounds,
             RangeContains(a, v), RangeContains(b, v)
      PROVE  ~EndsBefore(a, b)
  <2> SUFFICES ASSUME a.upper # NoBound, b.lower # NoBound, a.upper <= b.lower
               PROVE  FALSE
    BY DEF EndsBefore
  <2>1. a.upper \in Int /\ b.lower \in Int /\ v \in Int
    BY <1>1, ValueAssumption DEF Bounds
  <2>2. v < a.upper /\ v >= b.lower
    BY <1>1 DEF RangeContains
  <2> QED
    BY <2>1, <2>2
<1> QED
  BY <1>1 DEF RangesOverlap

\* Locks that do not conflict reserve no common index entry.
LEMMA CompatibleReserve ==
  ASSUME NEW l, NEW m, l.kind \in Kinds, m.kind \in Kinds,
         SameObject(l, m), ~LocksConflict(l, m),
         NEW i \in Indexes, NEW v \in Values,
         Reserves(l, i, v)
  PROVE  ~Reserves(m, i, v)
<1> SUFFICES ASSUME Reserves(m, i, v) PROVE FALSE
  OBVIOUS
<1> DEFINE k == l.kind
           q == m.kind
<1>1. ~KindsConflict(k, q)
  BY DEF LocksConflict, ScopesOverlap, SameObject
<1>2. k.tag \in {"Table", "Record"} \cup RangeTags
  BY DEF Reserves, RangeTags
<1>3. q.tag \in {"Table", "Record"} \cup RangeTags
  BY DEF Reserves, RangeTags
<1>4. k.tag # "Table" /\ q.tag # "Table" /\ ~EntriesConflict(k, q)
  BY <1>1, <1>2, <1>3 DEF KindsConflict, RangeTags
<1>5. k.index = i /\ q.index = i
  BY <1>4 DEF Reserves
<1>6. CASE k.tag = "Record" /\ q.tag = "Record"
  BY <1>4, <1>5, <1>6 DEF Reserves, EntriesConflict, RangeTags
<1>7. CASE k.tag = "Record" /\ q.tag \in RangeTags
  BY <1>4, <1>5, <1>7 DEF Reserves, EntriesConflict, PointInRange, RangeTags, PointTags
<1>8. CASE k.tag \in RangeTags /\ q.tag = "Record"
  BY <1>4, <1>5, <1>8 DEF Reserves, EntriesConflict, PointInRange, RangeTags, PointTags
<1>9. CASE k.tag \in RangeTags /\ q.tag \in RangeTags
  <2>1. RangeContains(k, v) /\ RangeContains(q, v)
    BY <1>9 DEF Reserves, RangeTags
  <2>2. k \in [tag : RangeTags, index : Indexes, lower : Bounds, upper : Bounds]
    BY <1>9 DEF Kinds, RangeTags, PointTags, MetadataRead, MetadataWrite, TableKind
  <2>3. q \in [tag : RangeTags, index : Indexes, lower : Bounds, upper : Bounds]
    BY <1>9 DEF Kinds, RangeTags, PointTags, MetadataRead, MetadataWrite, TableKind
  <2>4. RangesOverlap(k, q)
    BY <2>1, <2>2, <2>3, CommonValueOverlap
  <2> QED
    BY <1>4, <1>5, <1>9, <2>4 DEF EntriesConflict
<1> QED
  BY <1>2, <1>3, <1>4, <1>6, <1>7, <1>8, <1>9

\* A lock compatible with a metadata write is not on the locked object.
LEMMA CompatibleMetadata ==
  ASSUME NEW l, NEW m, ~LocksConflict(l, m), l.kind.tag = "MetadataWrite"
  PROVE  ~Within(m, l)
<1>1. KindsConflict(l.kind, m.kind)
  BY DEF KindsConflict
<1>2. Within(m, l) => ScopesOverlap(l, m)
  BY DEF Within, ScopesOverlap, SameObject
<1> QED
  BY <1>1, <1>2 DEF LocksConflict
=============================================================================
