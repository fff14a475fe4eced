--------------------------- MODULE MCLockManager ---------------------------
(***************************************************************************)
(* Small instances of LockManager: one database with one schema and one    *)
(* table, keys 1..3 (text ranks), and the lock sets of a few statements.   *)
(***************************************************************************)
EXTENDS LockManager, TLC

MCValues == 1..3
Row(kind) == RowLock("db", "public", "t", kind)
Shared    == Row(MetadataRead)

\* SELECT ... WHERE id = k FOR UPDATE, UPDATE ... WHERE id = k
Point(k)    == {Row(Record(Clustered, k)), Shared}
\* ... WHERE id >= lo AND id < hi
Range(lo, hi) == {Row(NextKey(Clustered, lo, hi)), Shared}
\* INSERT of row k
Insert(k)   == {Row(InsertIntention(Clustered, k)), Row(Record(Clustered, k)), Shared}
\* ALTER TABLE t
Alter       == {StatementLock("db", "public", "t", MetadataWrite)}
\* DROP SCHEMA public
DropSchema  == {SchemaLock("db", "public")}

Statements == {Insert(2), Range(1, 3), Alter}
AllStatements == Statements \cup {Point(1), DropSchema}
Updates    == {Point(1), Point(2)}

Symmetry == Permutations(Sessions)
=============================================================================
