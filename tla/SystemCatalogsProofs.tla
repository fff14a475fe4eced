------------------------ MODULE SystemCatalogsProofs ------------------------
(***************************************************************************)
(* Why listing the indexes of a table does not fail beside other DDL: a    *)
(* key under a table leads to a payload from the moment it is put until an *)
(* index is dropped, and the ids a listing has scanned are such keys.      *)
(*                                                                         *)
(* And why the rows registered refer to one row each while DDL only drops: *)
(* a row of a system table comes from a table, and indexes listed for it,  *)
(* whose rows the system tables read before have too.  What counts as a    *)
(* table is what a listing would show (View): the two scans of a listing   *)
(* find no less than is visible at the second, and no more than was at the *)
(* first.                                                                  *)
(***************************************************************************)
EXTENDS SystemCatalogs, TLAPS, FiniteSetTheorems

HasPayload(id) == \E x \in described.indexes : x.id = id

\* A catalog before the registration: every key under a table has its payload.
Linked(catalog) ==
  /\ \E schemas, tables, legacy, views, indexes, byTable :
       catalog = [schemas |-> schemas, tables |-> tables, legacy |-> legacy, views |-> views,
                  indexes |-> indexes, byTable |-> byTable]
  /\ \A p \in catalog.byTable : \E x \in catalog.indexes : x.id = p[2]

Shapes ==
  /\ \E schemas, tables, legacy, views, indexes, byTable :
       described = [schemas |-> schemas, tables |-> tables, legacy |-> legacy,
                    views |-> views, indexes |-> indexes, byTable |-> byTable]
  /\ \E at, step, tables, table, ids :
       registering = [at |-> at, step |-> step, tables |-> tables, table |-> table, ids |-> ids]

\* Until an index is dropped: keys and scanned ids have payloads, no listing has failed.
KeysLeadToPayloads ==
  ~ddl.dropped =>
    /\ \A p \in described.byTable : HasPayload(p[2])
    /\ \A id \in registering.ids : HasPayload(id)
    /\ registering.step # "failed"

IndInv == Shapes /\ KeysLeadToPayloads

LEMMA InitLinked ==
  ASSUME NEW c, Linked(c), SystemInit(c)
  PROVE  IndInv
<1>1. Shapes
  BY DEF Linked, SystemInit, Shapes, AtList
<1>2. /\ registering.ids = {}
      /\ registering.step = IF 0 = Len(Order) THEN "done" ELSE "list"
  BY DEF SystemInit, AtList
<1>3. registering.step # "failed"
  BY <1>2
<1>4. \A p \in described.byTable : HasPayload(p[2])
  BY DEF Linked, SystemInit, HasPayload
<1> QED
  BY <1>1, <1>2, <1>3, <1>4 DEF IndInv, KeysLeadToPayloads

\* The steps of the registration: only Load can fail.
LEMMA RegistrationLinked ==
  ASSUME IndInv,
         \/ List \/ ListLegacy \/ ListViews \/ Load \/ Register
         \/ \E t \in registering.tables : Visit(t)
  PROVE  IndInv'
<1> USE DEF IndInv
<1>1. PICK at, step, tables, table, ids :
        registering = [at |-> at, step |-> step, tables |-> tables, table |-> table,
          ids |-> ids]
  BY DEF Shapes
<1>2. CASE List
  <2>1. \/ registering' = AtList(registering.at + 1)
        \/ registering' = [registering EXCEPT !.tables = described.tables, !.step = "legacy"]
    BY <1>2 DEF List
  <2>2. \E a, s, ts, t, i :
          registering' = [at |-> a, step |-> s, tables |-> ts, table |-> t, ids |-> i]
    <3>1. CASE registering' = AtList(registering.at + 1)
      BY <3>1 DEF AtList
    <3>2. CASE registering' = [registering EXCEPT !.tables = described.tables, !.step = "legacy"]
      BY <1>1, <3>2
    <3> QED
      BY <2>1, <3>1, <3>2
  <2>3. Shapes'
    BY <1>2, <2>2 DEF List, Shapes
  <2>4. registering'.ids \subseteq registering.ids /\ registering'.step # "failed"
    <3>1. CASE registering' = AtList(registering.at + 1)
      BY <3>1 DEF AtList
    <3>2. CASE registering' = [registering EXCEPT !.tables = described.tables, !.step = "legacy"]
      BY <1>1, <3>2
    <3> QED
      BY <2>1, <3>1, <3>2
  <2> QED
    BY <1>2, <2>3, <2>4 DEF List, KeysLeadToPayloads, HasPayload
<1>7. CASE ListLegacy
  <2> DEFINE listed == WithLegacy(registering.tables, described.legacy)
  <2>1. \/ registering' = AtList(registering.at + 1)
        \/ registering' = [registering EXCEPT !.tables = listed, !.step = "views"]
        \/ registering' = [registering EXCEPT !.tables = listed, !.step = "visit"]
    BY <1>7 DEF ListLegacy
  <2> HIDE DEF listed
  <2>2. \E a, s, ts, t, i :
          registering' = [at |-> a, step |-> s, tables |-> ts, table |-> t, ids |-> i]
    <3>1. CASE registering' = AtList(registering.at + 1)
      BY <3>1 DEF AtList
    <3>2. CASE registering' = [registering EXCEPT !.tables = listed, !.step = "views"]
      BY <1>1, <3>2
    <3>3. CASE registering' = [registering EXCEPT !.tables = listed, !.step = "visit"]
      BY <1>1, <3>3
    <3> QED
      BY <2>1, <3>1, <3>2, <3>3
  <2>3. Shapes'
    BY <1>7, <2>2 DEF ListLegacy, Shapes
  <2>4. registering'.ids \subseteq registering.ids /\ registering'.step # "failed"
    <3>1. CASE registering' = AtList(registering.at + 1)
      BY <3>1 DEF AtList
    <3>2. CASE registering' = [registering EXCEPT !.tables = listed, !.step = "views"]
      BY <1>1, <3>2
    <3>3. CASE registering' = [registering EXCEPT !.tables = listed, !.step = "visit"]
      BY <1>1, <3>3
    <3> QED
      BY <2>1, <3>1, <3>2, <3>3
  <2> QED
    BY <1>7, <2>3, <2>4 DEF ListLegacy, KeysLeadToPayloads, HasPayload
<1>3. CASE ListViews
  <2>1. registering' = [registering EXCEPT !.step = "visit"]
    BY <1>3 DEF ListViews
  <2>2. Shapes'
    BY <1>1, <1>3, <2>1 DEF ListViews, Shapes
  <2>3. registering'.ids = registering.ids /\ registering'.step # "failed"
    BY <1>1, <2>1
  <2> QED
    BY <1>3, <2>2, <2>3 DEF ListViews, KeysLeadToPayloads, HasPayload
<1>4. CASE Load
  <2> DEFINE indexes == {x \in described.indexes : x.id \in registering.ids}
             missing == \E i \in registering.ids : \A x \in indexes : x.id # i
  <2>1. ~ddl.dropped => ~missing
    BY DEF KeysLeadToPayloads, HasPayload
  <2>2. missing => registering' = [AtList(registering.at) EXCEPT !.step = "failed"]
    BY <1>4 DEF Load
  <2>3. ~missing =>
          registering' = [registering EXCEPT !.step = "visit", !.table = {}, !.ids = {}]
    BY <1>4 DEF Load
  <2> HIDE DEF missing
  <2>4. Shapes'
    <3>1. missing => \E a, s, ts, t, i :
            registering' = [at |-> a, step |-> s, tables |-> ts, table |-> t, ids |-> i]
      BY <2>2 DEF AtList
    <3>2. ~missing => \E a, s, ts, t, i :
            registering' = [at |-> a, step |-> s, tables |-> ts, table |-> t, ids |-> i]
      BY <1>1, <2>3
    <3> QED
      BY <1>4, <3>1, <3>2 DEF Load, Shapes
  <2>5. ~missing => registering'.ids = {} /\ registering'.step = "visit"
    BY <1>1, <2>3
  <2> QED
    BY <1>4, <2>1, <2>4, <2>5 DEF Load, KeysLeadToPayloads, HasPayload
<1>5. CASE Register
  <2>1. registering' = AtList(registering.at + 1)
    BY <1>5 DEF Register
  <2>2. Shapes'
    BY <1>5, <2>1 DEF Register, Shapes, AtList
  <2>3. registering'.ids = {} /\ registering'.step # "failed"
    BY <2>1 DEF AtList
  <2> QED
    BY <1>5, <2>2, <2>3 DEF Register, KeysLeadToPayloads, HasPayload
<1>6. ASSUME NEW t \in registering.tables, Visit(t)
      PROVE  IndInv'
  <2> DEFINE scanned == {p[2] : p \in {q \in described.byTable : q[1] = t.id}}
  <2>1. registering' = [registering EXCEPT !.step = "load", !.table = {t},
                          !.tables = @ \ {t}, !.ids = scanned]
    BY <1>6 DEF Visit
  <2>2. \A i \in scanned : \E p \in described.byTable : i = p[2]
    OBVIOUS
  <2> HIDE DEF scanned
  <2>3. registering'.ids = scanned /\ registering'.step = "load"
    BY <1>1, <2>1
  <2>4. registering' = [at |-> at, step |-> "load", tables |-> tables \ {t}, table |-> {t},
                        ids |-> scanned]
    BY <1>1, <2>1
  <2>5. Shapes'
    BY <1>6, <2>4 DEF Visit, Shapes
  <2>6. UNCHANGED <<described, ddl>>
    BY <1>6 DEF Visit
  <2>7. ~ddl.dropped => \A i \in scanned : HasPayload(i)
    BY <2>2 DEF KeysLeadToPayloads
  <2>8. KeysLeadToPayloads'
    BY <2>3, <2>6, <2>7 DEF KeysLeadToPayloads, HasPayload
  <2> QED
    BY <2>5, <2>8
<1> QED
  BY <1>2, <1>3, <1>4, <1>5, <1>6, <1>7

\* DDL of other sessions: payloads go only with an index that is dropped, and a key is
\* put only for an index whose payload is there.
LEMMA DdlLinked ==
  ASSUME IndInv, NEW columnLists, Ddl(columnLists)
  PROVE  IndInv'
<1> USE DEF IndInv
<1>1. PICK schemas, tables, legacy, views, indexes, byTable :
        described = [schemas |-> schemas, tables |-> tables, legacy |-> legacy, views |-> views,
                     indexes |-> indexes, byTable |-> byTable]
  BY DEF Shapes
\* What every statement but an index's keeps.
<1>2. ASSUME NEW s, NEW t, NEW l, NEW v,
             described' = [schemas |-> s, tables |-> t, legacy |-> l, views |-> v,
                           indexes |-> indexes, byTable |-> byTable],
             NEW g, NEW d, Changed(g, d)
      PROVE  IndInv'
  <2>1. /\ described'.indexes = described.indexes /\ described'.byTable = described.byTable
        /\ ddl'.dropped = (ddl.dropped \/ d) /\ registering' = registering
    BY <1>1, <1>2 DEF Changed
  <2>2. ~ddl'.dropped => ~ddl.dropped
    BY <2>1
  <2>3. Shapes'
    BY <1>2, <2>1 DEF Shapes
  <2> QED
    BY <2>1, <2>2, <2>3 DEF KeysLeadToPayloads, HasPayload
<1>3. CASE CreateSchema
  BY <1>1, <1>2, <1>3 DEF CreateSchema
<1>4. ASSUME NEW s \in described.schemas, DropSchema(s) \/ CreateView(s)
      PROVE  IndInv'
  BY <1>1, <1>2, <1>4 DEF DropSchema, CreateView
<1>5. ASSUME NEW t, DropTable(t) \/ DropLegacy(t) \/ StoreLegacy(t)
      PROVE  IndInv'
  <2> DEFINE left == [described EXCEPT !.tables = @ \ {t}]
             shown == ~(Visible(left) \subseteq Visible(described))
  <2>1. CASE DropTable(t)
    <3>1. described' = left /\ Changed(shown, FALSE)
      BY <2>1 DEF DropTable
    <3> HIDE DEF shown
    <3> QED
      BY <1>1, <1>2, <3>1
  <2>2. CASE DropLegacy(t)
    BY <1>1, <1>2, <2>2 DEF DropLegacy
  <2>3. CASE StoreLegacy(t)
    <3> DEFINE after == {l \in described.legacy : l.name # t.name} \cup {t}
    <3>1. described' = [described EXCEPT !.legacy = after] /\ Changed(TRUE, FALSE)
      BY <1>1, <2>3 DEF StoreLegacy
    <3> HIDE DEF after
    <3> QED
      BY <1>1, <1>2, <3>1
  <2> QED
    BY <1>5, <2>1, <2>2, <2>3
<1>12. ASSUME NEW t, PutById(t)
       PROVE  IndInv'
  <2> DEFINE after == {u \in described.tables : u.id # t.id} \cup {t}
  <2>1. described' = [described EXCEPT !.tables = after] /\ Changed(TRUE, FALSE)
    BY <1>1, <1>12 DEF PutById
  <2> HIDE DEF after
  <2> QED
    BY <1>1, <1>2, <2>1
<1>6. ASSUME NEW t, NEW name, NEW columns,
             CreateTable(t, name) \/ RenameTable(t, name) \/ ChangeColumns(t, columns)
      PROVE  IndInv'
  BY <1>6, <1>12 DEF CreateTable, RenameTable, ChangeColumns
<1>7. ASSUME NEW v \in described.views, DropView(v)
      PROVE  IndInv'
  BY <1>1, <1>2, <1>7 DEF DropView
<1>8. ASSUME NEW t, NEW columns \in columnLists,
             CreateIndex(t, columns, Len(columns) = 1)
      PROVE  IndInv'
  <2> DEFINE more == {[id |-> FreshId, table |-> t.id, columns |-> columns,
                       unique |-> Len(columns) = 1]}
  <2>1. described' = [described EXCEPT !.indexes = @ \cup more] /\ Changed(TRUE, FALSE)
    BY <1>8 DEF CreateIndex
  <2> HIDE DEF more
  <2>2. described' = [schemas |-> schemas, tables |-> tables, legacy |-> legacy, views |-> views,
                      indexes |-> indexes \cup more, byTable |-> byTable]
    BY <1>1, <2>1
  <2>3. /\ described.indexes \subseteq described'.indexes
        /\ described'.byTable = described.byTable
    BY <1>1, <2>2
  <2>4. (ddl'.dropped = (ddl.dropped \/ FALSE)) /\ registering' = registering
    BY <2>1 DEF Changed
  <2>5. Shapes'
    BY <2>2, <2>4 DEF Shapes
  <2> QED
    BY <2>3, <2>4, <2>5 DEF KeysLeadToPayloads, HasPayload
<1>9. ASSUME NEW x \in described.indexes, LinkIndex(x)
      PROVE  IndInv'
  <2>1. described' = [schemas |-> schemas, tables |-> tables, legacy |-> legacy, views |-> views,
                      indexes |-> indexes, byTable |-> byTable \cup {<<x.table, x.id>>}]
    BY <1>1, <1>9 DEF LinkIndex
  <2>2. /\ described.indexes = described'.indexes
        /\ described'.byTable = described.byTable \cup {<<x.table, x.id>>}
    BY <1>1, <2>1
  <2>3. (ddl'.dropped = (ddl.dropped \/ FALSE)) /\ registering' = registering
    BY <1>9 DEF LinkIndex, Changed
  <2>4. Shapes'
    BY <2>1, <2>3 DEF Shapes
  <2>5. \A p \in described'.byTable : p \in described.byTable \/ p[2] = x.id
    BY <2>2
  <2> QED
    BY <2>2, <2>3, <2>4, <2>5 DEF KeysLeadToPayloads, HasPayload
\* From here on the invariant says nothing more.
<1>10. ASSUME NEW x \in described.indexes, DropIndex(x)
       PROVE  IndInv'
  <2>1. described' = [schemas |-> schemas, tables |-> tables, legacy |-> legacy, views |-> views,
                      indexes |-> indexes \ {x}, byTable |-> byTable]
    BY <1>1, <1>10 DEF DropIndex
  <2>2. ddl'.dropped /\ registering' = registering
    BY <1>10 DEF DropIndex, Changed
  <2> QED
    BY <2>1, <2>2 DEF Shapes, KeysLeadToPayloads
<1>11. ASSUME NEW p \in described.byTable, UnlinkIndex(p)
       PROVE  IndInv'
  <2>1. described' = [schemas |-> schemas, tables |-> tables, legacy |-> legacy, views |-> views,
                      indexes |-> indexes, byTable |-> byTable \ {p}]
    BY <1>1, <1>11 DEF UnlinkIndex
  <2>2. ddl'.dropped /\ registering' = registering
    BY <1>11 DEF UnlinkIndex, Changed
  <2> QED
    BY <2>1, <2>2 DEF Shapes, KeysLeadToPayloads
<1> QED
  BY <1>3, <1>4, <1>5, <1>6, <1>7, <1>8, <1>9, <1>10, <1>11 DEF Ddl

\* list_indexes_for_table reports a missing payload only if an index has been dropped
\* since the registration began, whatever DDL runs beside it: write_index puts the
\* payload before the key, and the keys found at first had theirs.
THEOREM ListingsSucceed ==
  ASSUME NEW CONSTANT catalogs, NEW CONSTANT columnLists,
         \A c \in catalogs : Linked(c)
  PROVE  SystemSpec(catalogs, columnLists) => []ListingsFailOnlyOnDrops
<1>1. (\E c \in catalogs : SystemInit(c)) => IndInv
  BY InitLinked
<1>2. IndInv /\ [SystemNext(columnLists)]_catalogVars => IndInv'
  <2>1. ASSUME IndInv, UNCHANGED catalogVars
        PROVE  IndInv'
    BY <2>1 DEF IndInv, Shapes, KeysLeadToPayloads, HasPayload, catalogVars
  <2> QED
    BY <2>1, RegistrationLinked, DdlLinked DEF SystemNext
<1>3. IndInv => ListingsFailOnlyOnDrops
  BY DEF IndInv, KeysLeadToPayloads, ListingsFailOnlyOnDrops
<1> QED
  BY <1>1, <1>2, <1>3, PTL DEF SystemSpec

-----------------------------------------------------------------------------
(***************************************************************************)
(* Why references between the system tables find one row.  c is the        *)
(* catalog when the registration began, d what is left of it, r the        *)
(* registration and sys the tables registered so far.                      *)
(***************************************************************************)
Visited == {"pg_class", "pg_attribute", "pg_index", "pg_constraint"}
PlaceOf(m) ==
  CASE m = "pg_class" -> 2 [] m = "pg_attribute" -> 3 [] m = "pg_index" -> 4
    [] m = "pg_constraint" -> 5

IsCatalog(d) ==
  d = [schemas |-> d.schemas, tables |-> d.tables, views |-> d.views,
       indexes |-> d.indexes, byTable |-> d.byTable]

\* The ids whose oids stay within the range of their kind.
SmallIds == 1..99999

\* A catalog in which ids are unique and below the distance of the oid ranges, an index
\* is listed under its own table and every schema is there.
WellFormed(c) ==
  /\ IsCatalog(c)
  /\ \A t \in c.tables \cup c.indexes \cup c.views : t.id \in SmallIds
  /\ \A t, u \in c.tables : t.id = u.id => t = u
  /\ \A x, y \in c.indexes : x.id = y.id => x = y
  /\ \A p \in c.byTable : p = <<p[1], p[2]>>
  /\ \A x \in c.indexes, i \in Nat : <<i, x.id>> \in c.byTable => i = x.table
  /\ \A t \in c.tables \cup c.views : t.schema \in c.schemas

\* A catalog, and what listings show of it.
IsWhole(d) ==
  d = [schemas |-> d.schemas, tables |-> d.tables, legacy |-> d.legacy, views |-> d.views,
       indexes |-> d.indexes, byTable |-> d.byTable]
View(d) ==
  [schemas |-> d.schemas, tables |-> Visible(d), views |-> d.views,
   indexes |-> d.indexes, byTable |-> d.byTable]

Links(d, t) == {x \in d.indexes : <<t.id, x.id>> \in d.byTable}
Known(sys, m, t, xs) == RowsOf(m, t, xs) \subseteq sys[m]
TypeRow(t) == [oid |-> TableRowTypeOid(t), namespace |-> t.schema, relid |-> t.id]
Homed(sys, t) == t.schema \in sys["pg_namespace"] /\ TypeRow(t) \in sys["pg_type"]

\* Where a row of system table m comes from: a table and indexes whose rows the system
\* tables before m have as well.
Comes(sys, c, m, row, t, xs) ==
  /\ t \in c.tables /\ xs \subseteq Links(c, t)
  /\ row \in RowsOf(m, t, xs) /\ Homed(sys, t)
  /\ \A k \in Visited : PlaceOf(k) <= PlaceOf(m) => Known(sys, k, t, xs)

FromView(sys, c, row) ==
  \E v \in c.views : row \in ViewRows({v}) /\ v.schema \in sys["pg_namespace"]

Derived(sys, c, m, row) ==
  \/ m = "pg_class" /\ FromView(sys, c, row)
  \/ \E t, xs : Comes(sys, c, m, row, t, xs)

Listed(d, r) == d.tables \cup r.tables \cup r.table
Loaded(d, r) == {x \in d.indexes : x.id \in r.ids}

Shrunk(c, d) ==
  /\ IsCatalog(d)
  /\ d.schemas \subseteq c.schemas /\ d.tables \subseteq c.tables /\ d.views \subseteq c.views
  /\ d.indexes \subseteq c.indexes /\ d.byTable \subseteq c.byTable
  /\ \A t \in d.tables \cup d.views : t.schema \in d.schemas

Control(c, d, r) ==
  /\ r = [at |-> r.at, step |-> r.step, tables |-> r.tables, table |-> r.table, ids |-> r.ids]
  /\ r.at \in 0..6
  /\ r.step \in {"list", "legacy", "views", "visit", "load", "done", "failed"}
  /\ r.step \in {"list", "legacy", "views", "visit", "load"} => r.at # 6
  /\ r.step = "legacy" => r.at \in 1..5
  /\ r.step = "views" => r.at = 2 /\ d.tables \subseteq r.tables
  /\ r.step \in {"visit", "load"} => r.at \in 2..5
  /\ r.step = "done" => r.at = 6
  /\ r.tables \subseteq c.tables /\ r.table \subseteq c.tables
  /\ r.step # "load" => r.table = {}
  /\ r.step = "load" => \A t \in r.table : /\ Links(d, t) \subseteq Loaded(d, r)
                                           /\ Loaded(d, r) \subseteq Links(c, t)

Provenance(c, r, sys) ==
  /\ DOMAIN sys = SystemTables
  /\ \A m \in Visited : /\ PlaceOf(m) > r.at => sys[m] = {}
                        /\ \A row \in sys[m] : Derived(sys, c, m, row)

Homes(c, d, r, sys) ==
  /\ r.at >= 1 => /\ PgCatalogNamespace \in sys["pg_namespace"]
                  /\ \A t \in Listed(d, r) \cup d.views : t.schema \in sys["pg_namespace"]
  /\ r.at >= 2 =>
       /\ \A t \in Listed(d, r) : TypeRow(t) \in sys["pg_type"]
       /\ \A row \in sys["pg_type"] :
            \/ row.relid = 0 /\ row.namespace = PgCatalogNamespace
            \/ \E t \in c.tables : row = TypeRow(t) /\ t.schema \in sys["pg_namespace"]

\* Whatever is left to read has been read for the tables before.
Covers(d, r, sys) ==
  \A m \in Visited :
    /\ PlaceOf(m) < r.at => \A t \in Listed(d, r) : Known(sys, m, t, Links(d, t))
    /\ PlaceOf(m) < r.at /\ r.step = "load" =>
         \A t \in r.table : Known(sys, m, t, Loaded(d, r))
    /\ PlaceOf(m) = r.at /\ r.step \in {"visit", "load"} =>
         \A t \in d.tables \ (r.tables \cup r.table) : Known(sys, m, t, Links(d, t))

Sound(c, d, r, sys) ==
  Shrunk(c, d) /\ Control(c, d, r) /\ Provenance(c, r, sys) /\ Homes(c, d, r, sys)
    /\ Covers(d, r, sys)

\* Between the scans of a listing: whatever is visible was found by the first, or will
\* be by the second.
Scanned(d, r) ==
  r.step = "legacy" => /\ d.tables \subseteq r.tables
                       /\ Visible(d) \subseteq WithLegacy(r.tables, d.legacy)

JoinInv(c) ==
  /\ ddl.changes \in Nat
  /\ ~ddl.grew => /\ IsWhole(described) /\ Scanned(described, registering)
                  /\ Sound(View(c), View(described), registering, system)
                  /\ ddl.changes = 0 => described = c

LEMMA VisitedPlaces ==
  /\ PlaceOf("pg_class") = 2 /\ PlaceOf("pg_attribute") = 3 /\ PlaceOf("pg_index") = 4
  /\ PlaceOf("pg_constraint") = 5
  BY DEF PlaceOf

LEMMA OrderFacts ==
  /\ Len(Order) = 6
  /\ Order[1] = "pg_namespace" /\ Order[2] = "pg_type" /\ Order[3] = "pg_class"
  /\ Order[4] = "pg_attribute" /\ Order[5] = "pg_index" /\ Order[6] = "pg_constraint"
  /\ SystemTables = {"pg_namespace", "pg_type"} \cup Visited
<1>1. /\ Len(Order) = 6 /\ DOMAIN Order = 1..6
      /\ Order[1] = "pg_namespace" /\ Order[2] = "pg_type" /\ Order[3] = "pg_class"
      /\ Order[4] = "pg_attribute" /\ Order[5] = "pg_index" /\ Order[6] = "pg_constraint"
  BY DEF Order
<1>2. SystemTables = {Order[i] : i \in 1..6}
  BY <1>1 DEF SystemTables, Range
<1>3. \A i \in 1..6 : i = 1 \/ i = 2 \/ i = 3 \/ i = 4 \/ i = 5 \/ i = 6
  OBVIOUS
<1>4. \A n : n \in {Order[i] : i \in 1..6} <=> n \in {"pg_namespace", "pg_type"} \cup Visited
  BY <1>1, <1>3 DEF Visited
<1> QED
  BY <1>1, <1>2, <1>4

\* The rows of fewer indexes are fewer.
LEMMA RowsMonotone ==
  ASSUME NEW m \in Visited, NEW t, NEW xs, NEW ys, xs \subseteq ys
  PROVE  RowsOf(m, t, xs) \subseteq RowsOf(m, t, ys)
<1>1. CASE m = "pg_class"
  <2>1. ClassRows(t, xs) \subseteq ClassRows(t, ys)
    BY DEF ClassRows
  <2> QED
    BY <1>1, <2>1 DEF RowsOf
<1>2. CASE m = "pg_attribute"
  <2>1. AttributeRows(t, xs) \subseteq AttributeRows(t, ys)
    BY DEF AttributeRows
  <2> QED
    BY <1>2, <2>1 DEF RowsOf
<1>3. CASE m = "pg_index"
  <2>1. IndexRows(t, xs) \subseteq IndexRows(t, ys)
    BY DEF IndexRows
  <2> QED
    BY <1>3, <2>1 DEF RowsOf
<1>4. CASE m = "pg_constraint"
  <2>1. ConstraintRows(t, xs) \subseteq ConstraintRows(t, ys)
    BY DEF ConstraintRows
  <2> QED
    BY <1>4, <2>1 DEF RowsOf
<1> QED
  BY <1>1, <1>2, <1>3, <1>4 DEF Visited

LEMMA KnownMonotone ==
  ASSUME NEW sys, NEW m \in Visited, NEW t, NEW xs, NEW ys, xs \subseteq ys,
         Known(sys, m, t, ys)
  PROVE  Known(sys, m, t, xs)
  BY RowsMonotone DEF Known

\* DDL that only drops.
LEMMA ShrinkSound ==
  ASSUME NEW c, NEW d, NEW r, NEW sys, Sound(c, d, r, sys), NEW e, IsCatalog(e),
         e.schemas \subseteq d.schemas, e.tables \subseteq d.tables, e.views \subseteq d.views,
         e.indexes \subseteq d.indexes, e.byTable \subseteq d.byTable,
         \A t \in e.tables \cup e.views : t.schema \in e.schemas
  PROVE  Sound(c, e, r, sys)
<1>1. Shrunk(c, e)
  BY DEF Sound, Shrunk
<1>2. \A t : Links(e, t) \subseteq Links(d, t)
  BY DEF Links
<1>3. Loaded(e, r) \subseteq Loaded(d, r)
  BY DEF Loaded
<1>4. Listed(e, r) \subseteq Listed(d, r)
  BY DEF Listed
<1>5. Control(c, e, r)
  <2>1. \A t : Links(d, t) \subseteq Loaded(d, r) => Links(e, t) \subseteq Loaded(e, r)
    BY DEF Links, Loaded
  <2> QED
    BY <1>3, <2>1 DEF Sound, Control
<1>6. Homes(c, e, r, sys)
  BY <1>4 DEF Sound, Homes
<1>7. Covers(e, r, sys)
  <2> SUFFICES ASSUME NEW m \in Visited
               PROVE  /\ PlaceOf(m) < r.at =>
                           \A t \in Listed(e, r) : Known(sys, m, t, Links(e, t))
                      /\ PlaceOf(m) < r.at /\ r.step = "load" =>
                           \A t \in r.table : Known(sys, m, t, Loaded(e, r))
                      /\ PlaceOf(m) = r.at /\ r.step \in {"visit", "load"} =>
                           \A t \in e.tables \ (r.tables \cup r.table) :
                             Known(sys, m, t, Links(e, t))
    BY DEF Covers
  <2>1. \A t : Known(sys, m, t, Links(d, t)) => Known(sys, m, t, Links(e, t))
    BY <1>2, KnownMonotone
  <2>2. \A t : Known(sys, m, t, Loaded(d, r)) => Known(sys, m, t, Loaded(e, r))
    BY <1>3, KnownMonotone
  <2> QED
    BY <1>4, <2>1, <2>2 DEF Sound, Covers
<1> QED
  BY <1>1, <1>5, <1>6, <1>7 DEF Sound

LEMMA AtListFacts ==
  ASSUME NEW n, NEW r, r = AtList(n)
  PROVE  /\ r = [at |-> r.at, step |-> r.step, tables |-> r.tables, table |-> r.table,
                 ids |-> r.ids]
         /\ r.at = n /\ r.tables = {} /\ r.table = {} /\ r.ids = {}
         /\ r.step = IF n = 6 THEN "done" ELSE "list"
  BY OrderFacts DEF AtList

\* Nothing registered yet.
LEMMA StartSound ==
  ASSUME NEW c, WellFormed(c), NEW r, r = AtList(0), NEW sys, sys = [n \in SystemTables |-> {}]
  PROVE  Sound(c, c, r, sys)
<1>1. /\ r.at = 0 /\ r.step = "list" /\ r.tables = {} /\ r.table = {}
      /\ r = [at |-> r.at, step |-> r.step, tables |-> r.tables, table |-> r.table,
              ids |-> r.ids]
  BY AtListFacts
<1>2. Shrunk(c, c)
  <2>1. IsCatalog(c) /\ \A t \in c.tables \cup c.views : t.schema \in c.schemas
    BY DEF WellFormed
  <2> QED
    BY <2>1 DEF Shrunk
<1>3. Control(c, c, r)
  BY <1>1 DEF Control
<1>4. Provenance(c, r, sys)
  <2>1. DOMAIN sys = SystemTables /\ \A m \in SystemTables : sys[m] = {}
    OBVIOUS
  <2>2. Visited \subseteq SystemTables
    BY OrderFacts
  <2> QED
    BY <2>1, <2>2 DEF Provenance
<1>5. Homes(c, c, r, sys)
  BY <1>1 DEF Homes
<1>6. \A m \in Visited : PlaceOf(m) \in 2..5
  BY VisitedPlaces DEF Visited
<1>7. Covers(c, r, sys)
  BY <1>1, <1>6 DEF Covers
<1> QED
  BY <1>2, <1>3, <1>4, <1>5, <1>7 DEF Sound

LEMMA NamespaceSound ==
  ASSUME NEW c, NEW d, NEW r, NEW sys, Sound(c, d, r, sys), r.step = "list", r.at = 0,
         NEW s, s = [sys EXCEPT !["pg_namespace"] = NamespaceRows(d.schemas)],
         NEW q, q = AtList(1)
  PROVE  Sound(c, d, q, s)
<1>1. /\ q.at = 1 /\ q.step = "list" /\ q.tables = {} /\ q.table = {}
      /\ q = [at |-> q.at, step |-> q.step, tables |-> q.tables, table |-> q.table,
              ids |-> q.ids]
  BY AtListFacts
<1>2. \A m \in Visited : PlaceOf(m) \in 2..5 /\ m # "pg_namespace"
  BY VisitedPlaces DEF Visited
<1>3. DOMAIN s = SystemTables /\ s["pg_namespace"] = NamespaceRows(d.schemas)
      /\ \A m \in Visited : s[m] = sys[m]
  BY <1>2, OrderFacts DEF Sound, Provenance
<1>4. Shrunk(c, d)
  BY DEF Sound
<1>5. Control(c, d, q)
  BY <1>1 DEF Control
<1>6. Provenance(c, q, s)
  <2>1. \A m \in Visited : sys[m] = {}
    BY <1>2 DEF Sound, Provenance
  <2> QED
    BY <1>3, <2>1 DEF Provenance
<1>7. Homes(c, d, q, s)
  <2>1. Listed(d, q) = d.tables
    BY <1>1 DEF Listed
  <2> QED
    BY <1>1, <1>3, <1>4, <2>1 DEF Homes, NamespaceRows, Shrunk
<1>8. Covers(d, q, s)
  BY <1>1, <1>2 DEF Covers
<1> QED
  BY <1>4, <1>5, <1>6, <1>7, <1>8 DEF Sound

LEMMA ListedIn ==
  ASSUME NEW c, NEW d, NEW r, NEW sys, Sound(c, d, r, sys)
  PROVE  Listed(d, r) \subseteq c.tables
  BY DEF Sound, Shrunk, Control, Listed

\* The scan by id.
LEMMA ByIdSound ==
  ASSUME NEW c, NEW d, NEW r, NEW sys, Sound(c, d, r, sys), r.step = "list", r.at \in 1..5,
         NEW T, T \subseteq d.tables, NEW q, q = [r EXCEPT !.tables = T, !.step = "legacy"]
  PROVE  Sound(c, d, q, sys)
<1>1. /\ q.at = r.at /\ q.step = "legacy" /\ q.tables = T /\ q.table = r.table
      /\ q = [at |-> q.at, step |-> q.step, tables |-> q.tables, table |-> q.table,
              ids |-> q.ids]
  <2>1. PICK a, b, e, f, g :
          r = [at |-> a, step |-> b, tables |-> e, table |-> f, ids |-> g]
    BY DEF Sound, Control
  <2>2. q = [at |-> a, step |-> "legacy", tables |-> T, table |-> f, ids |-> g]
    BY <2>1
  <2> QED
    BY <2>1, <2>2
<1>2. Shrunk(c, d) /\ T \subseteq c.tables /\ r.table = {}
  BY DEF Sound, Shrunk, Control
<1>3. Control(c, d, q)
  BY <1>1, <1>2 DEF Sound, Control
<1>4. Provenance(c, q, sys)
  BY <1>1 DEF Sound, Provenance
<1>5. Listed(d, q) \subseteq Listed(d, r)
  BY <1>1 DEF Listed
<1>6. Homes(c, d, q, sys)
  BY <1>1, <1>5 DEF Sound, Homes
<1>7. Covers(d, q, sys)
  BY <1>1, <1>5 DEF Sound, Covers
<1> QED
  BY <1>2, <1>3, <1>4, <1>6, <1>7 DEF Sound

LEMMA TypesSound ==
  ASSUME NEW c, NEW d, NEW r, NEW sys, Sound(c, d, r, sys), r.step = "legacy", r.at = 1,
         NEW T, d.tables \subseteq T, T \subseteq Listed(d, r),
         NEW s, s = [sys EXCEPT !["pg_type"] = TypeRows(T)],
         NEW q, q = AtList(2)
  PROVE  Sound(c, d, q, s)
<1>1. /\ q.at = 2 /\ q.step = "list" /\ q.tables = {} /\ q.table = {}
      /\ q = [at |-> q.at, step |-> q.step, tables |-> q.tables, table |-> q.table,
              ids |-> q.ids]
  BY AtListFacts
<1>2. \A m \in Visited : PlaceOf(m) \in 2..5 /\ m # "pg_type"
  BY VisitedPlaces DEF Visited
<1>3. DOMAIN s = SystemTables /\ s["pg_type"] = TypeRows(T)
      /\ s["pg_namespace"] = sys["pg_namespace"] /\ \A m \in Visited : s[m] = sys[m]
  BY <1>2, OrderFacts DEF Sound, Provenance
<1>4. Shrunk(c, d)
  BY DEF Sound
<1>5. Control(c, d, q)
  BY <1>1 DEF Control
<1>6. Provenance(c, q, s)
  <2>1. \A m \in Visited : sys[m] = {}
    BY <1>2 DEF Sound, Provenance
  <2> QED
    BY <1>3, <2>1 DEF Provenance
<1>7. Homes(c, d, q, s)
  <2>1. Listed(d, q) = d.tables
    BY <1>1 DEF Listed
  <2>2. /\ PgCatalogNamespace \in sys["pg_namespace"]
        /\ \A t \in T \cup d.tables \cup d.views : t.schema \in sys["pg_namespace"]
    BY DEF Sound, Homes, Listed
  <2>3. \A t \in d.tables : TypeRow(t) \in TypeRows(T)
    BY DEF TypeRow, TypeRows
  <2>4. ASSUME NEW row \in TypeRows(T)
        PROVE  \/ row.relid = 0 /\ row.namespace = PgCatalogNamespace
               \/ \E t \in T : row = TypeRow(t)
    BY DEF TypeRow, TypeRows
  <2>5. T \subseteq c.tables
    BY ListedIn
  <2> QED
    BY <1>1, <1>3, <2>1, <2>2, <2>3, <2>4, <2>5 DEF Homes
<1>8. Covers(d, q, s)
  BY <1>1, <1>2 DEF Covers
<1> QED
  BY <1>4, <1>5, <1>6, <1>7, <1>8 DEF Sound

\* A listing of tables starts the table m anew: nothing had come of it.
LEMMA TablesSound ==
  ASSUME NEW c, NEW d, NEW r, NEW sys, Sound(c, d, r, sys), r.step = "legacy",
         NEW T, d.tables \subseteq T, T \subseteq Listed(d, r),
         NEW m \in Visited, PlaceOf(m) = r.at, NEW s, s = [sys EXCEPT ![m] = {}],
         NEW step, step = IF m = "pg_class" THEN "views" ELSE "visit",
         NEW q, q = [r EXCEPT !.tables = T, !.step = step]
  PROVE  Sound(c, d, q, s)
<1>1. /\ q.at = r.at /\ q.step = step /\ q.tables = T /\ q.table = r.table
      /\ q = [at |-> q.at, step |-> q.step, tables |-> q.tables, table |-> q.table,
              ids |-> q.ids]
  <2>1. PICK a, b, e, f, g :
          r = [at |-> a, step |-> b, tables |-> e, table |-> f, ids |-> g]
    BY DEF Sound, Control
  <2>2. q = [at |-> a, step |-> step, tables |-> T, table |-> f, ids |-> g]
    BY <2>1
  <2> QED
    BY <2>1, <2>2
<1>2. \A k \in Visited : PlaceOf(k) \in 2..5 /\ (PlaceOf(k) = PlaceOf(m) => k = m)
  BY VisitedPlaces DEF Visited
<1>3. m \in SystemTables /\ m # "pg_namespace" /\ m # "pg_type"
  BY OrderFacts DEF Visited
<1>4. DOMAIN s = SystemTables /\ s[m] = {} /\ \A n \in SystemTables \ {m} : s[n] = sys[n]
  BY <1>3 DEF Sound, Provenance
<1>5. s["pg_namespace"] = sys["pg_namespace"] /\ s["pg_type"] = sys["pg_type"]
  BY <1>3, <1>4, OrderFacts
<1>6. Shrunk(c, d) /\ T \subseteq c.tables /\ r.table = {}
  BY ListedIn DEF Sound, Control
<1>7. Control(c, d, q)
  <2>1. m = "pg_class" => r.at = 2
    BY VisitedPlaces
  <2> QED
    BY <1>1, <1>2, <1>6, <2>1 DEF Sound, Control
<1>8. \A k \in Visited : PlaceOf(k) < r.at => s[k] = sys[k]
  BY <1>2, <1>4, OrderFacts
<1>9. Provenance(c, q, s)
  <2>1. ASSUME NEW k \in Visited, PlaceOf(k) >= r.at
        PROVE  s[k] = {}
    <3>1. CASE k = m
      BY <1>4, <3>1
    <3>2. CASE k # m
      <4>1. PlaceOf(k) > r.at
        BY <1>2, <2>1, <3>2 DEF Sound, Control
      <4>2. s[k] = sys[k]
        BY <1>4, <3>2, OrderFacts
      <4> QED
        BY <4>1, <4>2 DEF Sound, Provenance
    <3> QED
      BY <3>1, <3>2
  <2>2. ASSUME NEW k \in Visited, PlaceOf(k) < r.at, NEW row \in s[k]
        PROVE  Derived(s, c, k, row)
    <3>1. s[k] = sys[k]
      BY <1>8, <2>2
    <3>2. Derived(sys, c, k, row)
      BY <2>2, <3>1 DEF Sound, Provenance
    <3>3. \A v \in Visited : PlaceOf(v) <= PlaceOf(k) => s[v] = sys[v]
      BY <1>2, <1>8, <2>2 DEF Sound, Control
    <3>4. \A t, xs : Comes(sys, c, k, row, t, xs) => Comes(s, c, k, row, t, xs)
      BY <1>5, <3>3 DEF Comes, Homed, Known
    <3>5. FromView(sys, c, row) => FromView(s, c, row)
      BY <1>5 DEF FromView
    <3> QED
      BY <3>2, <3>4, <3>5 DEF Derived
  <2>3. \A k \in Visited : PlaceOf(k) < r.at \/ PlaceOf(k) >= r.at
    BY <1>2 DEF Sound, Control
  <2>4. \A k \in Visited : PlaceOf(k) > r.at => PlaceOf(k) >= r.at
    BY <1>2 DEF Sound, Control
  <2> QED
    BY <1>1, <1>4, <2>1, <2>2, <2>3, <2>4 DEF Provenance
<1>10. Listed(d, q) = T /\ T \subseteq Listed(d, r)
  BY <1>1, <1>6 DEF Listed
<1>11. Homes(c, d, q, s)
  BY <1>1, <1>5, <1>10 DEF Sound, Homes
<1>12. Covers(d, q, s)
  <2>1. q.step # "load"
    BY <1>1
  <2>2. d.tables \ (q.tables \cup q.table) = {}
    BY <1>1
  <2>3. \A k \in Visited : PlaceOf(k) < r.at =>
          \A t \in Listed(d, q) : Known(s, k, t, Links(d, t))
    BY <1>8, <1>10 DEF Sound, Covers, Known
  <2> QED
    BY <1>1, <2>1, <2>2, <2>3 DEF Covers
<1> QED
  BY <1>6, <1>7, <1>9, <1>11, <1>12 DEF Sound

LEMMA ViewsSound ==
  ASSUME NEW c, NEW d, NEW r, NEW sys, Sound(c, d, r, sys), r.step = "views",
         NEW s, s = [sys EXCEPT !["pg_class"] = ViewRows(d.views)],
         NEW q, q = [r EXCEPT !.step = "visit"]
  PROVE  Sound(c, d, q, s)
<1>1. /\ q.at = r.at /\ q.step = "visit" /\ q.tables = r.tables /\ q.table = r.table
      /\ q = [at |-> q.at, step |-> q.step, tables |-> q.tables, table |-> q.table,
              ids |-> q.ids]
  <2>1. PICK a, b, e, f, g :
          r = [at |-> a, step |-> b, tables |-> e, table |-> f, ids |-> g]
    BY DEF Sound, Control
  <2>2. q = [at |-> a, step |-> "visit", tables |-> e, table |-> f, ids |-> g]
    BY <2>1
  <2> QED
    BY <2>1, <2>2
<1>2. r.at = 2 /\ d.tables \subseteq r.tables /\ r.table = {}
  BY DEF Sound, Control
<1>3. \A k \in Visited : PlaceOf(k) \in 2..5 /\ (PlaceOf(k) = 2 => k = "pg_class")
  BY VisitedPlaces DEF Visited
<1>4. /\ DOMAIN s = SystemTables /\ s["pg_class"] = ViewRows(d.views)
      /\ s["pg_namespace"] = sys["pg_namespace"] /\ s["pg_type"] = sys["pg_type"]
      /\ \A k \in Visited \ {"pg_class"} : s[k] = sys[k]
  BY OrderFacts DEF Sound, Provenance, Visited
<1>5. Shrunk(c, d)
  BY DEF Sound
<1>6. Control(c, d, q)
  BY <1>1, <1>2 DEF Sound, Control
<1>7. Listed(d, q) = Listed(d, r)
  BY <1>1 DEF Listed
<1>8. Homes(c, d, q, s)
  BY <1>1, <1>4, <1>7 DEF Sound, Homes
<1>9. Provenance(c, q, s)
  <2>1. ASSUME NEW k \in Visited, k # "pg_class"
        PROVE  s[k] = {}
    <3>1. PlaceOf(k) > r.at
      BY <1>2, <1>3, <2>1
    <3> QED
      BY <1>4, <2>1, <3>1 DEF Sound, Provenance
  <2>2. ASSUME NEW row \in s["pg_class"]
        PROVE  Derived(s, c, "pg_class", row)
    <3>1. PICK v \in d.views : row \in ViewRows({v})
      BY <1>4 DEF ViewRows
    <3>2. v \in c.views
      BY <1>5 DEF Shrunk
    <3>3. v.schema \in s["pg_namespace"]
      BY <1>1, <1>2, <1>8 DEF Homes
    <3> QED
      BY <3>1, <3>2, <3>3 DEF Derived, FromView
  <2>3. ~(PlaceOf("pg_class") > q.at)
    BY <1>1, <1>2, VisitedPlaces
  <2> QED
    BY <1>4, <2>1, <2>2, <2>3 DEF Provenance
<1>10. Covers(d, q, s)
  <2>1. d.tables \ (q.tables \cup q.table) = {}
    BY <1>1, <1>2
  <2>2. \A k \in Visited : ~(PlaceOf(k) < q.at)
    BY <1>1, <1>2, <1>3
  <2> QED
    BY <2>1, <2>2 DEF Covers
<1> QED
  BY <1>5, <1>6, <1>8, <1>9, <1>10 DEF Sound

LEMMA VisitSound ==
  ASSUME NEW c, WellFormed(c), NEW d, NEW r, NEW sys, Sound(c, d, r, sys), r.step = "visit",
         NEW t \in r.tables,
         NEW ids, ids = {p[2] : p \in {o \in d.byTable : o[1] = t.id}},
         NEW q, q = [r EXCEPT !.step = "load", !.table = {t}, !.tables = @ \ {t}, !.ids = ids]
  PROVE  Sound(c, d, q, sys)
<1>1. /\ q.at = r.at /\ q.step = "load" /\ q.tables = r.tables \ {t} /\ q.table = {t}
      /\ q.ids = ids
      /\ q = [at |-> q.at, step |-> q.step, tables |-> q.tables, table |-> q.table,
              ids |-> q.ids]
  <2>1. PICK a, b, e, f, g :
          r = [at |-> a, step |-> b, tables |-> e, table |-> f, ids |-> g]
    BY DEF Sound, Control
  <2>2. q = [at |-> a, step |-> "load", tables |-> e \ {t}, table |-> {t}, ids |-> ids]
    BY <2>1
  <2> QED
    BY <2>1, <2>2
<1>2. r.table = {} /\ t \in c.tables
  BY DEF Sound, Control
<1>3. Shrunk(c, d)
  BY DEF Sound
<1>4. Loaded(d, q) = Links(d, t)
  <2>1. \A p \in d.byTable : p = <<p[1], p[2]>>
    BY <1>3 DEF Shrunk, WellFormed
  <2>2. ASSUME NEW x \in d.indexes
        PROVE  x.id \in ids <=> <<t.id, x.id>> \in d.byTable
    <3>1. ASSUME x.id \in ids
          PROVE  <<t.id, x.id>> \in d.byTable
      <4>1. PICK p \in d.byTable : p[1] = t.id /\ x.id = p[2]
        BY <3>1
      <4> QED
        BY <2>1, <4>1
    <3>2. ASSUME <<t.id, x.id>> \in d.byTable
          PROVE  x.id \in ids
      <4>1. <<t.id, x.id>>[1] = t.id /\ <<t.id, x.id>>[2] = x.id
        OBVIOUS
      <4> QED
        BY <3>2, <4>1
    <3> QED
      BY <3>1, <3>2
  <2> QED
    BY <1>1, <2>2 DEF Loaded, Links
<1>5. Links(d, t) \subseteq Links(c, t)
  BY <1>3 DEF Shrunk, Links
<1>6. Control(c, d, q)
  <2>1. q.tables \subseteq c.tables /\ q.table \subseteq c.tables /\ r.at \in 2..5
    BY <1>1, <1>2 DEF Sound, Control
  <2>2. \A u \in q.table : /\ Links(d, u) \subseteq Loaded(d, q)
                           /\ Loaded(d, q) \subseteq Links(c, u)
    BY <1>1, <1>4, <1>5
  <2>3. q.at \in 0..6 /\ q.at # 6 /\ q.at \in 2..5
    BY <1>1, <2>1
  <2> QED
    BY <1>1, <2>1, <2>2, <2>3 DEF Control
<1>7. Listed(d, q) = Listed(d, r)
  BY <1>1, <1>2 DEF Listed
<1>8. Homes(c, d, q, sys)
  BY <1>1, <1>7 DEF Sound, Homes
<1>9. Provenance(c, q, sys)
  BY <1>1 DEF Sound, Provenance
<1>10. Covers(d, q, sys)
  <2>1. t \in Listed(d, r)
    BY DEF Listed
  <2>2. q.tables \cup q.table = r.tables \cup r.table
    BY <1>1, <1>2
  <2>3. ASSUME NEW m \in Visited, PlaceOf(m) < r.at, NEW u \in Listed(d, r)
        PROVE  Known(sys, m, u, Links(d, u))
    BY <2>3 DEF Sound, Covers
  <2>4. ASSUME NEW m \in Visited, PlaceOf(m) = r.at,
               NEW u \in d.tables \ (r.tables \cup r.table)
        PROVE  Known(sys, m, u, Links(d, u))
    BY <2>4 DEF Sound, Covers
  <2>5. ASSUME NEW m \in Visited, PlaceOf(m) < r.at, NEW u \in q.table
        PROVE  Known(sys, m, u, Loaded(d, q))
    BY <1>1, <1>4, <2>1, <2>3, <2>5
  <2> QED
    BY <1>1, <1>7, <2>2, <2>3, <2>4, <2>5 DEF Covers
<1> QED
  BY <1>3, <1>6, <1>8, <1>9, <1>10 DEF Sound

\* The rows a load adds to the table it is at.
Added(m, d, r) == UNION {RowsOf(m, t, Loaded(d, r)) : t \in r.table}

LEMMA LoadSound ==
  ASSUME NEW c, NEW d, NEW r, NEW sys, Sound(c, d, r, sys), r.step = "load",
         NEW m \in Visited, PlaceOf(m) = r.at,
         NEW more, more = Added(m, d, r),
         NEW s, s = [sys EXCEPT ![m] = @ \cup more],
         NEW q, q = [r EXCEPT !.step = "visit", !.table = {}, !.ids = {}]
  PROVE  Sound(c, d, q, s)
<1> USE DEF Added
<1>1. /\ q.at = r.at /\ q.step = "visit" /\ q.tables = r.tables /\ q.table = {}
      /\ q = [at |-> q.at, step |-> q.step, tables |-> q.tables, table |-> q.table,
              ids |-> q.ids]
  <2>1. PICK a, b, e, f, g :
          r = [at |-> a, step |-> b, tables |-> e, table |-> f, ids |-> g]
    BY DEF Sound, Control
  <2>2. q = [at |-> a, step |-> "visit", tables |-> e, table |-> {}, ids |-> {}]
    BY <2>1
  <2> QED
    BY <2>1, <2>2
<1>2. \A k \in Visited : PlaceOf(k) \in 2..5 /\ (PlaceOf(k) = PlaceOf(m) => k = m)
  BY VisitedPlaces DEF Visited
<1>3. m \in SystemTables /\ m # "pg_namespace" /\ m # "pg_type"
  BY OrderFacts DEF Visited
<1>4. /\ DOMAIN s = SystemTables /\ s[m] = sys[m] \cup more
      /\ \A n \in SystemTables \ {m} : s[n] = sys[n]
  BY <1>3 DEF Sound, Provenance
<1>5. /\ s["pg_namespace"] = sys["pg_namespace"] /\ s["pg_type"] = sys["pg_type"]
      /\ \A k \in Visited : sys[k] \subseteq s[k] /\ (k # m => s[k] = sys[k])
  <2> QED
    BY <1>3, <1>4, OrderFacts
<1>6. Shrunk(c, d) /\ r.at \in 2..5
  BY DEF Sound, Control
<1>7. Control(c, d, q)
  BY <1>1 DEF Sound, Control
<1>8. Listed(d, q) \subseteq Listed(d, r)
  BY <1>1 DEF Listed
<1>9. Homes(c, d, q, s)
  BY <1>1, <1>5, <1>8 DEF Sound, Homes
<1>10. \A k \in Visited : \A t, xs : Known(sys, k, t, xs) => Known(s, k, t, xs)
  BY <1>5 DEF Known
<1>11. \A t \in r.table : Known(s, m, t, Loaded(d, r))
  BY <1>4 DEF Known
<1>12. Provenance(c, q, s)
  <2>1. ASSUME NEW k \in Visited, PlaceOf(k) > r.at
        PROVE  s[k] = {}
    <3>1. k # m
      BY <1>2, <1>6, <2>1
    <3> QED
      BY <1>5, <2>1, <3>1 DEF Sound, Provenance
  <2>2. ASSUME NEW k \in Visited, NEW row \in sys[k]
        PROVE  Derived(s, c, k, row)
    <3>1. Derived(sys, c, k, row)
      BY <2>2 DEF Sound, Provenance
    <3>2. \A t, xs : Comes(sys, c, k, row, t, xs) => Comes(s, c, k, row, t, xs)
      BY <1>5, <1>10 DEF Comes, Homed
    <3>3. FromView(sys, c, row) => FromView(s, c, row)
      BY <1>5 DEF FromView
    <3> QED
      BY <3>1, <3>2, <3>3 DEF Derived
  <2>3. ASSUME NEW row \in more
        PROVE  Derived(s, c, m, row)
    <3>1. PICK t \in r.table : row \in RowsOf(m, t, Loaded(d, r))
      OBVIOUS
    <3>2. t \in c.tables /\ Loaded(d, r) \subseteq Links(c, t)
      BY DEF Sound, Control
    <3>3. Homed(s, t)
      <4>1. t \in Listed(d, r)
        BY DEF Listed
      <4>2. r.at >= 1 /\ r.at >= 2
        BY <1>6
      <4> QED
        BY <1>5, <4>1, <4>2 DEF Sound, Homes, Homed
    <3>4. ASSUME NEW k \in Visited, PlaceOf(k) <= PlaceOf(m)
          PROVE  Known(s, k, t, Loaded(d, r))
      <4>1. CASE k = m
        BY <1>11, <4>1
      <4>2. CASE k # m
        <5>1. PlaceOf(k) < r.at
          BY <1>2, <1>6, <3>4, <4>2
        <5>2. Known(sys, k, t, Loaded(d, r))
          BY <5>1 DEF Sound, Covers
        <5> QED
          BY <1>10, <5>2
      <4> QED
        BY <4>1, <4>2
    <3>5. Comes(s, c, m, row, t, Loaded(d, r))
      BY <3>1, <3>2, <3>3, <3>4 DEF Comes
    <3> QED
      BY <3>5 DEF Derived
  <2>4. ASSUME NEW k \in Visited, NEW row \in s[k]
        PROVE  Derived(s, c, k, row)
    BY <1>4, <1>5, <2>2, <2>3, <2>4
  <2> QED
    BY <1>1, <1>4, <2>1, <2>4 DEF Provenance
<1>13. Covers(d, q, s)
  <2>1. ASSUME NEW k \in Visited, PlaceOf(k) < r.at, NEW t \in Listed(d, q)
        PROVE  Known(s, k, t, Links(d, t))
    BY <1>8, <1>10, <2>1 DEF Sound, Covers
  <2>2. ASSUME NEW k \in Visited, PlaceOf(k) = r.at, NEW t \in d.tables \ r.tables
        PROVE  Known(s, k, t, Links(d, t))
    <3>1. k = m
      BY <1>2, <2>2
    <3>2. CASE t \in r.table
      <4>1. Links(d, t) \subseteq Loaded(d, r)
        BY <3>2 DEF Sound, Control
      <4> QED
        BY <1>11, <3>1, <3>2, <4>1, KnownMonotone
    <3>3. CASE t \notin r.table
      <4>1. Known(sys, k, t, Links(d, t))
        BY <2>2, <3>3 DEF Sound, Covers
      <4> QED
        BY <1>10, <4>1
    <3> QED
      BY <3>2, <3>3
  <2> QED
    BY <1>1, <2>1, <2>2 DEF Covers
<1> QED
  BY <1>6, <1>7, <1>9, <1>12, <1>13 DEF Sound

LEMMA RegisterSound ==
  ASSUME NEW c, NEW d, NEW r, NEW sys, Sound(c, d, r, sys), r.step = "visit", r.tables = {},
         NEW q, q = AtList(r.at + 1)
  PROVE  Sound(c, d, q, sys)
<1>1. /\ q.at = r.at + 1 /\ q.tables = {} /\ q.table = {}
      /\ q.step = IF r.at + 1 = 6 THEN "done" ELSE "list"
      /\ q = [at |-> q.at, step |-> q.step, tables |-> q.tables, table |-> q.table,
              ids |-> q.ids]
  BY AtListFacts
<1>2. r.at \in 2..5 /\ r.table = {}
  BY DEF Sound, Control
<1>3. Shrunk(c, d)
  BY DEF Sound
<1>4. Control(c, d, q)
  BY <1>1, <1>2 DEF Control
<1>5. Listed(d, q) = d.tables /\ Listed(d, r) = d.tables
  BY <1>1, <1>2 DEF Listed
<1>6. Homes(c, d, q, sys)
  BY <1>1, <1>2, <1>5 DEF Sound, Homes
<1>7. \A k \in Visited : PlaceOf(k) \in 2..5
  BY VisitedPlaces DEF Visited
<1>8. Provenance(c, q, sys)
  <2>1. \A k \in Visited : PlaceOf(k) > q.at => PlaceOf(k) > r.at
    BY <1>1, <1>2, <1>7
  <2> QED
    BY <2>1 DEF Sound, Provenance
<1>9. Covers(d, q, sys)
  <2>1. \A k \in Visited : PlaceOf(k) < q.at => PlaceOf(k) < r.at \/ PlaceOf(k) = r.at
    BY <1>1, <1>2, <1>7
  <2>2. q.step \notin {"visit", "load"}
    BY <1>1
  <2>3. d.tables \ (r.tables \cup r.table) = d.tables
    BY <1>2
  <2> QED
    BY <1>5, <2>1, <2>2, <2>3 DEF Sound, Covers
<1> QED
  BY <1>3, <1>4, <1>6, <1>8, <1>9 DEF Sound

LEMMA FailSound ==
  ASSUME NEW c, NEW d, NEW r, NEW sys, Sound(c, d, r, sys), r.step = "load",
         NEW q, q = [AtList(r.at) EXCEPT !.step = "failed"]
  PROVE  Sound(c, d, q, sys)
<1>1. /\ q.at = r.at /\ q.tables = {} /\ q.table = {} /\ q.step = "failed"
      /\ q = [at |-> q.at, step |-> q.step, tables |-> q.tables, table |-> q.table,
              ids |-> q.ids]
  <2>1. q = [at |-> r.at, step |-> "failed", tables |-> {}, table |-> {}, ids |-> {}]
    BY DEF AtList
  <2> QED
    BY <2>1
<1>2. Shrunk(c, d) /\ r.at \in 2..5
  BY DEF Sound, Control
<1>3. Control(c, d, q)
  BY <1>1, <1>2 DEF Control
<1>4. Listed(d, q) \subseteq Listed(d, r)
  BY <1>1 DEF Listed
<1>5. Homes(c, d, q, sys)
  BY <1>1, <1>4 DEF Sound, Homes
<1>6. Provenance(c, q, sys)
  BY <1>1 DEF Sound, Provenance
<1>7. Covers(d, q, sys)
  BY <1>1, <1>4 DEF Sound, Covers
<1> QED
  BY <1>2, <1>3, <1>5, <1>6, <1>7 DEF Sound

\* A registration step.
LEMMA RegistrationSound ==
  ASSUME NEW c, WellFormed(c), NEW d, d = View(described), Sound(c, d, registering, system),
         Scanned(described, registering),
         \/ List \/ ListLegacy \/ ListViews \/ Load \/ Register
         \/ \E t \in registering.tables : Visit(t)
  PROVE  Sound(c, d, registering', system')
<1>0. d.schemas = described.schemas /\ d.tables = Visible(described) /\ d.views = described.views
      /\ d.indexes = described.indexes /\ d.byTable = described.byTable
  BY DEF View
<1>1. registering.at \in 0..6
  BY DEF Sound, Control
<1>2. registering.at \in 2..5 => /\ Current \in Visited /\ PlaceOf(Current) = registering.at
                                 /\ Current \notin {"pg_namespace", "pg_type"}
                                 /\ Current = "pg_class" <=> registering.at = 2
  <2>1. registering.at = 2 => Current = "pg_class"
    BY OrderFacts DEF Current
  <2>2. registering.at = 3 => Current = "pg_attribute"
    BY OrderFacts DEF Current
  <2>3. registering.at = 4 => Current = "pg_index"
    BY OrderFacts DEF Current
  <2>4. registering.at = 5 => Current = "pg_constraint"
    BY OrderFacts DEF Current
  <2> QED
    BY <2>1, <2>2, <2>3, <2>4, VisitedPlaces DEF Visited
<1>3. CASE List
  <2>1. registering.step = "list" /\ registering.at # 6
    BY <1>3 DEF List, Sound, Control
  <2>2. CASE registering.at = 0
    <3>1. Current = "pg_namespace" /\ registering.at + 1 = 1
      BY <2>2, OrderFacts DEF Current
    <3>2. /\ system' = [system EXCEPT !["pg_namespace"] = NamespaceRows(d.schemas)]
          /\ registering' = AtList(1)
      BY <1>0, <1>3, <3>1 DEF List
    <3> QED
      BY <2>1, <2>2, <3>2, NamespaceSound
  <2>3. CASE registering.at \in 1..5
    <3>1. Current # "pg_namespace"
      <4>1. registering.at = 1 => Current = "pg_type"
        BY OrderFacts DEF Current
      <4> QED
        BY <1>2, <2>3, <4>1
    <3>2. /\ system' = system
          /\ registering' = [registering EXCEPT !.tables = described.tables, !.step = "legacy"]
      BY <1>3, <3>1 DEF List
    <3>3. described.tables \subseteq d.tables
      BY <1>0 DEF Visible, WithLegacy
    <3> QED
      BY <2>1, <2>3, <3>2, <3>3, ByIdSound
  <2> QED
    BY <1>1, <2>1, <2>2, <2>3
<1>8. CASE ListLegacy
  <2>1. registering.step = "legacy" /\ registering.at \in 1..5
    BY <1>8 DEF ListLegacy, Sound, Control
  <2> DEFINE T == WithLegacy(registering.tables, described.legacy)
  <2>2. d.tables \subseteq T /\ T \subseteq Listed(d, registering)
    BY <1>0, <2>1 DEF Scanned, Listed, Visible, WithLegacy
  <2>3. CASE registering.at = 1
    <3>1. Current = "pg_type" /\ registering.at + 1 = 2
      BY <2>3, OrderFacts DEF Current
    <3>2. system' = [system EXCEPT !["pg_type"] = TypeRows(T)] /\ registering' = AtList(2)
      BY <1>8, <3>1 DEF ListLegacy
    <3> HIDE DEF T
    <3>3. Sound(c, d, AtList(2), [system EXCEPT !["pg_type"] = TypeRows(T)])
      BY <2>1, <2>2, <2>3, TypesSound
    <3> QED
      BY <3>2, <3>3
  <2>4. CASE registering.at \in 2..5
    <3> DEFINE step == IF Current = "pg_class" THEN "views" ELSE "visit"
    <3>1. /\ system' = [system EXCEPT ![Current] = {}]
          /\ registering' = [registering EXCEPT !.tables = T, !.step = step]
      BY <1>2, <1>8, <2>4 DEF ListLegacy
    <3> HIDE DEF T
    <3>2. Sound(c, d, [registering EXCEPT !.tables = T, !.step = step],
                [system EXCEPT ![Current] = {}])
      BY <1>2, <2>1, <2>2, <2>4, TablesSound
    <3> QED
      BY <3>1, <3>2
  <2> QED
    BY <2>1, <2>3, <2>4
<1>4. CASE ListViews
  <2>1. registering.step = "views" /\ registering.at = 2
    BY <1>4 DEF ListViews, Sound, Control
  <2>2. Current = "pg_class"
    BY <1>2, <2>1
  <2>3. /\ system' = [system EXCEPT !["pg_class"] = ViewRows(d.views)]
        /\ registering' = [registering EXCEPT !.step = "visit"]
    BY <1>0, <1>4, <2>2 DEF ListViews
  <2> QED
    BY <2>1, <2>3, ViewsSound
<1>5. CASE Load
  <2>1. registering.step = "load" /\ registering.at \in 2..5
    BY <1>5 DEF Load, Sound, Control
  <2> DEFINE more == UNION {RowsOf(Current, t, Loaded(d, registering)) :
                              t \in registering.table}
  <2>2. \/ /\ registering' = [AtList(registering.at) EXCEPT !.step = "failed"]
           /\ system' = system
        \/ /\ registering' = [registering EXCEPT !.step = "visit", !.table = {}, !.ids = {}]
           /\ system' = [system EXCEPT ![Current] = @ \cup more]
    <3> DEFINE now == UNION {RowsOf(Current, t, Loaded(described, registering)) :
                               t \in registering.table}
    <3>1. \/ /\ registering' = [AtList(registering.at) EXCEPT !.step = "failed"]
             /\ system' = system
          \/ /\ registering' = [registering EXCEPT !.step = "visit", !.table = {}, !.ids = {}]
             /\ system' = [system EXCEPT ![Current] = @ \cup now]
      BY <1>5, Zenon DEF Load, Loaded
    <3>2. Loaded(described, registering) = Loaded(d, registering)
      BY <1>0 DEF Loaded
    <3>3. now = more
      BY <3>2
    <3> HIDE DEF now, more
    <3> QED
      BY <3>1, <3>3, Zenon
  <2>3. CASE registering' = [AtList(registering.at) EXCEPT !.step = "failed"]
             /\ system' = system
    BY <2>1, <2>3, FailSound
  <2>4. CASE
          /\ registering' = [registering EXCEPT !.step = "visit", !.table = {}, !.ids = {}]
          /\ system' = [system EXCEPT ![Current] = @ \cup more]
    <3>1. Current \in Visited /\ PlaceOf(Current) = registering.at
      BY <1>2, <2>1
    <3>2. more = Added(Current, d, registering)
      BY DEF Added
    <3> HIDE DEF more
    <3> QED
      BY <2>1, <2>4, <3>1, <3>2, LoadSound
  <2> HIDE DEF more
  <2> QED
    BY <2>2, <2>3, <2>4
<1>6. CASE Register
  <2>1. /\ registering.step = "visit" /\ registering.tables = {} /\ system' = system
        /\ registering' = AtList(registering.at + 1)
    BY <1>6 DEF Register
  <2> QED
    BY <2>1, RegisterSound
<1>7. ASSUME NEW t \in registering.tables, Visit(t)
      PROVE  Sound(c, d, registering', system')
  <2> DEFINE ids == {p[2] : p \in {q \in d.byTable : q[1] = t.id}}
  <2>1. /\ registering.step = "visit" /\ system' = system
        /\ registering' = [registering EXCEPT !.step = "load", !.table = {t},
                             !.tables = @ \ {t}, !.ids = ids]
    BY <1>0, <1>7 DEF Visit
  <2> QED
    BY <2>1, VisitSound
<1> QED
  BY <1>3, <1>4, <1>5, <1>6, <1>7, <1>8

\* A scan by id leaves the rest to the scan of the legacy keys.
LEMMA RegistrationScanned ==
  ASSUME IsWhole(described), NEW c, NEW d, Sound(c, d, registering, system),
         \/ List \/ ListLegacy \/ ListViews \/ Load \/ Register
         \/ \E t \in registering.tables : Visit(t)
  PROVE  Scanned(described, registering')
<1>1. PICK at, step, tables, table, ids :
        registering = [at |-> at, step |-> step, tables |-> tables, table |-> table,
          ids |-> ids]
  BY DEF Sound, Control
<1> SUFFICES ASSUME registering'.step = "legacy"
             PROVE  /\ described.tables \subseteq registering'.tables
                    /\ Visible(described) \subseteq
                         WithLegacy(registering'.tables, described.legacy)
  BY DEF Scanned
<1>2. \A n : AtList(n).step # "legacy"
  BY DEF AtList
<1>3. CASE List
  <2>1. registering' = [registering EXCEPT !.tables = described.tables, !.step = "legacy"]
    BY <1>2, <1>3 DEF List
  <2>2. registering'.tables = described.tables
    BY <1>1, <2>1
  <2> QED
    BY <2>2 DEF Visible
<1>4. ~ListLegacy
  <2> SUFFICES ASSUME ListLegacy
               PROVE  FALSE
    OBVIOUS
  <2> DEFINE T == WithLegacy(registering.tables, described.legacy)
  <2>1. \/ registering' = [registering EXCEPT !.tables = T, !.step = "views"]
        \/ registering' = [registering EXCEPT !.tables = T, !.step = "visit"]
    BY <1>2 DEF ListLegacy
  <2> HIDE DEF T
  <2> QED
    BY <1>1, <2>1
<1>5. ~ListViews
  BY <1>1 DEF ListViews
<1>6. ~Load
  <2> SUFFICES ASSUME Load
               PROVE  FALSE
    OBVIOUS
  <2>1. \/ registering' = [AtList(registering.at) EXCEPT !.step = "failed"]
        \/ registering' = [registering EXCEPT !.step = "visit", !.table = {}, !.ids = {}]
    BY DEF Load
  <2>2. [AtList(registering.at) EXCEPT !.step = "failed"].step = "failed"
    BY DEF AtList
  <2> QED
    BY <1>1, <2>1, <2>2
<1>7. ~Register
  BY <1>2 DEF Register
<1>8. ASSUME NEW t \in registering.tables
      PROVE  ~Visit(t)
  BY <1>1 DEF Visit
<1> QED
  BY <1>3, <1>4, <1>5, <1>6, <1>7, <1>8

\* Fewer legacy keys show fewer tables.
LEMMA LegacyMonotone ==
  ASSUME NEW T, NEW L, NEW M, M \subseteq L
  PROVE  WithLegacy(T, M) \subseteq WithLegacy(T, L)
  BY DEF WithLegacy

\* A step of other sessions' DDL: it added or uncovered something, or only dropped.
LEMMA DdlSound ==
  ASSUME NEW c, IsWhole(described), Scanned(described, registering),
         Sound(c, View(described), registering, system), ~ddl.grew, ~ddl'.grew,
         NEW columnLists, Ddl(columnLists)
  PROVE  /\ IsWhole(described') /\ Scanned(described', registering')
         /\ Sound(c, View(described'), registering', system')
<1> DEFINE Goal == /\ IsWhole(described') /\ Scanned(described', registering')
                   /\ Sound(c, View(described'), registering', system')
<1>1. PICK schemas, tables, legacy, views, indexes, byTable :
        described = [schemas |-> schemas, tables |-> tables, legacy |-> legacy,
                     views |-> views, indexes |-> indexes, byTable |-> byTable]
  BY DEF IsWhole
<1>2. \A t \in Visible(described) \cup described.views : t.schema \in described.schemas
  BY DEF Sound, Shrunk, View
<1>3. \A g, dr : Changed(g, dr) => registering' = registering /\ system' = system
  BY DEF Changed
<1>4. \A g, dr : Changed(g, dr) => ~g
  <2> SUFFICES ASSUME NEW g, NEW dr, Changed(g, dr)
               PROVE  ~g
    OBVIOUS
  <2>1. ddl'.grew = (ddl.grew \/ g)
    BY DEF Changed
  <2> QED
    BY <2>1
<1> DEFINE Fewer ==
             /\ IsWhole(described')
             /\ described'.schemas \subseteq described.schemas
             /\ described'.views \subseteq described.views
             /\ described'.indexes \subseteq described.indexes
             /\ described'.byTable \subseteq described.byTable
             /\ described'.tables \subseteq described.tables
<1>5. ASSUME Fewer,
             Visible(described') \subseteq Visible(described),
             \A u \in Visible(described') \cup described'.views :
               u.schema \in described'.schemas,
             NEW g, NEW dr, Changed(g, dr)
      PROVE  Goal
  <2> DEFINE d == View(described)
             e == View(described')
  <2>4. /\ IsCatalog(e) /\ e.schemas = described'.schemas /\ e.tables = Visible(described')
        /\ e.views = described'.views /\ e.indexes = described'.indexes
        /\ e.byTable = described'.byTable
    BY DEF View, IsCatalog
  <2>5. /\ d.schemas = described.schemas /\ d.tables = Visible(described)
        /\ d.views = described.views /\ d.indexes = described.indexes
        /\ d.byTable = described.byTable
    BY DEF View
  <2>0. Sound(c, d, registering, system)
    OBVIOUS
  <2> HIDE DEF d, e
  <2>6. Sound(c, e, registering, system)
    BY <1>5, <2>0, <2>4, <2>5, ShrinkSound
  <2>7. Scanned(described', registering)
    <3> SUFFICES ASSUME registering.step = "legacy"
                 PROVE  /\ described'.tables \subseteq registering.tables
                        /\ Visible(described') \subseteq
                             WithLegacy(registering.tables, described'.legacy)
      BY DEF Scanned
    <3>1. /\ described.tables \subseteq registering.tables
          /\ Visible(described) \subseteq WithLegacy(registering.tables, described.legacy)
      BY DEF Scanned
    <3>2. ASSUME NEW u \in Visible(described')
          PROVE  u \in WithLegacy(registering.tables, described'.legacy)
      <4>1. u \in WithLegacy(registering.tables, described.legacy)
        BY <1>5, <3>1
      <4>2. u \in described'.tables \/ u \in described'.legacy
        BY DEF Visible, WithLegacy
      <4> QED
        BY <1>5, <3>1, <4>1, <4>2 DEF WithLegacy
    <3> QED
      BY <1>5, <3>1, <3>2
  <2>8. registering' = registering /\ system' = system
    BY <1>3, <1>5
  <2>9. IsWhole(described')
    BY <1>5
  <2> QED
    BY <2>6, <2>7, <2>8, <2>9 DEF e
<1> HIDE DEF Goal
\* When tables stay, so does what is visible.
<1>6. ASSUME NEW s, NEW v, NEW x, NEW b,
             described' = [schemas |-> s, tables |-> tables, legacy |-> legacy, views |-> v,
                           indexes |-> x, byTable |-> b]
      PROVE  Visible(described') = Visible(described)
  BY <1>1, <1>6 DEF Visible
<1>7. ASSUME NEW s \in described.schemas, DropSchema(s)
      PROVE  Goal
  <2>1. /\ described' = [schemas |-> schemas \ {s}, tables |-> tables, legacy |-> legacy,
                         views |-> views, indexes |-> indexes, byTable |-> byTable]
        /\ \A u \in Visible(described) \cup views : u.schema # s
    BY <1>1, <1>7 DEF DropSchema
  <2>2. Changed(FALSE, FALSE)
    BY <1>7 DEF DropSchema
  <2>3. Visible(described') = Visible(described)
    BY <1>6, <2>1
  <2>4. \A u \in Visible(described') \cup views : u.schema \in schemas \ {s}
    BY <1>1, <1>2, <2>1, <2>3
  <2>5. Fewer
    BY <1>1, <2>1 DEF IsWhole
  <2>6. described'.views = views /\ described'.schemas = schemas \ {s}
    BY <2>1
  <2> HIDE DEF Fewer
  <2> QED
    BY <1>5, <2>2, <2>3, <2>4, <2>5, <2>6
<1>8. ASSUME NEW t \in described.tables, DropTable(t)
      PROVE  Goal
  <2> DEFINE shown == ~(Visible(described') \subseteq Visible(described))
  <2>1. described' = [schemas |-> schemas, tables |-> tables \ {t}, legacy |-> legacy,
                      views |-> views, indexes |-> indexes, byTable |-> byTable]
    BY <1>1, <1>8 DEF DropTable
  <2>2. Changed(shown, FALSE)
    BY <1>8 DEF DropTable
  <2>3. Visible(described') \subseteq Visible(described)
    BY <1>4, <2>2
  <2>4. \A u \in Visible(described') \cup views : u.schema \in schemas
    BY <1>1, <1>2, <2>3
  <2> HIDE DEF shown
  <2>5. Fewer
    BY <1>1, <2>1 DEF IsWhole
  <2>6. described'.views = views /\ described'.schemas = schemas
    BY <2>1
  <2> HIDE DEF Fewer
  <2> QED
    BY <1>5, <2>2, <2>3, <2>4, <2>5, <2>6
<1>13. ASSUME NEW l \in described.legacy, DropLegacy(l)
       PROVE  Goal
  <2>1. described' = [schemas |-> schemas, tables |-> tables, legacy |-> legacy \ {l},
                      views |-> views, indexes |-> indexes, byTable |-> byTable]
    BY <1>1, <1>13 DEF DropLegacy
  <2>2. Changed(FALSE, FALSE)
    BY <1>13 DEF DropLegacy
  <2>3. Visible(described') \subseteq Visible(described)
    BY <1>1, <2>1, LegacyMonotone DEF Visible
  <2>4. \A u \in Visible(described') \cup views : u.schema \in schemas
    BY <1>1, <1>2, <2>3
  <2>5. Fewer
    BY <1>1, <2>1 DEF IsWhole
  <2>6. described'.views = views /\ described'.schemas = schemas
    BY <2>1
  <2> HIDE DEF Fewer
  <2> QED
    BY <1>5, <2>2, <2>3, <2>4, <2>5, <2>6
<1>9. ASSUME NEW v \in described.views, DropView(v)
      PROVE  Goal
  <2>1. described' = [schemas |-> schemas, tables |-> tables, legacy |-> legacy,
                      views |-> views \ {v}, indexes |-> indexes, byTable |-> byTable]
    BY <1>1, <1>9 DEF DropView
  <2>2. Changed(FALSE, FALSE)
    BY <1>9 DEF DropView
  <2>3. Visible(described') = Visible(described)
    BY <1>6, <2>1
  <2>4. \A u \in Visible(described') \cup (views \ {v}) : u.schema \in schemas
    BY <1>1, <1>2, <2>3
  <2>5. Fewer
    BY <1>1, <2>1 DEF IsWhole
  <2>6. described'.views = views \ {v} /\ described'.schemas = schemas
    BY <2>1
  <2> HIDE DEF Fewer
  <2> QED
    BY <1>5, <2>2, <2>3, <2>4, <2>5, <2>6
<1>10. ASSUME NEW x \in described.indexes, DropIndex(x)
       PROVE  Goal
  <2>1. described' = [schemas |-> schemas, tables |-> tables, legacy |-> legacy,
                      views |-> views, indexes |-> indexes \ {x}, byTable |-> byTable]
    BY <1>1, <1>10 DEF DropIndex
  <2>2. Changed(FALSE, TRUE)
    BY <1>10 DEF DropIndex
  <2>3. Visible(described') = Visible(described)
    BY <1>6, <2>1
  <2>4. \A u \in Visible(described') \cup views : u.schema \in schemas
    BY <1>1, <1>2, <2>3
  <2>5. Fewer
    BY <1>1, <2>1 DEF IsWhole
  <2>6. described'.views = views /\ described'.schemas = schemas
    BY <2>1
  <2> HIDE DEF Fewer
  <2> QED
    BY <1>5, <2>2, <2>3, <2>4, <2>5, <2>6
<1>11. ASSUME NEW p \in described.byTable, UnlinkIndex(p)
       PROVE  Goal
  <2>1. described' = [schemas |-> schemas, tables |-> tables, legacy |-> legacy,
                      views |-> views, indexes |-> indexes, byTable |-> byTable \ {p}]
    BY <1>1, <1>11 DEF UnlinkIndex
  <2>2. Changed(FALSE, TRUE)
    BY <1>11 DEF UnlinkIndex
  <2>3. Visible(described') = Visible(described)
    BY <1>6, <2>1
  <2>4. \A u \in Visible(described') \cup views : u.schema \in schemas
    BY <1>1, <1>2, <2>3
  <2>5. Fewer
    BY <1>1, <2>1 DEF IsWhole
  <2>6. described'.views = views /\ described'.schemas = schemas
    BY <2>1
  <2> HIDE DEF Fewer
  <2> QED
    BY <1>5, <2>2, <2>3, <2>4, <2>5, <2>6
<1>14. ~Changed(TRUE, FALSE)
  BY <1>4
<1>12. /\ ~CreateSchema /\ \A s : ~CreateView(s)
       /\ \A t, name : ~CreateTable(t, name) /\ ~RenameTable(t, name)
       /\ \A t, columns : ~ChangeColumns(t, columns)
       /\ \A t, columns : ~CreateIndex(t, columns, Len(columns) = 1)
       /\ \A t : ~StoreLegacy(t)
       /\ \A x : ~LinkIndex(x)
  BY <1>14 DEF CreateSchema, CreateView, CreateTable, RenameTable, ChangeColumns, PutById,
               CreateIndex, StoreLegacy, LinkIndex
<1> QED
  BY <1>7, <1>8, <1>9, <1>10, <1>11, <1>12, <1>13 DEF Ddl, Goal

-----------------------------------------------------------------------------
(***************************************************************************)
(* The rows of the system tables, and how few of them share an oid.        *)
(***************************************************************************)
TableClass(t) ==
  [oid |-> t.id, namespace |-> t.schema, kind |-> "r", type |-> TableRowTypeOid(t),
   natts |-> Len(t.columns)]
IndexClass(t, x) ==
  [oid |-> IndexRelationOid(x), namespace |-> t.schema, kind |-> "i", type |-> 0, natts |-> 1]
ViewClass(v) ==
  [oid |-> ViewRelationOid(v), namespace |-> v.schema, kind |-> "v", type |-> 0, natts |-> 0]
TableColumn(t, i) == [relid |-> t.id, name |-> t.columns[i], num |-> i]
IndexColumn(x, i) == [relid |-> IndexRelationOid(x), name |-> x.columns[i], num |-> i]
IndexRow(t, x) ==
  [indexrelid |-> IndexRelationOid(x), relid |-> t.id, unique |-> x.unique,
   key |-> Attnums(t, x)]
UniqueRow(t, x) ==
  [oid |-> UniqueConstraintOid(x), type |-> "u", relid |-> t.id, indid |-> IndexRelationOid(x),
   namespace |-> t.schema, key |-> Attnums(t, x)]
PrimaryRow(t) ==
  [oid |-> PrimaryKeyConstraintOid(t), type |-> "p", relid |-> t.id, indid |-> 0,
   namespace |-> t.schema, key |-> <<ColumnAttnum(t, t.primaryKey)>>]

LEMMA RowsAre ==
  ASSUME NEW t, NEW xs
  PROVE  /\ \A row : row \in RowsOf("pg_class", t, xs) <=>
              row = TableClass(t) \/ \E x \in xs : row = IndexClass(t, x)
         /\ \A row : row \in RowsOf("pg_attribute", t, xs) <=>
              \/ \E i \in DOMAIN t.columns : row = TableColumn(t, i)
              \/ \E x \in xs : \E i \in DOMAIN x.columns :
                   x.columns[i] \in Range(t.columns) /\ row = IndexColumn(x, i)
         /\ \A row : row \in RowsOf("pg_index", t, xs) <=> \E x \in xs : row = IndexRow(t, x)
         /\ \A row \in RowsOf("pg_constraint", t, xs) :
              row = PrimaryRow(t) \/ \E x \in xs : x.unique /\ row = UniqueRow(t, x)
<1>1. \A row : row \in RowsOf("pg_class", t, xs) <=>
        row = TableClass(t) \/ \E x \in xs : row = IndexClass(t, x)
  <2>1. RowsOf("pg_class", t, xs) = ClassRows(t, xs)
    BY DEF RowsOf
  <2>2. ClassRows(t, xs) = {TableClass(t)} \cup {IndexClass(t, x) : x \in xs}
    BY DEF ClassRows, TableClass, IndexClass
  <2> QED
    BY <2>1, <2>2
<1>2. \A row : row \in RowsOf("pg_attribute", t, xs) <=>
        \/ \E i \in DOMAIN t.columns : row = TableColumn(t, i)
        \/ \E x \in xs : \E i \in DOMAIN x.columns :
             x.columns[i] \in Range(t.columns) /\ row = IndexColumn(x, i)
  <2>1. RowsOf("pg_attribute", t, xs) = AttributeRows(t, xs)
    BY DEF RowsOf
  <2>2. AttributeRows(t, xs)
          = {TableColumn(t, i) : i \in DOMAIN t.columns}
            \cup UNION {{IndexColumn(x, i) : i \in {j \in DOMAIN x.columns :
                                                      x.columns[j] \in Range(t.columns)}} :
                          x \in xs}
    BY DEF AttributeRows, TableColumn, IndexColumn
  <2> QED
    BY <2>1, <2>2
<1>3. \A row : row \in RowsOf("pg_index", t, xs) <=> \E x \in xs : row = IndexRow(t, x)
  <2>1. RowsOf("pg_index", t, xs) = IndexRows(t, xs)
    BY DEF RowsOf
  <2>2. IndexRows(t, xs) = {IndexRow(t, x) : x \in xs}
    BY DEF IndexRows, IndexRow
  <2> QED
    BY <2>1, <2>2
<1>4. \A row \in RowsOf("pg_constraint", t, xs) :
        row = PrimaryRow(t) \/ \E x \in xs : x.unique /\ row = UniqueRow(t, x)
  <2>1. RowsOf("pg_constraint", t, xs) = ConstraintRows(t, xs)
    BY DEF RowsOf
  <2>2. ConstraintRows(t, xs)
          = (IF t.hasPrimaryKey THEN {PrimaryRow(t)} ELSE {})
            \cup {UniqueRow(t, x) : x \in {y \in xs : y.unique}}
    BY DEF ConstraintRows, PrimaryRow, UniqueRow
  <2> QED
    BY <2>1, <2>2
<1> QED
  BY <1>1, <1>2, <1>3, <1>4

\* The fields of the rows.
LEMMA RowFields ==
  /\ \A t : /\ TableClass(t).oid = t.id /\ TableClass(t).kind = "r"
            /\ TableClass(t).namespace = t.schema /\ TableClass(t).type = TableRowTypeOid(t)
  /\ \A t, x : /\ IndexClass(t, x).oid = IndexRelationOid(x) /\ IndexClass(t, x).kind = "i"
               /\ IndexClass(t, x).namespace = t.schema
  /\ \A v : /\ ViewClass(v).oid = ViewRelationOid(v) /\ ViewClass(v).kind = "v"
            /\ ViewClass(v).namespace = v.schema
  /\ \A t, i : /\ TableColumn(t, i).relid = t.id /\ TableColumn(t, i).num = i
               /\ TableColumn(t, i).name = t.columns[i]
  /\ \A x, i : /\ IndexColumn(x, i).relid = IndexRelationOid(x) /\ IndexColumn(x, i).num = i
               /\ IndexColumn(x, i).name = x.columns[i]
  /\ \A t, x : /\ IndexRow(t, x).indexrelid = IndexRelationOid(x) /\ IndexRow(t, x).relid = t.id
               /\ IndexRow(t, x).key = Attnums(t, x) /\ IndexRow(t, x).unique = x.unique
  /\ \A t, x : /\ UniqueRow(t, x).type = "u" /\ UniqueRow(t, x).relid = t.id
               /\ UniqueRow(t, x).indid = IndexRelationOid(x)
               /\ UniqueRow(t, x).key = Attnums(t, x)
  /\ \A t : /\ PrimaryRow(t).type = "p" /\ PrimaryRow(t).relid = t.id
            /\ PrimaryRow(t).key = <<ColumnAttnum(t, t.primaryKey)>>
  /\ \A t : /\ TypeRow(t).oid = TableRowTypeOid(t) /\ TypeRow(t).relid = t.id
            /\ TypeRow(t).namespace = t.schema
  BY SMTT(30) DEF TableClass, IndexClass, ViewClass, TableColumn, IndexColumn, IndexRow, UniqueRow,
         PrimaryRow, TypeRow

LEMMA SmallIdsAre == \A a \in SmallIds : a \in Nat /\ 1 <= a /\ a <= 99999
  BY SMTT(60) DEF SmallIds

\* Oids of tables, indexes and views lie apart.
LEMMA OidsDiffer ==
  ASSUME NEW c, WellFormed(c)
  PROVE  /\ \A t \in c.tables : t.id # 0
         /\ \A t, u \in c.tables : t.id = u.id => t = u
         /\ \A t \in c.tables, x \in c.indexes : t.id # IndexRelationOid(x)
         /\ \A t \in c.tables, v \in c.views : t.id # ViewRelationOid(v)
         /\ \A x \in c.indexes, v \in c.views : IndexRelationOid(x) # ViewRelationOid(v)
         /\ \A x, y \in c.indexes : IndexRelationOid(x) = IndexRelationOid(y) => x = y
         /\ \A t, u \in c.tables : \A x \in Links(c, t) : x \in Links(c, u) => t = u
<1>1. /\ \A t \in c.tables : t.id \in SmallIds
      /\ \A x \in c.indexes : x.id \in SmallIds
      /\ \A v \in c.views : v.id \in SmallIds
      /\ \A t, u \in c.tables : t.id = u.id => t = u
      /\ \A x, y \in c.indexes : x.id = y.id => x = y
      /\ \A x \in c.indexes, i \in Nat : <<i, x.id>> \in c.byTable => i = x.table
  BY DEF WellFormed
<1>2. /\ \A a \in SmallIds : a # 0 /\ a \in Nat
      /\ \A a, b \in SmallIds : /\ a # 100000 + b /\ a # 500000 + b
                                /\ 100000 + a # 500000 + b
                                /\ 100000 + a = 100000 + b => a = b
  <2>1. \A a \in SmallIds : a \in Nat /\ 1 <= a /\ a <= 99999
    BY ONLY SmallIdsAre
  <2>2. \A a \in SmallIds : a # 0
    BY <2>1
  <2>3. ASSUME NEW a \in Nat, NEW b \in Nat, a <= 99999, b <= 99999
        PROVE  a # 100000 + b
    BY <2>3
  <2>4. ASSUME NEW a \in Nat, NEW b \in Nat, a <= 99999, b <= 99999
        PROVE  a # 500000 + b
    BY <2>4
  <2>5. ASSUME NEW a \in Nat, NEW b \in Nat, a <= 99999, b <= 99999
        PROVE  100000 + a # 500000 + b
    BY <2>5
  <2>6. ASSUME NEW a \in Nat, NEW b \in Nat, 100000 + a = 100000 + b
        PROVE  a = b
    BY <2>6
  <2> QED
    BY <2>1, <2>2, <2>3, <2>4, <2>5, <2>6
<1>3. \A t \in c.tables, x \in c.indexes : t.id # IndexRelationOid(x)
  <2> SUFFICES ASSUME NEW t \in c.tables, NEW x \in c.indexes
               PROVE  t.id # 100000 + x.id
    BY DEF IndexRelationOid
  <2> QED
    BY <1>1, <1>2
<1>4. \A t \in c.tables, v \in c.views : t.id # ViewRelationOid(v)
  <2> SUFFICES ASSUME NEW t \in c.tables, NEW v \in c.views
               PROVE  t.id # 500000 + v.id
    BY DEF ViewRelationOid
  <2> QED
    BY <1>1, <1>2
<1>5. \A x \in c.indexes, v \in c.views : IndexRelationOid(x) # ViewRelationOid(v)
  <2> SUFFICES ASSUME NEW x \in c.indexes, NEW v \in c.views
               PROVE  100000 + x.id # 500000 + v.id
    BY DEF IndexRelationOid, ViewRelationOid
  <2> QED
    BY <1>1, <1>2
<1>6. \A x, y \in c.indexes : IndexRelationOid(x) = IndexRelationOid(y) => x = y
  <2> SUFFICES ASSUME NEW x \in c.indexes, NEW y \in c.indexes,
                      100000 + x.id = 100000 + y.id
               PROVE  x.id = y.id
    BY <1>1 DEF IndexRelationOid
  <2> QED
    BY <1>1, <1>2
<1>7. ASSUME NEW t \in c.tables, NEW u \in c.tables, NEW x \in Links(c, t), x \in Links(c, u)
      PROVE  t = u
  BY <1>1, <1>2, <1>7 DEF Links
<1> QED
  BY <1>1, <1>2, <1>3, <1>4, <1>5, <1>6, <1>7

\* column_attnum names a column of the table, or is 0.
LEMMA AttnumFacts ==
  ASSUME NEW t, NEW name, NEW n, n = ColumnAttnum(t, name), n # 0
  PROVE  name \in Range(t.columns) /\ n \in DOMAIN t.columns /\ t.columns[n] = name
<1>1. name \in Range(t.columns)
  BY DEF ColumnAttnum
<1>2. n = CHOOSE i \in DOMAIN t.columns : t.columns[i] = name
  BY <1>1 DEF ColumnAttnum
<1>3. \E i \in DOMAIN t.columns : t.columns[i] = name
  BY <1>1 DEF Range
<1> QED
  BY <1>1, <1>2, <1>3

-----------------------------------------------------------------------------
(***************************************************************************)
(* The joins, once the registration is done.                               *)
(***************************************************************************)
RelationIs(sys, oid, kinds) ==
  /\ Cardinality({k \in sys["pg_class"] : k.oid = oid}) = 1
  /\ Cardinality({k \in sys["pg_class"] : k.oid = oid /\ k.kind \in kinds}) = 1
NamesAt(sys, relid, num) ==
  {a.name : a \in {b \in sys["pg_attribute"] : b.relid = relid /\ b.num = num}}

LEMMA One ==
  ASSUME NEW S, NEW e, e \in S, \A y \in S : y = e
  PROVE  Cardinality(S) = 1
<1>1. S = {e}
  OBVIOUS
<1> QED
  BY <1>1, FS_Singleton

\* A row of pg_class is that of a view, a table or an index of a table.
LEMMA ClassSources ==
  ASSUME NEW c, NEW d, NEW r, NEW sys, Sound(c, d, r, sys), NEW k \in sys["pg_class"]
  PROVE  \/ \E v \in c.views : k = ViewClass(v) /\ v.schema \in sys["pg_namespace"]
         \/ \E t \in c.tables :
              /\ Homed(sys, t)
              /\ k = TableClass(t) \/ \E x \in Links(c, t) : k = IndexClass(t, x)
<1>1. Derived(sys, c, "pg_class", k)
  BY DEF Sound, Provenance, Visited
<1>2. ASSUME NEW v \in c.views, k \in ViewRows({v})
      PROVE  k = ViewClass(v)
  BY <1>2 DEF ViewRows, ViewClass
<1>3. ASSUME NEW t, NEW xs, Comes(sys, c, "pg_class", k, t, xs)
      PROVE  /\ t \in c.tables /\ Homed(sys, t)
             /\ k = TableClass(t) \/ \E x \in Links(c, t) : k = IndexClass(t, x)
  <2>1. t \in c.tables /\ Homed(sys, t) /\ xs \subseteq Links(c, t)
    BY <1>3 DEF Comes
  <2>2. k \in RowsOf("pg_class", t, xs)
    BY <1>3 DEF Comes
  <2>3. k = TableClass(t) \/ \E x \in xs : k = IndexClass(t, x)
    BY <2>2, RowsAre
  <2> QED
    BY <2>1, <2>3
<1> QED
  BY <1>1, <1>2, <1>3 DEF Derived, FromView

\* One row for a table, one for an index.
LEMMA TableHasOneRow ==
  ASSUME NEW c, WellFormed(c), NEW d, NEW r, NEW sys, Sound(c, d, r, sys),
         NEW t \in c.tables, TableClass(t) \in sys["pg_class"],
         NEW kinds, "r" \in kinds
  PROVE  RelationIs(sys, t.id, kinds)
<1>1. ASSUME NEW k \in sys["pg_class"], k.oid = t.id
      PROVE  k = TableClass(t)
  <2>1. ASSUME NEW v \in c.views, k = ViewClass(v)
        PROVE  FALSE
    <3>1. k.oid = ViewRelationOid(v)
      BY <2>1, RowFields
    <3>2. t.id # ViewRelationOid(v)
      BY OidsDiffer
    <3> QED
      BY <1>1, <3>1, <3>2
  <2>2. ASSUME NEW u \in c.tables, k = TableClass(u)
        PROVE  u = t
    <3>1. k.oid = u.id
      BY <2>2, RowFields
    <3>2. t.id = u.id => t = u
      BY OidsDiffer
    <3> QED
      BY <1>1, <3>1, <3>2
  <2>3. ASSUME NEW u, NEW x \in Links(c, u), k = IndexClass(u, x)
        PROVE  FALSE
    <3>1. k.oid = IndexRelationOid(x)
      BY <2>3 DEF IndexClass
    <3>2. x \in c.indexes
      BY DEF Links
    <3>3. t.id # IndexRelationOid(x)
      BY <3>2, OidsDiffer
    <3> QED
      BY <1>1, <3>1, <3>3
  <2> QED
    BY <2>1, <2>2, <2>3, ClassSources
<1>2. TableClass(t).oid = t.id /\ TableClass(t).kind = "r"
  BY RowFields
<1>3. Cardinality({k \in sys["pg_class"] : k.oid = t.id}) = 1
  <2>1. TableClass(t) \in {k \in sys["pg_class"] : k.oid = t.id}
    BY <1>2
  <2>2. \A y \in {k \in sys["pg_class"] : k.oid = t.id} : y = TableClass(t)
    BY <1>1
  <2> QED
    BY <2>1, <2>2, One
<1>4. Cardinality({k \in sys["pg_class"] : k.oid = t.id /\ k.kind \in kinds}) = 1
  <2>1. TableClass(t) \in {k \in sys["pg_class"] : k.oid = t.id /\ k.kind \in kinds}
    BY <1>2
  <2>2. \A y \in {k \in sys["pg_class"] : k.oid = t.id /\ k.kind \in kinds} : y = TableClass(t)
    BY <1>1
  <2> QED
    BY <2>1, <2>2, One
<1> QED
  BY <1>3, <1>4 DEF RelationIs

LEMMA IndexHasOneRow ==
  ASSUME NEW c, WellFormed(c), NEW d, NEW r, NEW sys, Sound(c, d, r, sys),
         NEW t \in c.tables, NEW x \in Links(c, t), IndexClass(t, x) \in sys["pg_class"],
         NEW kinds, "i" \in kinds
  PROVE  RelationIs(sys, IndexRelationOid(x), kinds)
<1> DEFINE oid == IndexRelationOid(x)
<1>0. x \in c.indexes
  BY DEF Links
<1>1. ASSUME NEW k \in sys["pg_class"], k.oid = oid
      PROVE  k = IndexClass(t, x)
  <2>1. ASSUME NEW v \in c.views, k = ViewClass(v)
        PROVE  FALSE
    <3>1. k.oid = ViewRelationOid(v)
      BY <2>1, RowFields
    <3>2. IndexRelationOid(x) # ViewRelationOid(v)
      BY <1>0, OidsDiffer
    <3> QED
      BY <1>1, <3>1, <3>2
  <2>2. ASSUME NEW u \in c.tables, k = TableClass(u)
        PROVE  FALSE
    <3>1. k.oid = u.id
      BY <2>2, RowFields
    <3>2. u.id # IndexRelationOid(x)
      BY <1>0, OidsDiffer
    <3> QED
      BY <1>1, <3>1, <3>2
  <2>3. ASSUME NEW u \in c.tables, NEW y \in Links(c, u), k = IndexClass(u, y)
        PROVE  k = IndexClass(t, x)
    <3>1. y \in c.indexes /\ IndexRelationOid(y) = IndexRelationOid(x)
      <4>1. k.oid = IndexRelationOid(y)
        BY <2>3 DEF IndexClass
      <4>2. y \in c.indexes
        BY DEF Links
      <4> QED
        BY <1>1, <4>1, <4>2
    <3>2. y = x
      BY <1>0, <3>1, OidsDiffer
    <3>3. x \in Links(c, u)
      BY <2>3, <3>2
    <3>4. u = t
      BY <3>3, OidsDiffer
    <3> QED
      BY <2>3, <3>2, <3>4
  <2> QED
    BY <2>1, <2>2, <2>3, ClassSources
<1>2. IndexClass(t, x).oid = oid /\ IndexClass(t, x).kind = "i"
  BY RowFields
<1> HIDE DEF oid
<1>3. Cardinality({k \in sys["pg_class"] : k.oid = oid}) = 1
  <2>1. IndexClass(t, x) \in {k \in sys["pg_class"] : k.oid = oid}
    BY <1>2
  <2>2. \A y \in {k \in sys["pg_class"] : k.oid = oid} : y = IndexClass(t, x)
    BY <1>1
  <2> QED
    BY <2>1, <2>2, One
<1>4. Cardinality({k \in sys["pg_class"] : k.oid = oid /\ k.kind \in kinds}) = 1
  <2>1. IndexClass(t, x) \in {k \in sys["pg_class"] : k.oid = oid /\ k.kind \in kinds}
    BY <1>2
  <2>2. \A y \in {k \in sys["pg_class"] : k.oid = oid /\ k.kind \in kinds} :
          y = IndexClass(t, x)
    BY <1>1
  <2> QED
    BY <2>1, <2>2, One
<1> QED
  BY <1>3, <1>4 DEF RelationIs, oid

\* What the system tables have of the table and the indexes a row comes from.
LEMMA ComesWith ==
  ASSUME NEW c, NEW sys, NEW m \in Visited \ {"pg_class"}, NEW row, NEW t, NEW xs,
         Comes(sys, c, m, row, t, xs)
  PROVE  /\ t \in c.tables /\ xs \subseteq Links(c, t)
         /\ TableClass(t) \in sys["pg_class"]
         /\ \A x \in xs : IndexClass(t, x) \in sys["pg_class"]
         /\ \A i \in DOMAIN t.columns : TableColumn(t, i) \in sys["pg_attribute"]
         /\ \A x \in xs : \A i \in DOMAIN x.columns :
              x.columns[i] \in Range(t.columns) => IndexColumn(x, i) \in sys["pg_attribute"]
         /\ m = "pg_constraint" => \A x \in xs : IndexRow(t, x) \in sys["pg_index"]
<1>1. t \in c.tables /\ xs \subseteq Links(c, t)
  BY DEF Comes
<1>2. PlaceOf(m) >= 3 /\ (m = "pg_constraint" => PlaceOf(m) = 5)
  <2>1. m = "pg_attribute" \/ m = "pg_index" \/ m = "pg_constraint"
    BY DEF Visited
  <2> QED
    BY <2>1, VisitedPlaces
<1>3. /\ RowsOf("pg_class", t, xs) \subseteq sys["pg_class"]
      /\ RowsOf("pg_attribute", t, xs) \subseteq sys["pg_attribute"]
      /\ m = "pg_constraint" => RowsOf("pg_index", t, xs) \subseteq sys["pg_index"]
  <2>1. \A k \in Visited : PlaceOf(k) <= PlaceOf(m) => Known(sys, k, t, xs)
    BY DEF Comes
  <2>2. PlaceOf(m) \in {3, 4, 5}
    BY VisitedPlaces DEF Visited
  <2>3. Known(sys, "pg_class", t, xs)
    BY <2>1, <2>2, VisitedPlaces DEF Visited
  <2>4. Known(sys, "pg_attribute", t, xs)
    BY <2>1, <2>2, VisitedPlaces DEF Visited
  <2>5. m = "pg_constraint" => Known(sys, "pg_index", t, xs)
    BY <1>2, <2>1, VisitedPlaces DEF Visited
  <2> QED
    BY <2>3, <2>4, <2>5 DEF Known
<1>4. TableClass(t) \in sys["pg_class"]
  BY <1>3, RowsAre
<1>5. ASSUME NEW x \in xs
      PROVE  IndexClass(t, x) \in sys["pg_class"]
  BY <1>3, RowsAre
<1>6. ASSUME NEW i \in DOMAIN t.columns
      PROVE  TableColumn(t, i) \in sys["pg_attribute"]
  BY <1>3, RowsAre
<1>7. ASSUME NEW x \in xs, NEW i \in DOMAIN x.columns, x.columns[i] \in Range(t.columns)
      PROVE  IndexColumn(x, i) \in sys["pg_attribute"]
  BY <1>3, <1>7, RowsAre
<1>8. ASSUME m = "pg_constraint", NEW x \in xs
      PROVE  IndexRow(t, x) \in sys["pg_index"]
  BY <1>3, <1>8, RowsAre
<1> QED
  BY <1>1, <1>4, <1>5, <1>6, <1>7, <1>8

LEMMA RowsCome ==
  ASSUME NEW c, NEW d, NEW r, NEW sys, Sound(c, d, r, sys), NEW m \in Visited \ {"pg_class"},
         NEW row \in sys[m]
  PROVE  \E t, xs : Comes(sys, c, m, row, t, xs)
<1>1. Derived(sys, c, m, row)
  BY DEF Sound, Provenance
<1> QED
  BY <1>1 DEF Derived

\* An attribute is a column of a table or of an index.
LEMMA AttributeSources ==
  ASSUME NEW c, NEW d, NEW r, NEW sys, Sound(c, d, r, sys), NEW a \in sys["pg_attribute"]
  PROVE  \E t \in c.tables :
           \/ /\ TableClass(t) \in sys["pg_class"]
              /\ \E i \in DOMAIN t.columns : a = TableColumn(t, i)
           \/ \E x \in Links(c, t) :
                /\ IndexClass(t, x) \in sys["pg_class"]
                /\ \E i \in DOMAIN x.columns : a = IndexColumn(x, i)
<1>1. "pg_attribute" \in Visited \ {"pg_class"}
  BY DEF Visited
<1>2. PICK t, xs : Comes(sys, c, "pg_attribute", a, t, xs)
  BY <1>1, RowsCome
<1>3. /\ t \in c.tables /\ xs \subseteq Links(c, t) /\ TableClass(t) \in sys["pg_class"]
      /\ \A x \in xs : IndexClass(t, x) \in sys["pg_class"]
  BY <1>1, <1>2, ComesWith
<1>4. a \in RowsOf("pg_attribute", t, xs)
  BY <1>2 DEF Comes
<1>5. \/ \E i \in DOMAIN t.columns : a = TableColumn(t, i)
      \/ \E x \in xs : \E i \in DOMAIN x.columns : a = IndexColumn(x, i)
  BY <1>4, RowsAre
<1> QED
  BY <1>3, <1>5

LEMMA AttributesRefer ==
  ASSUME NEW c, WellFormed(c), NEW d, NEW r, NEW sys, Sound(c, d, r, sys),
         NEW a \in sys["pg_attribute"]
  PROVE  RelationIs(sys, a.relid, {"r", "i"})
<1>1. ASSUME NEW t \in c.tables, TableClass(t) \in sys["pg_class"], NEW i, a = TableColumn(t, i)
      PROVE  RelationIs(sys, a.relid, {"r", "i"})
  <2>1. a.relid = t.id
    BY <1>1 DEF TableColumn
  <2>2. RelationIs(sys, t.id, {"r", "i"})
    BY <1>1, TableHasOneRow
  <2> QED
    BY <2>1, <2>2
<1>2. ASSUME NEW t \in c.tables, NEW x \in Links(c, t), IndexClass(t, x) \in sys["pg_class"],
             NEW i, a = IndexColumn(x, i)
      PROVE  RelationIs(sys, a.relid, {"r", "i"})
  <2>1. a.relid = IndexRelationOid(x)
    BY <1>2 DEF IndexColumn
  <2>2. RelationIs(sys, IndexRelationOid(x), {"r", "i"})
    BY <1>2, IndexHasOneRow
  <2> QED
    BY <2>1, <2>2
<1> QED
  BY <1>1, <1>2, AttributeSources

\* The name under a number: of a table's column, and of an index's.
LEMMA TableNames ==
  ASSUME NEW c, WellFormed(c), NEW d, NEW r, NEW sys, Sound(c, d, r, sys),
         NEW t \in c.tables, NEW n, TableColumn(t, n) \in sys["pg_attribute"]
  PROVE  NamesAt(sys, t.id, n) = {t.columns[n]}
<1>1. /\ TableColumn(t, n).relid = t.id /\ TableColumn(t, n).num = n
      /\ TableColumn(t, n).name = t.columns[n]
  BY DEF TableColumn
<1>2. ASSUME NEW a \in sys["pg_attribute"], a.relid = t.id, a.num = n
      PROVE  a.name = t.columns[n]
  <2>1. ASSUME NEW u \in c.tables, NEW i \in DOMAIN u.columns, a = TableColumn(u, i)
        PROVE  a.name = t.columns[n]
    <3>1. a.relid = u.id /\ a.num = i /\ a.name = u.columns[i]
      BY <2>1 DEF TableColumn
    <3>2. u.id = t.id => u = t
      BY OidsDiffer
    <3> QED
      BY <1>2, <3>1, <3>2
  <2>2. ASSUME NEW u \in c.tables, NEW x \in Links(c, u), NEW i, a = IndexColumn(x, i)
        PROVE  FALSE
    <3>1. a.relid = IndexRelationOid(x)
      BY <2>2 DEF IndexColumn
    <3>2. x \in c.indexes
      BY DEF Links
    <3>3. t.id # IndexRelationOid(x)
      BY <3>2, OidsDiffer
    <3> QED
      BY <1>2, <3>1, <3>3
  <2> QED
    BY <2>1, <2>2, AttributeSources
<1> QED
  BY <1>1, <1>2 DEF NamesAt

LEMMA IndexNames ==
  ASSUME NEW c, WellFormed(c), NEW d, NEW r, NEW sys, Sound(c, d, r, sys),
         NEW x \in c.indexes, NEW n, IndexColumn(x, n) \in sys["pg_attribute"]
  PROVE  NamesAt(sys, IndexRelationOid(x), n) = {x.columns[n]}
<1>1. /\ IndexColumn(x, n).relid = IndexRelationOid(x) /\ IndexColumn(x, n).num = n
      /\ IndexColumn(x, n).name = x.columns[n]
  BY DEF IndexColumn
<1>2. ASSUME NEW a \in sys["pg_attribute"], a.relid = IndexRelationOid(x), a.num = n
      PROVE  a.name = x.columns[n]
  <2>1. ASSUME NEW u \in c.tables, NEW i \in DOMAIN u.columns, a = TableColumn(u, i)
        PROVE  FALSE
    <3>1. a.relid = u.id
      BY <2>1 DEF TableColumn
    <3>2. u.id # IndexRelationOid(x)
      BY OidsDiffer
    <3> QED
      BY <1>2, <3>1, <3>2
  <2>2. ASSUME NEW u \in c.tables, NEW y \in Links(c, u), NEW i, a = IndexColumn(y, i)
        PROVE  a.name = x.columns[n]
    <3>1. a.relid = IndexRelationOid(y) /\ a.num = i /\ a.name = y.columns[i]
      BY <2>2 DEF IndexColumn
    <3>2. y \in c.indexes
      BY DEF Links
    <3>3. IndexRelationOid(y) = IndexRelationOid(x) => y = x
      BY <3>2, OidsDiffer
    <3> QED
      BY <1>2, <3>1, <3>3
  <2> QED
    BY <2>1, <2>2, AttributeSources
<1> QED
  BY <1>1, <1>2 DEF NamesAt

\* pg_class refers to pg_namespace and pg_type.
LEMMA ClassesRefer ==
  ASSUME NEW c, WellFormed(c), NEW d, NEW r, NEW sys, Sound(c, d, r, sys), r.step = "done",
         NEW k \in sys["pg_class"]
  PROVE  /\ k.namespace \in sys["pg_namespace"]
         /\ k.kind = "r" =>
              Cardinality({t \in sys["pg_type"] : t.oid = k.type /\ t.relid = k.oid}) = 1
<1>1. ASSUME NEW v \in c.views, k = ViewClass(v)
      PROVE  k.namespace = v.schema /\ k.kind = "v"
  BY <1>1 DEF ViewClass
<1>2. ASSUME NEW t, NEW x, k = IndexClass(t, x)
      PROVE  k.namespace = t.schema /\ k.kind = "i"
  BY <1>2 DEF IndexClass
<1>3. ASSUME NEW t \in c.tables, k = TableClass(t), Homed(sys, t)
      PROVE  /\ k.namespace = t.schema
             /\ Cardinality({y \in sys["pg_type"] : y.oid = k.type /\ y.relid = k.oid}) = 1
  <2>1. k.namespace = t.schema /\ k.type = TableRowTypeOid(t) /\ k.oid = t.id
    BY <1>3 DEF TableClass
  <2>2. /\ TypeRow(t) \in sys["pg_type"]
        /\ TypeRow(t).oid = TableRowTypeOid(t) /\ TypeRow(t).relid = t.id
    BY <1>3 DEF Homed, TypeRow
  <2>3. r.at >= 2
    BY DEF Sound, Control
  <2>4. \A row \in sys["pg_type"] : row.relid = 0 \/ \E u \in c.tables : row = TypeRow(u)
    BY <2>3 DEF Sound, Homes
  <2>5. ASSUME NEW row \in sys["pg_type"], row.relid = t.id
        PROVE  row = TypeRow(t)
    <3>1. row.relid # 0
      BY <2>5, OidsDiffer
    <3>2. PICK u \in c.tables : row = TypeRow(u)
      BY <2>4, <3>1
    <3>3. row.relid = u.id
      BY <3>2 DEF TypeRow
    <3>4. u.id = t.id => u = t
      BY OidsDiffer
    <3> QED
      BY <2>5, <3>2, <3>3, <3>4
  <2> DEFINE S == {y \in sys["pg_type"] : y.oid = k.type /\ y.relid = k.oid}
  <2>6. TypeRow(t) \in S
    BY <2>1, <2>2
  <2>7. \A y \in S : y = TypeRow(t)
    BY <2>1, <2>5
  <2>8. Cardinality(S) = 1
    <3> HIDE DEF S
    <3> QED
      BY <2>6, <2>7, One
  <2> QED
    BY <2>1, <2>8
<1>4. \A t : Homed(sys, t) => t.schema \in sys["pg_namespace"]
  BY DEF Homed
<1>5. CASE \E v \in c.views : k = ViewClass(v) /\ v.schema \in sys["pg_namespace"]
  <2>1. PICK v \in c.views : k = ViewClass(v) /\ v.schema \in sys["pg_namespace"]
    BY <1>5
  <2> QED
    BY <1>1, <2>1
<1>6. CASE \E t \in c.tables :
              /\ Homed(sys, t)
              /\ k = TableClass(t) \/ \E x \in Links(c, t) : k = IndexClass(t, x)
  <2>1. PICK t \in c.tables :
              /\ Homed(sys, t)
              /\ k = TableClass(t) \/ \E x \in Links(c, t) : k = IndexClass(t, x)
    BY <1>6
  <2>2. CASE k = TableClass(t)
    BY <1>3, <1>4, <2>1, <2>2
  <2>3. CASE \E x \in Links(c, t) : k = IndexClass(t, x)
    <3>1. k.namespace = t.schema /\ k.kind = "i"
      BY <1>2, <2>3
    <3> QED
      BY <1>4, <2>1, <3>1
  <2> QED
    BY <2>1, <2>2, <2>3
<1> QED
  BY <1>5, <1>6, ClassSources

\* pg_type refers to pg_namespace and, if nothing has changed, to pg_class.
LEMMA TypesRefer ==
  ASSUME NEW c, WellFormed(c), NEW d, NEW r, NEW sys, Sound(c, d, r, sys), r.step = "done",
         NEW row \in sys["pg_type"]
  PROVE  /\ row.namespace \in sys["pg_namespace"]
         /\ d = c /\ row.relid # 0 => RelationIs(sys, row.relid, {"r"})
<1>1. r.at = 6
  BY DEF Sound, Control
<1>2. /\ PgCatalogNamespace \in sys["pg_namespace"]
      /\ \/ row.relid = 0 /\ row.namespace = PgCatalogNamespace
         \/ \E t \in c.tables : row = TypeRow(t) /\ t.schema \in sys["pg_namespace"]
  BY <1>1 DEF Sound, Homes
<1>3. ASSUME NEW t \in c.tables, row = TypeRow(t), t.schema \in sys["pg_namespace"]
      PROVE  /\ row.namespace \in sys["pg_namespace"]
             /\ d = c => RelationIs(sys, row.relid, {"r"})
  <2>1. row.namespace = t.schema /\ row.relid = t.id
    BY <1>3 DEF TypeRow
  <2>2. ASSUME d = c
        PROVE  TableClass(t) \in sys["pg_class"]
    <3>1. t \in Listed(d, r)
      BY <2>2 DEF Listed
    <3>2. "pg_class" \in Visited /\ PlaceOf("pg_class") < r.at
      BY <1>1, VisitedPlaces DEF Visited
    <3>3. Known(sys, "pg_class", t, Links(d, t))
      BY <3>1, <3>2 DEF Sound, Covers
    <3>4. TableClass(t) \in RowsOf("pg_class", t, Links(d, t))
      BY RowsAre
    <3> QED
      BY <3>3, <3>4 DEF Known
  <2>3. d = c => RelationIs(sys, t.id, {"r"})
    BY <2>2, TableHasOneRow
  <2> QED
    BY <1>3, <2>1, <2>3
<1> QED
  BY <1>2, <1>3

\* pg_index refers to pg_class, and names the columns by their numbers.
LEMMA IndexesRefer ==
  ASSUME NEW c, WellFormed(c), NEW d, NEW r, NEW sys, Sound(c, d, r, sys),
         NEW row \in sys["pg_index"]
  PROVE  /\ RelationIs(sys, row.indexrelid, {"i"}) /\ RelationIs(sys, row.relid, {"r"})
         /\ \A i \in DOMAIN row.key : row.key[i] # 0 =>
              /\ NamesAt(sys, row.relid, row.key[i]) = NamesAt(sys, row.indexrelid, i)
              /\ Cardinality(NamesAt(sys, row.relid, row.key[i])) = 1
<1>1. "pg_index" \in Visited \ {"pg_class"}
  BY DEF Visited
<1>2. PICK t, xs : Comes(sys, c, "pg_index", row, t, xs)
  BY <1>1, RowsCome
<1>3. /\ t \in c.tables /\ xs \subseteq Links(c, t) /\ TableClass(t) \in sys["pg_class"]
      /\ \A x \in xs : IndexClass(t, x) \in sys["pg_class"]
      /\ \A i \in DOMAIN t.columns : TableColumn(t, i) \in sys["pg_attribute"]
      /\ \A x \in xs : \A i \in DOMAIN x.columns :
           x.columns[i] \in Range(t.columns) => IndexColumn(x, i) \in sys["pg_attribute"]
  BY <1>1, <1>2, ComesWith
<1>4. row \in RowsOf("pg_index", t, xs)
  BY <1>2 DEF Comes
<1>5. PICK x \in xs : row = IndexRow(t, x)
  BY <1>4, RowsAre
<1>6. row.indexrelid = IndexRelationOid(x) /\ row.relid = t.id /\ row.key = Attnums(t, x)
  BY <1>5 DEF IndexRow
<1>7. x \in Links(c, t) /\ x \in c.indexes
  BY <1>3, <1>5 DEF Links
<1>8. RelationIs(sys, IndexRelationOid(x), {"i"})
  BY <1>3, <1>5, <1>7, IndexHasOneRow
<1>9. RelationIs(sys, t.id, {"r"})
  BY <1>3, TableHasOneRow
<1>10. ASSUME NEW i \in DOMAIN row.key, row.key[i] # 0
       PROVE  /\ NamesAt(sys, row.relid, row.key[i]) = NamesAt(sys, row.indexrelid, i)
              /\ Cardinality(NamesAt(sys, row.relid, row.key[i])) = 1
  <2>1. i \in DOMAIN x.columns /\ row.key[i] = ColumnAttnum(t, x.columns[i])
    BY <1>6, <1>10 DEF Attnums
  <2>2. /\ x.columns[i] \in Range(t.columns) /\ row.key[i] \in DOMAIN t.columns
        /\ t.columns[row.key[i]] = x.columns[i]
    BY <1>10, <2>1, AttnumFacts
  <2>3. NamesAt(sys, t.id, row.key[i]) = {x.columns[i]}
    <3>1. TableColumn(t, row.key[i]) \in sys["pg_attribute"]
      BY <1>3, <2>2
    <3> QED
      BY <1>3, <2>2, <3>1, TableNames
  <2>4. NamesAt(sys, IndexRelationOid(x), i) = {x.columns[i]}
    <3>1. IndexColumn(x, i) \in sys["pg_attribute"]
      BY <1>3, <1>5, <2>1, <2>2
    <3> QED
      BY <1>7, <3>1, IndexNames
  <2>5. Cardinality({x.columns[i]}) = 1
    BY FS_Singleton
  <2> QED
    BY <1>6, <2>3, <2>4, <2>5
<1> QED
  BY <1>6, <1>8, <1>9, <1>10

\* A row of pg_index is that of an index of a table.
LEMMA IndexSources ==
  ASSUME NEW c, NEW d, NEW r, NEW sys, Sound(c, d, r, sys), NEW row \in sys["pg_index"]
  PROVE  \E t \in c.tables : \E x \in Links(c, t) : row = IndexRow(t, x)
<1>1. "pg_index" \in Visited \ {"pg_class"}
  BY DEF Visited
<1>2. PICK t, xs : Comes(sys, c, "pg_index", row, t, xs)
  BY <1>1, RowsCome
<1>3. t \in c.tables /\ xs \subseteq Links(c, t) /\ row \in RowsOf("pg_index", t, xs)
  BY <1>2 DEF Comes
<1>4. \E x \in xs : row = IndexRow(t, x)
  BY <1>3, RowsAre
<1> QED
  BY <1>3, <1>4

\* pg_constraint refers to pg_class and pg_index, and names columns by their numbers.
LEMMA ConstraintsRefer ==
  ASSUME NEW c, WellFormed(c), NEW d, NEW r, NEW sys, Sound(c, d, r, sys),
         NEW k \in sys["pg_constraint"]
  PROVE  /\ RelationIs(sys, k.relid, {"r"})
         /\ k.type = "u" =>
              Cardinality({x \in sys["pg_index"] : /\ x.indexrelid = k.indid
                                                   /\ x.relid = k.relid
                                                   /\ x.key = k.key /\ x.unique}) = 1
         /\ \A i \in DOMAIN k.key : k.key[i] # 0 => NamesAt(sys, k.relid, k.key[i]) # {}
<1>1. "pg_constraint" \in Visited \ {"pg_class"}
  BY DEF Visited
<1>2. PICK t, xs : Comes(sys, c, "pg_constraint", k, t, xs)
  BY <1>1, RowsCome
<1>3. /\ t \in c.tables /\ xs \subseteq Links(c, t) /\ TableClass(t) \in sys["pg_class"]
      /\ \A i \in DOMAIN t.columns : TableColumn(t, i) \in sys["pg_attribute"]
      /\ \A x \in xs : IndexRow(t, x) \in sys["pg_index"]
  BY <1>1, <1>2, ComesWith
<1>4. k \in RowsOf("pg_constraint", t, xs)
  BY <1>2 DEF Comes
<1>5. k = PrimaryRow(t) \/ \E x \in xs : x.unique /\ k = UniqueRow(t, x)
  BY <1>4, RowsAre
<1>6. k.relid = t.id
  <2>1. k = PrimaryRow(t) => k.relid = t.id
    BY DEF PrimaryRow
  <2>2. \A x : k = UniqueRow(t, x) => k.relid = t.id
    BY DEF UniqueRow
  <2> QED
    BY <1>5, <2>1, <2>2
<1>7. RelationIs(sys, t.id, {"r"})
  BY <1>3, TableHasOneRow
\* A number other than 0 in a key is that of a column.
<1>8. ASSUME NEW name, ColumnAttnum(t, name) # 0
      PROVE  NamesAt(sys, t.id, ColumnAttnum(t, name)) # {}
  <2> DEFINE n == ColumnAttnum(t, name)
  <2>1. n \in DOMAIN t.columns
    BY <1>8, AttnumFacts
  <2>2. TableColumn(t, n) \in sys["pg_attribute"]
    BY <1>3, <2>1
  <2> HIDE DEF n
  <2>3. NamesAt(sys, t.id, n) = {t.columns[n]}
    BY <1>3, <2>2, TableNames
  <2>4. NamesAt(sys, t.id, n) # {}
    BY <2>3
  <2> QED
    BY <2>4 DEF n
<1>9. ASSUME NEW i \in DOMAIN k.key, k.key[i] # 0
      PROVE  NamesAt(sys, k.relid, k.key[i]) # {}
  <2>1. ASSUME k = PrimaryRow(t)
        PROVE  \E name : k.key[i] = ColumnAttnum(t, name)
    <3>1. k.key = <<ColumnAttnum(t, t.primaryKey)>>
      BY <2>1 DEF PrimaryRow
    <3>2. i = 1
      BY <1>9, <3>1
    <3> QED
      BY <3>1, <3>2
  <2>2. ASSUME NEW x, k = UniqueRow(t, x)
        PROVE  \E name : k.key[i] = ColumnAttnum(t, name)
    <3>1. k.key = Attnums(t, x)
      BY <2>2 DEF UniqueRow
    <3> QED
      BY <1>9, <3>1 DEF Attnums
  <2> QED
    BY <1>5, <1>6, <1>8, <1>9, <2>1, <2>2
\* The index of a unique constraint is the only one of its oid.
<1>10. ASSUME k.type = "u"
       PROVE  Cardinality({x \in sys["pg_index"] : /\ x.indexrelid = k.indid
                                                   /\ x.relid = k.relid
                                                   /\ x.key = k.key /\ x.unique}) = 1
  <2>1. k # PrimaryRow(t)
    BY <1>10 DEF PrimaryRow
  <2>2. PICK x \in xs : x.unique /\ k = UniqueRow(t, x)
    BY <1>5, <2>1
  <2>3. k.indid = IndexRelationOid(x) /\ k.key = Attnums(t, x)
    BY <2>2 DEF UniqueRow
  <2>4. x \in c.indexes
    BY <1>3, <2>2 DEF Links
  <2>5. /\ IndexRow(t, x) \in sys["pg_index"]
        /\ IndexRow(t, x).indexrelid = IndexRelationOid(x)
        /\ IndexRow(t, x).relid = t.id /\ IndexRow(t, x).key = Attnums(t, x)
    BY <1>3, <2>2 DEF IndexRow
  <2>6. IndexRow(t, x).unique
    BY <2>2 DEF IndexRow
  <2>7. ASSUME NEW row \in sys["pg_index"], row.indexrelid = IndexRelationOid(x),
               row.relid = t.id
        PROVE  row = IndexRow(t, x)
    <3>1. PICK u \in c.tables : \E y \in Links(c, u) : row = IndexRow(u, y)
      BY IndexSources
    <3>2. PICK y \in Links(c, u) : row = IndexRow(u, y)
      BY <3>1
    <3>3. row.indexrelid = IndexRelationOid(y) /\ row.relid = u.id
      BY <3>2 DEF IndexRow
    <3>4. y \in c.indexes
      BY DEF Links
    <3>5. y = x
      BY <2>4, <2>7, <3>3, <3>4, OidsDiffer
    <3>6. u = t
      BY <1>3, <2>7, <3>3, OidsDiffer
    <3> QED
      BY <3>2, <3>5, <3>6
  <2> DEFINE S == {y \in sys["pg_index"] : /\ y.indexrelid = k.indid /\ y.relid = k.relid
                                           /\ y.key = k.key /\ y.unique}
  <2>8. IndexRow(t, x) \in S
    BY <1>6, <2>3, <2>5, <2>6
  <2>9. \A y \in S : y = IndexRow(t, x)
    BY <1>6, <2>3, <2>7
  <2>10. Cardinality(S) = 1
    <3> HIDE DEF S
    <3> QED
      BY <2>8, <2>9, One
  <2> QED
    BY <2>10
<1> QED
  BY <1>6, <1>7, <1>9, <1>10

\* What JoinsFindOneRow says, for a registration that is done.
LEMMA SoundJoins ==
  ASSUME NEW c, WellFormed(View(c)), JoinInv(c)
  PROVE  JoinsFindOneRow
<1> SUFFICES ASSUME registering.step = "done", ~ddl.grew
             PROVE  JoinsFindOneRow
  BY DEF JoinsFindOneRow
<1>1. /\ Sound(View(c), View(described), registering, system)
      /\ ddl.changes = 0 => View(described) = View(c)
  BY DEF JoinInv
<1>2. \A k \in system["pg_class"] :
        /\ k.namespace \in system["pg_namespace"]
        /\ k.kind = "r" => Cardinality({t \in system["pg_type"] :
                                          t.oid = k.type /\ t.relid = k.oid}) = 1
  BY <1>1, ClassesRefer
<1>3. \A t \in system["pg_type"] :
        /\ t.namespace \in system["pg_namespace"]
        /\ ddl.changes = 0 /\ t.relid # 0 => RelationIs(system, t.relid, {"r"})
  BY <1>1, TypesRefer
<1>4. \A a \in system["pg_attribute"] : RelationIs(system, a.relid, {"r", "i"})
  BY <1>1, AttributesRefer
<1>5. \A x \in system["pg_index"] :
        /\ RelationIs(system, x.indexrelid, {"i"}) /\ RelationIs(system, x.relid, {"r"})
        /\ \A i \in DOMAIN x.key : x.key[i] # 0 =>
             /\ NamesAt(system, x.relid, x.key[i]) = NamesAt(system, x.indexrelid, i)
             /\ Cardinality(NamesAt(system, x.relid, x.key[i])) = 1
  BY <1>1, IndexesRefer
<1>6. \A k \in system["pg_constraint"] :
        /\ RelationIs(system, k.relid, {"r"})
        /\ k.type = "u" =>
             Cardinality({x \in system["pg_index"] : /\ x.indexrelid = k.indid
                                                     /\ x.relid = k.relid
                                                     /\ x.key = k.key /\ x.unique}) = 1
        /\ \A i \in DOMAIN k.key : k.key[i] # 0 => NamesAt(system, k.relid, k.key[i]) # {}
  BY <1>1, ConstraintsRefer
<1> QED
  BY <1>2, <1>3, <1>4, <1>5, <1>6, ZenonT(30) DEF JoinsFindOneRow, HasOne, RelationIs, NamesAt

\* Whatever a row of the system tables refers to is one row, of the right kind, as long
\* as DDL beside the registration only drops, and no DROP uncovers a legacy table: each
\* list is read again, in two scans, but in an order in which what a row refers to was
\* read before the row, and ids are not used twice.  For every catalog the registration
\* may begin with whose ids stay below the distance of the oid ranges, with legacy keys
\* of any tables, and every number of DDL steps.
THEOREM JoinsAreSound ==
  ASSUME NEW CONSTANT catalogs, NEW CONSTANT columnLists,
         \A c \in catalogs : IsWhole(c) /\ WellFormed(View(c))
  PROVE  SystemSpec(catalogs, columnLists) => []JoinsFindOneRow
<1> DEFINE Inv == \E c \in catalogs : JoinInv(c)
<1>1. (\E c \in catalogs : SystemInit(c)) => Inv
  <2> SUFFICES ASSUME NEW c \in catalogs, SystemInit(c)
               PROVE  JoinInv(c)
    OBVIOUS
  <2>1. described = c /\ registering = AtList(0) /\ system = [n \in SystemTables |-> {}]
    BY DEF SystemInit
  <2>2. ddl.changes = 0
    BY DEF SystemInit
  <2>3. Sound(View(c), View(described), registering, system)
    BY <2>1, StartSound
  <2>4. Scanned(described, registering)
    BY <2>1 DEF Scanned, AtList
  <2> QED
    BY <2>1, <2>2, <2>3, <2>4 DEF JoinInv
<1>2. Inv /\ [SystemNext(columnLists)]_catalogVars => Inv'
  <2> SUFFICES ASSUME NEW c \in catalogs, JoinInv(c), [SystemNext(columnLists)]_catalogVars
               PROVE  JoinInv(c)'
    OBVIOUS
  <2>1. WellFormed(View(c)) /\ ddl.changes \in Nat
    BY DEF JoinInv
  <2>2. CASE \/ List \/ ListLegacy \/ ListViews \/ Load \/ Register
             \/ \E t \in registering.tables : Visit(t)
    <3>1. UNCHANGED <<described, ddl>>
      BY <2>2 DEF List, ListLegacy, ListViews, Load, Register, Visit
    <3>2. ~ddl.grew => Sound(View(c), View(described), registering', system')
      BY <2>1, <2>2, RegistrationSound DEF JoinInv
    <3>3. ~ddl.grew => IsWhole(described) /\ Scanned(described, registering')
      BY <2>2, RegistrationScanned DEF JoinInv
    <3>4. View(described') = View(described) /\ IsWhole(described') = IsWhole(described)
          /\ Scanned(described', registering') = Scanned(described, registering')
      BY <3>1
    <3> QED
      BY <3>1, <3>2, <3>3, <3>4 DEF JoinInv
  <2>3. CASE Ddl(columnLists)
    <3>1. PICK g, dr : Changed(g, dr)
      <4>1. \A t : DropTable(t) => \E g, dr : Changed(g, dr)
        BY DEF DropTable
      <4> QED
        BY <2>3, <4>1 DEF Ddl, CreateSchema, DropSchema, CreateView, CreateTable,
             RenameTable, ChangeColumns, PutById, StoreLegacy, DropLegacy, CreateIndex,
             DropView, LinkIndex, DropIndex, UnlinkIndex
    <3>2. ddl'.changes = ddl.changes + 1 /\ (ddl'.grew = (ddl.grew \/ g))
      BY <3>1 DEF Changed
    <3>3. ddl'.changes \in Nat /\ ddl'.changes # 0
      BY <2>1, <3>2
    <3>4. ~ddl'.grew => ~ddl.grew
      BY <3>2
    <3>5. ~ddl'.grew => /\ IsWhole(described') /\ Scanned(described', registering')
                        /\ Sound(View(c), View(described'), registering', system')
      BY <2>3, <3>4, DdlSound DEF JoinInv
    <3> QED
      BY <3>3, <3>5 DEF JoinInv
  <2>4. CASE UNCHANGED catalogVars
    BY <2>4 DEF JoinInv, catalogVars, Scanned, View, IsWhole
  <2> QED
    BY <2>2, <2>3, <2>4 DEF SystemNext
<1>3. Inv => JoinsFindOneRow
  BY SoundJoins
<1> QED
  BY <1>1, <1>2, <1>3, PTL DEF SystemSpec
=============================================================================
