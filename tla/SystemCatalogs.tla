--------------------------- MODULE SystemCatalogs ---------------------------
(***************************************************************************)
(* The pg_catalog tables a query through DataFusion sees.  They are built  *)
(* anew for every query that names one of them, one after the other, and   *)
(* each is computed from its own reads of the catalog: the list of tables, *)
(* then the indexes of one table after the other.  Other sessions' DDL     *)
(* runs in between; it appears here as its puts and deletes of catalog     *)
(* keys that these reads look at (the module Catalog has the statements).  *)
(*                                                                         *)
(* A table of public has its descriptor under its id and a copy under its  *)
(* name, the legacy key, where older versions kept the only one.  Names    *)
(* are numbers.                                                            *)
(*                                                                         *)
(* Columns of the system tables that no other table refers to are left     *)
(* out.  pg_class lists the indexes of a table twice, the first time for   *)
(* relhasindex alone; one listing stands for both here.                    *)
(***************************************************************************)
EXTENDS Integers, Sequences, FiniteSets, SequencesExt

CONSTANT MaxChanges       \* bound: DDL steps during one registration

VARIABLES described,      \* the catalog: schemas, tables by id and by legacy key, views,
                          \* indexes by id and by table
          registering,    \* where the registration is, and what it has read
          system,         \* the registered tables: sets of rows
          ddl             \* history: number of DDL steps, whether one added or uncovered
                          \* something (grew), whether one dropped an index

catalogVars == <<described, registering, system, ddl>>

-----------------------------------------------------------------------------
(***************************************************************************)
(* Oids.                                                                   *)
(***************************************************************************)
PublicSchema == 1
PgCatalogNamespace == 10000
InformationSchemaNamespace == 10001
IndexRelationOid(index) == 100000 + index.id
PrimaryKeyConstraintOid(table) == 200000 + table.id
UniqueConstraintOid(index) == 300000 + index.id
TableRowTypeOid(table) == 400000 + table.id
ViewRelationOid(view) == 500000 + view.id
BaseTypes == {16, 20, 23, 25, 705, 1043, 1083, 1186, 1266, 2249}

\* column_attnum: the position of a column, 0 when the table has none of the name.
ColumnAttnum(table, name) ==
  IF name \in Range(table.columns) THEN CHOOSE i \in DOMAIN table.columns : table.columns[i] = name
  ELSE 0
Attnums(table, index) == [i \in DOMAIN index.columns |-> ColumnAttnum(table, index.columns[i])]

-----------------------------------------------------------------------------
(***************************************************************************)
(* The rows one table, with the indexes listed for it, adds to each.       *)
(***************************************************************************)
NamespaceRows(schemas) == {PgCatalogNamespace, InformationSchemaNamespace} \cup schemas

TypeRows(tables) ==
  {[oid |-> o, namespace |-> PgCatalogNamespace, relid |-> 0] : o \in BaseTypes}
  \cup {[oid |-> TableRowTypeOid(t), namespace |-> t.schema, relid |-> t.id] : t \in tables}

ClassRows(table, indexes) ==
  {[oid |-> table.id, namespace |-> table.schema, kind |-> "r", type |-> TableRowTypeOid(table),
    natts |-> Len(table.columns)]}
  \cup {[oid |-> IndexRelationOid(x), namespace |-> table.schema, kind |-> "i", type |-> 0,
         natts |-> 1] : x \in indexes}

ViewRows(views) ==
  {[oid |-> ViewRelationOid(v), namespace |-> v.schema, kind |-> "v", type |-> 0, natts |-> 0] :
     v \in views}

AttributeRows(table, indexes) ==
  {[relid |-> table.id, name |-> table.columns[i], num |-> i] : i \in DOMAIN table.columns}
  \cup UNION {{[relid |-> IndexRelationOid(x), name |-> x.columns[i], num |-> i] :
                 i \in {j \in DOMAIN x.columns : x.columns[j] \in Range(table.columns)}} :
              x \in indexes}

IndexRows(table, indexes) ==
  {[indexrelid |-> IndexRelationOid(x), relid |-> table.id, unique |-> x.unique,
    key |-> Attnums(table, x)] : x \in indexes}

ConstraintRows(table, indexes) ==
  (IF table.hasPrimaryKey
     THEN {[oid |-> PrimaryKeyConstraintOid(table), type |-> "p", relid |-> table.id,
            indid |-> 0, namespace |-> table.schema, key |-> <<ColumnAttnum(table, table.primaryKey)>>]}
     ELSE {})
  \cup {[oid |-> UniqueConstraintOid(x), type |-> "u", relid |-> table.id,
         indid |-> IndexRelationOid(x), namespace |-> table.schema, key |-> Attnums(table, x)] :
          x \in {y \in indexes : y.unique}}

RowsOf(name, table, indexes) ==
  CASE name = "pg_class" -> ClassRows(table, indexes)
    [] name = "pg_attribute" -> AttributeRows(table, indexes)
    [] name = "pg_index" -> IndexRows(table, indexes)
    [] name = "pg_constraint" -> ConstraintRows(table, indexes)

-----------------------------------------------------------------------------
(***************************************************************************)
(* The tables of a catalog.                                                *)
(***************************************************************************)
\* append_legacy_default_tables: a legacy key adds a table unless one listed before, in
\* any schema, has its id or its name.
WithLegacy(tables, legacy) ==
  tables \cup {l \in legacy : \A t \in tables : t.id # l.id /\ t.name # l.name}

\* What list_tables returns when nothing changes between its two scans.
Visible(d) == WithLegacy(d.tables, d.legacy)

\* What load_table finds: by name, or else by the legacy key.
Loadable(d) ==
  d.tables \cup {l \in d.legacy : \A t \in d.tables : t.schema # l.schema \/ t.name # l.name}

-----------------------------------------------------------------------------
(***************************************************************************)
(* Registration.  registering.at counts the tables done; step is "list",   *)
(* "legacy" (tables by id are listed), "views", "visit" (one of the listed *)
(* tables) or "load" (its indexes, whose ids have been scanned), at the    *)
(* end "done" or "failed".                                                 *)
(***************************************************************************)
\* Mutant: attributes are read before the relations they belong to.
Order_AttributesFirst ==
  <<"pg_namespace", "pg_type", "pg_attribute", "pg_class", "pg_index", "pg_constraint">>
Order == <<"pg_namespace", "pg_type", "pg_class", "pg_attribute", "pg_index", "pg_constraint">>
SystemTables == Range(Order)
Current == Order[registering.at + 1]

AtList(n) == [at |-> n, step |-> IF n = Len(Order) THEN "done" ELSE "list", tables |-> {},
              table |-> {}, ids |-> {}]

\* list_schemas for pg_namespace, or the scan by id of list_tables
List ==
  /\ registering.step = "list"
  /\ IF Current = "pg_namespace"
       THEN /\ system' = [system EXCEPT ![Current] = NamespaceRows(described.schemas)]
            /\ registering' = AtList(registering.at + 1)
       ELSE /\ registering' = [registering EXCEPT !.tables = described.tables, !.step = "legacy"]
            /\ UNCHANGED system
  /\ UNCHANGED <<described, ddl>>

\* the scan of the legacy keys, which ends list_tables
ListLegacy ==
  /\ registering.step = "legacy"
  /\ LET tables == WithLegacy(registering.tables, described.legacy)
     IN IF Current = "pg_type"
          THEN /\ system' = [system EXCEPT ![Current] = TypeRows(tables)]
               /\ registering' = AtList(registering.at + 1)
          ELSE /\ system' = [system EXCEPT ![Current] = {}]
               /\ registering' = [registering EXCEPT !.tables = tables,
                                    !.step = IF Current = "pg_class" THEN "views" ELSE "visit"]
  /\ UNCHANGED <<described, ddl>>

\* list_views of pg_class
ListViews ==
  /\ registering.step = "views"
  /\ system' = [system EXCEPT ![Current] = ViewRows(described.views)]
  /\ registering' = [registering EXCEPT !.step = "visit"]
  /\ UNCHANGED <<described, ddl>>

\* list_indexes_for_table of the next table (in the order of names, which are left
\* open here) scans the ids
Visit(t) ==
  /\ registering.step = "visit"
  /\ registering' = [registering EXCEPT !.step = "load", !.table = {t}, !.tables = @ \ {t},
                       !.ids = {p[2] : p \in {q \in described.byTable : q[1] = t.id}}]
  /\ UNCHANGED <<described, system, ddl>>

\* and gets their payloads; one that is missing fails the query
Load ==
  /\ registering.step = "load"
  /\ LET indexes == {x \in described.indexes : x.id \in registering.ids}
     IN IF \E i \in registering.ids : \A x \in indexes : x.id # i
          THEN /\ registering' = [AtList(registering.at) EXCEPT !.step = "failed"]
               /\ UNCHANGED system
          ELSE /\ registering' = [registering EXCEPT !.step = "visit", !.table = {}, !.ids = {}]
               /\ system' = [system EXCEPT ![Current] =
                    @ \cup UNION {RowsOf(Current, t, indexes) : t \in registering.table}]
  /\ UNCHANGED <<described, ddl>>

Register ==
  /\ registering.step = "visit" /\ registering.tables = {}
  /\ registering' = AtList(registering.at + 1)
  /\ UNCHANGED <<described, system, ddl>>

-----------------------------------------------------------------------------
(***************************************************************************)
(* DDL of other sessions.  Ids come from counters and are never used       *)
(* again.                                                                  *)
(***************************************************************************)
Running == registering.step \notin {"done", "failed"}
FreshId == 10 + ddl.changes
Changed(grew, dropped) ==
  /\ Running /\ ddl.changes < MaxChanges
  /\ ddl' = [changes |-> ddl.changes + 1, grew |-> ddl.grew \/ grew,
             dropped |-> ddl.dropped \/ dropped]
  /\ UNCHANGED <<registering, system>>

CreateSchema ==
  /\ described' = [described EXCEPT !.schemas = @ \cup {FreshId}]
  /\ Changed(TRUE, FALSE)

DropSchema(s) ==
  /\ \A t \in Visible(described) \cup described.views : t.schema # s
  /\ described' = [described EXCEPT !.schemas = @ \ {s}]
  /\ Changed(FALSE, FALSE)

\* store_table puts the descriptor by id and, for public, under the legacy key last.
NameIsFree(schema, name) == \A t \in Loadable(described) : t.schema # schema \/ t.name # name
PutById(t) ==
  /\ described' = [described EXCEPT !.tables = {u \in @ : u.id # t.id} \cup {t}]
  /\ Changed(TRUE, FALSE)
StoreLegacy(t) ==
  /\ t.schema = PublicSchema /\ t \notin described.legacy
  /\ described' = [described EXCEPT !.legacy = {l \in @ : l.name # t.name} \cup {t}]
  /\ Changed(TRUE, FALSE)

CreateTable(t, name) ==
  /\ t.schema \in described.schemas /\ NameIsFree(t.schema, name)
  /\ PutById([t EXCEPT !.id = FreshId, !.name = name])

\* ALTER TABLE; the indexes of a column that is dropped stay
ChangeColumns(t, columns) ==
  /\ columns # t.columns /\ t.primaryKey \in Range(columns)
  /\ PutById([t EXCEPT !.columns = columns])

\* rename_table, after DropLegacy of the old name
RenameTable(t, name) ==
  /\ NameIsFree(t.schema, name)
  /\ PutById([t EXCEPT !.name = name])

\* drop_table: the by-id key goes first, the indexes follow by DropIndex and
\* UnlinkIndex, the legacy key is the last.  A table that was hidden may appear: a
\* legacy one of the same name, or the copy of an ALTER that was cut short.
DropTable(t) ==
  LET left == [described EXCEPT !.tables = @ \ {t}]
  IN /\ described' = left
     /\ Changed(~(Visible(left) \subseteq Visible(described)), FALSE)

DropLegacy(l) ==
  /\ described' = [described EXCEPT !.legacy = @ \ {l}]
  /\ Changed(FALSE, FALSE)

CreateView(s) ==
  /\ s \in described.schemas
  /\ described' = [described EXCEPT !.views = @ \cup {[id |-> FreshId, schema |-> s]}]
  /\ Changed(TRUE, FALSE)

DropView(v) ==
  /\ described' = [described EXCEPT !.views = @ \ {v}]
  /\ Changed(FALSE, FALSE)

\* Mutant: the key under the table is put before the payload.
CreateIndex_KeyFirst(t, columns, unique) ==
  /\ described' = [described EXCEPT !.byTable = @ \cup {<<t.id, FreshId>>}]
  /\ Changed(TRUE, FALSE)

\* write_index: the payload, then the key under the table
CreateIndex(t, columns, unique) ==
  /\ described' = [described EXCEPT !.indexes =
       @ \cup {[id |-> FreshId, table |-> t.id, columns |-> columns, unique |-> unique]}]
  /\ Changed(TRUE, FALSE)

LinkIndex(x) ==
  /\ <<x.table, x.id>> \notin described.byTable
  /\ described' = [described EXCEPT !.byTable = @ \cup {<<x.table, x.id>>}]
  /\ Changed(TRUE, FALSE)

\* drop_index_by_id: the payload, then the key under the table
DropIndex(x) ==
  /\ <<x.table, x.id>> \in described.byTable
  /\ described' = [described EXCEPT !.indexes = @ \ {x}]
  /\ Changed(FALSE, TRUE)

UnlinkIndex(p) ==
  /\ \A x \in described.indexes : x.id # p[2]
  /\ described' = [described EXCEPT !.byTable = @ \ {p}]
  /\ Changed(FALSE, TRUE)

-----------------------------------------------------------------------------
Ddl(columnLists) ==
  \/ CreateSchema
  \/ \E s \in described.schemas : DropSchema(s) \/ CreateView(s)
  \/ \E t \in described.tables : StoreLegacy(t) \/ DropTable(t)
  \/ \E l \in described.legacy : DropLegacy(l)
  \/ \E t \in Loadable(described) :
       \/ \E name \in {u.name : u \in Loadable(described)} \cup {FreshId} :
            CreateTable(t, name) \/ RenameTable(t, name)
       \/ \E columns \in columnLists :
            ChangeColumns(t, columns) \/ CreateIndex(t, columns, Len(columns) = 1)
  \/ \E v \in described.views : DropView(v)
  \/ \E x \in described.indexes : LinkIndex(x) \/ DropIndex(x)
  \/ \E p \in described.byTable : UnlinkIndex(p)

SystemInit(catalog) ==
  /\ described = catalog
  /\ registering = AtList(0)
  /\ system = [n \in SystemTables |-> {}]
  /\ ddl = [changes |-> 0, grew |-> FALSE, dropped |-> FALSE]

SystemNext(columnLists) ==
  \/ List \/ ListLegacy \/ ListViews \/ Load \/ Register
  \/ \E t \in registering.tables : Visit(t)
  \/ Ddl(columnLists)

SystemSpec(catalogs, columnLists) ==
  (\E c \in catalogs : SystemInit(c)) /\ [][SystemNext(columnLists)]_catalogVars

-----------------------------------------------------------------------------
(***************************************************************************)
(* Properties.                                                             *)
(***************************************************************************)
HasOne(set, P(_)) == Cardinality({r \in set : P(r)}) = 1

\* A client joins the system tables on their oids.  The registration reads the
\* catalog again for each of them, in an order in which whatever a table refers to
\* has been read before: as long as DDL only drops things meanwhile, and uncovers no
\* table, every reference finds one row, of the right kind, and the column numbers of
\* an index name the columns its own attributes name (0 stands for a column that is
\* gone).  pg_type refers forward, to pg_class, and is right only if nothing changes.
\* (A CREATE in between, or a DROP after which a legacy table is no longer hidden,
\* leaves references that find nothing, see the README.)
JoinsFindOneRow ==
  registering.step = "done" /\ ~ddl.grew =>
    LET class == system["pg_class"]
        attributes == system["pg_attribute"]
        relation(oid, kinds) == HasOne(class, LAMBDA c : c.oid = oid) /\
                                HasOne(class, LAMBDA c : c.oid = oid /\ c.kind \in kinds)
        nameOf(relid, num) == {a.name : a \in {b \in attributes : b.relid = relid /\ b.num = num}}
    IN /\ \A c \in class :
            /\ c.namespace \in system["pg_namespace"]
            /\ c.kind = "r" => HasOne(system["pg_type"], LAMBDA t : t.oid = c.type /\ t.relid = c.oid)
       /\ \A t \in system["pg_type"] :
            /\ t.namespace \in system["pg_namespace"]
            /\ ddl.changes = 0 /\ t.relid # 0 => relation(t.relid, {"r"})
       /\ \A a \in attributes : relation(a.relid, {"r", "i"})
       /\ \A x \in system["pg_index"] :
            /\ relation(x.indexrelid, {"i"}) /\ relation(x.relid, {"r"})
            /\ \A i \in DOMAIN x.key : x.key[i] # 0 =>
                 nameOf(x.relid, x.key[i]) = nameOf(x.indexrelid, i)
                 /\ Cardinality(nameOf(x.relid, x.key[i])) = 1
       /\ \A k \in system["pg_constraint"] :
            /\ relation(k.relid, {"r"})
            /\ k.type = "u" => HasOne(system["pg_index"], LAMBDA x :
                 x.indexrelid = k.indid /\ x.relid = k.relid /\ x.key = k.key /\ x.unique)
            /\ \A i \in DOMAIN k.key : k.key[i] # 0 => nameOf(k.relid, k.key[i]) # {}

\* A query that needs the system tables fails only while an index is being dropped:
\* write_index puts the payload before the key that leads to it.
ListingsFailOnlyOnDrops == registering.step = "failed" => ddl.dropped

=============================================================================
