--------------------------- MODULE CatalogProofs ---------------------------
(***************************************************************************)
(* The names of the catalog stay exclusive with one session, through any   *)
(* faults.                                                                 *)
(*                                                                         *)
(* The inductive invariant has two halves.  Good says what the store keeps *)
(* between any two writes: ids below their counters, one name per database *)
(* and schema id, one name per table id, and descriptors and legacy copies *)
(* that agree with the names that lead to them.  RunOK says of the writes  *)
(* a session has left that doing any prefix of them keeps Good:            *)
(*   - SchemaTodo: counters first, then a database or schema name with an  *)
(*     id nothing in the store refers to (CREATE DATABASE, CREATE SCHEMA,  *)
(*     the bootstrap), and writes that cannot harm (every DROP);           *)
(*   - TableTodo: the puts of one descriptor, by id before by name, after  *)
(*     the deletes of every other name of that table (store_table, and     *)
(*     rename_table's order).                                              *)
(* Each form is kept by the first write of the list (SchemaStep,           *)
(* TableStep), and each statement's list has one of them (StepsTodo).      *)
(***************************************************************************)
EXTENDS Catalog, TLAPS, FiniteSetTheorems, SequenceTheorems, NaturalsInduction,
        WellFoundedInduction

(***************************************************************************)
(* What the store says of databases, schemas and tables.                   *)
(***************************************************************************)
Kinds == {"database", "schema", "table", "tableId", "legacy"}
Numbered == {"database", "schema", "table"}
Root == DatabaseByName("defaultdb")

DbOf(store, q) == store[DatabaseByName(q[1])]
SchemaKey(store, q) == SchemaByName(DbOf(store, q), q[2])
SchemaOf(store, q) == store[SchemaKey(store, q)]
Resolved(store, q) == Has(store, DatabaseByName(q[1])) /\ Has(store, SchemaKey(store, q))
NameKey(store, q, m) == TableByName(DbOf(store, q), SchemaOf(store, q), m)

\* The name m of the place q leads to the table id IdOf(store, q, m).
Leads(store, q, m) == Resolved(store, q) /\ Has(store, NameKey(store, q, m))
IdOf(store, q, m) == store[NameKey(store, q, m)]

IsTable(t) ==
  t = TableRecord(t.id, t.db, t.schema, t.place, t.name, t.epoch, t.sequence)

Counters(store) == \A kind \in Numbered : NextId(store, kind) \in Nat \ {0}

Databases(store) ==
  \A k \in KeysOf(store, "database") :
    /\ store[k] \in Nat \ {0} /\ store[k] < NextId(store, "database")
    /\ \A l \in KeysOf(store, "database") : store[k] = store[l] => k[2] = l[2]

Schemas(store) ==
  \A k \in KeysOf(store, "schema") :
    /\ k[2] \in Nat \ {0} /\ k[2] < NextId(store, "database")
    /\ store[k] \in Nat \ {0} /\ store[k] < NextId(store, "schema")
    /\ \A l \in KeysOf(store, "schema") : store[k] = store[l] => k[2] = l[2] /\ k[3] = l[3]

TableNames(store) ==
  \A k \in KeysOf(store, "table") :
    /\ k[3] \in Nat \ {0} /\ k[3] < NextId(store, "schema")
    /\ store[k] \in Nat \ {0} /\ store[k] < NextId(store, "table")

Payloads(store) == \A k \in KeysOf(store, "tableId") : IsTable(store[k]) /\ store[k].id = k[2]

\* A name that leads to a descriptor leads to one of that name and place.
Described(store) ==
  \A q \in Places, m \in Tables :
    Leads(store, q, m) /\ Has(store, TableById(IdOf(store, q, m))) =>
      /\ store[TableById(IdOf(store, q, m))].name = m
      /\ store[TableById(IdOf(store, q, m))].place = q

\* No two names lead to one table.
Exclusive(store) ==
  \A q, r \in Places, m, n \in Tables :
    Leads(store, q, m) /\ Leads(store, r, n) /\ IdOf(store, q, m) = IdOf(store, r, n) =>
      q = r /\ m = n

\* The legacy copies: one per table, and of the table the name leads to.
Legacies(store) ==
  \A n \in Tables : Has(store, LegacyTable(n)) =>
    LET t == store[LegacyTable(n)]
    IN /\ IsTable(t) /\ t.name = n /\ IsDefault(t.place)
       /\ t.id \in Nat \ {0} /\ t.id < NextId(store, "table")
       /\ \A l \in Tables : Has(store, LegacyTable(l)) /\ store[LegacyTable(l)].id = t.id =>
            l = n
       /\ \A q \in Places, m \in Tables :
            Leads(store, q, m) /\ IdOf(store, q, m) = t.id => IsDefault(q) /\ m = n

\* Before the default database has its name there is nothing.
Virgin(store) == ~Has(store, Root) => \A k \in DOMAIN store : k[1] \notin Kinds

Good(store) ==
  /\ IsFiniteSet(DOMAIN store)
  /\ Counters(store) /\ Databases(store) /\ Schemas(store) /\ TableNames(store)
  /\ Payloads(store) /\ Described(store) /\ Exclusive(store) /\ Legacies(store)
  /\ Virgin(store)

-----------------------------------------------------------------------------
(***************************************************************************)
(* Keys and single writes.                                                 *)
(***************************************************************************)
LEMMA PutFacts ==
  ASSUME NEW store, NEW key, NEW value, NEW new, new = Written(store, Put(key, value))
  PROVE  /\ \A k : Has(new, k) <=> k = key \/ Has(store, k)
         /\ new[key] = value
         /\ \A k : Has(store, k) /\ k # key => new[k] = store[k]
<1>1. new = [k \in DOMAIN store \cup {key} |-> IF k = key THEN value ELSE store[k]]
  BY DEF Written, Put
<1> QED
  BY <1>1 DEF Has

LEMMA DeleteFacts ==
  ASSUME NEW store, NEW key, NEW new, new = Written(store, Delete(key))
  PROVE  /\ \A k : Has(new, k) <=> k # key /\ Has(store, k)
         /\ \A k : Has(new, k) => new[k] = store[k]
<1>1. new = [k \in DOMAIN store \ {key} |-> store[k]]
  BY DEF Written, Delete
<1> QED
  BY <1>1 DEF Has

LEMMA WriteKinds ==
  /\ \A key, value : /\ Put(key, value).put = TRUE /\ Put(key, value).key = key
                     /\ Put(key, value).value = value
  /\ \A key : Delete(key).put = FALSE /\ Delete(key).key = key
  BY DEF Put, Delete

\* The parts of the keys.
LEMMA KeyKinds ==
  /\ \A a : DatabaseByName(a)[1] = "database" /\ DatabaseByName(a)[2] = a
  /\ \A a, b : /\ SchemaByName(a, b)[1] = "schema" /\ SchemaByName(a, b)[2] = a
               /\ SchemaByName(a, b)[3] = b
  /\ \A a, b, c : /\ TableByName(a, b, c)[1] = "table" /\ TableByName(a, b, c)[2] = a
                  /\ TableByName(a, b, c)[3] = b /\ TableByName(a, b, c)[4] = c
  /\ \A a : TableById(a)[1] = "tableId" /\ TableById(a)[2] = a
  /\ \A a : LegacyTable(a)[1] = "legacy" /\ LegacyTable(a)[2] = a
  /\ \A a : NextKey(a)[1] = "next" /\ NextKey(a)[2] = a
  BY DEF DatabaseByName, SchemaByName, TableByName, TableById, LegacyTable, NextKey

LEMMA WrittenFinite ==
  ASSUME NEW store, NEW w, IsFiniteSet(DOMAIN store)
  PROVE  IsFiniteSet(DOMAIN Written(store, w))
<1>1. \/ DOMAIN Written(store, w) = DOMAIN store \cup {w.key}
      \/ DOMAIN Written(store, w) = DOMAIN store \ {w.key}
  BY DEF Written
<1> QED
  BY <1>1, FS_AddElement, FS_RemoveElement

\* What a name resolves to is told by keys of kinds "database", "schema" and "table".
LEMMA SchemaKeyParts ==
  ASSUME NEW store, NEW q
  PROVE  /\ SchemaKey(store, q)[1] = "schema" /\ SchemaKey(store, q)[2] = DbOf(store, q)
         /\ SchemaKey(store, q)[3] = q[2]
  BY KeyKinds DEF SchemaKey

LEMMA NameKeyParts ==
  ASSUME NEW store, NEW q, NEW m
  PROVE  /\ NameKey(store, q, m)[1] = "table" /\ NameKey(store, q, m)[4] = m
         /\ NameKey(store, q, m)[2] = DbOf(store, q)
         /\ NameKey(store, q, m)[3] = SchemaOf(store, q)
  BY KeyKinds DEF NameKey

\* A pair of names in Places is told by its parts.
LEMMA PlaceParts ==
  ASSUME NEW p \in Places, NEW q \in Places, p[1] = q[1], p[2] = q[2]
  PROVE  p = q
  BY CatalogAssumption

\* Two places do not share a name key.
LEMMA NameKeysDiffer ==
  ASSUME NEW store, Databases(store), Schemas(store),
         NEW p \in Places, NEW q \in Places, NEW m, NEW n,
         Resolved(store, p), Resolved(store, q), NameKey(store, p, m) = NameKey(store, q, n)
  PROVE  p = q /\ m = n
<1>1. /\ DbOf(store, p) = DbOf(store, q) /\ SchemaOf(store, p) = SchemaOf(store, q)
      /\ m = n
  BY SchemaKeyParts, NameKeyParts
<1>2. p[1] = q[1]
  <2>1. /\ DatabaseByName(p[1]) \in KeysOf(store, "database")
        /\ DatabaseByName(q[1]) \in KeysOf(store, "database")
    BY KeyKinds DEF KeysOf, Resolved, Has
  <2> QED
    BY <1>1, <2>1, KeyKinds DEF Databases, DbOf
<1>3. p[2] = q[2]
  <2>1. SchemaKey(store, p) \in KeysOf(store, "schema")
    BY SchemaKeyParts, NameKeyParts DEF KeysOf, Resolved, Has
  <2>2. SchemaKey(store, q) \in KeysOf(store, "schema")
    BY SchemaKeyParts, NameKeyParts DEF KeysOf, Resolved, Has
  <2> QED
    BY <1>1, <2>1, <2>2, SchemaKeyParts, NameKeyParts DEF Schemas, SchemaOf
<1> QED
  BY <1>1, <1>2, <1>3, PlaceParts

-----------------------------------------------------------------------------
(***************************************************************************)
(* Stores whose names lead to no more than before.                         *)
(***************************************************************************)
Fewer(store, new) ==
  \A q \in Places, m \in Tables :
    Leads(new, q, m) => Leads(store, q, m) /\ IdOf(new, q, m) = IdOf(store, q, m)

\* The descriptors that are left are as they were.
Kept(store, new) ==
  \A k : Has(new, k) /\ k[1] \in {"tableId", "legacy"} => Has(store, k) /\ new[k] = store[k]

LEMMA FewerGood ==
  ASSUME NEW store, NEW new, Good(store), IsFiniteSet(DOMAIN new),
         Counters(new), Databases(new), Schemas(new), TableNames(new), Virgin(new),
         Fewer(store, new), Kept(store, new),
         \A n \in Tables : Has(store, LegacyTable(n)) =>
           store[LegacyTable(n)].id < NextId(new, "table")
  PROVE  Good(new)
<1>1. Payloads(new)
  BY DEF Good, Payloads, KeysOf, Kept, Has
<1>2. Described(new)
  <2> SUFFICES ASSUME NEW q \in Places, NEW m \in Tables,
                      Leads(new, q, m), Has(new, TableById(IdOf(new, q, m)))
               PROVE  /\ new[TableById(IdOf(new, q, m))].name = m
                      /\ new[TableById(IdOf(new, q, m))].place = q
    BY DEF Described
  <2>1. Leads(store, q, m) /\ IdOf(new, q, m) = IdOf(store, q, m)
    BY DEF Fewer
  <2>2. /\ Has(store, TableById(IdOf(new, q, m)))
        /\ new[TableById(IdOf(new, q, m))] = store[TableById(IdOf(new, q, m))]
    BY KeyKinds DEF Kept
  <2> QED
    BY <2>1, <2>2 DEF Good, Described
<1>3. Exclusive(new)
  BY DEF Fewer, Good, Exclusive
<1>4. Legacies(new)
  <2>1. \A n \in Tables : Has(new, LegacyTable(n)) =>
          Has(store, LegacyTable(n)) /\ new[LegacyTable(n)] = store[LegacyTable(n)]
    BY KeyKinds DEF Kept
  <2> QED
    BY <2>1 DEF Fewer, Good, Legacies
<1> QED
  BY <1>1, <1>2, <1>3, <1>4 DEF Good

\* Keys of names and tables go or stay as they are.
Shrinks(store, new) ==
  /\ \A k : Has(new, k) /\ k[1] \in Kinds => Has(store, k) /\ new[k] = store[k]
  /\ Has(store, Root) => Has(new, Root)
  /\ \A kind \in Numbered : NextId(new, kind) = NextId(store, kind)

LEMMA ShrinkLeads ==
  ASSUME NEW store, NEW new, Shrinks(store, new), NEW q, NEW m
  PROVE  /\ Resolved(new, q) => /\ Resolved(store, q)
                                /\ DbOf(new, q) = DbOf(store, q)
                                /\ SchemaOf(new, q) = SchemaOf(store, q)
                                /\ NameKey(new, q, m) = NameKey(store, q, m)
         /\ Leads(new, q, m) => /\ Leads(store, q, m)
                                /\ IdOf(new, q, m) = IdOf(store, q, m)
<1>1. ASSUME Resolved(new, q)
      PROVE  /\ Resolved(store, q)
             /\ DbOf(new, q) = DbOf(store, q)
             /\ SchemaOf(new, q) = SchemaOf(store, q)
             /\ NameKey(new, q, m) = NameKey(store, q, m)
  <2>1. Has(store, DatabaseByName(q[1])) /\ DbOf(new, q) = DbOf(store, q)
    BY <1>1, KeyKinds DEF Resolved, Shrinks, Kinds, DbOf
  <2>2. SchemaKey(new, q) = SchemaKey(store, q)
    BY <2>1 DEF SchemaKey
  <2>3. Has(store, SchemaKey(store, q)) /\ SchemaOf(new, q) = SchemaOf(store, q)
    <3>1. SchemaKey(store, q)[1] = "schema"
      BY SchemaKeyParts, NameKeyParts
    <3> QED
      BY <1>1, <2>2, <3>1 DEF Resolved, Shrinks, Kinds, SchemaOf
  <2> QED
    BY <2>1, <2>2, <2>3 DEF Resolved, NameKey
<1>2. ASSUME Leads(new, q, m)
      PROVE  Leads(store, q, m) /\ IdOf(new, q, m) = IdOf(store, q, m)
  BY <1>1, <1>2, SchemaKeyParts, NameKeyParts DEF Leads, Shrinks, Kinds, IdOf
<1> QED
  BY <1>1, <1>2

LEMMA ShrinkGood ==
  ASSUME NEW store, NEW new, Good(store), Shrinks(store, new), IsFiniteSet(DOMAIN new)
  PROVE  Good(new)
<1>1. \A kind \in Kinds : \A k \in KeysOf(new, kind) :
        k \in KeysOf(store, kind) /\ new[k] = store[k]
  BY DEF KeysOf, Shrinks, Has
<1>2. \A kind \in Numbered : NextId(new, kind) = NextId(store, kind)
  BY DEF Shrinks
<1>3. Counters(new)
  BY <1>2 DEF Good, Counters
<1>4. Databases(new)
  BY <1>1, <1>2 DEF Good, Databases, Kinds, Numbered
<1>5. Schemas(new)
  BY <1>1, <1>2 DEF Good, Schemas, Kinds, Numbered
<1>6. TableNames(new)
  BY <1>1, <1>2 DEF Good, TableNames, Kinds, Numbered
<1>7. Kept(store, new)
  BY DEF Kept, Shrinks, Kinds
<1>8. Fewer(store, new)
  BY ShrinkLeads DEF Fewer
<1>9. Virgin(new)
  BY DEF Good, Virgin, Shrinks, Has
<1>10. \A n \in Tables : Has(store, LegacyTable(n)) =>
         store[LegacyTable(n)].id < NextId(new, "table")
  BY <1>2 DEF Good, Legacies, Numbered
<1> QED
  BY <1>3, <1>4, <1>5, <1>6, <1>7, <1>8, <1>9, <1>10, FewerGood

-----------------------------------------------------------------------------
(***************************************************************************)
(* Writes that add no name, no table and no id.                            *)
(***************************************************************************)
Harmless(w) ==
  \/ \E key, value : /\ w = Put(key, value) /\ key[1] \notin Kinds
                     /\ \A kind \in Numbered : key # NextKey(kind)
  \/ \E key : w = Delete(key) /\ key[1] \notin {"next", "database"}

LEMMA HarmlessShrinks ==
  ASSUME NEW store, NEW w, Harmless(w), NEW new, new = Written(store, w)
  PROVE  Shrinks(store, new)
<1>1. CASE \E key, value : /\ w = Put(key, value) /\ key[1] \notin Kinds
                           /\ \A kind \in Numbered : key # NextKey(kind)
  <2>1. PICK key, value : /\ w = Put(key, value) /\ key[1] \notin Kinds
                          /\ \A kind \in Numbered : key # NextKey(kind)
    BY <1>1
  <2>2. /\ \A k : Has(new, k) <=> k = key \/ Has(store, k)
        /\ \A k : Has(store, k) /\ k # key => new[k] = store[k]
    BY <2>1, PutFacts
  <2>3. \A kind \in Numbered : NextId(new, kind) = NextId(store, kind)
    BY <2>1, <2>2 DEF NextId
  <2> QED
    BY <2>1, <2>2, <2>3 DEF Shrinks
<1>2. CASE \E key : w = Delete(key) /\ key[1] \notin {"next", "database"}
  <2>1. PICK key : w = Delete(key) /\ key[1] \notin {"next", "database"}
    BY <1>2
  <2>2. /\ \A k : Has(new, k) <=> k # key /\ Has(store, k)
        /\ \A k : Has(new, k) => new[k] = store[k]
    BY <2>1, DeleteFacts
  <2>3. Root # key /\ \A kind \in Numbered : NextKey(kind) # key
    BY <2>1, KeyKinds DEF Root
  <2>4. \A kind \in Numbered : NextId(new, kind) = NextId(store, kind)
    BY <2>2, <2>3 DEF NextId
  <2> QED
    BY <2>2, <2>3, <2>4 DEF Shrinks
<1> QED
  BY <1>1, <1>2 DEF Harmless

LEMMA HarmlessGood ==
  ASSUME NEW store, NEW w, Good(store), Harmless(w)
  PROVE  Good(Written(store, w))
  BY HarmlessShrinks, ShrinkGood, WrittenFinite DEF Good

-----------------------------------------------------------------------------
(***************************************************************************)
(* Writes of the counters, of databases and of schemas.                    *)
(***************************************************************************)

\* All ids of a kind in the catalog are smaller than v.
Above(store, kind, v) ==
  /\ kind = "database" => /\ \A k \in KeysOf(store, "database") : store[k] < v
                          /\ \A k \in KeysOf(store, "schema") : k[2] < v
  /\ kind = "schema" => /\ \A k \in KeysOf(store, "schema") : store[k] < v
                        /\ \A k \in KeysOf(store, "table") : k[3] < v
  /\ kind = "table" => /\ \A k \in KeysOf(store, "table") : store[k] < v
                       /\ \A n \in Tables : Has(store, LegacyTable(n)) =>
                            store[LegacyTable(n)].id < v

\* A put whose key is not of one of the kinds K leaves these kinds as they are.
LEMMA PutKeepsKeys ==
  ASSUME NEW store, NEW key, NEW value, NEW new, new = Written(store, Put(key, value)),
         NEW kind, key[1] # kind
  PROVE  /\ KeysOf(new, kind) = KeysOf(store, kind)
         /\ \A k \in KeysOf(store, kind) : new[k] = store[k]
<1>1. /\ \A k : Has(new, k) <=> k = key \/ Has(store, k)
      /\ \A k : Has(store, k) /\ k # key => new[k] = store[k]
  BY PutFacts
<1> QED
  BY <1>1 DEF KeysOf, Has

LEMMA PutKeepsNextId ==
  ASSUME NEW store, NEW key, NEW value, NEW new, new = Written(store, Put(key, value)),
         NEW kind, key # NextKey(kind)
  PROVE  NextId(new, kind) = NextId(store, kind)
<1>1. /\ \A k : Has(new, k) <=> k = key \/ Has(store, k)
      /\ \A k : Has(store, k) /\ k # key => new[k] = store[k]
  BY PutFacts
<1> QED
  BY <1>1 DEF NextId

\* A put outside the kinds that names are resolved by leaves the leads alone.
LEMMA PutKeepsLeads ==
  ASSUME NEW store, NEW key, NEW value, NEW new, new = Written(store, Put(key, value)),
         key[1] \notin Numbered, NEW q, NEW m
  PROVE  /\ Resolved(new, q) <=> Resolved(store, q)
         /\ Resolved(store, q) => /\ DbOf(new, q) = DbOf(store, q)
                                  /\ SchemaOf(new, q) = SchemaOf(store, q)
                                  /\ NameKey(new, q, m) = NameKey(store, q, m)
         /\ Leads(new, q, m) <=> Leads(store, q, m)
         /\ Leads(store, q, m) => IdOf(new, q, m) = IdOf(store, q, m)
<1>0. \A k : k[1] \in Numbered =>
        (Has(new, k) <=> Has(store, k)) /\ (Has(store, k) => new[k] = store[k])
  <2>1. /\ \A k : Has(new, k) <=> k = key \/ Has(store, k)
        /\ \A k : Has(store, k) /\ k # key => new[k] = store[k]
    BY PutFacts
  <2> QED
    BY <2>1
<1>1. /\ Has(new, DatabaseByName(q[1])) <=> Has(store, DatabaseByName(q[1]))
      /\ Has(store, DatabaseByName(q[1])) => DbOf(new, q) = DbOf(store, q)
  BY <1>0, KeyKinds DEF Numbered, DbOf
<1>2. Has(store, DatabaseByName(q[1])) => SchemaKey(new, q) = SchemaKey(store, q)
  BY <1>1 DEF SchemaKey
<1>3. /\ Resolved(new, q) <=> Resolved(store, q)
      /\ Resolved(store, q) => SchemaOf(new, q) = SchemaOf(store, q)
  BY <1>0, <1>1, <1>2, SchemaKeyParts, NameKeyParts DEF Numbered, Resolved, SchemaOf
<1>4. Resolved(store, q) => NameKey(new, q, m) = NameKey(store, q, m)
  BY <1>1, <1>3 DEF NameKey, Resolved
<1>5. /\ Leads(new, q, m) <=> Leads(store, q, m)
      /\ Leads(store, q, m) => IdOf(new, q, m) = IdOf(store, q, m)
  BY <1>0, <1>3, <1>4, SchemaKeyParts, NameKeyParts DEF Numbered, Leads, IdOf
<1> QED
  BY <1>1, <1>3, <1>4, <1>5 DEF Resolved

LEMMA CounterGood ==
  ASSUME NEW store, Good(store), NEW kind \in Numbered, NEW v \in Nat \ {0},
         Above(store, kind, v), NEW new, new = Written(store, Put(NextKey(kind), v))
  PROVE  /\ Good(new)
         /\ NextId(new, kind) = v
         /\ \A x \in Numbered \ {kind} : NextId(new, x) = NextId(store, x)
<1>1. /\ \A k : Has(new, k) <=> k = NextKey(kind) \/ Has(store, k)
      /\ new[NextKey(kind)] = v
      /\ \A k : Has(store, k) /\ k # NextKey(kind) => new[k] = store[k]
  BY PutFacts
<1>2. IsFiniteSet(DOMAIN new)
  BY WrittenFinite DEF Good
<1>3. NextKey(kind)[1] \notin Kinds /\ NextKey(kind)[1] \notin Numbered
  BY KeyKinds DEF Kinds, Numbered
<1>5. /\ NextId(new, kind) = v
      /\ \A x \in Numbered \ {kind} : NextId(new, x) = NextId(store, x)
  <2>1. \A x \in Numbered \ {kind} : NextKey(x) # NextKey(kind)
    BY KeyKinds
  <2> QED
    BY <1>1, <2>1 DEF NextId
<1>6. \A x \in Kinds : /\ KeysOf(new, x) = KeysOf(store, x)
                       /\ \A k \in KeysOf(store, x) : new[k] = store[k]
  BY <1>3, PutKeepsKeys
<1>7. Counters(new)
  BY <1>5 DEF Good, Counters
<1>8. Databases(new)
  BY <1>5, <1>6 DEF Good, Databases, Kinds, Numbered, Above
<1>9. Schemas(new)
  BY <1>5, <1>6 DEF Good, Schemas, Kinds, Numbered, Above
<1>10. TableNames(new)
  BY <1>5, <1>6 DEF Good, TableNames, Kinds, Numbered, Above
<1>11. Kept(store, new)
  BY <1>1, <1>3 DEF Kept, Kinds
<1>12. Fewer(store, new)
  BY <1>3, PutKeepsLeads DEF Fewer
<1>13. Virgin(new)
  BY <1>1, <1>3, KeyKinds DEF Good, Virgin, Has, Root
<1>14. \A n \in Tables : Has(store, LegacyTable(n)) =>
         store[LegacyTable(n)].id < NextId(new, "table")
  BY <1>5 DEF Good, Legacies, Numbered, Above
<1> QED
  BY <1>2, <1>5, <1>7, <1>8, <1>9, <1>10, <1>11, <1>12, <1>13, <1>14, FewerGood

LEMMA DatabaseGood ==
  ASSUME NEW store, Good(store), NEW name, NEW id \in Nat \ {0},
         id < NextId(store, "database"),
         \A k \in KeysOf(store, "database") : store[k] # id,
         \A k \in KeysOf(store, "schema") : k[2] # id,
         Has(store, Root) \/ DatabaseByName(name) = Root,
         NEW new, new = Written(store, Put(DatabaseByName(name), id))
  PROVE  /\ Good(new)
         /\ \A x \in Numbered : NextId(new, x) = NextId(store, x)
<1> DEFINE key == DatabaseByName(name)
<1>1. /\ \A k : Has(new, k) <=> k = key \/ Has(store, k)
      /\ new[key] = id
      /\ \A k : Has(store, k) /\ k # key => new[k] = store[k]
  BY PutFacts
<1>2. IsFiniteSet(DOMAIN new)
  BY WrittenFinite DEF Good
<1>3. key[1] = "database" /\ key[2] = name
  BY KeyKinds
<1>4. \A x \in Numbered : NextId(new, x) = NextId(store, x)
  BY <1>1, <1>3, KeyKinds DEF NextId
<1> HIDE DEF key
<1>5. \A x \in Kinds \ {"database"} : /\ KeysOf(new, x) = KeysOf(store, x)
                                      /\ \A k \in KeysOf(store, x) : new[k] = store[k]
  BY <1>1, <1>3 DEF KeysOf, Has
<1>6. Counters(new)
  BY <1>4 DEF Good, Counters
<1>7. Databases(new)
  <2>1. \A k \in KeysOf(new, "database") :
          \/ k = key /\ new[k] = id
          \/ k # key /\ k \in KeysOf(store, "database") /\ new[k] = store[k]
    BY <1>1 DEF KeysOf, Has
  <2> QED
    BY <1>4, <2>1 DEF Good, Databases, Numbered
<1>8. Schemas(new)
  BY <1>4, <1>5 DEF Good, Schemas, Kinds, Numbered
<1>9. TableNames(new)
  BY <1>4, <1>5 DEF Good, TableNames, Kinds, Numbered
<1>10. Kept(store, new)
  BY <1>1, <1>3 DEF Kept
<1>11. Fewer(store, new)
  <2> SUFFICES ASSUME NEW q \in Places, NEW m \in Tables, Leads(new, q, m)
               PROVE  Leads(store, q, m) /\ IdOf(new, q, m) = IdOf(store, q, m)
    BY DEF Fewer
  <2>1. SchemaKey(new, q) \in KeysOf(store, "schema") /\
          SchemaOf(new, q) = store[SchemaKey(new, q)]
    <3>1. SchemaKey(new, q)[1] = "schema" /\ Has(new, SchemaKey(new, q))
      BY SchemaKeyParts, NameKeyParts DEF Leads, Resolved
    <3>2. SchemaKey(new, q) # key
      BY <1>3, <3>1
    <3>3. Has(store, SchemaKey(new, q)) /\ new[SchemaKey(new, q)] = store[SchemaKey(new, q)]
      BY <1>1, <3>1, <3>2
    <3> QED
      BY <3>1, <3>3 DEF KeysOf, Has, SchemaOf
  <2>2. DatabaseByName(q[1]) # key
    <3>1. SchemaKey(new, q)[2] = DbOf(new, q)
      BY SchemaKeyParts, NameKeyParts
    <3>2. DbOf(new, q) # id
      BY <2>1, <3>1
    <3> QED
      BY <1>1, <3>2 DEF DbOf
  <2>3. Has(store, DatabaseByName(q[1])) /\ DbOf(new, q) = DbOf(store, q)
    BY <1>1, <2>2 DEF DbOf, Leads, Resolved
  <2>4. SchemaKey(new, q) = SchemaKey(store, q)
    BY <2>3 DEF SchemaKey
  <2>5. Resolved(store, q) /\ NameKey(new, q, m) = NameKey(store, q, m)
    BY <2>1, <2>3, <2>4 DEF Resolved, NameKey, SchemaOf, KeysOf, Has
  <2>6. NameKey(new, q, m) # key
    BY <1>3, SchemaKeyParts, NameKeyParts
  <2> QED
    BY <1>1, <2>5, <2>6 DEF Leads, IdOf
<1>12. Virgin(new)
  BY <1>1 DEF Virgin, key
<1>13. \A n \in Tables : Has(store, LegacyTable(n)) =>
         store[LegacyTable(n)].id < NextId(new, "table")
  BY <1>4 DEF Good, Legacies, Numbered
<1> QED
  BY <1>2, <1>4, <1>6, <1>7, <1>8, <1>9, <1>10, <1>11, <1>12, <1>13, FewerGood

LEMMA SchemaGood ==
  ASSUME NEW store, Good(store), NEW name, NEW db \in Nat \ {0}, NEW id \in Nat \ {0},
         db < NextId(store, "database"), id < NextId(store, "schema"),
         \A k \in KeysOf(store, "schema") : store[k] # id,
         \A k \in KeysOf(store, "table") : k[3] # id,
         Has(store, Root),
         NEW new, new = Written(store, Put(SchemaByName(db, name), id))
  PROVE  /\ Good(new)
         /\ \A x \in Numbered : NextId(new, x) = NextId(store, x)
<1> DEFINE key == SchemaByName(db, name)
<1>1. /\ \A k : Has(new, k) <=> k = key \/ Has(store, k)
      /\ new[key] = id
      /\ \A k : Has(store, k) /\ k # key => new[k] = store[k]
  BY PutFacts
<1>2. IsFiniteSet(DOMAIN new)
  BY WrittenFinite DEF Good
<1>3. key[1] = "schema" /\ key[2] = db /\ key[3] = name
  BY KeyKinds
<1>4. \A x \in Numbered : NextId(new, x) = NextId(store, x)
  BY <1>1, <1>3, KeyKinds DEF NextId
<1> HIDE DEF key
<1>5. \A x \in Kinds \ {"schema"} : /\ KeysOf(new, x) = KeysOf(store, x)
                                    /\ \A k \in KeysOf(store, x) : new[k] = store[k]
  BY <1>1, <1>3 DEF KeysOf, Has
<1>6. Counters(new)
  BY <1>4 DEF Good, Counters
<1>7. Databases(new)
  BY <1>4, <1>5 DEF Good, Databases, Kinds, Numbered
<1>8. Schemas(new)
  <2>1. \A k \in KeysOf(new, "schema") :
          \/ k = key /\ new[k] = id
          \/ k # key /\ k \in KeysOf(store, "schema") /\ new[k] = store[k]
    BY <1>1 DEF KeysOf, Has
  <2> QED
    BY <1>3, <1>4, <2>1 DEF Good, Schemas, Numbered
<1>9. TableNames(new)
  BY <1>4, <1>5 DEF Good, TableNames, Kinds, Numbered
<1>10. Kept(store, new)
  BY <1>1, <1>3 DEF Kept
<1>11. Fewer(store, new)
  <2> SUFFICES ASSUME NEW q \in Places, NEW m \in Tables, Leads(new, q, m)
               PROVE  Leads(store, q, m) /\ IdOf(new, q, m) = IdOf(store, q, m)
    BY DEF Fewer
  <2>1. DatabaseByName(q[1]) # key /\ NameKey(new, q, m) # key
    BY <1>3, KeyKinds, SchemaKeyParts, NameKeyParts
  <2>2. Has(store, DatabaseByName(q[1])) /\ DbOf(new, q) = DbOf(store, q)
    BY <1>1, <2>1 DEF DbOf, Leads, Resolved
  <2>3. SchemaKey(new, q) = SchemaKey(store, q)
    BY <2>2 DEF SchemaKey
  <2>4. NameKey(new, q, m) \in KeysOf(store, "table")
    <3>1. NameKey(new, q, m)[1] = "table"
      BY SchemaKeyParts, NameKeyParts
    <3> QED
      BY <1>1, <2>1, <3>1 DEF KeysOf, Has, Leads
  <2>5. SchemaKey(new, q) # key
    <3>1. NameKey(new, q, m)[3] = SchemaOf(new, q)
      BY SchemaKeyParts, NameKeyParts
    <3>2. SchemaOf(new, q) # id
      BY <2>4, <3>1
    <3> QED
      BY <1>1, <3>2 DEF SchemaOf
  <2>6. Resolved(store, q) /\ SchemaOf(new, q) = SchemaOf(store, q)
    BY <1>1, <2>2, <2>3, <2>5 DEF Leads, Resolved, SchemaOf
  <2>7. NameKey(new, q, m) = NameKey(store, q, m)
    BY <2>2, <2>6 DEF NameKey
  <2> QED
    BY <1>1, <2>1, <2>6, <2>7 DEF Leads, IdOf
<1>12. Virgin(new)
  BY <1>1 DEF Virgin
<1>13. \A n \in Tables : Has(store, LegacyTable(n)) =>
         store[LegacyTable(n)].id < NextId(new, "table")
  BY <1>4 DEF Good, Legacies, Numbered
<1> QED
  BY <1>2, <1>4, <1>6, <1>7, <1>8, <1>9, <1>10, <1>11, <1>12, <1>13, FewerGood

-----------------------------------------------------------------------------
(***************************************************************************)
(* The writes of store_table.                                              *)
(***************************************************************************)

\* r is the descriptor of a table of the place p, with an id handed out before.
Describes(store, p, r) ==
  /\ p \in Places /\ IsTable(r) /\ r.name \in Tables /\ r.place = p
  /\ r.id \in Nat \ {0} /\ r.id < NextId(store, "table")
  /\ Resolved(store, p) /\ r.db = DbOf(store, p) /\ r.schema = SchemaOf(store, p)

\* Nothing else leads to its id.
Sole(store, p, r) ==
  /\ \A q \in Places, m \in Tables :
       Leads(store, q, m) /\ IdOf(store, q, m) = r.id => q = p /\ m = r.name
  /\ \A n \in Tables : Has(store, LegacyTable(n)) /\ store[LegacyTable(n)].id = r.id =>
       IsDefault(p) /\ n = r.name

LEMMA TableIdGood ==
  ASSUME NEW store, Good(store), NEW p, NEW r, Describes(store, p, r), Sole(store, p, r),
         NEW new, new = Written(store, Put(TableById(r.id), r))
  PROVE  Good(new)
<1> DEFINE key == TableById(r.id)
<1>1. /\ \A k : Has(new, k) <=> k = key \/ Has(store, k)
      /\ new[key] = r
      /\ \A k : Has(store, k) /\ k # key => new[k] = store[k]
  BY PutFacts
<1>2. IsFiniteSet(DOMAIN new)
  BY WrittenFinite DEF Good
<1>3. key[1] = "tableId" /\ key[2] = r.id
  BY KeyKinds
<1>4. \A x \in Numbered : NextId(new, x) = NextId(store, x)
  BY <1>1, <1>3, KeyKinds DEF NextId
<1>5. \A q, m : /\ Leads(new, q, m) <=> Leads(store, q, m)
                /\ Leads(store, q, m) => IdOf(new, q, m) = IdOf(store, q, m)
  BY <1>3, PutKeepsLeads DEF Numbered
<1> HIDE DEF key
<1>6. \A x \in Kinds \ {"tableId"} : /\ KeysOf(new, x) = KeysOf(store, x)
                                     /\ \A k \in KeysOf(store, x) : new[k] = store[k]
  BY <1>1, <1>3 DEF KeysOf, Has
<1>7. Counters(new)
  BY <1>4 DEF Good, Counters
<1>8. Databases(new)
  BY <1>4, <1>6 DEF Good, Databases, Kinds, Numbered
<1>9. Schemas(new)
  BY <1>4, <1>6 DEF Good, Schemas, Kinds, Numbered
<1>10. TableNames(new)
  BY <1>4, <1>6 DEF Good, TableNames, Kinds, Numbered
<1>11. Payloads(new)
  BY <1>1, <1>3 DEF Good, Payloads, KeysOf, Has, Describes
<1>12. Described(new)
  <2> SUFFICES ASSUME NEW q \in Places, NEW m \in Tables,
                      Leads(new, q, m), Has(new, TableById(IdOf(new, q, m)))
               PROVE  /\ new[TableById(IdOf(new, q, m))].name = m
                      /\ new[TableById(IdOf(new, q, m))].place = q
    BY DEF Described
  <2>1. Leads(store, q, m) /\ IdOf(new, q, m) = IdOf(store, q, m)
    BY <1>5
  <2>2. CASE IdOf(store, q, m) = r.id
    BY <1>1, <2>1, <2>2 DEF Sole, Describes, key
  <2>3. CASE IdOf(store, q, m) # r.id
    <3>1. TableById(IdOf(store, q, m)) # key
      BY <1>3, <2>3, KeyKinds
    <3> QED
      BY <1>1, <2>1, <3>1 DEF Good, Described
  <2> QED
    BY <2>2, <2>3
<1>13. Exclusive(new)
  BY <1>5 DEF Good, Exclusive
<1>14. Legacies(new)
  <2>1. \A n \in Tables : LegacyTable(n) # key
    BY <1>3, KeyKinds
  <2>2. \A n \in Tables : /\ Has(new, LegacyTable(n)) <=> Has(store, LegacyTable(n))
                          /\ Has(store, LegacyTable(n)) =>
                               new[LegacyTable(n)] = store[LegacyTable(n)]
    BY <1>1, <2>1
  <2> QED
    BY <1>4, <1>5, <2>2 DEF Good, Legacies, Numbered
<1>15. Virgin(new)
  <2>1. DatabaseByName(p[1])[1] \in Kinds
    BY KeyKinds DEF Kinds
  <2>2. Has(store, Root)
    BY <2>1 DEF Good, Virgin, Describes, Resolved, Has
  <2> QED
    BY <1>1, <2>2 DEF Virgin
<1> QED
  BY <1>2, <1>7, <1>8, <1>9, <1>10, <1>11, <1>12, <1>13, <1>14, <1>15 DEF Good

LEMMA LegacyGood ==
  ASSUME NEW store, Good(store), NEW p, NEW r, Describes(store, p, r), Sole(store, p, r),
         IsDefault(p), NEW new, new = Written(store, Put(LegacyTable(r.name), r))
  PROVE  Good(new)
<1> DEFINE key == LegacyTable(r.name)
<1>1. /\ \A k : Has(new, k) <=> k = key \/ Has(store, k)
      /\ new[key] = r
      /\ \A k : Has(store, k) /\ k # key => new[k] = store[k]
  BY PutFacts
<1>2. IsFiniteSet(DOMAIN new)
  BY WrittenFinite DEF Good
<1>3. key[1] = "legacy" /\ key[2] = r.name
  BY KeyKinds
<1>4. \A x \in Numbered : NextId(new, x) = NextId(store, x)
  BY <1>1, <1>3, KeyKinds DEF NextId
<1>5. \A q, m : /\ Leads(new, q, m) <=> Leads(store, q, m)
                /\ Leads(store, q, m) => IdOf(new, q, m) = IdOf(store, q, m)
  BY <1>3, PutKeepsLeads DEF Numbered
<1>0. \A n \in Tables : n # r.name => LegacyTable(n) # key
  BY KeyKinds
<1> HIDE DEF key
<1>6. \A x \in Kinds \ {"legacy"} : /\ KeysOf(new, x) = KeysOf(store, x)
                                    /\ \A k \in KeysOf(store, x) : new[k] = store[k]
  BY <1>1, <1>3 DEF KeysOf, Has
<1>7. Counters(new)
  BY <1>4 DEF Good, Counters
<1>8. Databases(new)
  BY <1>4, <1>6 DEF Good, Databases, Kinds, Numbered
<1>9. Schemas(new)
  BY <1>4, <1>6 DEF Good, Schemas, Kinds, Numbered
<1>10. TableNames(new)
  BY <1>4, <1>6 DEF Good, TableNames, Kinds, Numbered
<1>11. Payloads(new)
  BY <1>6 DEF Good, Payloads, Kinds
<1>12. Described(new)
  <2>1. \A id : TableById(id) # key
    BY <1>3, KeyKinds
  <2> QED
    BY <1>1, <1>5, <2>1 DEF Good, Described
<1>13. Exclusive(new)
  BY <1>5 DEF Good, Exclusive
<1>14. Legacies(new)
  <2>1. \A n \in Tables : Has(new, LegacyTable(n)) =>
          \/ n = r.name /\ new[LegacyTable(n)] = r
          \/ /\ n # r.name /\ Has(store, LegacyTable(n))
             /\ new[LegacyTable(n)] = store[LegacyTable(n)]
    BY <1>0, <1>1 DEF key
  <2> SUFFICES ASSUME NEW n \in Tables, Has(new, LegacyTable(n)),
                      NEW t, t = new[LegacyTable(n)]
               PROVE  /\ IsTable(t) /\ t.name = n /\ IsDefault(t.place)
                      /\ t.id \in Nat \ {0} /\ t.id < NextId(new, "table")
                      /\ \A l \in Tables : Has(new, LegacyTable(l))
                                           /\ new[LegacyTable(l)].id = t.id => l = n
                      /\ \A q \in Places, m \in Tables :
                           Leads(new, q, m) /\ IdOf(new, q, m) = t.id => IsDefault(q) /\ m = n
    BY DEF Legacies
  <2>2. CASE n = r.name /\ t = r
    <3>1. IsTable(t) /\ t.name = n /\ IsDefault(t.place) /\ t.id \in Nat \ {0}
          /\ t.id < NextId(new, "table")
      BY <1>4, <2>2 DEF Describes, Numbered
    <3>2. \A l \in Tables : Has(new, LegacyTable(l)) /\ new[LegacyTable(l)].id = t.id => l = n
      BY <2>1, <2>2 DEF Sole
    <3>3. \A q \in Places, m \in Tables :
            Leads(new, q, m) /\ IdOf(new, q, m) = t.id => IsDefault(q) /\ m = n
      BY <1>5, <2>2 DEF Sole
    <3> QED
      BY <3>1, <3>2, <3>3
  <2>3. CASE n # r.name /\ Has(store, LegacyTable(n)) /\ t = store[LegacyTable(n)]
    <3>1. IsTable(t) /\ t.name = n /\ IsDefault(t.place) /\ t.id \in Nat \ {0}
          /\ t.id < NextId(new, "table")
      BY <1>4, <2>3 DEF Good, Legacies, Numbered
    <3>2. t.id # r.id
      BY <2>3 DEF Sole
    <3>3. \A l \in Tables : Has(new, LegacyTable(l)) /\ new[LegacyTable(l)].id = t.id => l = n
      BY <2>1, <2>3, <3>2 DEF Good, Legacies
    <3>4. \A q \in Places, m \in Tables :
            Leads(new, q, m) /\ IdOf(new, q, m) = t.id => IsDefault(q) /\ m = n
      BY <1>5, <2>3 DEF Good, Legacies
    <3> QED
      BY <3>1, <3>3, <3>4
  <2> QED
    BY <2>1, <2>2, <2>3
<1>15. Virgin(new)
  <2>1. DatabaseByName(p[1])[1] \in Kinds
    BY KeyKinds DEF Kinds
  <2>2. Has(store, Root)
    BY <2>1 DEF Good, Virgin, Describes, Resolved, Has
  <2> QED
    BY <1>1, <2>2 DEF Virgin
<1> QED
  BY <1>2, <1>7, <1>8, <1>9, <1>10, <1>11, <1>12, <1>13, <1>14, <1>15 DEF Good

\* A put of a table name changes what that one name leads to.
LEMMA NamePutLeads ==
  ASSUME NEW store, Databases(store), Schemas(store), NEW p, NEW r, Describes(store, p, r),
         NEW new, new = Written(store, Put(TableByName(r.db, r.schema, r.name), r.id))
  PROVE  /\ Leads(new, p, r.name) /\ IdOf(new, p, r.name) = r.id
         /\ \A q : /\ Resolved(new, q) <=> Resolved(store, q)
                   /\ Resolved(store, q) =>
                        DbOf(new, q) = DbOf(store, q) /\ SchemaOf(new, q) = SchemaOf(store, q)
         /\ \A q, m : Resolved(store, q) => NameKey(new, q, m) = NameKey(store, q, m)
         /\ \A q \in Places, m \in Tables : <<q, m>> # <<p, r.name>> =>
              /\ Leads(new, q, m) <=> Leads(store, q, m)
              /\ Leads(store, q, m) => IdOf(new, q, m) = IdOf(store, q, m)
<1> DEFINE key == NameKey(store, p, r.name)
<1>1. /\ \A k : Has(new, k) <=> k = key \/ Has(store, k)
      /\ new[key] = r.id
      /\ \A k : Has(store, k) /\ k # key => new[k] = store[k]
  <2>1. key = TableByName(r.db, r.schema, r.name)
    BY DEF NameKey, Describes
  <2> QED
    BY <2>1, PutFacts
<1>2. key[1] = "table"
  BY NameKeyParts
<1> HIDE DEF key
<1>3. \A k : k[1] # "table" =>
        (Has(new, k) <=> Has(store, k)) /\ (Has(store, k) => new[k] = store[k])
  BY <1>1, <1>2
<1>4. \A q : /\ Has(new, DatabaseByName(q[1])) <=> Has(store, DatabaseByName(q[1]))
             /\ Has(store, DatabaseByName(q[1])) => DbOf(new, q) = DbOf(store, q)
  BY <1>3, KeyKinds DEF DbOf
<1>5. \A q : Has(store, DatabaseByName(q[1])) => SchemaKey(new, q) = SchemaKey(store, q)
  BY <1>4 DEF SchemaKey
<1>6. \A q : /\ Resolved(new, q) <=> Resolved(store, q)
             /\ Resolved(store, q) =>
                  DbOf(new, q) = DbOf(store, q) /\ SchemaOf(new, q) = SchemaOf(store, q)
  <2> TAKE q
  <2>1. SchemaKey(store, q)[1] = "schema"
    BY SchemaKeyParts
  <2> QED
    BY <1>3, <1>4, <1>5, <2>1 DEF Resolved, SchemaOf
<1>7. \A q, m : Resolved(store, q) => NameKey(new, q, m) = NameKey(store, q, m)
  BY <1>6 DEF NameKey
<1>8. Leads(new, p, r.name) /\ IdOf(new, p, r.name) = r.id
  BY <1>1, <1>6, <1>7 DEF Leads, IdOf, Describes, key
<1>9. ASSUME NEW q \in Places, NEW m \in Tables, <<q, m>> # <<p, r.name>>
      PROVE  /\ Leads(new, q, m) <=> Leads(store, q, m)
             /\ Leads(store, q, m) => IdOf(new, q, m) = IdOf(store, q, m)
  <2>1. Resolved(store, q) => NameKey(store, q, m) # key
    BY <1>9, NameKeysDiffer DEF Describes, key
  <2> QED
    BY <1>1, <1>6, <1>7, <2>1 DEF Leads, IdOf
<1> QED
  BY <1>6, <1>7, <1>8, <1>9

LEMMA NameGood ==
  ASSUME NEW store, Good(store), NEW p, NEW r, Describes(store, p, r), Sole(store, p, r),
         Has(store, TableById(r.id)), store[TableById(r.id)] = r,
         NEW new, new = Written(store, Put(TableByName(r.db, r.schema, r.name), r.id))
  PROVE  Good(new)
<1> DEFINE key == TableByName(r.db, r.schema, r.name)
<1>1. /\ \A k : Has(new, k) <=> k = key \/ Has(store, k)
      /\ new[key] = r.id
      /\ \A k : Has(store, k) /\ k # key => new[k] = store[k]
  BY PutFacts
<1>2. IsFiniteSet(DOMAIN new)
  BY WrittenFinite DEF Good
<1>3. key[1] = "table" /\ key[3] = r.schema
  BY KeyKinds
<1>4. \A x \in Numbered : NextId(new, x) = NextId(store, x)
  BY <1>1, <1>3, KeyKinds DEF NextId
<1> HIDE DEF key
<1>5. \A q \in Places, m \in Tables : Leads(new, q, m) =>
        \/ q = p /\ m = r.name /\ IdOf(new, q, m) = r.id
        \/ /\ <<q, m>> # <<p, r.name>>
           /\ Leads(store, q, m) /\ IdOf(new, q, m) = IdOf(store, q, m)
  BY NamePutLeads DEF Good
<1>6. \A x \in Kinds \ {"table"} : /\ KeysOf(new, x) = KeysOf(store, x)
                                   /\ \A k \in KeysOf(store, x) : new[k] = store[k]
  BY <1>1, <1>3 DEF KeysOf, Has
<1>7. Counters(new)
  BY <1>4 DEF Good, Counters
<1>8. Databases(new)
  BY <1>4, <1>6 DEF Good, Databases, Kinds, Numbered
<1>9. Schemas(new)
  BY <1>4, <1>6 DEF Good, Schemas, Kinds, Numbered
<1>10. TableNames(new)
  <2>1. \A k \in KeysOf(new, "table") :
          \/ k = key /\ new[k] = r.id
          \/ k # key /\ k \in KeysOf(store, "table") /\ new[k] = store[k]
    BY <1>1 DEF KeysOf, Has
  <2>2. r.schema \in Nat \ {0} /\ r.schema < NextId(store, "schema")
    <3>1. SchemaKey(store, p) \in KeysOf(store, "schema")
      BY SchemaKeyParts DEF KeysOf, Has, Describes, Resolved
    <3> QED
      BY <3>1 DEF Good, Schemas, Describes, SchemaOf
  <2>3. r.id \in Nat \ {0} /\ r.id < NextId(store, "table")
    BY DEF Describes
  <2> QED
    BY <1>3, <1>4, <2>1, <2>2, <2>3 DEF Good, TableNames, Numbered
<1>11. Payloads(new)
  BY <1>6 DEF Good, Payloads, Kinds
<1>12. Described(new)
  <2> SUFFICES ASSUME NEW q \in Places, NEW m \in Tables,
                      Leads(new, q, m), Has(new, TableById(IdOf(new, q, m)))
               PROVE  /\ new[TableById(IdOf(new, q, m))].name = m
                      /\ new[TableById(IdOf(new, q, m))].place = q
    BY DEF Described
  <2>1. \A id : TableById(id) # key
    BY <1>3, KeyKinds
  <2>2. CASE q = p /\ m = r.name /\ IdOf(new, q, m) = r.id
    BY <1>1, <2>1, <2>2 DEF Describes
  <2>3. CASE Leads(store, q, m) /\ IdOf(new, q, m) = IdOf(store, q, m)
    BY <1>1, <2>1, <2>3 DEF Good, Described
  <2> QED
    BY <1>5, <2>2, <2>3
<1>13. Exclusive(new)
  <2> SUFFICES ASSUME NEW q1 \in Places, NEW q2 \in Places, NEW m1 \in Tables,
                      NEW m2 \in Tables,
                      Leads(new, q1, m1), Leads(new, q2, m2),
                      IdOf(new, q1, m1) = IdOf(new, q2, m2)
               PROVE  q1 = q2 /\ m1 = m2
    BY DEF Exclusive
  <2> QED
    BY <1>5 DEF Good, Exclusive, Sole
<1>14. Legacies(new)
  <2>1. \A n \in Tables : LegacyTable(n) # key
    BY <1>3, KeyKinds
  <2>2. \A n \in Tables : /\ Has(new, LegacyTable(n)) <=> Has(store, LegacyTable(n))
                          /\ Has(store, LegacyTable(n)) =>
                               new[LegacyTable(n)] = store[LegacyTable(n)]
    BY <1>1, <2>1
  <2> SUFFICES ASSUME NEW n \in Tables, Has(store, LegacyTable(n)),
                      NEW t, t = store[LegacyTable(n)]
               PROVE  /\ IsTable(t) /\ t.name = n /\ IsDefault(t.place)
                      /\ t.id \in Nat \ {0} /\ t.id < NextId(new, "table")
                      /\ \A l \in Tables : Has(new, LegacyTable(l))
                                           /\ new[LegacyTable(l)].id = t.id => l = n
                      /\ \A q \in Places, m \in Tables :
                           Leads(new, q, m) /\ IdOf(new, q, m) = t.id => IsDefault(q) /\ m = n
    BY <2>2 DEF Legacies
  <2>3. IsTable(t) /\ t.name = n /\ IsDefault(t.place)
        /\ t.id \in Nat \ {0} /\ t.id < NextId(new, "table")
    BY <1>4 DEF Good, Legacies, Numbered
  <2>4. \A l \in Tables : Has(new, LegacyTable(l)) /\ new[LegacyTable(l)].id = t.id => l = n
    BY <2>2 DEF Good, Legacies
  <2>5. \A q \in Places, m \in Tables :
          Leads(new, q, m) /\ IdOf(new, q, m) = t.id => IsDefault(q) /\ m = n
    BY <1>5 DEF Good, Legacies, Sole
  <2> QED
    BY <2>3, <2>4, <2>5
<1>15. Virgin(new)
  <2>1. DatabaseByName(p[1])[1] \in Kinds
    BY KeyKinds DEF Kinds
  <2>2. Has(store, Root)
    BY <2>1 DEF Good, Virgin, Describes, Resolved, Has
  <2> QED
    BY <1>1, <2>2 DEF Virgin
<1> QED
  BY <1>2, <1>7, <1>8, <1>9, <1>10, <1>11, <1>12, <1>13, <1>14, <1>15 DEF Good

-----------------------------------------------------------------------------
(***************************************************************************)
(* Sequences of writes.                                                    *)
(***************************************************************************)
IsSeq(x) == \E S : x \in Seq(S)

LEMMA SeqShape ==
  ASSUME NEW s, IsSeq(s)
  PROVE  /\ Len(s) \in Nat /\ DOMAIN s = 1..Len(s)
         /\ s = <<>> <=> Len(s) = 0
<1>1. PICK S : s \in Seq(S)
  BY DEF IsSeq
<1> QED
  BY <1>1, LenProperties, EmptySeq

LEMMA SeqTail ==
  ASSUME NEW s, IsSeq(s), s # <<>>
  PROVE  /\ IsSeq(Tail(s)) /\ Len(Tail(s)) = Len(s) - 1 /\ Len(s) \in Nat \ {0}
         /\ Head(s) = s[1]
         /\ \A i \in 1..Len(Tail(s)) : Tail(s)[i] = s[i + 1]
<1>1. PICK S : s \in Seq(S)
  BY DEF IsSeq
<1> QED
  BY <1>1, HeadTailProperties, EmptySeq DEF IsSeq

LEMMA SeqConcat ==
  ASSUME NEW s, NEW t, IsSeq(s), IsSeq(t)
  PROVE  /\ IsSeq(s \o t) /\ Len(s \o t) = Len(s) + Len(t)
         /\ Len(s) \in Nat /\ Len(t) \in Nat
         /\ \A i \in 1..Len(s) : (s \o t)[i] = s[i]
         /\ \A i \in 1..Len(t) : (s \o t)[Len(s) + i] = t[i]
<1>1. PICK S : s \in Seq(S)
  BY DEF IsSeq
<1>2. PICK T : t \in Seq(T)
  BY DEF IsSeq
<1>3. s \in Seq(S \cup T) /\ t \in Seq(S \cup T)
  BY <1>1, <1>2
<1>4. /\ s \o t \in Seq(S \cup T)
      /\ Len(s \o t) = Len(s) + Len(t)
      /\ Len(s) \in Nat /\ Len(t) \in Nat
      /\ \A i \in 1 .. Len(s) + Len(t) :
           (s \o t)[i] = IF i <= Len(s) THEN s[i] ELSE t[i - Len(s)]
  BY <1>3, ConcatProperties, LenProperties
<1>5. \A i \in 1..Len(s) : (s \o t)[i] = s[i]
  BY <1>4
<1>6. ASSUME NEW i \in 1..Len(t)
      PROVE  (s \o t)[Len(s) + i] = t[i]
  <2>1. Len(s) + i \in 1..Len(s) + Len(t) /\ ~(Len(s) + i <= Len(s))
    BY <1>4
  <2>2. (Len(s) + i) - Len(s) = i
    BY <1>4
  <2> QED
    BY <1>4, <2>1, <2>2
<1> QED
  BY <1>4, <1>5, <1>6 DEF IsSeq

LEMMA SeqConcatEmpty ==
  ASSUME NEW s, IsSeq(s)
  PROVE  s \o <<>> = s /\ <<>> \o s = s
  BY ConcatEmptySeq DEF IsSeq

\* Every element of a concatenation is one of its parts'.
LEMMA SeqConcatParts ==
  ASSUME NEW s, NEW t, IsSeq(s), IsSeq(t), NEW i \in 1..Len(s \o t)
  PROVE  \/ i \in 1..Len(s) /\ (s \o t)[i] = s[i]
         \/ i - Len(s) \in 1..Len(t) /\ (s \o t)[i] = t[i - Len(s)]
<1>1. /\ Len(s \o t) = Len(s) + Len(t)
      /\ Len(s) \in Nat /\ Len(t) \in Nat
      /\ \A j \in 1..Len(s) : (s \o t)[j] = s[j]
      /\ \A j \in 1..Len(t) : (s \o t)[Len(s) + j] = t[j]
  BY SeqConcat
<1>2. CASE i <= Len(s)
  BY <1>1, <1>2
<1>3. CASE ~(i <= Len(s))
  <2>1. i - Len(s) \in 1..Len(t) /\ Len(s) + (i - Len(s)) = i
    BY <1>1, <1>3
  <2> QED
    BY <1>1, <2>1
<1> QED
  BY <1>2, <1>3

LEMMA SeqSmall ==
  /\ IsSeq(<<>>)
  /\ \A a : IsSeq(<<a>>)
  /\ \A a, b : IsSeq(<<a, b>>)
  /\ \A a, b, c : IsSeq(<<a, b, c>>)
  /\ \A a, b, c, d : IsSeq(<<a, b, c, d>>)
<1>1. IsSeq(<<>>)
  BY EmptySeq DEF IsSeq
<1>2. ASSUME NEW a PROVE IsSeq(<<a>>)
  <2>1. <<a>> \in Seq({a})
    OBVIOUS
  <2> QED
    BY <2>1 DEF IsSeq
<1>3. ASSUME NEW a, NEW b PROVE IsSeq(<<a, b>>)
  <2>1. <<a, b>> \in Seq({a, b})
    OBVIOUS
  <2> QED
    BY <2>1 DEF IsSeq
<1>4. ASSUME NEW a, NEW b, NEW c PROVE IsSeq(<<a, b, c>>)
  <2>1. <<a, b, c>> \in Seq({a, b, c})
    OBVIOUS
  <2> QED
    BY <2>1 DEF IsSeq
<1>5. ASSUME NEW a, NEW b, NEW c, NEW d PROVE IsSeq(<<a, b, c, d>>)
  <2>1. <<a, b, c, d>> \in Seq({a, b, c, d})
    OBVIOUS
  <2> QED
    BY <2>1 DEF IsSeq
<1> QED
  BY <1>1, <1>2, <1>3, <1>4, <1>5

-----------------------------------------------------------------------------
(***************************************************************************)
(* What is left to write of ensure_bootstrap, CREATE DATABASE and CREATE    *)
(* SCHEMA.  Writes of other statements that are all harmless are a special  *)
(* case.                                                                    *)
(***************************************************************************)
Counts(w, kind) == w.put /\ w.key = NextKey(kind)
Puts(w, kind) == w.put /\ w.key[1] = kind
PutsRoot(w) == w.put /\ w.key = Root

\* The id is below the counter by the time of the j-th write.
Allocated(store, todo, j, kind, id) ==
  /\ id \in Nat \ {0}
  /\ \A i \in 1..Len(todo) : Counts(todo[i], kind) => i < j /\ id < todo[i].value
  /\ (\E i \in 1..Len(todo) : Counts(todo[i], kind)) \/ id < NextId(store, kind)

NewCounter(store, w) ==
  \E kind \in Numbered, v \in Nat \ {0} : w = Put(NextKey(kind), v) /\ Above(store, kind, v)

NewDatabase(store, todo, j) ==
  \E name, id :
    /\ todo[j] = Put(DatabaseByName(name), id)
    /\ Allocated(store, todo, j, "database", id)
    /\ \A k \in KeysOf(store, "database") : store[k] # id
    /\ \A k \in KeysOf(store, "schema") : k[2] # id
    /\ Has(store, Root) \/ DatabaseByName(name) = Root
    /\ \A i \in 1..Len(todo) : Puts(todo[i], "database") => i = j

NewSchema(store, todo, j) ==
  \E db, name, id :
    /\ todo[j] = Put(SchemaByName(db, name), id)
    /\ Allocated(store, todo, j, "database", db)
    /\ Allocated(store, todo, j, "schema", id)
    /\ \A k \in KeysOf(store, "schema") : store[k] # id
    /\ \A k \in KeysOf(store, "table") : k[3] # id
    /\ Has(store, Root) \/ \E i \in 1..Len(todo) : i < j /\ PutsRoot(todo[i])
    /\ \A i \in 1..Len(todo) : Puts(todo[i], "schema") => i = j
    /\ \A i \in 1..Len(todo) : Puts(todo[i], "database") => i < j

SchemaTodo(store, todo) ==
  /\ IsSeq(todo)
  /\ \A j \in 1..Len(todo) :
       \/ Harmless(todo[j])
       \/ NewCounter(store, todo[j])
       \/ NewDatabase(store, todo, j)
       \/ NewSchema(store, todo, j)

LEMMA HarmlessPuts ==
  ASSUME NEW w, Harmless(w)
  PROVE  /\ \A kind \in Kinds : ~Puts(w, kind)
         /\ \A kind \in Numbered : ~Counts(w, kind)
         /\ ~PutsRoot(w)
<1>1. CASE \E key, value : /\ w = Put(key, value) /\ key[1] \notin Kinds
                           /\ \A kind \in Numbered : key # NextKey(kind)
  <2>1. PICK key, value : /\ w = Put(key, value) /\ key[1] \notin Kinds
                          /\ \A kind \in Numbered : key # NextKey(kind)
    BY <1>1
  <2>2. w.key = key
    BY <2>1, WriteKinds
  <2>3. Root[1] \in Kinds
    BY KeyKinds DEF Root, Kinds
  <2> QED
    BY <2>1, <2>2, <2>3 DEF Puts, Counts, PutsRoot
<1>2. CASE \E key : w = Delete(key) /\ key[1] \notin {"next", "database"}
  BY <1>2, WriteKinds DEF Puts, Counts, PutsRoot
<1> QED
  BY <1>1, <1>2 DEF Harmless

LEMMA AllocatedShift ==
  ASSUME NEW store, NEW new, NEW todo, IsSeq(todo), todo # <<>>,
         NEW kind, NEW id, NEW j \in 1..Len(Tail(todo)),
         Allocated(store, todo, j + 1, kind, id),
         Counts(todo[1], kind) => NextId(new, kind) = todo[1].value,
         ~Counts(todo[1], kind) => NextId(new, kind) = NextId(store, kind)
  PROVE  Allocated(new, Tail(todo), j, kind, id)
<1> DEFINE rest == Tail(todo)
<1>1. /\ Len(rest) = Len(todo) - 1 /\ Len(todo) \in Nat \ {0}
      /\ \A i \in 1..Len(rest) : rest[i] = todo[i + 1]
  BY SeqTail
<1> HIDE DEF rest
<1>2. \A i \in 1..Len(rest) : Counts(rest[i], kind) => i < j /\ id < rest[i].value
  <2> SUFFICES ASSUME NEW i \in 1..Len(rest), Counts(rest[i], kind)
               PROVE  i < j /\ id < rest[i].value
    OBVIOUS
  <2>1. i + 1 \in 1..Len(todo) /\ rest[i] = todo[i + 1] /\ i \in Nat /\ j \in Nat
    BY <1>1 DEF rest
  <2>2. i + 1 < j + 1 /\ id < todo[i + 1].value
    BY <2>1 DEF Allocated
  <2> QED
    BY <2>1, <2>2
<1>3. (\E i \in 1..Len(rest) : Counts(rest[i], kind)) \/ id < NextId(new, kind)
  <2>1. CASE \E i \in 1..Len(todo) : Counts(todo[i], kind)
    <3>1. PICK i \in 1..Len(todo) : Counts(todo[i], kind)
      BY <2>1
    <3>2. CASE i = 1
      <4>1. id < todo[1].value
        BY <3>1, <3>2 DEF Allocated
      <4> QED
        BY <3>1, <3>2, <4>1
    <3>3. CASE i # 1
      <4>1. i - 1 \in 1..Len(rest) /\ (i - 1) + 1 = i
        BY <1>1, <3>3
      <4>2. rest[i - 1] = todo[i]
        BY <1>1, <4>1
      <4> QED
        BY <3>1, <4>1, <4>2
    <3> QED
      BY <3>2, <3>3
  <2>2. CASE ~\E i \in 1..Len(todo) : Counts(todo[i], kind)
    <3>1. ~Counts(todo[1], kind)
      BY <1>1, <2>2
    <3> QED
      BY <2>2, <3>1 DEF Allocated
  <2> QED
    BY <2>1, <2>2
<1> QED
  BY <1>2, <1>3 DEF Allocated, rest

\* The keys of a kind that are left are as they were.
Left(store, new, kind) ==
  \A k \in KeysOf(new, kind) : k \in KeysOf(store, kind) /\ new[k] = store[k]

\* What one write has to leave alone for the ones after it.
LEMMA SchemaRest ==
  ASSUME NEW store, NEW new, NEW todo, SchemaTodo(store, todo), todo # <<>>,
         \A kind \in Numbered :
           /\ Counts(todo[1], kind) => NextId(new, kind) = todo[1].value
           /\ ~Counts(todo[1], kind) => NextId(new, kind) = NextId(store, kind),
         \A j \in 2..Len(todo), kind \in Numbered, v \in Nat \ {0} :
           todo[j] = Put(NextKey(kind), v) /\ Above(store, kind, v) => Above(new, kind, v),
         \A j \in 2..Len(todo) : Puts(todo[j], "database") =>
           Left(store, new, "database") /\ Left(store, new, "schema"),
         \A j \in 2..Len(todo) : Puts(todo[j], "schema") =>
           Left(store, new, "schema") /\ Left(store, new, "table"),
         Has(store, Root) \/ PutsRoot(todo[1]) => Has(new, Root)
  PROVE  SchemaTodo(new, Tail(todo))
<1> DEFINE rest == Tail(todo)
<1>1. /\ IsSeq(rest) /\ Len(rest) = Len(todo) - 1 /\ Len(todo) \in Nat \ {0}
      /\ \A i \in 1..Len(rest) : rest[i] = todo[i + 1]
  BY SeqTail DEF SchemaTodo
<1> HIDE DEF rest
<1> SUFFICES ASSUME NEW j \in 1..Len(rest)
             PROVE  \/ Harmless(rest[j])
                    \/ NewCounter(new, rest[j])
                    \/ NewDatabase(new, rest, j)
                    \/ NewSchema(new, rest, j)
  BY <1>1 DEF SchemaTodo, rest
<1>2. j + 1 \in 2..Len(todo) /\ rest[j] = todo[j + 1] /\ j \in Nat
  BY <1>1
<1>3. \A i \in 1..Len(rest) : i + 1 \in 1..Len(todo) /\ rest[i] = todo[i + 1] /\ i \in Nat
  BY <1>1
<1>4. ASSUME NEW kind \in Numbered, NEW id, Allocated(store, todo, j + 1, kind, id)
      PROVE  Allocated(new, rest, j, kind, id)
  BY <1>4, AllocatedShift DEF rest, SchemaTodo
<1>5. CASE Harmless(todo[j + 1])
  BY <1>2, <1>5
<1>6. CASE NewCounter(store, todo[j + 1])
  BY <1>2, <1>6 DEF NewCounter
<1>7. CASE NewDatabase(store, todo, j + 1)
  <2>1. PICK name, id :
          /\ todo[j + 1] = Put(DatabaseByName(name), id)
          /\ Allocated(store, todo, j + 1, "database", id)
          /\ \A k \in KeysOf(store, "database") : store[k] # id
          /\ \A k \in KeysOf(store, "schema") : k[2] # id
          /\ Has(store, Root) \/ DatabaseByName(name) = Root
          /\ \A i \in 1..Len(todo) : Puts(todo[i], "database") => i = j + 1
    BY <1>7 DEF NewDatabase
  <2>2. Puts(todo[j + 1], "database")
    BY <2>1, WriteKinds, KeyKinds DEF Puts
  <2>3. /\ \A k \in KeysOf(new, "database") : new[k] # id
        /\ \A k \in KeysOf(new, "schema") : k[2] # id
    BY <1>2, <2>1, <2>2 DEF Left
  <2>4. Allocated(new, rest, j, "database", id)
    BY <1>4, <2>1 DEF Numbered
  <2>5. \A i \in 1..Len(rest) : Puts(rest[i], "database") => i = j
    BY <1>2, <1>3, <2>1
  <2>6. Has(new, Root) \/ DatabaseByName(name) = Root
    BY <2>1
  <2> QED
    BY <1>2, <2>1, <2>3, <2>4, <2>5, <2>6 DEF NewDatabase
<1>8. CASE NewSchema(store, todo, j + 1)
  <2>1. PICK db, name, id :
          /\ todo[j + 1] = Put(SchemaByName(db, name), id)
          /\ Allocated(store, todo, j + 1, "database", db)
          /\ Allocated(store, todo, j + 1, "schema", id)
          /\ \A k \in KeysOf(store, "schema") : store[k] # id
          /\ \A k \in KeysOf(store, "table") : k[3] # id
          /\ Has(store, Root) \/ \E i \in 1..Len(todo) : i < j + 1 /\ PutsRoot(todo[i])
          /\ \A i \in 1..Len(todo) : Puts(todo[i], "schema") => i = j + 1
          /\ \A i \in 1..Len(todo) : Puts(todo[i], "database") => i < j + 1
    BY <1>8 DEF NewSchema
  <2>2. Puts(todo[j + 1], "schema")
    BY <2>1, WriteKinds, KeyKinds DEF Puts
  <2>3. /\ \A k \in KeysOf(new, "schema") : new[k] # id
        /\ \A k \in KeysOf(new, "table") : k[3] # id
    BY <1>2, <2>1, <2>2 DEF Left
  <2>4. Allocated(new, rest, j, "database", db) /\ Allocated(new, rest, j, "schema", id)
    BY <1>4, <2>1 DEF Numbered
  <2>5. /\ \A i \in 1..Len(rest) : Puts(rest[i], "schema") => i = j
        /\ \A i \in 1..Len(rest) : Puts(rest[i], "database") => i < j
    <3> SUFFICES ASSUME NEW i \in 1..Len(rest)
                 PROVE  /\ Puts(rest[i], "schema") => i = j
                        /\ Puts(rest[i], "database") => i < j
      OBVIOUS
    <3>1. /\ Puts(todo[i + 1], "schema") => i + 1 = j + 1
          /\ Puts(todo[i + 1], "database") => i + 1 < j + 1
      BY <1>3, <2>1
    <3> QED
      BY <1>2, <1>3, <3>1
  <2>6. Has(new, Root) \/ \E i \in 1..Len(rest) : i < j /\ PutsRoot(rest[i])
    <3>1. CASE Has(store, Root)
      BY <3>1
    <3>2. CASE \E i \in 1..Len(todo) : i < j + 1 /\ PutsRoot(todo[i])
      <4>1. PICK i \in 1..Len(todo) : i < j + 1 /\ PutsRoot(todo[i])
        BY <3>2
      <4>2. CASE i = 1
        BY <4>1, <4>2
      <4>3. CASE i # 1
        <5>1. i - 1 \in 1..Len(rest) /\ (i - 1) + 1 = i /\ i - 1 < j
          BY <1>1, <1>2, <4>1, <4>3
        <5>2. rest[i - 1] = todo[i]
          BY <1>1, <5>1
        <5> QED
          BY <4>1, <5>1, <5>2
      <4> QED
        BY <4>2, <4>3
    <3> QED
      BY <2>1, <3>1, <3>2
  <2> QED
    BY <1>2, <2>1, <2>3, <2>4, <2>5, <2>6 DEF NewSchema
<1> QED
  <2>1. j + 1 \in 1..Len(todo)
    BY <1>2
  <2> QED
    BY <1>5, <1>6, <1>7, <1>8, <2>1 DEF SchemaTodo

LEMMA LeftAbove ==
  ASSUME NEW store, NEW new, NEW kind, NEW v, Above(store, kind, v), Kept(store, new),
         Left(store, new, "database"), Left(store, new, "schema"), Left(store, new, "table")
  PROVE  Above(new, kind, v)
<1>1. \A n \in Tables : Has(new, LegacyTable(n)) =>
        Has(store, LegacyTable(n)) /\ new[LegacyTable(n)] = store[LegacyTable(n)]
  BY KeyKinds DEF Kept
<1> QED
  BY <1>1 DEF Above, Left

LEMMA SchemaStep ==
  ASSUME NEW store, Good(store), NEW todo, SchemaTodo(store, todo), todo # <<>>,
         NEW new, new = Written(store, Head(todo))
  PROVE  /\ Good(new)
         /\ SchemaTodo(new, Tail(todo))
         /\ Has(store, Root) \/ PutsRoot(todo[1]) => Has(new, Root)
<1>0. Head(todo) = todo[1] /\ 1 \in 1..Len(todo) /\ Len(todo) \in Nat
  BY SeqTail DEF SchemaTodo
<1>1. CASE Harmless(todo[1])
  <2>1. Shrinks(store, new)
    BY <1>0, <1>1, HarmlessShrinks
  <2>2. /\ \A kind \in Numbered : ~Counts(todo[1], kind)
        /\ ~PutsRoot(todo[1])
    BY <1>1, HarmlessPuts
  <2>3. Good(new)
    BY <1>0, <1>1, HarmlessGood
  <2>4. /\ Left(store, new, "database") /\ Left(store, new, "schema")
        /\ Left(store, new, "table") /\ Kept(store, new)
    BY <2>1 DEF Shrinks, Left, Kept, KeysOf, Has, Kinds
  <2>5. Has(store, Root) \/ PutsRoot(todo[1]) => Has(new, Root)
    BY <2>1, <2>2 DEF Shrinks
  <2>6. \A kind \in Numbered : NextId(new, kind) = NextId(store, kind)
    BY <2>1 DEF Shrinks
  <2>7. SchemaTodo(new, Tail(todo))
    BY <2>2, <2>4, <2>5, <2>6, LeftAbove, SchemaRest
  <2> QED
    BY <2>3, <2>5, <2>7
<1>2. CASE NewCounter(store, todo[1])
  <2>1. PICK kind \in Numbered, v \in Nat \ {0} :
          todo[1] = Put(NextKey(kind), v) /\ Above(store, kind, v)
    BY <1>2 DEF NewCounter
  <2>2. /\ Good(new)
        /\ NextId(new, kind) = v
        /\ \A x \in Numbered \ {kind} : NextId(new, x) = NextId(store, x)
    BY <1>0, <2>1, CounterGood
  <2>3. todo[1].value = v /\ todo[1].put /\ todo[1].key = NextKey(kind)
    BY <2>1, WriteKinds
  <2>4. \A x \in Numbered : Counts(todo[1], x) <=> x = kind
    BY <2>3, KeyKinds DEF Counts
  <2>5. /\ \A k : Has(new, k) <=> k = NextKey(kind) \/ Has(store, k)
        /\ \A k : Has(store, k) /\ k # NextKey(kind) => new[k] = store[k]
    BY <1>0, <2>1, PutFacts
  <2>6. NextKey(kind)[1] = "next"
    BY KeyKinds
  <2>7. /\ Left(store, new, "database") /\ Left(store, new, "schema")
        /\ Left(store, new, "table") /\ Kept(store, new)
    BY <2>5, <2>6 DEF Left, Kept, KeysOf, Has
  <2>8. Has(store, Root) \/ PutsRoot(todo[1]) => Has(new, Root)
    BY <2>3, <2>5 DEF PutsRoot
  <2>9. SchemaTodo(new, Tail(todo))
    BY <2>2, <2>3, <2>4, <2>7, <2>8, LeftAbove, SchemaRest
  <2> QED
    BY <2>2, <2>8, <2>9
<1>3. CASE NewDatabase(store, todo, 1)
  <2>1. PICK name, id :
          /\ todo[1] = Put(DatabaseByName(name), id)
          /\ Allocated(store, todo, 1, "database", id)
          /\ \A k \in KeysOf(store, "database") : store[k] # id
          /\ \A k \in KeysOf(store, "schema") : k[2] # id
          /\ Has(store, Root) \/ DatabaseByName(name) = Root
          /\ \A i \in 1..Len(todo) : Puts(todo[i], "database") => i = 1
    BY <1>3 DEF NewDatabase
  <2>2. /\ \A i \in 1..Len(todo) : ~Counts(todo[i], "database")
        /\ id \in Nat \ {0} /\ id < NextId(store, "database")
    BY <2>1 DEF Allocated
  <2>3. /\ Good(new)
        /\ \A x \in Numbered : NextId(new, x) = NextId(store, x)
    BY <1>0, <2>1, <2>2, DatabaseGood
  <2>4. todo[1].put /\ todo[1].key = DatabaseByName(name)
    BY <2>1, WriteKinds
  <2>5. \A x \in Numbered : ~Counts(todo[1], x)
    BY <2>4, KeyKinds DEF Counts
  <2>6. /\ \A k : Has(new, k) <=> k = DatabaseByName(name) \/ Has(store, k)
        /\ \A k : Has(store, k) /\ k # DatabaseByName(name) => new[k] = store[k]
    BY <1>0, <2>1, PutFacts
  <2>7. DatabaseByName(name)[1] = "database"
    BY KeyKinds
  <2>8. /\ Left(store, new, "schema") /\ Left(store, new, "table") /\ Kept(store, new)
    BY <2>6, <2>7 DEF Left, Kept, KeysOf, Has
  <2>9. Has(store, Root) \/ PutsRoot(todo[1]) => Has(new, Root)
    BY <2>4, <2>6 DEF PutsRoot
  <2>10. \A j \in 2..Len(todo) : ~Puts(todo[j], "database")
    BY <1>0, <2>1
  <2>11. \A j \in 2..Len(todo), kind \in Numbered, v \in Nat \ {0} :
           todo[j] = Put(NextKey(kind), v) /\ Above(store, kind, v) => Above(new, kind, v)
    <3> SUFFICES ASSUME NEW j \in 2..Len(todo), NEW kind \in Numbered, NEW v \in Nat \ {0},
                        todo[j] = Put(NextKey(kind), v), Above(store, kind, v)
                 PROVE  Above(new, kind, v)
      OBVIOUS
    <3>1. Counts(todo[j], kind) /\ j \in 1..Len(todo)
      BY <1>0, WriteKinds DEF Counts
    <3>2. kind # "database"
      BY <2>2, <3>1
    <3>3. \A n \in Tables : Has(new, LegacyTable(n)) =>
            Has(store, LegacyTable(n)) /\ new[LegacyTable(n)] = store[LegacyTable(n)]
      BY <2>8, KeyKinds DEF Kept
    <3> QED
      BY <2>8, <3>2, <3>3 DEF Above, Left
  <2>12. SchemaTodo(new, Tail(todo))
    BY <2>3, <2>5, <2>8, <2>9, <2>10, <2>11, SchemaRest
  <2> QED
    BY <2>3, <2>9, <2>12
<1>4. CASE NewSchema(store, todo, 1)
  <2>1. PICK db, name, id :
          /\ todo[1] = Put(SchemaByName(db, name), id)
          /\ Allocated(store, todo, 1, "database", db)
          /\ Allocated(store, todo, 1, "schema", id)
          /\ \A k \in KeysOf(store, "schema") : store[k] # id
          /\ \A k \in KeysOf(store, "table") : k[3] # id
          /\ Has(store, Root) \/ \E i \in 1..Len(todo) : i < 1 /\ PutsRoot(todo[i])
          /\ \A i \in 1..Len(todo) : Puts(todo[i], "schema") => i = 1
          /\ \A i \in 1..Len(todo) : Puts(todo[i], "database") => i < 1
    BY <1>4 DEF NewSchema
  <2>2. /\ \A i \in 1..Len(todo) : ~Counts(todo[i], "database") /\ ~Counts(todo[i], "schema")
        /\ db \in Nat \ {0} /\ db < NextId(store, "database")
        /\ id \in Nat \ {0} /\ id < NextId(store, "schema")
    BY <2>1 DEF Allocated
  <2>3. Has(store, Root)
    BY <2>1
  <2>4. /\ Good(new)
        /\ \A x \in Numbered : NextId(new, x) = NextId(store, x)
    BY <1>0, <2>1, <2>2, <2>3, SchemaGood
  <2>5. todo[1].put /\ todo[1].key = SchemaByName(db, name)
    BY <2>1, WriteKinds
  <2>6. \A x \in Numbered : ~Counts(todo[1], x)
    BY <2>5, KeyKinds DEF Counts
  <2>7. /\ \A k : Has(new, k) <=> k = SchemaByName(db, name) \/ Has(store, k)
        /\ \A k : Has(store, k) /\ k # SchemaByName(db, name) => new[k] = store[k]
    BY <1>0, <2>1, PutFacts
  <2>8. SchemaByName(db, name)[1] = "schema"
    BY KeyKinds
  <2>9. /\ Left(store, new, "database") /\ Left(store, new, "table") /\ Kept(store, new)
    BY <2>7, <2>8 DEF Left, Kept, KeysOf, Has
  <2>10. Has(new, Root)
    BY <2>3, <2>7
  <2>11. \A j \in 2..Len(todo) : ~Puts(todo[j], "database") /\ ~Puts(todo[j], "schema")
    BY <1>0, <2>1
  <2>12. \A j \in 2..Len(todo), kind \in Numbered, v \in Nat \ {0} :
           todo[j] = Put(NextKey(kind), v) /\ Above(store, kind, v) => Above(new, kind, v)
    <3> SUFFICES ASSUME NEW j \in 2..Len(todo), NEW kind \in Numbered, NEW v \in Nat \ {0},
                        todo[j] = Put(NextKey(kind), v), Above(store, kind, v)
                 PROVE  Above(new, kind, v)
      OBVIOUS
    <3>1. Counts(todo[j], kind) /\ j \in 1..Len(todo)
      BY <1>0, WriteKinds DEF Counts
    <3>2. kind # "database" /\ kind # "schema"
      BY <2>2, <3>1
    <3>3. \A n \in Tables : Has(new, LegacyTable(n)) =>
            Has(store, LegacyTable(n)) /\ new[LegacyTable(n)] = store[LegacyTable(n)]
      BY <2>9, KeyKinds DEF Kept
    <3> QED
      BY <2>9, <3>2, <3>3 DEF Above, Left
  <2>13. SchemaTodo(new, Tail(todo))
    BY <2>4, <2>6, <2>9, <2>10, <2>11, <2>12, SchemaRest
  <2> QED
    BY <2>4, <2>10, <2>13
<1> QED
  BY <1>0, <1>1, <1>2, <1>3, <1>4 DEF SchemaTodo

-----------------------------------------------------------------------------
(***************************************************************************)
(* What is left to write of a statement that stores the descriptor r of a  *)
(* table of the place p.                                                   *)
(***************************************************************************)

\* Harmless, and schemas and descriptors stay.
Mild(w) ==
  \/ \E key, value : /\ w = Put(key, value) /\ key[1] \notin Kinds
                     /\ \A kind \in Numbered : key # NextKey(kind)
  \/ \E key : w = Delete(key) /\ key[1] \notin {"next", "database", "schema", "tableId"}

IdPut(r) == Put(TableById(r.id), r)
NamePut(r) == Put(TableByName(r.db, r.schema, r.name), r.id)
LegacyPut(r) == Put(LegacyTable(r.name), r)

TablePut(p, r, w) == w = IdPut(r) \/ w = NamePut(r) \/ (IsDefault(p) /\ w = LegacyPut(r))

\* By the time of the j-th write nothing else leads to the id of r.
Cleared(store, todo, j, p, r) ==
  /\ \A q \in Places, m \in Tables : Leads(store, q, m) /\ IdOf(store, q, m) = r.id =>
       \/ q = p /\ m = r.name
       \/ \E i \in 1..Len(todo) : i < j /\ todo[i] = Delete(NameKey(store, q, m))
  /\ \A n \in Tables : Has(store, LegacyTable(n)) /\ store[LegacyTable(n)].id = r.id =>
       \/ IsDefault(p) /\ n = r.name
       \/ \E i \in 1..Len(todo) : i < j /\ todo[i] = Delete(LegacyTable(n))

IsStored(store, r) == Has(store, TableById(r.id)) /\ store[TableById(r.id)] = r

TableTodo(store, todo, p, r) ==
  /\ IsSeq(todo) /\ Describes(store, p, r)
  /\ \A j \in 1..Len(todo) :
       \/ Mild(todo[j])
       \/ TablePut(p, r, todo[j]) /\ Cleared(store, todo, j, p, r)
  /\ \A j \in 1..Len(todo) : todo[j] = NamePut(r) =>
       IsStored(store, r) \/ \E i \in 1..Len(todo) : i < j /\ todo[i] = IdPut(r)

LEMMA MildHarmless ==
  ASSUME NEW w, Mild(w)
  PROVE  Harmless(w)
  BY DEF Mild, Harmless

\* An element of a sequence before the j-th of its tail, or the first.
LEMMA TailEarlier ==
  ASSUME NEW todo, IsSeq(todo), todo # <<>>, NEW j \in 1..Len(Tail(todo)),
         NEW i \in 1..Len(todo), i < j + 1
  PROVE  \/ i = 1
         \/ i - 1 \in 1..Len(Tail(todo)) /\ i - 1 < j /\ Tail(todo)[i - 1] = todo[i]
<1> DEFINE rest == Tail(todo)
<1>1. /\ Len(rest) = Len(todo) - 1 /\ Len(todo) \in Nat \ {0}
      /\ \A x \in 1..Len(rest) : rest[x] = todo[x + 1]
  BY SeqTail
<1> HIDE DEF rest
<1>2. j \in Nat /\ i \in Nat
  BY <1>1
<1>3. CASE i # 1
  <2>1. i - 1 \in 1..Len(rest) /\ (i - 1) + 1 = i /\ i - 1 < j
    BY <1>1, <1>2, <1>3
  <2>2. rest[i - 1] = todo[i]
    BY <1>1, <2>1
  <2> QED
    BY <2>1, <2>2 DEF rest
<1> QED
  BY <1>3

\* What one write has to leave alone for the ones after it.
LEMMA TableRest ==
  ASSUME NEW store, NEW new, NEW todo, NEW p, NEW r, TableTodo(store, todo, p, r),
         todo # <<>>, Describes(new, p, r),
         \A q \in Places, m \in Tables : Leads(new, q, m) =>
           \/ q = p /\ m = r.name
           \/ /\ Leads(store, q, m) /\ IdOf(new, q, m) = IdOf(store, q, m)
              /\ NameKey(new, q, m) = NameKey(store, q, m)
              /\ todo[1] # Delete(NameKey(store, q, m)),
         \A n \in Tables : Has(new, LegacyTable(n)) =>
           \/ IsDefault(p) /\ n = r.name
           \/ /\ Has(store, LegacyTable(n)) /\ new[LegacyTable(n)] = store[LegacyTable(n)]
              /\ todo[1] # Delete(LegacyTable(n)),
         todo[1] = IdPut(r) \/ IsStored(store, r) => IsStored(new, r)
  PROVE  TableTodo(new, Tail(todo), p, r)
<1> DEFINE rest == Tail(todo)
<1>1. /\ IsSeq(rest) /\ Len(rest) = Len(todo) - 1 /\ Len(todo) \in Nat \ {0}
      /\ \A i \in 1..Len(rest) : rest[i] = todo[i + 1]
  BY SeqTail DEF TableTodo
<1>2. ASSUME NEW j \in 1..Len(rest), NEW w,
             \E i \in 1..Len(todo) : i < j + 1 /\ todo[i] = w
      PROVE  todo[1] = w \/ \E i \in 1..Len(rest) : i < j /\ rest[i] = w
  <2>1. IsSeq(todo)
    BY DEF TableTodo
  <2>2. PICK i \in 1..Len(todo) : i < j + 1 /\ todo[i] = w
    BY <1>2
  <2>3. i = 1 \/ (i - 1 \in 1..Len(rest) /\ i - 1 < j /\ rest[i - 1] = todo[i])
    BY <2>1, <2>2, TailEarlier
  <2> QED
    BY <2>2, <2>3
<1> HIDE DEF rest
<1>3. \A j \in 1..Len(rest) : j + 1 \in 1..Len(todo) /\ rest[j] = todo[j + 1]
  BY <1>1
<1>4. ASSUME NEW j \in 1..Len(rest), Cleared(store, todo, j + 1, p, r)
      PROVE  Cleared(new, rest, j, p, r)
  <2>1. ASSUME NEW q \in Places, NEW m \in Tables, Leads(new, q, m), IdOf(new, q, m) = r.id,
               ~(q = p /\ m = r.name)
        PROVE  \E i \in 1..Len(rest) : i < j /\ rest[i] = Delete(NameKey(new, q, m))
    <3>1. /\ Leads(store, q, m) /\ IdOf(new, q, m) = IdOf(store, q, m)
          /\ NameKey(new, q, m) = NameKey(store, q, m)
          /\ todo[1] # Delete(NameKey(store, q, m))
      BY <2>1
    <3>2. \E i \in 1..Len(todo) : i < j + 1 /\ todo[i] = Delete(NameKey(store, q, m))
      BY <1>4, <2>1, <3>1 DEF Cleared
    <3> QED
      BY <1>2, <3>1, <3>2
  <2>2. ASSUME NEW n \in Tables, Has(new, LegacyTable(n)), new[LegacyTable(n)].id = r.id,
               ~(IsDefault(p) /\ n = r.name)
        PROVE  \E i \in 1..Len(rest) : i < j /\ rest[i] = Delete(LegacyTable(n))
    <3>1. /\ Has(store, LegacyTable(n)) /\ new[LegacyTable(n)] = store[LegacyTable(n)]
          /\ todo[1] # Delete(LegacyTable(n))
      BY <2>2
    <3>2. \E i \in 1..Len(todo) : i < j + 1 /\ todo[i] = Delete(LegacyTable(n))
      BY <1>4, <2>2, <3>1 DEF Cleared
    <3> QED
      BY <1>2, <3>1, <3>2
  <2> QED
    BY <2>1, <2>2 DEF Cleared
<1>5. ASSUME NEW j \in 1..Len(rest)
      PROVE  \/ Mild(rest[j])
             \/ TablePut(p, r, rest[j]) /\ Cleared(new, rest, j, p, r)
  <2>1. \/ Mild(todo[j + 1])
        \/ TablePut(p, r, todo[j + 1]) /\ Cleared(store, todo, j + 1, p, r)
    BY <1>3 DEF TableTodo
  <2> QED
    BY <1>3, <1>4, <2>1
<1>6. ASSUME NEW j \in 1..Len(rest), rest[j] = NamePut(r)
      PROVE  IsStored(new, r) \/ \E i \in 1..Len(rest) : i < j /\ rest[i] = IdPut(r)
  <2>1. IsStored(store, r) \/ \E i \in 1..Len(todo) : i < j + 1 /\ todo[i] = IdPut(r)
    BY <1>3, <1>6 DEF TableTodo
  <2> QED
    BY <1>2, <2>1
<1> QED
  BY <1>1, <1>5, <1>6 DEF TableTodo, rest

LEMMA MildKeeps ==
  ASSUME NEW store, NEW w, Mild(w), NEW new, new = Written(store, w)
  PROVE  /\ \A k : Has(store, k) /\ k[1] \in {"database", "schema", "tableId"} =>
              Has(new, k) /\ new[k] = store[k]
         /\ \A k : w = Delete(k) => ~Has(new, k)
<1>1. CASE \E key, value : /\ w = Put(key, value) /\ key[1] \notin Kinds
                           /\ \A kind \in Numbered : key # NextKey(kind)
  <2>1. PICK key, value : w = Put(key, value) /\ key[1] \notin Kinds
    BY <1>1
  <2>2. /\ \A k : Has(new, k) <=> k = key \/ Has(store, k)
        /\ \A k : Has(store, k) /\ k # key => new[k] = store[k]
    BY <2>1, PutFacts
  <2>3. \A k : w # Delete(k)
    BY <2>1, WriteKinds
  <2> QED
    BY <2>1, <2>2, <2>3 DEF Kinds
<1>2. CASE \E key : w = Delete(key) /\ key[1] \notin {"next", "database", "schema", "tableId"}
  <2>1. PICK key : w = Delete(key) /\ key[1] \notin {"next", "database", "schema", "tableId"}
    BY <1>2
  <2>2. /\ \A k : Has(new, k) <=> k # key /\ Has(store, k)
        /\ \A k : Has(new, k) => new[k] = store[k]
    BY <2>1, DeleteFacts
  <2>3. ASSUME NEW k, w = Delete(k)
        PROVE  k = key
    <3>1. Delete(k).key = k /\ Delete(key).key = key
      BY WriteKinds
    <3> QED
      BY <2>1, <2>3, <3>1
  <2> QED
    BY <2>1, <2>2, <2>3
<1> QED
  BY <1>1, <1>2 DEF Mild

\* A write that keeps databases and schemas keeps what a place resolves to.
LEMMA KeepsResolved ==
  ASSUME NEW store, NEW new, NEW q, Resolved(store, q),
         \A k : Has(store, k) /\ k[1] \in {"database", "schema"} =>
           Has(new, k) /\ new[k] = store[k]
  PROVE  Resolved(new, q) /\ DbOf(new, q) = DbOf(store, q) /\
         SchemaOf(new, q) = SchemaOf(store, q)
<1>1. Has(new, DatabaseByName(q[1])) /\ DbOf(new, q) = DbOf(store, q)
  BY KeyKinds DEF Resolved, DbOf
<1>2. SchemaKey(new, q) = SchemaKey(store, q)
  BY <1>1 DEF SchemaKey
<1>3. SchemaKey(store, q)[1] = "schema"
  BY SchemaKeyParts
<1> QED
  BY <1>1, <1>2, <1>3 DEF Resolved, SchemaOf

LEMMA TableStep ==
  ASSUME NEW store, Good(store), NEW todo, NEW p, NEW r, TableTodo(store, todo, p, r),
         todo # <<>>, NEW new, new = Written(store, Head(todo)), Has(store, Root)
  PROVE  Good(new) /\ TableTodo(new, Tail(todo), p, r) /\ Has(new, Root)
<1>0. Head(todo) = todo[1] /\ 1 \in 1..Len(todo)
  BY SeqTail DEF TableTodo
<1>1. CASE Mild(todo[1])
  <2>1. Shrinks(store, new) /\ Good(new)
    BY <1>0, <1>1, MildHarmless, HarmlessShrinks, HarmlessGood
  <2>2. /\ \A k : Has(store, k) /\ k[1] \in {"database", "schema", "tableId"} =>
             Has(new, k) /\ new[k] = store[k]
        /\ \A k : todo[1] = Delete(k) => ~Has(new, k)
    BY <1>0, <1>1, MildKeeps
  <2>3. Describes(new, p, r)
    <3>1. Resolved(store, p) /\ r.db = DbOf(store, p) /\ r.schema = SchemaOf(store, p)
      BY DEF TableTodo, Describes
    <3>2. /\ Resolved(new, p) /\ DbOf(new, p) = DbOf(store, p)
          /\ SchemaOf(new, p) = SchemaOf(store, p)
      BY <2>2, <3>1, KeepsResolved
    <3>3. NextId(new, "table") = NextId(store, "table")
      BY <2>1 DEF Shrinks, Numbered
    <3> QED
      BY <3>1, <3>2, <3>3 DEF TableTodo, Describes
  <2>4. \A q \in Places, m \in Tables : Leads(new, q, m) =>
           /\ Leads(store, q, m) /\ IdOf(new, q, m) = IdOf(store, q, m)
           /\ NameKey(new, q, m) = NameKey(store, q, m)
           /\ todo[1] # Delete(NameKey(store, q, m))
    <3> TAKE q \in Places, m \in Tables
    <3> HAVE Leads(new, q, m)
    <3>1. /\ Leads(store, q, m) /\ IdOf(new, q, m) = IdOf(store, q, m)
          /\ NameKey(new, q, m) = NameKey(store, q, m)
      BY <2>1, ShrinkLeads DEF Leads
    <3>2. Has(new, NameKey(store, q, m))
      BY <3>1 DEF Leads
    <3> QED
      BY <2>2, <3>1, <3>2
  <2>5. \A n \in Tables : Has(new, LegacyTable(n)) =>
           /\ Has(store, LegacyTable(n)) /\ new[LegacyTable(n)] = store[LegacyTable(n)]
           /\ todo[1] # Delete(LegacyTable(n))
    BY <2>1, <2>2, KeyKinds DEF Shrinks, Kinds
  <2>6. todo[1] = IdPut(r) \/ IsStored(store, r) => IsStored(new, r)
    <3>1. todo[1] # IdPut(r)
      <4>1. ~Puts(todo[1], "tableId")
        BY <1>1, MildHarmless, HarmlessPuts DEF Kinds
      <4> QED
        BY <4>1, WriteKinds, KeyKinds DEF Puts, IdPut
    <3> QED
      BY <2>2, <3>1, KeyKinds DEF IsStored
  <2>7. TableTodo(new, Tail(todo), p, r)
    BY <2>3, <2>4, <2>5, <2>6, TableRest
  <2> QED
    BY <2>1, <2>7 DEF Shrinks
<1>2. CASE TablePut(p, r, todo[1]) /\ Cleared(store, todo, 1, p, r)
  <2>1. Describes(store, p, r)
    BY DEF TableTodo
  <2>2. Sole(store, p, r)
    BY <1>2 DEF Cleared, Sole
  <2>3. CASE todo[1] = IdPut(r)
    <3>1. new = Written(store, Put(TableById(r.id), r))
      BY <1>0, <2>3 DEF IdPut
    <3>2. Good(new)
      BY <2>1, <2>2, <3>1, TableIdGood
    <3>3. /\ \A k : Has(new, k) <=> k = TableById(r.id) \/ Has(store, k)
          /\ new[TableById(r.id)] = r
          /\ \A k : Has(store, k) /\ k # TableById(r.id) => new[k] = store[k]
      BY <3>1, PutFacts
    <3>4. TableById(r.id)[1] = "tableId"
      BY KeyKinds
    <3>5. NextId(new, "table") = NextId(store, "table")
      BY <3>1, <3>4, KeyKinds, PutKeepsNextId
    <3>6. \A q, m : /\ Resolved(new, q) <=> Resolved(store, q)
                    /\ Resolved(store, q) => /\ DbOf(new, q) = DbOf(store, q)
                                             /\ SchemaOf(new, q) = SchemaOf(store, q)
                                             /\ NameKey(new, q, m) = NameKey(store, q, m)
                    /\ Leads(new, q, m) <=> Leads(store, q, m)
                    /\ Leads(store, q, m) => IdOf(new, q, m) = IdOf(store, q, m)
      BY <3>1, <3>4, PutKeepsLeads DEF Numbered
    <3>7. Describes(new, p, r)
      BY <2>1, <3>5, <3>6 DEF Describes
    <3>8. \A k : todo[1] # Delete(k)
      BY <2>3, WriteKinds DEF IdPut
    <3>9. \A n \in Tables : Has(new, LegacyTable(n)) =>
            Has(store, LegacyTable(n)) /\ new[LegacyTable(n)] = store[LegacyTable(n)]
      BY <3>3, <3>4, KeyKinds
    <3>10. IsStored(new, r)
      BY <3>3 DEF IsStored
    <3>11. TableTodo(new, Tail(todo), p, r)
      BY <3>6, <3>7, <3>8, <3>9, <3>10, TableRest DEF Leads
    <3> QED
      BY <3>2, <3>3, <3>11
  <2>4. CASE todo[1] = NamePut(r)
    <3>0. IsStored(store, r)
      BY <1>0, <2>4 DEF TableTodo
    <3>1. new = Written(store, Put(TableByName(r.db, r.schema, r.name), r.id))
      BY <1>0, <2>4 DEF NamePut
    <3>2. Good(new)
      BY <2>1, <2>2, <3>0, <3>1, NameGood DEF IsStored
    <3>3. /\ \A k : Has(new, k) <=> k = TableByName(r.db, r.schema, r.name) \/ Has(store, k)
          /\ \A k : Has(store, k) /\ k # TableByName(r.db, r.schema, r.name) =>
                      new[k] = store[k]
      BY <3>1, PutFacts
    <3>4. TableByName(r.db, r.schema, r.name)[1] = "table"
      BY KeyKinds
    <3>5. NextId(new, "table") = NextId(store, "table")
      BY <3>1, <3>4, KeyKinds, PutKeepsNextId
    <3>6. /\ \A q : /\ Resolved(new, q) <=> Resolved(store, q)
                    /\ Resolved(store, q) =>
                        DbOf(new, q) = DbOf(store, q) /\ SchemaOf(new, q) = SchemaOf(store, q)
          /\ \A q, m : Resolved(store, q) => NameKey(new, q, m) = NameKey(store, q, m)
          /\ \A q \in Places, m \in Tables : <<q, m>> # <<p, r.name>> =>
               /\ Leads(new, q, m) <=> Leads(store, q, m)
               /\ Leads(store, q, m) => IdOf(new, q, m) = IdOf(store, q, m)
      BY <2>1, <3>1, NamePutLeads DEF Good
    <3>7. Describes(new, p, r)
      BY <2>1, <3>5, <3>6 DEF Describes
    <3>8. \A k : todo[1] # Delete(k)
      BY <2>4, WriteKinds DEF NamePut
    <3>9. \A n \in Tables : Has(new, LegacyTable(n)) =>
            Has(store, LegacyTable(n)) /\ new[LegacyTable(n)] = store[LegacyTable(n)]
      BY <3>3, <3>4, KeyKinds
    <3>10. IsStored(new, r)
      BY <3>0, <3>3, <3>4, KeyKinds DEF IsStored
    <3>11. \A q \in Places, m \in Tables : Leads(new, q, m) =>
             \/ q = p /\ m = r.name
             \/ /\ Leads(store, q, m) /\ IdOf(new, q, m) = IdOf(store, q, m)
                /\ NameKey(new, q, m) = NameKey(store, q, m)
      BY <3>6 DEF Leads
    <3>12. TableTodo(new, Tail(todo), p, r)
      BY <3>7, <3>8, <3>9, <3>10, <3>11, TableRest
    <3> QED
      BY <3>2, <3>3, <3>12
  <2>5. CASE IsDefault(p) /\ todo[1] = LegacyPut(r)
    <3>1. new = Written(store, Put(LegacyTable(r.name), r))
      BY <1>0, <2>5 DEF LegacyPut
    <3>2. Good(new)
      BY <2>1, <2>2, <2>5, <3>1, LegacyGood
    <3>3. /\ \A k : Has(new, k) <=> k = LegacyTable(r.name) \/ Has(store, k)
          /\ \A k : Has(store, k) /\ k # LegacyTable(r.name) => new[k] = store[k]
      BY <3>1, PutFacts
    <3>4. LegacyTable(r.name)[1] = "legacy"
      BY KeyKinds
    <3>5. NextId(new, "table") = NextId(store, "table")
      BY <3>1, <3>4, KeyKinds, PutKeepsNextId
    <3>6. \A q, m : /\ Resolved(new, q) <=> Resolved(store, q)
                    /\ Resolved(store, q) => /\ DbOf(new, q) = DbOf(store, q)
                                             /\ SchemaOf(new, q) = SchemaOf(store, q)
                                             /\ NameKey(new, q, m) = NameKey(store, q, m)
                    /\ Leads(new, q, m) <=> Leads(store, q, m)
                    /\ Leads(store, q, m) => IdOf(new, q, m) = IdOf(store, q, m)
      BY <3>1, <3>4, PutKeepsLeads DEF Numbered
    <3>7. Describes(new, p, r)
      BY <2>1, <3>5, <3>6 DEF Describes
    <3>8. \A k : todo[1] # Delete(k)
      BY <2>5, WriteKinds DEF LegacyPut
    <3>9. \A n \in Tables : Has(new, LegacyTable(n)) =>
            \/ n = r.name
            \/ Has(store, LegacyTable(n)) /\ new[LegacyTable(n)] = store[LegacyTable(n)]
      BY <3>3, KeyKinds
    <3>10. todo[1] = IdPut(r) \/ IsStored(store, r) => IsStored(new, r)
      <4>1. todo[1] # IdPut(r)
        BY <2>5, <3>4, WriteKinds, KeyKinds DEF LegacyPut, IdPut
      <4> QED
        BY <3>3, <3>4, <4>1, KeyKinds DEF IsStored
    <3>11. TableTodo(new, Tail(todo), p, r)
      BY <2>5, <3>6, <3>7, <3>8, <3>9, <3>10, TableRest DEF Leads
    <3> QED
      BY <3>2, <3>3, <3>11
  <2> QED
    BY <1>2, <2>3, <2>4, <2>5 DEF TablePut
<1> QED
  BY <1>0, <1>1, <1>2 DEF TableTodo

-----------------------------------------------------------------------------
(***************************************************************************)
(* The statements' writes when they begin.                                 *)
(***************************************************************************)
TodoOK(store, todo) == SchemaTodo(store, todo) \/ \E p, r : TableTodo(store, todo, p, r)

AllHarmless(ws) == IsSeq(ws) /\ \A i \in 1..Len(ws) : Harmless(ws[i])
AllMild(ws) == IsSeq(ws) /\ \A i \in 1..Len(ws) : Mild(ws[i])

LEMMA HarmlessTodo ==
  ASSUME NEW store, NEW ws, AllHarmless(ws)
  PROVE  TodoOK(store, ws)
  BY DEF TodoOK, AllHarmless, SchemaTodo

LEMMA MildAll ==
  ASSUME NEW ws, AllMild(ws)
  PROVE  AllHarmless(ws)
  BY MildHarmless DEF AllMild, AllHarmless

LEMMA HarmlessConcat ==
  ASSUME NEW s, NEW t, AllHarmless(s), AllHarmless(t)
  PROVE  AllHarmless(s \o t)
<1>1. IsSeq(s) /\ IsSeq(t) /\ IsSeq(s \o t)
  BY SeqConcat DEF AllHarmless
<1>2. ASSUME NEW i \in 1..Len(s \o t)
      PROVE  Harmless((s \o t)[i])
  <2>1. \/ i \in 1..Len(s) /\ (s \o t)[i] = s[i]
        \/ i - Len(s) \in 1..Len(t) /\ (s \o t)[i] = t[i - Len(s)]
    BY <1>1, SeqConcatParts
  <2> QED
    BY <2>1 DEF AllHarmless
<1> QED
  BY <1>1, <1>2 DEF AllHarmless

LEMMA MildConcat ==
  ASSUME NEW s, NEW t, AllMild(s), AllMild(t)
  PROVE  AllMild(s \o t)
<1>1. IsSeq(s) /\ IsSeq(t) /\ IsSeq(s \o t)
  BY SeqConcat DEF AllMild
<1>2. ASSUME NEW i \in 1..Len(s \o t)
      PROVE  Mild((s \o t)[i])
  <2>1. \/ i \in 1..Len(s) /\ (s \o t)[i] = s[i]
        \/ i - Len(s) \in 1..Len(t) /\ (s \o t)[i] = t[i - Len(s)]
    BY <1>1, SeqConcatParts
  <2> QED
    BY <2>1 DEF AllMild
<1> QED
  BY <1>1, <1>2 DEF AllMild

LEMMA HarmlessSmall ==
  /\ AllHarmless(<<>>)
  /\ \A a : Harmless(a) => AllHarmless(<<a>>)
  /\ \A a, b : Harmless(a) /\ Harmless(b) => AllHarmless(<<a, b>>)
  /\ \A a, b, c : Harmless(a) /\ Harmless(b) /\ Harmless(c) => AllHarmless(<<a, b, c>>)
  /\ \A a, b, c, d : Harmless(a) /\ Harmless(b) /\ Harmless(c) /\ Harmless(d) =>
       AllHarmless(<<a, b, c, d>>)
  BY SeqSmall DEF AllHarmless

LEMMA MildSmall ==
  /\ AllMild(<<>>)
  /\ \A a : Mild(a) => AllMild(<<a>>)
  /\ \A a, b : Mild(a) /\ Mild(b) => AllMild(<<a, b>>)
  /\ \A a, b, c, d : Mild(a) /\ Mild(b) /\ Mild(c) /\ Mild(d) => AllMild(<<a, b, c, d>>)
  BY SeqSmall DEF AllMild

\* Puts and deletes of keys of the other kinds.
Apart(key) ==
  key[1] \in {"databaseId", "schemaId", "index", "indexId", "indexOf", "view", "viewId",
              "sequence", "rowid", "row"}

LEMMA ApartKeys ==
  /\ \A a : /\ Apart(DatabaseById(a)) /\ Apart(SchemaById(a)) /\ Apart(IndexById(a))
            /\ Apart(ViewById(a)) /\ Apart(RowIdKey(a))
  /\ \A a, b : Apart(IndexByTable(a, b))
  /\ \A a, b, c : /\ Apart(IndexByName(a, b, c)) /\ Apart(ViewByName(a, b, c))
                  /\ Apart(SequenceKey(a, b, c)) /\ Apart(RowKey(a, b, c))
  BY DEF Apart, DatabaseById, SchemaById, IndexById, ViewById, RowIdKey, IndexByTable,
         IndexByName, ViewByName, SequenceKey, RowKey

LEMMA ApartWrites ==
  ASSUME NEW key, Apart(key)
  PROVE  /\ \A value : Mild(Put(key, value)) /\ Harmless(Put(key, value))
         /\ Mild(Delete(key)) /\ Harmless(Delete(key))
<1>1. key[1] \notin Kinds \cup {"next", "database", "schema", "tableId"}
  BY DEF Apart, Kinds
<1>2. \A kind \in Numbered : key # NextKey(kind)
  BY <1>1, KeyKinds
<1>3. \A value : Mild(Put(key, value))
  BY <1>1, <1>2 DEF Mild
<1>4. Mild(Delete(key))
  BY <1>1 DEF Mild
<1> QED
  BY <1>3, <1>4, MildHarmless

\* The counters of indexes and views are of no concern to tables.
LEMMA OtherCounters ==
  ASSUME NEW kind \in {"index", "view"}, NEW value
  PROVE  Mild(Put(NextKey(kind), value)) /\ Harmless(Put(NextKey(kind), value))
<1>1. NextKey(kind)[1] \notin Kinds /\ \A x \in Numbered : NextKey(kind) # NextKey(x)
  BY KeyKinds DEF Kinds, Numbered
<1>2. Mild(Put(NextKey(kind), value))
  BY <1>1 DEF Mild
<1> QED
  BY <1>2, MildHarmless

LEMMA TableDeletes ==
  /\ \A a, b, c : Mild(Delete(TableByName(a, b, c))) /\ Harmless(Delete(TableByName(a, b, c)))
  /\ \A a : Mild(Delete(LegacyTable(a))) /\ Harmless(Delete(LegacyTable(a)))
  /\ \A a : Harmless(Delete(TableById(a)))
  /\ \A a, b : Harmless(Delete(SchemaByName(a, b)))
<1>1. ASSUME NEW a, NEW b, NEW c PROVE Mild(Delete(TableByName(a, b, c)))
  <2>1. TableByName(a, b, c)[1] \notin {"next", "database", "schema", "tableId"}
    BY KeyKinds
  <2> QED
    BY <2>1 DEF Mild
<1>2. ASSUME NEW a PROVE Mild(Delete(LegacyTable(a)))
  <2>1. LegacyTable(a)[1] \notin {"next", "database", "schema", "tableId"}
    BY KeyKinds
  <2> QED
    BY <2>1 DEF Mild
<1>3. ASSUME NEW a PROVE Harmless(Delete(TableById(a)))
  <2>1. TableById(a)[1] \notin {"next", "database"}
    BY KeyKinds
  <2> QED
    BY <2>1 DEF Harmless
<1>4. ASSUME NEW a, NEW b PROVE Harmless(Delete(SchemaByName(a, b)))
  <2>1. SchemaByName(a, b)[1] \notin {"next", "database"}
    BY KeyKinds
  <2> QED
    BY <2>1 DEF Harmless
<1> QED
  BY <1>1, <1>2, <1>3, <1>4, MildHarmless

\* What a put of each kind of key is.
LEMMA PutKinds ==
  /\ \A k, v, kind : Counts(Put(NextKey(k), v), kind) <=> kind = k
  /\ \A k, v : /\ ~Puts(Put(NextKey(k), v), "database")
               /\ ~Puts(Put(NextKey(k), v), "schema")
  /\ \A a, v, kind : ~Counts(Put(DatabaseByName(a), v), kind)
  /\ \A a, v : Puts(Put(DatabaseByName(a), v), "database")
               /\ ~Puts(Put(DatabaseByName(a), v), "schema")
  /\ \A a, b, v, kind : ~Counts(Put(SchemaByName(a, b), v), kind)
  /\ \A a, b, v : Puts(Put(SchemaByName(a, b), v), "schema")
                  /\ ~Puts(Put(SchemaByName(a, b), v), "database")
  /\ \A a, v, kind : ~Counts(Put(DatabaseById(a), v), kind)
  /\ \A a, v : ~Puts(Put(DatabaseById(a), v), "database")
               /\ ~Puts(Put(DatabaseById(a), v), "schema")
  /\ \A a, v, kind : ~Counts(Put(SchemaById(a), v), kind)
  /\ \A a, v : ~Puts(Put(SchemaById(a), v), "database")
               /\ ~Puts(Put(SchemaById(a), v), "schema")
<1>1. \A key, v : Put(key, v).put /\ Put(key, v).key = key
  BY WriteKinds
<1>2. \A key, v, kind : /\ Counts(Put(key, v), kind) <=> key = NextKey(kind)
                        /\ Puts(Put(key, v), kind) <=> key[1] = kind
  BY <1>1 DEF Counts, Puts
<1>3. /\ \A a : DatabaseById(a)[1] = "databaseId"
      /\ \A a : SchemaById(a)[1] = "schemaId"
  BY DEF DatabaseById, SchemaById
<1>4. \A a, b : NextKey(a) = NextKey(b) <=> a = b
  BY KeyKinds
<1>5. \A a, b, kind : /\ NextKey(kind) # DatabaseByName(a) /\ NextKey(kind) # SchemaByName(a, b)
                      /\ NextKey(kind) # DatabaseById(a) /\ NextKey(kind) # SchemaById(a)
  <2> TAKE a, b, kind
  <2>1. NextKey(kind)[1] = "next" /\ DatabaseByName(a)[1] = "database"
        /\ SchemaByName(a, b)[1] = "schema"
    BY KeyKinds
  <2> QED
    BY <1>3, <2>1
<1> QED
  BY <1>2, <1>3, <1>4, <1>5, KeyKinds

LEMMA BootstrapTodo ==
  ASSUME NEW store, Good(store), ~Has(store, Root)
  PROVE  /\ SchemaTodo(store, Bootstrap(store)) /\ Bootstrap(store) # <<>>
         /\ \E j \in 1..Len(Bootstrap(store)) : PutsRoot(Bootstrap(store)[j])
<1> DEFINE w1 == Put(NextKey("database"), 2)
           w2 == Put(NextKey("schema"), 2)
           w3 == Put(NextKey("table"), 1)
           w4 == Put(NextKey("index"), 1)
           w5 == Put(NextKey("view"), 1)
           w6 == Put(DatabaseById(1), "defaultdb")
           w7 == Put(DatabaseByName("defaultdb"), 1)
           w8 == Put(SchemaById(1), "public")
           w9 == Put(SchemaByName(1, "public"), 1)
           todo == Bootstrap(store)
<1>1. todo = <<w1, w2, w3, w4, w5, w6, w7, w8, w9>>
  BY DEF Bootstrap, Root
<1>2. /\ \A i \in {2, 3, 4, 5, 6, 7, 8, 9} : ~Counts(todo[i], "database")
      /\ \A i \in {1, 3, 4, 5, 6, 7, 8, 9} : ~Counts(todo[i], "schema")
      /\ \A i \in {1, 2, 3, 4, 5, 6, 8, 9} : ~Puts(todo[i], "database")
      /\ \A i \in {1, 2, 3, 4, 5, 6, 7, 8} : ~Puts(todo[i], "schema")
  <2>1. /\ ~Counts(w1, "schema") /\ ~Counts(w2, "database")
        /\ \A w \in {w3, w4, w5, w6, w7, w8, w9} : ~Counts(w, "schema") /\
             ~Counts(w, "database")
    BY PutKinds
  <2>2. /\ ~Puts(w7, "schema") /\ ~Puts(w9, "database")
        /\ \A w \in {w1, w2, w3, w4, w5, w6, w8} : ~Puts(w, "schema") /\ ~Puts(w, "database")
    BY PutKinds
  <2> HIDE DEF w1, w2, w3, w4, w5, w6, w7, w8, w9, todo
  <2> QED
    BY <1>1, <2>1, <2>2
<1>3. /\ Counts(w1, "database") /\ w1.value = 2 /\ Counts(w2, "schema") /\ w2.value = 2
      /\ PutsRoot(w7)
  BY PutKinds, WriteKinds DEF PutsRoot, Root
<1>4. /\ \A k \in DOMAIN store : k[1] \notin Kinds
      /\ KeysOf(store, "database") = {} /\ KeysOf(store, "schema") = {}
      /\ KeysOf(store, "table") = {} /\ \A n \in Tables : ~Has(store, LegacyTable(n))
  <2>1. \A k \in DOMAIN store : k[1] \notin Kinds
    BY DEF Good, Virgin
  <2> QED
    BY <2>1, KeyKinds DEF KeysOf, Kinds, Has
<1>5. \A kind \in Numbered : \A v : Above(store, kind, v)
  BY <1>4 DEF Above
<1>6. NewCounter(store, w1) /\ NewCounter(store, w2) /\ NewCounter(store, w3)
  BY <1>5 DEF NewCounter, Numbered
<1>7. Harmless(w4) /\ Harmless(w5) /\ Harmless(w6) /\ Harmless(w8)
  BY OtherCounters, ApartKeys, ApartWrites
<1>8. /\ todo[1] = w1 /\ todo[2] = w2 /\ todo[3] = w3 /\ todo[4] = w4 /\ todo[5] = w5
      /\ todo[6] = w6 /\ todo[7] = w7 /\ todo[8] = w8 /\ todo[9] = w9
      /\ Len(todo) = 9 /\ IsSeq(todo) /\ todo # <<>>
  <2> HIDE DEF w1, w2, w3, w4, w5, w6, w7, w8, w9, todo
  <2>1. todo \in Seq({w1, w2, w3, w4, w5, w6, w7, w8, w9})
    BY <1>1
  <2> QED
    BY <1>1, <2>1 DEF IsSeq
<1>9. 1..Len(todo) = {1, 2, 3, 4, 5, 6, 7, 8, 9}
  BY <1>8
<1>10. NewDatabase(store, todo, 7)
  <2>1. todo[7] = Put(DatabaseByName("defaultdb"), 1)
    BY <1>8
  <2> HIDE DEF w1, w2, w3, w4, w5, w6, w7, w8, w9, todo
  <2>2. Allocated(store, todo, 7, "database", 1)
    BY <1>2, <1>3, <1>8, <1>9 DEF Allocated
  <2>3. \A i \in 1..Len(todo) : Puts(todo[i], "database") => i = 7
    BY <1>2, <1>9
  <2> QED
    BY <1>4, <2>1, <2>2, <2>3 DEF NewDatabase, Root
<1>11. NewSchema(store, todo, 9)
  <2>1. todo[9] = Put(SchemaByName(1, "public"), 1)
    BY <1>8
  <2> HIDE DEF w1, w2, w3, w4, w5, w6, w7, w8, w9, todo
  <2>2. Allocated(store, todo, 9, "database", 1) /\ Allocated(store, todo, 9, "schema", 1)
    BY <1>2, <1>3, <1>8, <1>9 DEF Allocated
  <2>3. /\ \A i \in 1..Len(todo) : Puts(todo[i], "schema") => i = 9
        /\ \A i \in 1..Len(todo) : Puts(todo[i], "database") => i < 9
    <3>1. ~Puts(todo[9], "database") /\ \A i \in 1..Len(todo) : Puts(todo[i], "schema") => i = 9
      BY <1>2, <1>9
    <3>2. \A i \in {1, 2, 3, 4, 5, 6, 7, 8} : i < 9
      OBVIOUS
    <3> QED
      BY <1>9, <3>1, <3>2
  <2>4. \E i \in 1..Len(todo) : i < 9 /\ PutsRoot(todo[i])
    BY <1>3, <1>8, <1>9
  <2> QED
    BY <1>4, <2>1, <2>2, <2>3, <2>4 DEF NewSchema
<1> HIDE DEF w1, w2, w3, w4, w5, w6, w7, w8, w9, todo
<1>12. SchemaTodo(store, todo)
  BY <1>6, <1>7, <1>8, <1>9, <1>10, <1>11 DEF SchemaTodo
<1>13. \E j \in 1..Len(todo) : PutsRoot(todo[j])
  BY <1>3, <1>8, <1>9
<1> QED
  BY <1>8, <1>12, <1>13 DEF todo

\* The next id of a kind is above all of them.
LEMMA NextIsAbove ==
  ASSUME NEW store, Good(store)
  PROVE  /\ \A kind \in Numbered : /\ NextId(store, kind) \in Nat \ {0}
                                   /\ NextId(store, kind) + 1 \in Nat \ {0}
                                   /\ Above(store, kind, NextId(store, kind))
                                   /\ Above(store, kind, NextId(store, kind) + 1)
  BY DEF Good, Counters, Databases, Schemas, TableNames, Legacies, Above, Numbered

\* get_database and get_schema, when they find something.
LEMMA GetFacts ==
  ASSUME NEW store, Good(store), NEW q
  PROVE  /\ GetDatabase(store, q[1]) > 0 =>
              /\ Has(store, DatabaseByName(q[1])) /\ GetDatabase(store, q[1]) = DbOf(store, q)
              /\ DbOf(store, q) \in Nat \ {0} /\ DbOf(store, q) < NextId(store, "database")
         /\ GetSchema(store, q[1], q[2]) > 0 =>
              /\ Resolved(store, q) /\ GetDatabase(store, q[1]) = DbOf(store, q)
              /\ GetDatabase(store, q[1]) > 0
              /\ GetSchema(store, q[1], q[2]) = SchemaOf(store, q)
         /\ GetDatabase(store, q[1]) \in Int /\ GetSchema(store, q[1], q[2]) \in Int
<1>1. /\ GetDatabase(store, q[1]) > 0 =>
           /\ Has(store, DatabaseByName(q[1])) /\ GetDatabase(store, q[1]) = DbOf(store, q)
           /\ DbOf(store, q) \in Nat \ {0} /\ DbOf(store, q) < NextId(store, "database")
      /\ GetDatabase(store, q[1]) \in Int
  <2>1. Has(store, DatabaseByName(q[1])) => DatabaseByName(q[1]) \in KeysOf(store, "database")
    BY KeyKinds DEF Has, KeysOf
  <2> QED
    BY <2>1 DEF GetDatabase, Missing, Broken, DbOf, Good, Databases
<1>2. CASE GetDatabase(store, q[1]) > 0
  <2>1. SchemaByName(GetDatabase(store, q[1]), q[2]) = SchemaKey(store, q)
    BY <1>1, <1>2 DEF SchemaKey
  <2>2. Has(store, SchemaKey(store, q)) => SchemaOf(store, q) \in Nat \ {0}
    BY SchemaKeyParts DEF Has, KeysOf, Good, Schemas, SchemaOf
  <2> QED
    BY <1>1, <1>2, <2>1, <2>2 DEF GetSchema, Missing, Broken, Resolved, SchemaOf
<1>3. CASE ~(GetDatabase(store, q[1]) > 0)
  BY <1>1, <1>3 DEF GetSchema
<1> QED
  BY <1>1, <1>2, <1>3

LEMMA CreateSchemaTodo ==
  ASSUME NEW store, Good(store), Has(store, Root), NEW place
  PROVE  TodoOK(store, CreateSchema(store, place))
<1>1. CASE GetDatabase(store, place[1]) <= 0 \/ GetSchema(store, place[1], place[2]) # Missing
  BY <1>1, HarmlessSmall, HarmlessTodo DEF CreateSchema
<1>2. CASE ~(GetDatabase(store, place[1]) <= 0 \/
        GetSchema(store, place[1], place[2]) # Missing)
  <2> DEFINE id == NextId(store, "schema")
             db == GetDatabase(store, place[1])
             name == place[2]
             w1 == Put(NextKey("schema"), id + 1)
             w2 == Put(SchemaById(id), name)
             w3 == Put(SchemaByName(db, name), id)
             todo == <<w1, w2, w3>>
  <2>1. CreateSchema(store, place) = todo
    BY <1>2 DEF CreateSchema, WriteSchema, AllocateId
  <2>2. db \in Nat \ {0} /\ db < NextId(store, "database")
    BY <1>2, GetFacts
  <2>3. id \in Nat \ {0} /\ Above(store, "schema", id) /\ Above(store, "schema", id + 1)
        /\ id + 1 \in Nat \ {0}
    BY NextIsAbove DEF Numbered
  <2> HIDE DEF id, db, name
  <2>4. /\ Counts(w1, "schema") /\ w1.value = id + 1 /\ ~Counts(w1, "database")
        /\ ~Counts(w2, "schema") /\ ~Counts(w3, "schema")
        /\ ~Counts(w2, "database") /\ ~Counts(w3, "database")
        /\ ~Puts(w1, "database") /\ ~Puts(w2, "database") /\ ~Puts(w3, "database")
        /\ ~Puts(w1, "schema") /\ ~Puts(w2, "schema")
    BY PutKinds, WriteKinds
  <2>5. NewCounter(store, w1)
    BY <2>3 DEF NewCounter, Numbered
  <2>6. Harmless(w2)
    BY ApartKeys, ApartWrites
  <2>7. IsSeq(todo)
    BY SeqSmall
  <2>8. NewSchema(store, todo, 3)
    <3>1. todo[3] = Put(SchemaByName(db, name), id)
      OBVIOUS
    <3> HIDE DEF w1, w2, w3
    <3>2. Allocated(store, todo, 3, "database", db)
      BY <2>2, <2>4 DEF Allocated
    <3>3. Allocated(store, todo, 3, "schema", id)
      BY <2>3, <2>4 DEF Allocated
    <3>4. /\ \A k \in KeysOf(store, "schema") : store[k] # id
          /\ \A k \in KeysOf(store, "table") : k[3] # id
      BY <2>3 DEF Above
    <3>5. /\ \A i \in 1..Len(todo) : Puts(todo[i], "schema") => i = 3
          /\ \A i \in 1..Len(todo) : Puts(todo[i], "database") => i < 3
      BY <2>4
    <3> QED
      BY <3>1, <3>2, <3>3, <3>4, <3>5 DEF NewSchema
  <2> HIDE DEF w1, w2, w3
  <2>9. 1..Len(todo) = {1, 2, 3} /\ todo[1] = w1 /\ todo[2] = w2
    OBVIOUS
  <2> HIDE DEF todo
  <2> QED
    BY <2>1, <2>5, <2>6, <2>7, <2>8, <2>9 DEF TodoOK, SchemaTodo
<1> QED
  BY <1>1, <1>2

LEMMA CreateDatabaseTodo ==
  ASSUME NEW store, Good(store), Has(store, Root), NEW name
  PROVE  TodoOK(store, CreateDatabase(store, name))
<1>1. CASE GetDatabase(store, name) # Missing
  BY <1>1, HarmlessSmall, HarmlessTodo DEF CreateDatabase
<1>2. CASE GetDatabase(store, name) = Missing
  <2> DEFINE db == NextId(store, "database")
             id == NextId(store, "schema")
             w1 == Put(NextKey("database"), db + 1)
             w2 == Put(DatabaseById(db), name)
             w3 == Put(DatabaseByName(name), db)
             w4 == Put(NextKey("schema"), id + 1)
             w5 == Put(SchemaById(id), "public")
             w6 == Put(SchemaByName(db, "public"), id)
             todo == CreateDatabase(store, name)
  <2>1. todo = <<w1, w2, w3>> \o <<w4, w5, w6>>
    BY <1>2 DEF CreateDatabase, WriteSchema, AllocateId
  <2>2. /\ id \in Nat \ {0} /\ Above(store, "schema", id) /\ Above(store, "schema", id + 1)
        /\ id + 1 \in Nat \ {0}
        /\ db \in Nat \ {0} /\ Above(store, "database", db) /\ Above(store, "database", db + 1)
        /\ db + 1 \in Nat \ {0}
    BY NextIsAbove DEF Numbered
  <2>3. /\ todo[1] = w1 /\ todo[2] = w2 /\ todo[3] = w3 /\ todo[4] = w4 /\ todo[5] = w5
        /\ todo[6] = w6 /\ Len(todo) = 6 /\ IsSeq(todo)
    <3> HIDE DEF w1, w2, w3, w4, w5, w6, todo
    <3>1. IsSeq(todo)
      BY <2>1, SeqSmall, SeqConcat
    <3> QED
      BY <2>1, <3>1
  <2> HIDE DEF id, db, todo
  <2>4. /\ Counts(w1, "database") /\ w1.value = db + 1 /\ ~Counts(w1, "schema")
        /\ Counts(w4, "schema") /\ w4.value = id + 1 /\ ~Counts(w4, "database")
        /\ \A w \in {w2, w3, w5, w6} : ~Counts(w, "schema") /\ ~Counts(w, "database")
        /\ ~Puts(w3, "schema") /\ ~Puts(w6, "database")
        /\ \A w \in {w1, w2, w4, w5} : ~Puts(w, "schema") /\ ~Puts(w, "database")
    BY PutKinds, WriteKinds
  <2>5. NewCounter(store, w1) /\ NewCounter(store, w4)
    BY <2>2 DEF NewCounter, Numbered
  <2>6. Harmless(w2) /\ Harmless(w5)
    BY ApartKeys, ApartWrites
  <2>7. 1..Len(todo) = {1, 2, 3, 4, 5, 6}
    BY <2>3
  <2>8. NewDatabase(store, todo, 3)
    <3>1. todo[3] = Put(DatabaseByName(name), db)
      BY <2>3
    <3> HIDE DEF w1, w2, w3, w4, w5, w6
    <3>2. Allocated(store, todo, 3, "database", db)
      BY <2>2, <2>3, <2>4, <2>7 DEF Allocated
    <3>3. /\ \A k \in KeysOf(store, "database") : store[k] # db
          /\ \A k \in KeysOf(store, "schema") : k[2] # db
      BY <2>2 DEF Above
    <3>4. \A i \in 1..Len(todo) : Puts(todo[i], "database") => i = 3
      BY <2>3, <2>4, <2>7
    <3> QED
      BY <3>1, <3>2, <3>3, <3>4 DEF NewDatabase
  <2>9. NewSchema(store, todo, 6)
    <3>1. todo[6] = Put(SchemaByName(db, "public"), id)
      BY <2>3
    <3> HIDE DEF w1, w2, w3, w4, w5, w6
    <3>2. Allocated(store, todo, 6, "database", db)
      BY <2>2, <2>3, <2>4, <2>7 DEF Allocated
    <3>3. Allocated(store, todo, 6, "schema", id)
      BY <2>2, <2>3, <2>4, <2>7 DEF Allocated
    <3>4. /\ \A k \in KeysOf(store, "schema") : store[k] # id
          /\ \A k \in KeysOf(store, "table") : k[3] # id
      BY <2>2 DEF Above
    <3>5. /\ \A i \in 1..Len(todo) : Puts(todo[i], "schema") => i = 6
          /\ \A i \in 1..Len(todo) : Puts(todo[i], "database") => i < 6
      BY <2>3, <2>4, <2>7
    <3> QED
      BY <3>1, <3>2, <3>3, <3>4, <3>5 DEF NewSchema
  <2> HIDE DEF w1, w2, w3, w4, w5, w6
  <2>10. SchemaTodo(store, todo)
    BY <2>3, <2>5, <2>6, <2>7, <2>8, <2>9 DEF SchemaTodo
  <2> QED
    BY <2>10 DEF TodoOK, todo
<1> QED
  BY <1>1, <1>2

-----------------------------------------------------------------------------
(***************************************************************************)
(* Tables that are loaded, and stored again.                               *)
(***************************************************************************)
Owned(store, p, t) ==
  /\ p \in Places /\ IsTable(t) /\ t.name \in Tables
  /\ t.id \in Nat \ {0} /\ t.id < NextId(store, "table")
  /\ Sole(store, p, t)

LEMMA LoadFacts ==
  ASSUME NEW store, Good(store), NEW p \in Places, NEW m \in Tables,
         NEW a, a = LoadTable(store, p, m), Exists(a)
  PROVE  /\ Owned(store, p, a) /\ a.name = m /\ a.place = p
         /\ GetSchema(store, p[1], p[2]) > 0
         /\ \/ Leads(store, p, m) /\ IdOf(store, p, m) = a.id
            \/ IsDefault(p) /\ Has(store, LegacyTable(m)) /\ store[LegacyTable(m)] = a
<1> DEFINE db == GetDatabase(store, p[1])
           schema == GetSchema(store, p[1], p[2])
           key == TableByName(db, schema, m)
<1>1. \A id : NoTable(id).id = id
  BY DEF NoTable, TableRecord
<1>2. db \in Int /\ schema \in Int
  BY GetFacts
<1>3. /\ db > 0 /\ schema > 0
      /\ \/ /\ ~Has(store, key) /\ IsDefault(p) /\ Has(store, LegacyTable(m))
            /\ a = store[LegacyTable(m)]
         \/ /\ Has(store, key) /\ Has(store, TableById(store[key]))
            /\ a = store[TableById(store[key])]
  <2> HIDE DEF db, schema, key
  <2>0. a = IF db <= 0 THEN NoTable(db)
            ELSE IF schema <= 0 THEN NoTable(schema)
            ELSE IF ~Has(store, key)
              THEN IF IsDefault(p) /\ Has(store, LegacyTable(m))
                     THEN store[LegacyTable(m)] ELSE NoTable(Missing)
            ELSE IF Has(store, TableById(store[key])) THEN store[TableById(store[key])]
            ELSE NoTable(Broken)
    BY DEF LoadTable, db, schema, key
  <2>1. a.id > 0
    BY DEF Exists
  <2>2. a # NoTable(db) \/ ~(db <= 0)
    BY <1>1, <1>2, <2>1
  <2>3. a # NoTable(schema) \/ ~(schema <= 0)
    BY <1>1, <1>2, <2>1
  <2>4. a # NoTable(Missing) /\ a # NoTable(Broken)
    BY <1>1, <2>1 DEF Missing, Broken
  <2> QED
    BY <1>2, <2>0, <2>2, <2>3, <2>4
<1>4. Resolved(store, p) /\ key = NameKey(store, p, m)
  BY <1>3, GetFacts DEF NameKey
<1> HIDE DEF db, key
<1>5. CASE ~Has(store, key) /\ IsDefault(p) /\ Has(store, LegacyTable(m))
           /\ a = store[LegacyTable(m)]
  <2>1. /\ IsTable(a) /\ a.name = m /\ IsDefault(a.place)
        /\ a.id \in Nat \ {0} /\ a.id < NextId(store, "table")
        /\ \A l \in Tables : Has(store, LegacyTable(l)) /\ store[LegacyTable(l)].id = a.id =>
             l = m
        /\ \A q \in Places, n \in Tables :
             Leads(store, q, n) /\ IdOf(store, q, n) = a.id => IsDefault(q) /\ n = m
    BY <1>5 DEF Good, Legacies
  <2>2. Sole(store, p, a)
    BY <1>5, <2>1 DEF Sole, IsDefault
  <2> QED
    BY <1>3, <1>5, <2>1, <2>2 DEF Owned, IsDefault
<1>6. CASE Has(store, key) /\ Has(store, TableById(store[key])) /\
        a = store[TableById(store[key])]
  <2>1. Leads(store, p, m) /\ IdOf(store, p, m) = store[key]
    BY <1>4, <1>6 DEF Leads, IdOf
  <2>2. TableById(store[key]) \in KeysOf(store, "tableId") /\
          TableById(store[key])[2] = store[key]
    BY <1>6, KeyKinds DEF KeysOf, Has
  <2>3. IsTable(a) /\ a.id = store[key]
    BY <1>6, <2>2 DEF Good, Payloads
  <2>4. a.name = m /\ a.place = p
    BY <1>6, <2>1 DEF Good, Described
  <2>5. key \in KeysOf(store, "table")
    BY <1>4, <1>6, NameKeyParts DEF KeysOf, Has
  <2>6. a.id \in Nat \ {0} /\ a.id < NextId(store, "table")
    BY <2>3, <2>5 DEF Good, TableNames
  <2>7. Sole(store, p, a)
    <3>1. \A q \in Places, n \in Tables :
            Leads(store, q, n) /\ IdOf(store, q, n) = a.id => q = p /\ n = m
      BY <2>1, <2>3 DEF Good, Exclusive
    <3>2. \A n \in Tables : Has(store, LegacyTable(n)) /\ store[LegacyTable(n)].id = a.id =>
            IsDefault(p) /\ n = m
      BY <2>1, <2>3 DEF Good, Legacies
    <3> QED
      BY <2>4, <3>1, <3>2 DEF Sole
  <2> QED
    BY <1>3, <2>1, <2>3, <2>4, <2>6, <2>7 DEF Owned
<1> QED
  BY <1>3, <1>5, <1>6

\* [t EXCEPT ...] of a descriptor.
LEMMA TableExcept ==
  ASSUME NEW t, IsTable(t)
  PROVE  /\ \A a, b, c : [t EXCEPT !.db = a, !.schema = b, !.place = c]
                           = TableRecord(t.id, a, b, c, t.name, t.epoch, t.sequence)
         /\ \A n : [t EXCEPT !.name = n]
                     = TableRecord(t.id, t.db, t.schema, t.place, n, t.epoch, t.sequence)
         /\ [t EXCEPT !.epoch = @ + 1]
              = TableRecord(t.id, t.db, t.schema, t.place, t.name, t.epoch + 1, t.sequence)
<1>1. t = TableRecord(t.id, t.db, t.schema, t.place, t.name, t.epoch, t.sequence)
  BY DEF IsTable
<1> DEFINE id == t.id  db == t.db  schema == t.schema  place == t.place  name == t.name
           epoch == t.epoch  sequence == t.sequence
<1>2. t = [id |-> id, db |-> db, schema |-> schema, place |-> place, name |-> name,
           epoch |-> epoch, sequence |-> sequence]
  BY <1>1 DEF TableRecord
<1>3. t.epoch = epoch
  OBVIOUS
<1> HIDE DEF id, db, schema, place, name, epoch, sequence
<1>4. \A a, b, c : [t EXCEPT !.db = a, !.schema = b, !.place = c]
                     = TableRecord(id, a, b, c, name, epoch, sequence)
  <2> TAKE a, b, c
  <2> DEFINE u == [id |-> id, db |-> a, schema |-> b, place |-> c, name |-> name,
                   epoch |-> epoch, sequence |-> sequence]
             e == [t EXCEPT !.db = a, !.schema = b, !.place = c]
  <2>1. DOMAIN t = {"id", "db", "schema", "place", "name", "epoch", "sequence"}
    BY <1>2
  <2>2. DOMAIN e = DOMAIN t /\ DOMAIN u = DOMAIN t
    BY <2>1
  <2>3. \A f \in DOMAIN t : e[f] = u[f]
    <3>1. e["db"] = a /\ e["schema"] = b /\ e["place"] = c
      BY <2>1
    <3>2. \A f \in {"id", "name", "epoch", "sequence"} : e[f] = t[f]
      BY <2>1
    <3>3. \A f \in {"id", "name", "epoch", "sequence"} : u[f] = t[f]
      BY <1>2
    <3>4. u["db"] = a /\ u["schema"] = b /\ u["place"] = c
      OBVIOUS
    <3> HIDE DEF e, u
    <3> QED
      BY <2>1, <3>1, <3>2, <3>3, <3>4
  <2>4. e = [f \in DOMAIN t |-> e[f]] /\ u = [f \in DOMAIN t |-> u[f]]
    BY <2>2
  <2>5. e = u
    <3> HIDE DEF e, u
    <3> QED
      BY <2>3, <2>4
  <2> QED
    BY <2>5 DEF TableRecord
<1>5. \A n : [t EXCEPT !.name = n] = TableRecord(id, db, schema, place, n, epoch, sequence)
  BY <1>2 DEF TableRecord
<1>6. [t EXCEPT !.epoch = @ + 1] = TableRecord(id, db, schema, place, name, epoch + 1, sequence)
  <2>1. \A v : [t EXCEPT !.epoch = v] = TableRecord(id, db, schema, place, name, v, sequence)
    BY <1>2 DEF TableRecord
  <2>2. [t EXCEPT !.epoch = @ + 1] = [t EXCEPT !.epoch = t.epoch + 1]
    OBVIOUS
  <2> QED
    BY <1>3, <2>1, <2>2, Zenon
<1> QED
  BY <1>4, <1>5, <1>6 DEF id, db, schema, place, name, epoch, sequence

LEMMA TableFields ==
  ASSUME NEW id, NEW db, NEW schema, NEW place, NEW name, NEW epoch, NEW sequence,
         NEW t, t = TableRecord(id, db, schema, place, name, epoch, sequence)
  PROVE  /\ IsTable(t) /\ t.id = id /\ t.db = db /\ t.schema = schema /\ t.place = place
         /\ t.name = name /\ t.epoch = epoch /\ t.sequence = sequence
  BY DEF IsTable, TableRecord

\* store_table of a table that nothing else leads to once `pre` is written, with
\* mild writes before and after it.
LEMMA StoreTodo ==
  ASSUME NEW store, Good(store), NEW p \in Places, NEW t, IsTable(t), t.name \in Tables,
         t.id \in Nat \ {0}, t.id < NextId(store, "table"),
         GetSchema(store, p[1], p[2]) > 0,
         NEW pre, AllMild(pre), NEW post, AllMild(post),
         \A q \in Places, m \in Tables : Leads(store, q, m) /\ IdOf(store, q, m) = t.id =>
           \/ q = p /\ m = t.name
           \/ \E i \in 1..Len(pre) : pre[i] = Delete(NameKey(store, q, m)),
         \A n \in Tables : Has(store, LegacyTable(n)) /\ store[LegacyTable(n)].id = t.id =>
           \/ IsDefault(p) /\ n = t.name
           \/ \E i \in 1..Len(pre) : pre[i] = Delete(LegacyTable(n))
  PROVE  TodoOK(store, (pre \o StoreTable(store, p, t)) \o post)
<1> DEFINE db == GetDatabase(store, p[1])
           schema == GetSchema(store, p[1], p[2])
           r == [t EXCEPT !.db = db, !.schema = schema, !.place = p]
           st == StoreTable(store, p, t)
           todo == (pre \o st) \o post
<1>1. /\ Resolved(store, p) /\ db = DbOf(store, p) /\ schema = SchemaOf(store, p)
      /\ schema \in Int /\ ~(schema <= 0)
  BY GetFacts
<1>2. /\ IsTable(r) /\ r.id = t.id /\ r.name = t.name /\ r.place = p
      /\ r.db = db /\ r.schema = schema
  <2> HIDE DEF db, schema
  <2>1. \A a, b, c : [t EXCEPT !.db = a, !.schema = b, !.place = c]
                       = TableRecord(t.id, a, b, c, t.name, t.epoch, t.sequence)
    BY TableExcept, Zenon
  <2>2. r = TableRecord(t.id, db, schema, p, t.name, t.epoch, t.sequence)
    BY <2>1, Zenon
  <2> HIDE DEF r
  <2> QED
    BY <2>2, TableFields
<1>3. st = <<Put(TableById(t.id), r), Put(TableByName(db, schema, t.name), t.id)>>
           \o (IF IsDefault(p) THEN <<Put(LegacyTable(t.name), r)>> ELSE <<>>)
  BY <1>1 DEF StoreTable
<1> HIDE DEF r, st, db, schema
<1>4. st = <<IdPut(r), NamePut(r)>> \o (IF IsDefault(p) THEN <<LegacyPut(r)>> ELSE <<>>)
  BY <1>2, <1>3 DEF IdPut, NamePut, LegacyPut
<1>5. /\ IsSeq(st) /\ Len(st) \in {2, 3} /\ st[1] = IdPut(r) /\ st[2] = NamePut(r)
      /\ Len(st) = 3 => IsDefault(p) /\ st[3] = LegacyPut(r)
  <2> DEFINE tail == IF IsDefault(p) THEN <<LegacyPut(r)>> ELSE <<>>
  <2>1. IsSeq(tail) /\ IsSeq(<<IdPut(r), NamePut(r)>>)
    BY SeqSmall
  <2>2. CASE IsDefault(p)
    <3>1. st = <<IdPut(r), NamePut(r)>> \o <<LegacyPut(r)>>
      BY <1>4, <2>2
    <3> QED
      BY <1>4, <2>1, <2>2, <3>1, SeqConcat
  <2>3. CASE ~IsDefault(p)
    <3>1. st = <<IdPut(r), NamePut(r)>> \o <<>>
      BY <1>4, <2>3
    <3>2. st = <<IdPut(r), NamePut(r)>>
      BY <2>1, <3>1, SeqConcatEmpty
    <3> QED
      BY <2>1, <3>2
  <2> QED
    BY <2>2, <2>3
<1>6. Describes(store, p, r)
  BY <1>1, <1>2 DEF Describes
<1>7. \A i \in 1..Len(st) : TablePut(p, r, st[i])
  <2>1. \A i \in 1..Len(st) : i = 1 \/ i = 2 \/ (i = 3 /\ Len(st) = 3)
    <3>1. \A n \in {2, 3} : \A i \in 1..n : i = 1 \/ i = 2 \/ (i = 3 /\ n = 3)
      OBVIOUS
    <3> QED
      BY <1>5, <3>1
  <2> QED
    BY <1>5, <2>1 DEF TablePut
<1>8. IsSeq(pre) /\ IsSeq(post) /\ IsSeq(pre \o st) /\ IsSeq(todo)
  BY <1>5, SeqConcat DEF AllMild
<1>9. /\ Len(todo) = Len(pre) + Len(st) + Len(post) /\ Len(pre \o st) = Len(pre) + Len(st)
      /\ Len(pre) \in Nat /\ Len(st) \in Nat /\ Len(post) \in Nat
  <2>1. Len(pre \o st) = Len(pre) + Len(st) /\ Len(pre) \in Nat /\ Len(st) \in Nat
    BY <1>5, <1>8, SeqConcat
  <2>2. Len(todo) = Len(pre \o st) + Len(post) /\ Len(post) \in Nat
    BY <1>8, SeqConcat
  <2> QED
    BY <2>1, <2>2
<1>10. \A i \in 1..Len(pre) : i \in 1..Len(todo) /\ todo[i] = pre[i]
  <2> TAKE i \in 1..Len(pre)
  <2>1. i \in 1..Len(pre \o st)
    BY <1>9
  <2>2. todo[i] = (pre \o st)[i]
    BY <1>8, <2>1, SeqConcat
  <2>3. (pre \o st)[i] = pre[i]
    BY <1>5, <1>8, SeqConcat
  <2> HIDE DEF todo
  <2> QED
    BY <1>9, <2>2, <2>3
<1>11. \A i \in 1..Len(st) : Len(pre) + i \in 1..Len(todo) /\ todo[Len(pre) + i] = st[i]
  <2> TAKE i \in 1..Len(st)
  <2>1. Len(pre) + i \in 1..Len(pre \o st)
    BY <1>9
  <2>2. todo[Len(pre) + i] = (pre \o st)[Len(pre) + i]
    BY <1>8, <2>1, SeqConcat
  <2>3. (pre \o st)[Len(pre) + i] = st[i]
    BY <1>5, <1>8, SeqConcat
  <2> HIDE DEF todo
  <2> QED
    BY <1>9, <2>2, <2>3
<1>12. ASSUME NEW j \in 1..Len(todo)
       PROVE  \/ Mild(todo[j])
              \/ j - Len(pre) \in 1..Len(st) /\ todo[j] = st[j - Len(pre)]
  <2>1. \/ j \in 1..Len(pre \o st) /\ todo[j] = (pre \o st)[j]
        \/ j - Len(pre \o st) \in 1..Len(post) /\ todo[j] = post[j - Len(pre \o st)]
    BY <1>8, SeqConcatParts
  <2>2. CASE j \in 1..Len(pre \o st) /\ todo[j] = (pre \o st)[j]
    <3>1. \/ j \in 1..Len(pre) /\ (pre \o st)[j] = pre[j]
          \/ j - Len(pre) \in 1..Len(st) /\ (pre \o st)[j] = st[j - Len(pre)]
      BY <1>5, <1>8, <2>2, SeqConcatParts
    <3> HIDE DEF todo
    <3> QED
      BY <2>2, <3>1 DEF AllMild
  <2>3. CASE j - Len(pre \o st) \in 1..Len(post) /\ todo[j] = post[j - Len(pre \o st)]
    <3> HIDE DEF todo
    <3> QED
      BY <2>3 DEF AllMild
  <2> QED
    BY <2>1, <2>2, <2>3
<1> HIDE DEF todo
<1>13. ASSUME NEW j \in 1..Len(todo), j - Len(pre) \in 1..Len(st), todo[j] = st[j - Len(pre)]
       PROVE  TablePut(p, r, todo[j]) /\ Cleared(store, todo, j, p, r)
  <2>1. \A i \in 1..Len(pre) : i < j
    BY <1>9, <1>13
  <2>2. \A q \in Places, m \in Tables : Leads(store, q, m) /\ IdOf(store, q, m) = r.id =>
           \/ q = p /\ m = r.name
           \/ \E i \in 1..Len(todo) : i < j /\ todo[i] = Delete(NameKey(store, q, m))
    BY <1>2, <1>10, <2>1
  <2>3. \A n \in Tables : Has(store, LegacyTable(n)) /\ store[LegacyTable(n)].id = r.id =>
           \/ IsDefault(p) /\ n = r.name
           \/ \E i \in 1..Len(todo) : i < j /\ todo[i] = Delete(LegacyTable(n))
    BY <1>2, <1>10, <2>1
  <2> QED
    BY <1>7, <1>13, <2>2, <2>3 DEF Cleared
<1>14. ASSUME NEW j \in 1..Len(todo), todo[j] = NamePut(r)
       PROVE  \E i \in 1..Len(todo) : i < j /\ todo[i] = IdPut(r)
  <2>1. Puts(NamePut(r), "table") /\ NamePut(r) # IdPut(r)
    <3>1. /\ NamePut(r).put /\ NamePut(r).key[1] = "table" /\ IdPut(r).key[1] = "tableId"
      BY WriteKinds, KeyKinds DEF NamePut, IdPut
    <3> QED
      BY <3>1 DEF Puts
  <2>2. ~Mild(todo[j])
    BY <1>14, <2>1, MildHarmless, HarmlessPuts DEF Kinds
  <2>3. j - Len(pre) \in 1..Len(st) /\ todo[j] = st[j - Len(pre)]
    BY <1>12, <2>2
  <2>4. j - Len(pre) # 1
    BY <1>5, <1>14, <2>1, <2>3
  <2>5. Len(pre) + 1 < j /\ 1 \in 1..Len(st)
    BY <1>5, <1>9, <2>3, <2>4
  <2> QED
    BY <1>5, <1>11, <2>5
<1>15. TableTodo(store, todo, p, r)
  BY <1>6, <1>8, <1>12, <1>13, <1>14 DEF TableTodo
<1> QED
  BY <1>15 DEF TodoOK, todo, st

LEMMA SeqAssoc ==
  ASSUME NEW s, NEW t, NEW u, IsSeq(s), IsSeq(t), IsSeq(u)
  PROVE  (s \o t) \o u = s \o (t \o u)
<1>1. PICK A : s \in Seq(A)
  BY DEF IsSeq
<1>2. PICK B : t \in Seq(B)
  BY DEF IsSeq
<1>3. PICK C : u \in Seq(C)
  BY DEF IsSeq
<1> DEFINE S == A \cup B \cup C
<1>4. s \in Seq(S) /\ t \in Seq(S) /\ u \in Seq(S)
  BY <1>1, <1>2, <1>3
<1> HIDE DEF S
<1> QED
  BY <1>4, ConcatAssociative

LEMMA StoreIsSeq ==
  ASSUME NEW store, NEW p, NEW t
  PROVE  IsSeq(StoreTable(store, p, t))
<1> DEFINE db == GetDatabase(store, p[1])
           schema == GetSchema(store, p[1], p[2])
           r == [t EXCEPT !.db = db, !.schema = schema, !.place = p]
           a == <<Put(TableById(t.id), r), Put(TableByName(db, schema, t.name), t.id)>>
           b == IF IsDefault(p) THEN <<Put(LegacyTable(t.name), r)>> ELSE <<>>
<1>1. StoreTable(store, p, t) = IF schema <= 0 THEN <<>> ELSE a \o b
  BY DEF StoreTable
<1>2. IsSeq(a) /\ IsSeq(b) /\ IsSeq(<<>>)
  BY SeqSmall
<1> HIDE DEF a, b, schema
<1>3. IsSeq(a \o b)
  BY <1>2, SeqConcat
<1> QED
  BY <1>1, <1>2, <1>3

\* A table that is the only one of its id is stored among mild writes.
LEMMA OwnedStore ==
  ASSUME NEW store, Good(store), NEW p, NEW t, Owned(store, p, t),
         NEW pre, AllMild(pre), NEW post, AllMild(post)
  PROVE  /\ TodoOK(store, (pre \o StoreTable(store, p, t)) \o post)
         /\ TodoOK(store, pre \o StoreTable(store, p, t))
         /\ TodoOK(store, StoreTable(store, p, t) \o post)
<1> DEFINE st == StoreTable(store, p, t)
<1>1. ASSUME NEW a, AllMild(a), NEW b, AllMild(b)
      PROVE  TodoOK(store, (a \o st) \o b)
  <2>1. CASE GetSchema(store, p[1], p[2]) > 0
    <3>1. /\ p \in Places /\ IsTable(t) /\ t.name \in Tables
          /\ t.id \in Nat \ {0} /\ t.id < NextId(store, "table")
          /\ \A q \in Places, m \in Tables :
               Leads(store, q, m) /\ IdOf(store, q, m) = t.id => q = p /\ m = t.name
          /\ \A n \in Tables : Has(store, LegacyTable(n)) /\ store[LegacyTable(n)].id = t.id =>
               IsDefault(p) /\ n = t.name
      BY DEF Owned, Sole
    <3> QED
      BY <1>1, <2>1, <3>1, StoreTodo
  <2>2. CASE ~(GetSchema(store, p[1], p[2]) > 0)
    <3>1. GetSchema(store, p[1], p[2]) <= 0
      BY <2>2, GetFacts
    <3>2. st = <<>>
      BY <3>1 DEF StoreTable
    <3>3. a \o st = a
      BY <1>1, <3>2, SeqConcatEmpty DEF AllMild
    <3>4. AllMild(a \o b)
      BY <1>1, MildConcat
    <3> QED
      BY <3>3, <3>4, MildAll, HarmlessTodo
  <2> QED
    BY <2>1, <2>2
<1>2. IsSeq(st) /\ IsSeq(pre) /\ IsSeq(pre \o st) /\ AllMild(<<>>)
  BY StoreIsSeq, SeqConcat, MildSmall DEF AllMild
<1>3. (pre \o st) \o <<>> = pre \o st /\ <<>> \o st = st
  BY <1>2, SeqConcatEmpty
<1> HIDE DEF st
<1>4. TodoOK(store, (pre \o st) \o post)
  BY <1>1
<1>5. TodoOK(store, (pre \o st) \o <<>>)
  BY <1>1, <1>2
<1>6. TodoOK(store, (<<>> \o st) \o post)
  BY <1>1, <1>2
<1> QED
  BY <1>3, <1>4, <1>5, <1>6 DEF st

LEMMA SequenceWrites ==
  ASSUME NEW store, NEW table, NEW key, Apart(key), NEW v
  PROVE  /\ Apart(SequenceOf(table))
         /\ AllMild(CreateSequence(store, key))
         /\ AllMild(AdvanceSequence(store, key, v))
<1>1. Apart(SequenceOf(table))
  BY ApartKeys DEF SequenceOf
<1>2. AllMild(CreateSequence(store, key))
  BY ApartWrites, MildSmall DEF CreateSequence
<1>3. AllMild(AdvanceSequence(store, key, v))
  BY ApartWrites, MildSmall DEF AdvanceSequence
<1> QED
  BY <1>1, <1>2, <1>3

LEMMA InsertTodo ==
  ASSUME NEW store, Good(store), NEW plan, Owned(store, plan.place, plan.table)
  PROVE  TodoOK(store, InsertSteps(store, plan))
<1> DEFINE table == plan.table
           pk == IF HasSequence(table) THEN plan.pk ELSE NextRowId(store, table.id)
           key == RowKey(table.id, table.epoch, pk)
           a == IF HasSequence(table) THEN <<>> ELSE <<Put(RowIdKey(table.id), pk)>>
           b == <<Put(key, plan.stamp)>>
           c == IF HasSequence(table)
                  THEN AdvanceSequence(store, SequenceOf(table), pk + 1) ELSE <<>>
           st == StoreTable(store, plan.place, table)
<1>1. \/ InsertSteps(store, plan) = <<>>
      \/ InsertSteps(store, plan) = ((a \o b) \o c) \o st
      \/ InsertSteps(store, plan) = ((a \o b) \o c) \o <<>>
  BY Zenon DEF InsertSteps
<1>2. AllMild(a)
  BY ApartKeys, ApartWrites, MildSmall
<1>3. AllMild(b)
  BY ApartKeys, ApartWrites, MildSmall
<1>4. AllMild(c)
  BY SequenceWrites, MildSmall, ApartKeys DEF SequenceOf
<1> HIDE DEF a, b, c, key
<1>5. AllMild((a \o b) \o c)
  BY <1>2, <1>3, <1>4, MildConcat
<1>6. TodoOK(store, ((a \o b) \o c) \o st)
  BY <1>5, OwnedStore, MildSmall
<1>7. TodoOK(store, <<>>)
  BY HarmlessSmall, HarmlessTodo
<1>8. TodoOK(store, ((a \o b) \o c) \o <<>>)
  BY <1>5, MildConcat, MildSmall, MildAll, HarmlessTodo
<1> HIDE DEF st
<1> QED
  BY <1>1, <1>6, <1>7, <1>8

LEMMA CreateTableTodo ==
  ASSUME NEW store, Good(store), NEW plan, Owned(store, plan.place, plan.table)
  PROVE  /\ TodoOK(store, CreateTableSteps(store, plan))
         /\ TodoOK(store, CreateTableAsSteps(store, plan))
         /\ TodoOK(store, CreateTableLikeSteps(store, plan))
<1> DEFINE st == StoreTable(store, plan.place, plan.table)
           c == IF HasSequence(plan.table) THEN CreateSequence(store, SequenceOf(plan.table))
                ELSE <<>>
           rows == <<Put(RowIdKey(plan.table.id), 1),
                     Put(RowKey(plan.table.id, plan.table.epoch, 1), plan.stamp)>>
           writes == CreateTableSteps(store, plan)
           after == AllWritten(store, writes)
           index == CreateIndex(after, plan.place, plan.name, plan.name)
<1>1. AllMild(c)
  BY SequenceWrites, MildSmall, ApartKeys DEF SequenceOf
<1>2. AllMild(rows)
  BY ApartKeys, ApartWrites, MildSmall
<1>3. AllMild(index)
  <2> DEFINE table == LoadTable(after, plan.place, plan.name)
             id == NextId(after, "index")
             w1 == AllocateId(after, "index")
             w2 == Put(IndexById(id), [db |-> table.db, schema |-> table.schema,
                                       table |-> table.id, name |-> plan.name])
             w3 == Put(IndexByName(table.db, table.schema, plan.name), id)
             w4 == Put(IndexByTable(table.id, id), id)
  <2> HIDE DEF after
  <2>1. index = <<>> \/ index = <<w1, w2, w3, w4>>
    BY DEF CreateIndex
  <2>2. Mild(w1)
    BY OtherCounters DEF AllocateId
  <2>3. Mild(w2) /\ Mild(w3) /\ Mild(w4)
    BY ApartKeys, ApartWrites
  <2> HIDE DEF w1, w2, w3, w4, index
  <2> QED
    BY <2>1, <2>2, <2>3, MildSmall
<1>4. writes = IF st = <<>> THEN <<>> ELSE st \o c
  BY DEF CreateTableSteps
<1>5. CreateTableAsSteps(store, plan) = IF st = <<>> THEN <<>> ELSE st \o rows
  BY DEF CreateTableAsSteps
<1>6. \/ CreateTableLikeSteps(store, plan) = writes
      \/ writes # <<>> /\ CreateTableLikeSteps(store, plan) = writes \o index
  BY DEF CreateTableLikeSteps
<1>7. IsSeq(st)
  BY StoreIsSeq
<1>8. \A x : AllMild(x) => TodoOK(store, st \o x)
  BY OwnedStore
<1>9. TodoOK(store, <<>>)
  BY HarmlessSmall, HarmlessTodo
<1> HIDE DEF st, c, rows, writes, index
<1>10. TodoOK(store, writes) /\ TodoOK(store, CreateTableAsSteps(store, plan))
  BY <1>1, <1>2, <1>4, <1>5, <1>8, <1>9
<1>11. writes # <<>> => writes \o index = st \o (c \o index)
  <2>1. (st \o c) \o index = st \o (c \o index)
    BY <1>1, <1>3, <1>7, SeqAssoc DEF AllMild
  <2> QED
    BY <1>4, <2>1
<1>12. writes # <<>> => TodoOK(store, writes \o index)
  BY <1>1, <1>3, <1>8, <1>11, MildConcat
<1> QED
  BY <1>6, <1>10, <1>12 DEF writes

LEMMA TruncateTodo ==
  ASSUME NEW store, Good(store), NEW plan, plan.place \in Places, plan.name \in Tables
  PROVE  TodoOK(store, TruncateSteps(store, plan))
<1> DEFINE table == LoadTable(store, plan.place, plan.name)
           t == [table EXCEPT !.epoch = @ + 1]
           c == IF Locking /\ HasSequence(plan.table) /\ Has(store, SequenceOf(plan.table))
                  THEN <<Put(SequenceOf(plan.table), 1)>> ELSE <<>>
<1>1. TruncateSteps(store, plan) = IF ~Exists(table) THEN <<>>
                                   ELSE StoreTable(store, plan.place, t) \o c
  BY DEF TruncateSteps
<1>2. CASE ~Exists(table)
  BY <1>1, <1>2, HarmlessSmall, HarmlessTodo
<1>3. CASE Exists(table)
  <2>1. Owned(store, plan.place, table)
    BY <1>3, LoadFacts
  <2> HIDE DEF table
  <2>2. t = TableRecord(table.id, table.db, table.schema, table.place, table.name,
                        table.epoch + 1, table.sequence)
    BY <2>1, TableExcept DEF Owned
  <2> HIDE DEF t
  <2>3. IsTable(t) /\ t.id = table.id /\ t.name = table.name
    BY <2>2, TableFields
  <2>4. Owned(store, plan.place, t)
    BY <2>1, <2>3 DEF Owned, Sole
  <2>5. AllMild(c)
    BY SequenceWrites, ApartKeys, ApartWrites, MildSmall DEF SequenceOf
  <2> HIDE DEF c
  <2>6. TodoOK(store, StoreTable(store, plan.place, t) \o c)
    BY <2>4, <2>5, OwnedStore
  <2> QED
    BY <1>1, <1>3, <2>6
<1> QED
  BY <1>2, <1>3

LEMMA RenameTodo ==
  ASSUME NEW store, Good(store), NEW p \in Places, NEW name \in Tables, NEW new \in Tables
  PROVE  TodoOK(store, RenameTable(store, p, name, new))
<1> DEFINE table == LoadTable(store, p, name)
           db == GetDatabase(store, p[1])
           schema == GetSchema(store, p[1], p[2])
           t == [table EXCEPT !.name = new]
           a == <<Delete(TableByName(db, schema, name))>>
           b == IF IsDefault(p) THEN <<Delete(LegacyTable(name))>> ELSE <<>>
           st == StoreTable(store, p, t)
<1>1. RenameTable(store, p, name, new) = IF LoadTable(store, p, new).id # Missing \/
        ~Exists(table)
                                           THEN <<>> ELSE (a \o b) \o st
  BY DEF RenameTable
<1>2. CASE LoadTable(store, p, new).id # Missing \/ ~Exists(table)
  BY <1>1, <1>2, HarmlessSmall, HarmlessTodo
<1>3. CASE ~(LoadTable(store, p, new).id # Missing \/ ~Exists(table))
  <2>1. Owned(store, p, table) /\ table.name = name /\ GetSchema(store, p[1], p[2]) > 0
    BY <1>3, LoadFacts
  <2> HIDE DEF table
  <2>2. t = TableRecord(table.id, table.db, table.schema, table.place, new,
                        table.epoch, table.sequence)
    BY <2>1, TableExcept DEF Owned
  <2> HIDE DEF t
  <2>3. IsTable(t) /\ t.id = table.id /\ t.name = new
    BY <2>2, TableFields
  <2>4. NameKey(store, p, name) = TableByName(db, schema, name)
    BY <2>1, GetFacts DEF NameKey
  <2>5. AllMild(a) /\ AllMild(b)
    BY TableDeletes, MildSmall
  <2>6. AllMild(a \o b)
    BY <2>5, MildConcat
  <2>7. \E i \in 1..Len(a \o b) : (a \o b)[i] = Delete(NameKey(store, p, name))
    <3>1. Len(a) = 1 /\ a[1] = Delete(NameKey(store, p, name))
      BY <2>4, Zenon
    <3> HIDE DEF a, b
    <3>2. /\ Len(a \o b) = 1 + Len(b) /\ Len(b) \in Nat
          /\ (a \o b)[1] = a[1]
      <4>1. IsSeq(a) /\ IsSeq(b) /\ 1 \in 1..Len(a)
        BY <2>5, <3>1 DEF AllMild
      <4>2. /\ Len(a \o b) = Len(a) + Len(b) /\ Len(b) \in Nat
            /\ \A i \in 1..Len(a) : (a \o b)[i] = a[i]
        BY <4>1, SeqConcat
      <4> QED
        BY <3>1, <4>1, <4>2
    <3>3. 1 \in 1..Len(a \o b)
      BY <3>2
    <3> QED
      BY <3>1, <3>2, <3>3
  <2>8. IsDefault(p) => \E i \in 1..Len(a \o b) : (a \o b)[i] = Delete(LegacyTable(name))
    <3> SUFFICES ASSUME IsDefault(p)
                 PROVE  \E i \in 1..Len(a \o b) : (a \o b)[i] = Delete(LegacyTable(name))
      OBVIOUS
    <3>1. Len(a) = 1 /\ Len(b) = 1 /\ b[1] = Delete(LegacyTable(name))
      OBVIOUS
    <3> HIDE DEF a, b
    <3>2. Len(a \o b) = 2 /\ (a \o b)[1 + 1] = b[1]
      BY <2>5, <3>1, SeqConcat DEF AllMild
    <3>3. 1 + 1 \in 1..Len(a \o b)
      BY <3>2
    <3> QED
      BY <3>1, <3>2, <3>3
  <2> HIDE DEF a, b
  <2>9. \A q \in Places, m \in Tables : Leads(store, q, m) /\ IdOf(store, q, m) = t.id =>
          \E i \in 1..Len(a \o b) : (a \o b)[i] = Delete(NameKey(store, q, m))
    <3> TAKE q \in Places, m \in Tables
    <3> HAVE Leads(store, q, m) /\ IdOf(store, q, m) = t.id
    <3>1. q = p /\ m = name
      BY <2>1, <2>3 DEF Owned, Sole
    <3> QED
      BY <2>7, <3>1
  <2>10. \A n \in Tables : Has(store, LegacyTable(n)) /\ store[LegacyTable(n)].id = t.id =>
          \E i \in 1..Len(a \o b) : (a \o b)[i] = Delete(LegacyTable(n))
    <3> TAKE n \in Tables
    <3> HAVE Has(store, LegacyTable(n)) /\ store[LegacyTable(n)].id = t.id
    <3>1. IsDefault(p) /\ n = name
      BY <2>1, <2>3 DEF Owned, Sole
    <3> QED
      BY <2>8, <3>1
  <2>11. AllMild(<<>>) /\ t.id \in Nat \ {0} /\ t.id < NextId(store, "table") /\
           t.name \in Tables
    BY <2>1, <2>3, MildSmall DEF Owned
  <2>12. TodoOK(store, ((a \o b) \o st) \o <<>>)
    BY <2>1, <2>3, <2>6, <2>9, <2>10, <2>11, StoreTodo
  <2>13. IsSeq((a \o b) \o st)
    BY <2>6, StoreIsSeq, SeqConcat DEF AllMild
  <2>14. ((a \o b) \o st) \o <<>> = (a \o b) \o st
    BY <2>13, SeqConcatEmpty
  <2> HIDE DEF st
  <2> QED
    BY <1>1, <1>3, <2>12, <2>14
<1> QED
  BY <1>2, <1>3

-----------------------------------------------------------------------------
(***************************************************************************)
(* DROP TABLE and DROP SCHEMA: only deletes.                               *)
(***************************************************************************)
LEMMA LeastNumber ==
  ASSUME NEW T, T \subseteq Nat, T # {}
  PROVE  \E x \in T : \A y \in T : x <= y
<1> DEFINE R == {p \in Nat \X Nat : p[1] < p[2]}
<1>1. IsWellFoundedOn(R, Nat)
  BY NatLessThanWellFounded DEF OpToRel
<1>2. \E x \in T : \A y \in T : ~(<<y, x>> \in R)
  <2> HIDE DEF R
  <2> QED
    BY <1>1, WFMin
<1>3. \A x \in T, y \in T : ~(<<y, x>> \in R) => x <= y
  <2> SUFFICES ASSUME NEW x \in Nat, NEW y \in Nat, ~(<<y, x>> \in R) PROVE x <= y
    OBVIOUS
  <2>1. ~(y < x)
    OBVIOUS
  <2> QED
    BY <2>1
<1> QED
  BY <1>2, <1>3

\* Induction, for a property given as a set.
LEMMA InductionOnNat ==
  ASSUME NEW T, T \subseteq Nat, 0 \in T, \A n \in T : n + 1 \in T
  PROVE  T = Nat
<1> SUFFICES ASSUME Nat \ T # {} PROVE FALSE
  OBVIOUS
<1>1. PICK x \in Nat \ T : \A y \in Nat \ T : x <= y
  BY LeastNumber
<1>2. x # 0 /\ x - 1 \in Nat
  BY <1>1
<1>3. x - 1 \in T
  <2>1. ~(x <= x - 1)
    BY <1>1
  <2> QED
    BY <1>1, <1>2, <2>1
<1>4. (x - 1) + 1 = x
  BY <1>1
<1> QED
  BY <1>1, <1>3, <1>4

LEMMA ListShape ==
  ASSUME NEW S, IsFiniteSet(S), NEW s, s = SetToSeq(S)
  PROVE  IsSeq(s) /\ DOMAIN s = 1..Len(s) /\ \A i \in 1..Len(s) : s[i] \in S
<1>1. Cardinality(S) \in Nat /\ ExistsBijection(1..Cardinality(S), S)
  BY FS_CardinalityType
<1>2. \E f \in [1..Cardinality(S) -> S] : IsInjective(f)
  BY <1>1 DEF ExistsBijection, Bijection, Injection
<1>3. s \in [1..Cardinality(S) -> S]
  BY <1>2 DEF SetToSeq
<1>4. s \in Seq(S)
  BY <1>1, <1>3
<1> QED
  BY <1>4 DEF IsSeq

LEMMA FiniteImage ==
  ASSUME NEW S, IsFiniteSet(S), NEW f, DOMAIN f = S
  PROVE  IsFiniteSet({f[x] : x \in S})
<1> DEFINE T == {f[x] : x \in S}
           g == [x \in S |-> f[x]]
<1>1. g \in Surjection(S, T)
  BY DEF Surjection
<1> HIDE DEF T, g
<1>2. IsFiniteSet(T)
  BY <1>1, FS_Surjection
<1> QED
  BY <1>2 DEF T

LEMMA FlattenHarmless ==
  ASSUME NEW seqs, IsSeq(seqs), \A i \in 1..Len(seqs) : AllHarmless(seqs[i])
  PROVE  AllHarmless(FlattenSeq(seqs))
<1>0. Len(seqs) \in Nat
  BY SeqShape
<1>1. CASE Len(seqs) = 0
  <2>1. FlattenSeq(seqs) = seqs
    BY <1>1 DEF FlattenSeq
  <2> QED
    BY <1>1, <2>1 DEF AllHarmless
<1>2. CASE Len(seqs) # 0
  <2> DEFINE step(n, f) == [i \in 1..n |-> IF i = 1 THEN seqs[i] ELSE f[i - 1] \o seqs[i]]
             h == CHOOSE f : f = step(Len(seqs), f)
  <2>1. FlattenSeq(seqs) = h[Len(seqs)]
    BY <1>2 DEF FlattenSeq
  <2>2. \E f : f = step(Len(seqs), f)
    <3> DEFINE T == {n \in Nat : \E f : f = step(n, f)}
    <3>1. 0 \in T
      <4> DEFINE f0 == [i \in 1..0 |-> 0]
      <4>1. f0 = step(0, f0)
        OBVIOUS
      <4> QED
        BY <4>1
    <3>2. ASSUME NEW n \in T
          PROVE  n + 1 \in T
      <4>1. n \in Nat
        OBVIOUS
      <4>2. PICK f : f = step(n, f)
        OBVIOUS
      <4> DEFINE last == IF n + 1 = 1 THEN seqs[n + 1] ELSE f[n] \o seqs[n + 1]
                 g == [i \in 1..n + 1 |-> IF i = n + 1 THEN last ELSE f[i]]
      <4> HIDE DEF last
      <4>3. \A i \in 1..n + 1 : g[i] = step(n + 1, g)[i]
        <5> TAKE i \in 1..n + 1
        <5>1. CASE i = n + 1
          <6>1. (n + 1) - 1 = n /\ (n + 1 # 1 => n \in 1..n + 1 /\ n # n + 1)
            BY <4>1
          <6>2. n + 1 # 1 => g[n] = f[n]
            BY <6>1
          <6>3. g[n + 1] = last
            BY <4>1
          <6>4. step(n + 1, g)[n + 1]
                  = IF n + 1 = 1 THEN seqs[n + 1] ELSE g[(n + 1) - 1] \o seqs[n + 1]
            BY <5>1, Zenon
          <6>5. step(n + 1, g)[n + 1] = last
            <7> HIDE DEF g, step
            <7> QED
              BY <6>1, <6>2, <6>4 DEF last
          <6> QED
            BY <5>1, <6>3, <6>5
        <5>2. CASE i # n + 1
          <6>1. i \in 1..n
            BY <4>1, <5>2
          <6>2. f[i] = IF i = 1 THEN seqs[i] ELSE f[i - 1] \o seqs[i]
            BY <4>2, <6>1, Zenon
          <6>3. i # 1 => i - 1 \in 1..n + 1 /\ i - 1 # n + 1
            BY <4>1, <6>1
          <6>4. i # 1 => g[i - 1] = f[i - 1]
            BY <6>3
          <6> QED
            BY <5>2, <6>2, <6>4
        <5> QED
          BY <5>1, <5>2
      <4>4. g = step(n + 1, g)
        <5>1. DOMAIN g = 1..n + 1 /\ g = [i \in 1..n + 1 |-> g[i]]
          OBVIOUS
        <5>2. step(n + 1, g) = [i \in 1..n + 1 |-> step(n + 1, g)[i]]
          OBVIOUS
        <5> HIDE DEF g, step
        <5> QED
          BY <4>3, <5>1, <5>2
      <4>5. n + 1 \in Nat
        BY <4>1
      <4> HIDE DEF g, step
      <4> QED
        BY <4>4, <4>5
    <3> HIDE DEF T
    <3>3. T = Nat
      <4>1. T \subseteq Nat
        BY DEF T
      <4> QED
        BY <3>1, <3>2, <4>1, InductionOnNat
    <3> QED
      BY <1>0, <3>3 DEF T
  <2>3. h = step(Len(seqs), h)
    BY <2>2
  <2> HIDE DEF h
  <2>4. \A i \in 1..Len(seqs) : h[i] = IF i = 1 THEN seqs[i] ELSE h[i - 1] \o seqs[i]
    BY <2>3, Zenon
  <2> DEFINE T == {n \in Nat : n + 1 \in 1..Len(seqs) => AllHarmless(h[n + 1])}
  <2>5. 0 \in T
    BY <1>0, <1>2, <2>4
  <2>6. ASSUME NEW n \in T
        PROVE  n + 1 \in T
    <3>1. n \in Nat
      OBVIOUS
    <3> SUFFICES ASSUME (n + 1) + 1 \in 1..Len(seqs)
                 PROVE  AllHarmless(h[(n + 1) + 1])
      BY <3>1
    <3>2. n + 1 \in 1..Len(seqs) /\ (n + 1) + 1 # 1 /\ ((n + 1) + 1) - 1 = n + 1
      BY <1>0, <3>1
    <3>3. h[(n + 1) + 1] = h[n + 1] \o seqs[(n + 1) + 1]
      BY <2>4, <3>2
    <3>4. AllHarmless(h[n + 1])
      BY <3>2
    <3> QED
      BY <3>3, <3>4, HarmlessConcat
  <2> HIDE DEF T
  <2>7. T = Nat
    <3>1. T \subseteq Nat
      BY DEF T
    <3> QED
      BY <2>5, <2>6, <3>1, InductionOnNat
  <2>8. Len(seqs) - 1 \in T /\ (Len(seqs) - 1) + 1 = Len(seqs) /\ Len(seqs) \in 1..Len(seqs)
    BY <1>0, <1>2, <2>7
  <2>9. AllHarmless(h[Len(seqs)])
    BY <2>8 DEF T
  <2> QED
    BY <2>1, <2>9
<1> QED
  BY <1>1, <1>2

-----------------------------------------------------------------------------
(***************************************************************************)
(* A list of writes, applied.                                              *)
(***************************************************************************)
LEMMA AllWrittenFacts ==
  ASSUME NEW store, NEW ws, IsSeq(ws)
  PROVE  /\ IsFiniteSet(DOMAIN store) => IsFiniteSet(DOMAIN AllWritten(store, ws))
         /\ ws = <<>> => AllWritten(store, ws) = store
         /\ \A w : ws = <<w>> => AllWritten(store, ws) = Written(store, w)
<1> DEFINE step(n, f) == [i \in 0..n |-> IF i = 0 THEN store ELSE Written(f[i - 1], ws[i])]
           h == CHOOSE f : f = step(Len(ws), f)
<1>0. Len(ws) \in Nat
  BY SeqShape
<1>1. AllWritten(store, ws) = h[Len(ws)]
  BY DEF AllWritten
<1>2. \E f : f = step(Len(ws), f)
  <2> DEFINE T == {n \in Nat : \E f : f = step(n, f)}
  <2>1. 0 \in T
    <3> DEFINE f0 == [i \in 0..0 |-> store]
    <3>1. f0 = step(0, f0)
      OBVIOUS
    <3> HIDE DEF f0, step
    <3> QED
      BY <3>1
  <2>2. ASSUME NEW n \in T
        PROVE  n + 1 \in T
    <3>1. n \in Nat
      OBVIOUS
    <3>2. PICK f : f = step(n, f)
      OBVIOUS
    <3> DEFINE last == Written(f[n], ws[n + 1])
               g == [i \in 0..n + 1 |-> IF i = n + 1 THEN last ELSE f[i]]
    <3> HIDE DEF last
    <3>3. \A i \in 0..n + 1 : g[i] = step(n + 1, g)[i]
      <4> TAKE i \in 0..n + 1
      <4>1. CASE i = n + 1
        <5>1. (n + 1) - 1 = n /\ n \in 0..n + 1 /\ n # n + 1 /\ n + 1 # 0
          BY <3>1
        <5>2. g[n] = f[n]
          BY <5>1
        <5>3. g[n + 1] = last
          BY <3>1
        <5>4. step(n + 1, g)[n + 1]
                = IF n + 1 = 0 THEN store ELSE Written(g[(n + 1) - 1], ws[n + 1])
          BY <4>1, Zenon
        <5>5. step(n + 1, g)[n + 1] = last
          <6> HIDE DEF g, step
          <6> QED
            BY <5>1, <5>2, <5>4 DEF last
        <5> QED
          BY <4>1, <5>3, <5>5
      <4>2. CASE i # n + 1
        <5>1. i \in 0..n
          BY <3>1, <4>2
        <5>2. f[i] = IF i = 0 THEN store ELSE Written(f[i - 1], ws[i])
          BY <3>2, <5>1, Zenon
        <5>3. i # 0 => i - 1 \in 0..n + 1 /\ i - 1 # n + 1
          BY <3>1, <5>1
        <5>4. i # 0 => g[i - 1] = f[i - 1]
          BY <5>3
        <5> QED
          BY <4>2, <5>2, <5>4
      <4> QED
        BY <4>1, <4>2
    <3>4. g = step(n + 1, g)
      <4>1. DOMAIN g = 0..n + 1 /\ g = [i \in 0..n + 1 |-> g[i]]
        OBVIOUS
      <4>2. step(n + 1, g) = [i \in 0..n + 1 |-> step(n + 1, g)[i]]
        OBVIOUS
      <4> HIDE DEF g, step
      <4> QED
        BY <3>3, <4>1, <4>2
    <3>5. n + 1 \in Nat
      BY <3>1
    <3> HIDE DEF g, step
    <3> QED
      BY <3>4, <3>5
  <2> HIDE DEF T
  <2>3. T = Nat
    <3>1. T \subseteq Nat
      BY DEF T
    <3> QED
      BY <2>1, <2>2, <3>1, InductionOnNat
  <2> QED
    BY <1>0, <2>3 DEF T
<1>3. h = step(Len(ws), h)
  BY <1>2
<1> HIDE DEF h
<1>4. \A i \in 0..Len(ws) : h[i] = IF i = 0 THEN store ELSE Written(h[i - 1], ws[i])
  BY <1>3, Zenon
<1>5. h[0] = store
  BY <1>0, <1>4
<1>6. ASSUME IsFiniteSet(DOMAIN store)
      PROVE  IsFiniteSet(DOMAIN h[Len(ws)])
  <2> DEFINE T == {n \in Nat : n \in 0..Len(ws) => IsFiniteSet(DOMAIN h[n])}
  <2>1. 0 \in T
    BY <1>5, <1>6
  <2>2. ASSUME NEW n \in T
        PROVE  n + 1 \in T
    <3>1. n \in Nat
      OBVIOUS
    <3> SUFFICES ASSUME n + 1 \in 0..Len(ws)
                 PROVE  IsFiniteSet(DOMAIN h[n + 1])
      BY <3>1
    <3>2. n \in 0..Len(ws) /\ n + 1 # 0 /\ (n + 1) - 1 = n
      BY <1>0, <3>1
    <3>3. h[n + 1] = Written(h[n], ws[n + 1])
      BY <1>4, <3>2
    <3>4. IsFiniteSet(DOMAIN h[n])
      BY <3>2
    <3> QED
      BY <3>3, <3>4, WrittenFinite
  <2> HIDE DEF T
  <2>3. T = Nat
    <3>1. T \subseteq Nat
      BY DEF T
    <3> QED
      BY <2>1, <2>2, <3>1, InductionOnNat
  <2>4. Len(ws) \in T /\ Len(ws) \in 0..Len(ws)
    BY <1>0, <2>3
  <2> QED
    BY <2>4 DEF T
<1>7. ws = <<>> => h[Len(ws)] = store
  BY <1>5
<1>8. ASSUME NEW w, ws = <<w>>
      PROVE  h[Len(ws)] = Written(store, w)
  <2>1. Len(ws) = 1 /\ ws[1] = w
    BY <1>8
  <2>2. 1 \in 0..Len(ws) /\ 1 # 0 /\ 1 - 1 = 0
    BY <2>1
  <2>3. h[1] = Written(h[1 - 1], ws[1])
    BY <1>4, <2>2
  <2> QED
    BY <1>5, <2>1, <2>2, <2>3
<1> QED
  BY <1>1, <1>6, <1>7, <1>8

-----------------------------------------------------------------------------
(***************************************************************************)
(* The statements that only remove, or write beside the tables.            *)
(***************************************************************************)
LEMMA DropIndexHarmless ==
  ASSUME NEW store, NEW id
  PROVE  AllHarmless(DropIndexById(store, id))
<1> DEFINE index == store[IndexById(id)]
<1>1. /\ Harmless(Delete(IndexById(id)))
      /\ Harmless(Delete(IndexByName(index.db, index.schema, index.name)))
      /\ Harmless(Delete(IndexByTable(index.table, id)))
  BY ApartKeys, ApartWrites
<1>2. DropIndexById(store, id)
        = <<Delete(IndexById(id)), Delete(IndexByName(index.db, index.schema, index.name)),
            Delete(IndexByTable(index.table, id))>>
  BY DEF DropIndexById
<1> QED
  BY <1>1, <1>2, HarmlessSmall

LEMMA IndexesFinite ==
  ASSUME NEW store, IsFiniteSet(DOMAIN store), NEW table
  PROVE  IsFiniteSet(IndexesOf(store, table))
<1> DEFINE K == {key \in KeysOf(store, "indexOf") : key[2] = table}
           f == [k \in K |-> store[k]]
<1>1. K \subseteq DOMAIN store
  BY DEF KeysOf
<1>2. IsFiniteSet(K)
  BY <1>1, FS_Subset
<1>3. {f[k] : k \in K} = {store[k] : k \in K}
  OBVIOUS
<1>4. IsFiniteSet({f[k] : k \in K})
  <2>1. DOMAIN f = K
    OBVIOUS
  <2> HIDE DEF f, K
  <2> QED
    BY <1>2, <2>1, FiniteImage
<1> QED
  BY <1>3, <1>4 DEF IndexesOf

LEMMA DropTableKeysHarmless ==
  ASSUME NEW store, IsFiniteSet(DOMAIN store), NEW place, NEW name
  PROVE  AllHarmless(DropTableKeys(store, place, name))
<1> DEFINE table == LoadTable(store, place, name)
           indexes == SetToSeq(IndexesOf(store, table.id))
           first == <<Delete(TableById(table.id)),
                      Delete(TableByName(table.db, table.schema, name))>>
           lists == [i \in DOMAIN indexes |-> DropIndexById(store, indexes[i])]
           legacy == IF IsDefault(place) THEN <<Delete(LegacyTable(name))>> ELSE <<>>
<1>1. AllHarmless(first)
  BY TableDeletes, HarmlessSmall
<1>2. AllHarmless(legacy)
  BY TableDeletes, HarmlessSmall
<1>3. IsSeq(indexes) /\ DOMAIN indexes = 1..Len(indexes)
  BY IndexesFinite, ListShape
<1>4. IsSeq(lists) /\ Len(lists) = Len(indexes) /\ Len(indexes) \in Nat
  <2>1. Len(indexes) \in Nat
    BY <1>3, SeqShape
  <2> HIDE DEF indexes
  <2>2. lists \in Seq({DropIndexById(store, indexes[i]) : i \in 1..Len(indexes)})
    BY <1>3, <2>1
  <2>3. Len(lists) = Len(indexes)
    BY <1>3, <2>1
  <2> QED
    BY <2>1, <2>2, <2>3 DEF IsSeq
<1>5. \A i \in 1..Len(lists) : AllHarmless(lists[i])
  <2> HIDE DEF indexes
  <2> TAKE i \in 1..Len(lists)
  <2>1. lists[i] = DropIndexById(store, indexes[i])
    BY <1>3, <1>4
  <2> QED
    BY <2>1, DropIndexHarmless
<1>6. AllHarmless(FlattenSeq(lists))
  <2> HIDE DEF lists
  <2> QED
    BY <1>4, <1>5, FlattenHarmless
<1>7. AllHarmless(first \o (FlattenSeq(lists) \o legacy)) /\ AllHarmless(first \o <<>>)
  <2> HIDE DEF first, lists, legacy
  <2> QED
    BY <1>1, <1>2, <1>6, HarmlessConcat, HarmlessSmall
<1>8. \/ DropTableKeys(store, place, name) = <<>>
      \/ DropTableKeys(store, place, name) = first \o (FlattenSeq(lists) \o legacy)
      \/ DropTableKeys(store, place, name) = first \o <<>>
  BY Zenon DEF DropTableKeys
<1> QED
  BY <1>7, <1>8, HarmlessSmall

LEMMA DropTableTodo ==
  ASSUME NEW store, Good(store), NEW plan
  PROVE  TodoOK(store, DropTableSteps(store, plan))
<1> DEFINE table == LoadTable(store, plan.place, plan.name)
           rows == SetToSeq(RowsOf(store, table))
           deletes == [i \in DOMAIN rows |-> Delete(rows[i])]
           keys == DropTableKeys(store, plan.place, plan.name)
<1>0. IsFiniteSet(DOMAIN store)
  BY DEF Good
<1>1. AllHarmless(keys)
  BY <1>0, DropTableKeysHarmless
<1>2. RowsOf(store, table) \subseteq DOMAIN store /\ \A k \in RowsOf(store, table) : Apart(k)
  BY DEF RowsOf, KeysOf, Apart
<1>3. /\ IsSeq(rows) /\ DOMAIN rows = 1..Len(rows)
      /\ \A i \in 1..Len(rows) : rows[i] \in RowsOf(store, table)
  BY <1>0, <1>2, FS_Subset, ListShape
<1>4. Len(rows) \in Nat
  BY <1>3, SeqShape
<1>5. AllHarmless(deletes)
  <2>1. \A i \in 1..Len(rows) : Harmless(Delete(rows[i]))
    BY <1>2, <1>3, ApartWrites
  <2> HIDE DEF rows
  <2>2. deletes \in Seq({Delete(rows[i]) : i \in 1..Len(rows)}) /\ Len(deletes) = Len(rows)
    BY <1>3, <1>4
  <2>3. \A i \in 1..Len(deletes) : deletes[i] = Delete(rows[i])
    BY <1>3, <2>2
  <2> QED
    BY <2>1, <2>2, <2>3 DEF AllHarmless, IsSeq
<1>6. AllHarmless(keys \o deletes)
  <2> HIDE DEF keys, deletes
  <2> QED
    BY <1>1, <1>5, HarmlessConcat
<1>7. \/ DropTableSteps(store, plan) = <<>>
      \/ DropTableSteps(store, plan) = keys \o deletes
  BY Zenon DEF DropTableSteps
<1> QED
  BY <1>6, <1>7, HarmlessSmall, HarmlessTodo

LEMMA OtherTodo ==
  ASSUME NEW store, NEW place, NEW name, NEW new
  PROVE  /\ AllHarmless(CreateIndex(store, place, name, new))
         /\ AllHarmless(DropIndex(store, place, name))
         /\ AllHarmless(StoreView(store, place, name))
         /\ AllHarmless(DropView(store, place, name))
         /\ AllHarmless(CreateSequence(store, SequenceKey(place[1], place[2], name)))
         /\ AllHarmless(<<Delete(SequenceKey(place[1], place[2], name))>>)
<1>1. AllHarmless(CreateIndex(store, place, name, new))
  <2> DEFINE table == LoadTable(store, place, name)
             id == NextId(store, "index")
             record == [db |-> table.db, schema |-> table.schema, table |-> table.id,
                        name |-> new]
             a == AllocateId(store, "index")
             b == Put(IndexById(id), record)
             c == Put(IndexByName(table.db, table.schema, new), id)
             d == Put(IndexByTable(table.id, id), id)
  <2>1. Harmless(a)
    BY OtherCounters DEF AllocateId
  <2>2. Harmless(b) /\ Harmless(c) /\ Harmless(d)
    BY ApartKeys, ApartWrites
  <2>3. CreateIndex(store, place, name, new) = <<>>
        \/ CreateIndex(store, place, name, new) = <<a, b, c, d>>
    BY DEF CreateIndex
  <2> HIDE DEF a, b, c, d
  <2> QED
    BY <2>1, <2>2, <2>3, HarmlessSmall
<1>2. AllHarmless(DropIndex(store, place, name))
  BY DropIndexHarmless, HarmlessSmall DEF DropIndex
<1>3. AllHarmless(StoreView(store, place, name))
  <2> DEFINE db == GetDatabase(store, place[1])
             schema == GetSchema(store, place[1], place[2])
             old == LoadView(store, place, name)
             id == IF old > 0 THEN old ELSE NextId(store, "view")
             a == IF old > 0 THEN <<>> ELSE <<AllocateId(store, "view")>>
             b == Put(ViewById(id), [db |-> db, place |-> place, name |-> name])
             c == Put(ViewByName(db, schema, name), id)
  <2>1. AllHarmless(a)
    BY OtherCounters, HarmlessSmall DEF AllocateId
  <2>2. Harmless(b) /\ Harmless(c)
    BY ApartKeys, ApartWrites
  <2>3. StoreView(store, place, name) = <<>> \/ StoreView(store, place, name) = a \o <<b, c>>
    BY Zenon DEF StoreView
  <2> HIDE DEF a, b, c
  <2>4. AllHarmless(a \o <<b, c>>)
    BY <2>1, <2>2, HarmlessSmall, HarmlessConcat
  <2> QED
    BY <2>3, <2>4, HarmlessSmall
<1>4. AllHarmless(DropView(store, place, name))
  <2> DEFINE a == ViewById(LoadView(store, place, name))
             b == ViewByName(GetDatabase(store, place[1]), GetSchema(store, place[1], place[2]),
                             name)
  <2>1. Harmless(Delete(a)) /\ Harmless(Delete(b))
    BY ApartKeys, ApartWrites
  <2>2. DropView(store, place, name) = <<>>
        \/ DropView(store, place, name) = <<Delete(a), Delete(b)>>
    BY DEF DropView
  <2> QED
    BY <2>1, <2>2, HarmlessSmall
<1>5. Apart(SequenceKey(place[1], place[2], name))
  BY ApartKeys
<1>6. AllHarmless(CreateSequence(store, SequenceKey(place[1], place[2], name)))
  BY <1>5, SequenceWrites, MildAll
<1>7. AllHarmless(<<Delete(SequenceKey(place[1], place[2], name))>>)
  BY <1>5, ApartWrites, HarmlessSmall
<1> QED
  BY <1>1, <1>2, <1>3, <1>4, <1>6, <1>7

LEMMA PayloadsFinite ==
  ASSUME NEW store, IsFiniteSet(DOMAIN store), NEW K, K \subseteq DOMAIN store
  PROVE  IsFiniteSet({store[k] : k \in K})
<1> DEFINE f == [k \in K |-> store[k]]
<1>1. IsFiniteSet(K)
  BY FS_Subset
<1>2. {f[k] : k \in K} = {store[k] : k \in K} /\ DOMAIN f = K
  OBVIOUS
<1> HIDE DEF f
<1>3. IsFiniteSet({f[k] : k \in K})
  BY <1>1, <1>2, FiniteImage
<1> QED
  BY <1>2, <1>3

LEMMA NamesFinite ==
  ASSUME NEW S, IsFiniteSet(S)
  PROVE  IsFiniteSet({t.name : t \in S})
<1> DEFINE f == [t \in S |-> t.name]
<1>1. {f[t] : t \in S} = {t.name : t \in S} /\ DOMAIN f = S
  OBVIOUS
<1> HIDE DEF f
<1>2. IsFiniteSet({f[t] : t \in S})
  BY <1>1, FiniteImage
<1> QED
  BY <1>1, <1>2

LEMMA ListFinite ==
  ASSUME NEW store, IsFiniteSet(DOMAIN store), NEW place
  PROVE  /\ IsFiniteSet({t.name : t \in ListTables(store, place)})
         /\ IsFiniteSet({store[k].name : k \in {v \in KeysOf(store, "viewId") :
                                                  store[v].place = place}})
<1> DEFINE byId == {store[k] : k \in KeysOf(store, "tableId")}
           legacy == {store[k] : k \in KeysOf(store, "legacy")}
           K == {v \in KeysOf(store, "viewId") : store[v].place = place}
<1>1. /\ KeysOf(store, "tableId") \subseteq DOMAIN store
      /\ KeysOf(store, "legacy") \subseteq DOMAIN store
      /\ K \subseteq DOMAIN store
  BY DEF KeysOf
<1>2. IsFiniteSet(byId) /\ IsFiniteSet(legacy) /\ IsFiniteSet({store[k] : k \in K})
  <2> HIDE DEF K
  <2> QED
    BY <1>1, PayloadsFinite
<1>3. ListTables(store, place) \subseteq byId \cup legacy
  BY DEF ListTables
<1>4. IsFiniteSet(ListTables(store, place))
  <2> HIDE DEF byId, legacy
  <2> QED
    BY <1>2, <1>3, FS_Union, FS_Subset
<1>5. {store[k].name : k \in K} = {t.name : t \in {store[k] : k \in K}}
  OBVIOUS
<1> QED
  BY <1>2, <1>4, <1>5, NamesFinite

\* What DROP SCHEMA has gathered after some of its tables.
Gathered(acc) ==
  /\ acc = [writes |-> acc.writes, store |-> acc.store, stopped |-> acc.stopped]
  /\ AllHarmless(acc.writes) /\ IsFiniteSet(DOMAIN acc.store)

\* The next table of DROP SCHEMA.
DropNext(place, acc, name) ==
  IF acc.stopped THEN acc
  ELSE IF Unlisted(acc.store, LoadTable(acc.store, place, name).id)
    THEN [acc EXCEPT !.stopped = TRUE]
    ELSE LET ws == DropTableKeys(acc.store, place, name)
         IN [writes |-> acc.writes \o ws, store |-> AllWritten(acc.store, ws),
             stopped |-> FALSE]

LEMMA DropNextGathers ==
  ASSUME NEW place, NEW acc, Gathered(acc), NEW name
  PROVE  Gathered(DropNext(place, acc, name))
<1> DEFINE ws == DropTableKeys(acc.store, place, name)
           more == [writes |-> acc.writes \o ws, store |-> AllWritten(acc.store, ws),
                    stopped |-> FALSE]
           end == [acc EXCEPT !.stopped = TRUE]
<1>1. DropNext(place, acc, name) = acc \/ DropNext(place, acc, name) = end
      \/ DropNext(place, acc, name) = more
  BY Zenon DEF DropNext
<1>2. PICK w, s, b : acc = [writes |-> w, store |-> s, stopped |-> b]
  BY DEF Gathered
<1>3. acc.writes = w /\ acc.store = s
  BY <1>2
<1>4. Gathered(end)
  <2>1. \A v : [acc EXCEPT !.stopped = v] = [writes |-> w, store |-> s, stopped |-> v]
    BY <1>2
  <2>2. end = [writes |-> w, store |-> s, stopped |-> TRUE]
    BY <2>1, Zenon
  <2> HIDE DEF end
  <2>3. end.writes = w /\ end.store = s /\ end.stopped = TRUE
    BY <2>2
  <2> QED
    BY <1>3, <2>2, <2>3 DEF Gathered
<1>5. Gathered(more)
  <2>1. AllHarmless(ws)
    BY DropTableKeysHarmless DEF Gathered
  <2>2. IsSeq(ws)
    BY <2>1 DEF AllHarmless
  <2> HIDE DEF ws
  <2>3. AllHarmless(w \o ws)
    BY <1>3, <2>1, HarmlessConcat DEF Gathered
  <2>4. IsFiniteSet(DOMAIN AllWritten(s, ws))
    BY <1>3, <2>2, AllWrittenFacts DEF Gathered
  <2>5. /\ more.writes = acc.writes \o ws /\ more.store = AllWritten(acc.store, ws)
        /\ more = [writes |-> more.writes, store |-> more.store, stopped |-> more.stopped]
    OBVIOUS
  <2> HIDE DEF more
  <2> QED
    BY <1>3, <2>3, <2>4, <2>5 DEF Gathered
<1> HIDE DEF more, end
<1> QED
  BY <1>1, <1>4, <1>5

LEMMA DropSchemaTodo ==
  ASSUME NEW store, Good(store), NEW plan
  PROVE  TodoOK(store, DropSchemaSteps(store, plan))
<1> DEFINE place == plan.place
           schema == GetSchema(store, place[1], place[2])
           tables == SetToSeq({t.name : t \in ListTables(store, place)})
           views == SetToSeq({store[k].name : k \in {v \in KeysOf(store, "viewId") :
                                                      store[v].place = place}})
           start == [writes |-> <<>>, store |-> store, stopped |-> FALSE]
           step(n, f) == [i \in 0..n |-> IF i = 0 THEN start
                                         ELSE DropNext(place, f[i - 1], tables[i])]
           h == CHOOSE f : f = step(Len(tables), f)
           dropped == h[Len(tables)]
           lists == [i \in DOMAIN views |-> DropView(store, place, views[i])]
           final == <<Delete(SchemaById(schema)),
                      Delete(SchemaByName(GetDatabase(store, place[1]), place[2]))>>
<1>0. IsFiniteSet(DOMAIN store)
  BY DEF Good
<1>1. /\ IsSeq(tables) /\ Len(tables) \in Nat
      /\ IsSeq(views) /\ DOMAIN views = 1..Len(views) /\ Len(views) \in Nat
  BY <1>0, ListFinite, ListShape, SeqShape, SMTT(30)
<1>2. \/ DropSchemaSteps(store, plan) = dropped.writes
      \/ DropSchemaSteps(store, plan) = (dropped.writes \o FlattenSeq(lists)) \o final
      \/ DropSchemaSteps(store, plan) = dropped.writes \o (FlattenSeq(lists) \o final)
  BY Zenon DEF DropSchemaSteps, DropNext
<1> HIDE DEF tables, views, start
<1>3. \E f : f = step(Len(tables), f)
  <2> DEFINE T == {n \in Nat : \E f : f = step(n, f)}
  <2>1. 0 \in T
    <3> DEFINE f0 == [i \in 0..0 |-> start]
    <3>1. f0 = step(0, f0)
      OBVIOUS
    <3> HIDE DEF f0, step
    <3> QED
      BY <3>1
  <2>2. ASSUME NEW n \in T
        PROVE  n + 1 \in T
    <3>1. n \in Nat
      OBVIOUS
    <3>2. PICK f : f = step(n, f)
      OBVIOUS
    <3> DEFINE last == DropNext(place, f[n], tables[n + 1])
               g == [i \in 0..n + 1 |-> IF i = n + 1 THEN last ELSE f[i]]
    <3> HIDE DEF last
    <3>3. \A i \in 0..n + 1 : g[i] = step(n + 1, g)[i]
      <4> TAKE i \in 0..n + 1
      <4>1. CASE i = n + 1
        <5>1. (n + 1) - 1 = n /\ n \in 0..n + 1 /\ n # n + 1 /\ n + 1 # 0
          BY <3>1
        <5>2. g[n] = f[n]
          BY <5>1
        <5>3. g[n + 1] = last
          BY <3>1
        <5>4. step(n + 1, g)[n + 1]
                = IF n + 1 = 0 THEN start ELSE DropNext(place, g[(n + 1) - 1], tables[n + 1])
          BY <4>1, Zenon
        <5>5. step(n + 1, g)[n + 1] = last
          <6> HIDE DEF g, step
          <6> QED
            BY <5>1, <5>2, <5>4 DEF last
        <5> QED
          BY <4>1, <5>3, <5>5
      <4>2. CASE i # n + 1
        <5>1. i \in 0..n
          BY <3>1, <4>2
        <5>2. f[i] = IF i = 0 THEN start ELSE DropNext(place, f[i - 1], tables[i])
          BY <3>2, <5>1, Zenon
        <5>3. i # 0 => i - 1 \in 0..n + 1 /\ i - 1 # n + 1
          BY <3>1, <5>1
        <5>4. i # 0 => g[i - 1] = f[i - 1]
          BY <5>3
        <5> QED
          BY <4>2, <5>2, <5>4
      <4> QED
        BY <4>1, <4>2
    <3>4. g = step(n + 1, g)
      <4>1. DOMAIN g = 0..n + 1 /\ g = [i \in 0..n + 1 |-> g[i]]
        OBVIOUS
      <4>2. step(n + 1, g) = [i \in 0..n + 1 |-> step(n + 1, g)[i]]
        OBVIOUS
      <4> HIDE DEF g, step
      <4> QED
        BY <3>3, <4>1, <4>2
    <3>5. n + 1 \in Nat
      BY <3>1
    <3> HIDE DEF g, step
    <3> QED
      BY <3>4, <3>5
  <2> HIDE DEF T
  <2>3. T = Nat
    <3>1. T \subseteq Nat
      BY DEF T
    <3> QED
      BY <2>1, <2>2, <3>1, InductionOnNat
  <2> QED
    BY <1>1, <2>3 DEF T
<1>4. h = step(Len(tables), h)
  BY <1>3
<1> HIDE DEF h
<1>5. \A i \in 0..Len(tables) :
        h[i] = IF i = 0 THEN start ELSE DropNext(place, h[i - 1], tables[i])
  BY <1>4, Zenon
<1>6. Gathered(dropped)
  <2> DEFINE T == {n \in Nat : n \in 0..Len(tables) => Gathered(h[n])}
  <2>1. 0 \in T
    <3>1. h[0] = start
      BY <1>1, <1>5
    <3>2. start.writes = <<>> /\ start.store = store
      BY DEF start
    <3>3. start = [writes |-> start.writes, store |-> start.store, stopped |-> start.stopped]
      BY DEF start
    <3>4. Gathered(start)
      BY <1>0, <3>2, <3>3, HarmlessSmall DEF Gathered
    <3> QED
      BY <3>1, <3>4
  <2>2. ASSUME NEW n \in T
        PROVE  n + 1 \in T
    <3>1. n \in Nat
      OBVIOUS
    <3> SUFFICES ASSUME n + 1 \in 0..Len(tables)
                 PROVE  Gathered(h[n + 1])
      BY <3>1
    <3>2. n \in 0..Len(tables) /\ n + 1 # 0 /\ (n + 1) - 1 = n
      BY <1>1, <3>1
    <3>3. h[n + 1] = DropNext(place, h[n], tables[n + 1])
      BY <1>5, <3>2
    <3>4. Gathered(h[n])
      BY <3>2
    <3> QED
      BY <3>3, <3>4, DropNextGathers
  <2> HIDE DEF T
  <2>3. T = Nat
    <3>1. T \subseteq Nat
      BY DEF T
    <3> QED
      BY <2>1, <2>2, <3>1, InductionOnNat
  <2>4. Len(tables) \in T /\ Len(tables) \in 0..Len(tables)
    BY <1>1, <2>3
  <2> QED
    BY <2>4 DEF T
<1>7. AllHarmless(FlattenSeq(lists))
  <2>1. lists \in Seq({DropView(store, place, views[i]) : i \in 1..Len(views)})
        /\ Len(lists) = Len(views)
    BY <1>1
  <2>2. IsSeq(lists)
    BY <2>1 DEF IsSeq
  <2>3. \A i \in 1..Len(lists) : lists[i] = DropView(store, place, views[i])
    BY <1>1, <2>1
  <2> HIDE DEF lists
  <2>4. \A i \in 1..Len(lists) : AllHarmless(lists[i])
    BY <2>3, OtherTodo
  <2> QED
    BY <2>2, <2>4, FlattenHarmless
<1>8. AllHarmless(final)
  BY ApartKeys, ApartWrites, TableDeletes, HarmlessSmall
<1> HIDE DEF final, lists
<1>9. /\ AllHarmless(dropped.writes)
      /\ AllHarmless((dropped.writes \o FlattenSeq(lists)) \o final)
      /\ AllHarmless(dropped.writes \o (FlattenSeq(lists) \o final))
  <2>1. AllHarmless(dropped.writes)
    BY <1>6 DEF Gathered
  <2> QED
    BY <1>7, <1>8, <2>1, HarmlessConcat
<1> QED
  BY <1>2, <1>9, HarmlessTodo

-----------------------------------------------------------------------------
(***************************************************************************)
(* Plans: what a plan carries is still right when it is executed, for no   *)
(* other session has written in between.                                   *)
(***************************************************************************)
Ops == {"CreateDatabase", "CreateSchema", "CreateTable", "CreateTableAs", "CreateTableLike",
        "CreateSequence", "CreateView", "CreateIndex", "DropTable", "DropIndex",
        "DropSequence", "DropView", "DropSchema", "Truncate", "RenameTable", "Insert"}

PlanOK(store, plan) ==
  /\ plan.op \in Ops /\ plan.place \in Places
  /\ plan.op \in {"CreateTable", "CreateTableAs", "CreateTableLike", "Insert"} =>
       Owned(store, plan.place, plan.table)
  /\ plan.op \in {"Truncate", "RenameTable"} => plan.name \in Tables
  /\ plan.op = "RenameTable" => plan.new \in Tables

LEMMA StepsTodo ==
  ASSUME NEW store, Good(store), Has(store, Root), NEW plan, PlanOK(store, plan)
  PROVE  TodoOK(store, Steps(store, plan))
<1>0. plan.op \in Ops /\ plan.place \in Places
  BY DEF PlanOK
<1>1. CASE plan.op = "CreateDatabase"
  <2>1. Steps(store, plan) = CreateDatabase(store, plan.place[1])
    BY <1>1 DEF Steps
  <2> QED
    BY <2>1, CreateDatabaseTodo
<1>2. CASE plan.op = "CreateSchema"
  <2>1. Steps(store, plan) = CreateSchema(store, plan.place)
    BY <1>2 DEF Steps
  <2> QED
    BY <2>1, CreateSchemaTodo
<1>3. CASE plan.op = "CreateTable"
  <2>1. Steps(store, plan) = CreateTableSteps(store, plan)
    BY <1>3 DEF Steps
  <2>2. Owned(store, plan.place, plan.table)
    BY <1>3 DEF PlanOK
  <2> QED
    BY <2>1, <2>2, CreateTableTodo
<1>4. CASE plan.op = "CreateTableAs"
  <2>1. Steps(store, plan) = CreateTableAsSteps(store, plan)
    BY <1>4 DEF Steps
  <2>2. Owned(store, plan.place, plan.table)
    BY <1>4 DEF PlanOK
  <2> QED
    BY <2>1, <2>2, CreateTableTodo
<1>5. CASE plan.op = "CreateTableLike"
  <2>1. Steps(store, plan) = CreateTableLikeSteps(store, plan)
    BY <1>5 DEF Steps
  <2>2. Owned(store, plan.place, plan.table)
    BY <1>5 DEF PlanOK
  <2> QED
    BY <2>1, <2>2, CreateTableTodo
<1>6. CASE plan.op = "CreateSequence"
  <2>1. Steps(store, plan)
          = CreateSequence(store, SequenceKey(plan.place[1], plan.place[2], plan.name))
    BY <1>6 DEF Steps
  <2> QED
    BY <2>1, OtherTodo, HarmlessTodo
<1>7. CASE plan.op = "CreateView"
  <2>1. Steps(store, plan) = StoreView(store, plan.place, plan.name)
    BY <1>7 DEF Steps
  <2> QED
    BY <2>1, OtherTodo, HarmlessTodo
<1>8. CASE plan.op = "CreateIndex"
  <2>1. Steps(store, plan) = CreateIndex(store, plan.place, plan.name, plan.new)
    BY <1>8 DEF Steps
  <2> QED
    BY <2>1, OtherTodo, HarmlessTodo
<1>9. CASE plan.op = "DropTable"
  <2>1. Steps(store, plan) = DropTableSteps(store, plan)
    BY <1>9 DEF Steps
  <2> QED
    BY <2>1, DropTableTodo
<1>10. CASE plan.op = "DropIndex"
  <2>1. Steps(store, plan) = DropIndex(store, plan.place, plan.name)
    BY <1>10 DEF Steps
  <2> QED
    BY <2>1, OtherTodo, HarmlessTodo
<1>11. CASE plan.op = "DropSequence"
  <2>1. Steps(store, plan)
          = <<Delete(SequenceKey(plan.place[1], plan.place[2], plan.name))>>
    BY <1>11 DEF Steps
  <2> QED
    BY <2>1, OtherTodo, HarmlessTodo
<1>12. CASE plan.op = "DropView"
  <2>1. Steps(store, plan) = DropView(store, plan.place, plan.name)
    BY <1>12 DEF Steps
  <2> QED
    BY <2>1, OtherTodo, HarmlessTodo
<1>13. CASE plan.op = "DropSchema"
  <2>1. Steps(store, plan) = DropSchemaSteps(store, plan)
    BY <1>13 DEF Steps
  <2> QED
    BY <2>1, DropSchemaTodo
<1>14. CASE plan.op = "Truncate"
  <2>1. Steps(store, plan) = TruncateSteps(store, plan)
    BY <1>14 DEF Steps
  <2>2. plan.name \in Tables
    BY <1>14 DEF PlanOK
  <2> QED
    BY <1>0, <2>1, <2>2, TruncateTodo
<1>15. CASE plan.op = "RenameTable"
  <2>1. Steps(store, plan) = RenameTable(store, plan.place, plan.name, plan.new)
    BY <1>15 DEF Steps
  <2>2. plan.name \in Tables /\ plan.new \in Tables
    BY <1>15 DEF PlanOK
  <2> QED
    BY <1>0, <2>1, <2>2, RenameTodo
<1>16. CASE plan.op = "Insert"
  <2>1. Steps(store, plan) = InsertSteps(store, plan)
    BY <1>16 DEF Steps
  <2>2. Owned(store, plan.place, plan.table)
    BY <1>16 DEF PlanOK
  <2> QED
    BY <2>1, <2>2, InsertTodo
<1> QED
  BY <1>0, <1>1, <1>2, <1>3, <1>4, <1>5, <1>6, <1>7, <1>8, <1>9, <1>10, <1>11, <1>12,
     <1>13, <1>14, <1>15, <1>16 DEF Ops

LEMMA OwnedShrinks ==
  ASSUME NEW store, NEW new, Shrinks(store, new), NEW p, NEW t, Owned(store, p, t)
  PROVE  Owned(new, p, t)
<1>1. NextId(new, "table") = NextId(store, "table")
  BY DEF Shrinks, Numbered
<1>2. \A q \in Places, m \in Tables :
        Leads(new, q, m) => Leads(store, q, m) /\ IdOf(new, q, m) = IdOf(store, q, m)
  BY ShrinkLeads
<1>3. \A n : Has(new, LegacyTable(n)) =>
        Has(store, LegacyTable(n)) /\ new[LegacyTable(n)] = store[LegacyTable(n)]
  <2>1. \A n : LegacyTable(n)[1] \in Kinds
    BY KeyKinds DEF Kinds
  <2> QED
    BY <2>1 DEF Shrinks
<1>4. Sole(new, p, t)
  BY <1>2, <1>3 DEF Sole, Owned
<1> QED
  BY <1>1, <1>4 DEF Owned

\* The table id a CREATE TABLE takes while it is planned is nobody's.
LEMMA FreshTable ==
  ASSUME NEW store, Good(store), Has(store, Root),
         NEW new, new = Written(store, AllocateId(store, "table")),
         NEW p \in Places, NEW t, IsTable(t), t.name \in Tables, t.id = NextId(store, "table")
  PROVE  Good(new) /\ Has(new, Root) /\ Owned(new, p, t)
<1> DEFINE v == NextId(store, "table") + 1
<1>1. "table" \in Numbered
  BY DEF Numbered
<1>2. v \in Nat \ {0} /\ Above(store, "table", v) /\ t.id \in Nat \ {0}
      /\ Above(store, "table", t.id) /\ t.id < v
  BY <1>1, NextIsAbove
<1>3. new = Written(store, Put(NextKey("table"), v))
  BY DEF AllocateId
<1> HIDE DEF v
<1>4. Good(new) /\ NextId(new, "table") = v
  BY <1>1, <1>2, <1>3, CounterGood
<1>5. \A k : Has(new, k) <=> k = NextKey("table") \/ Has(store, k)
  BY <1>3, PutFacts
<1>6. \A k : Has(store, k) /\ k # NextKey("table") => new[k] = store[k]
  BY <1>3, PutFacts
<1>7. NextKey("table")[1] \notin Numbered /\ \A n : LegacyTable(n) # NextKey("table")
  BY KeyKinds DEF Numbered
<1>8. ASSUME NEW q \in Places, NEW m \in Tables, Leads(new, q, m)
      PROVE  IdOf(new, q, m) # t.id
  <2>1. Leads(store, q, m) /\ IdOf(new, q, m) = IdOf(store, q, m)
    BY <1>3, <1>7, <1>8, PutKeepsLeads
  <2>2. NameKey(store, q, m) \in KeysOf(store, "table")
    BY <2>1, NameKeyParts DEF Leads, KeysOf, Has
  <2>3. IdOf(store, q, m) < t.id /\ IdOf(store, q, m) \in Nat
    BY <1>2, <2>2 DEF Above, IdOf, Good, TableNames
  <2> QED
    BY <1>2, <2>1, <2>3
<1>9. ASSUME NEW n \in Tables, Has(new, LegacyTable(n))
      PROVE  new[LegacyTable(n)].id # t.id
  <2>1. Has(store, LegacyTable(n)) /\ new[LegacyTable(n)] = store[LegacyTable(n)]
    BY <1>5, <1>6, <1>7, <1>9
  <2>2. store[LegacyTable(n)].id < t.id /\ store[LegacyTable(n)].id \in Nat
    BY <1>2, <2>1 DEF Above, Good, Legacies
  <2> QED
    BY <1>2, <2>1, <2>2
<1>10. Sole(new, p, t)
  BY <1>8, <1>9 DEF Sole
<1> QED
  BY <1>2, <1>4, <1>5, <1>10 DEF Owned

-----------------------------------------------------------------------------
(***************************************************************************)
(* The inductive invariant.                                                *)
(***************************************************************************)
IsRun(r) == r = [phase |-> r.phase, plan |-> r.plan, todo |-> r.todo]

\* What a session is doing agrees with the store.
RunOK(store, alive, r) ==
  \/ r = Idle
  \/ r.phase = "planned" /\ alive /\ PlanOK(store, r.plan)
  \/ r.phase = "writing" /\ alive /\ r.todo # <<>> /\ TodoOK(store, r.todo)
  \/ /\ r.phase = "starting" /\ ~alive /\ r.todo # <<>> /\ SchemaTodo(store, r.todo)
     /\ Has(store, Root) \/ \E j \in 1..Len(r.todo) : PutsRoot(r.todo[j])

CatalogInv ==
  /\ Good(kv)
  /\ up => Has(kv, Root)
  /\ running = [x \in Sessions |-> running[x]]
  /\ \A x \in Sessions : IsRun(running[x]) /\ RunOK(kv, up, running[x])

LEMMA IdleIsRun ==
  IsRun(Idle) /\ Idle.phase = "idle" /\ Idle.todo = <<>>
  BY DEF IsRun, Idle

LEMMA InitInv ==
  ASSUME Init
  PROVE  CatalogInv
<1>1. DOMAIN kv = {}
  BY DEF Init
<1>2. IsFiniteSet(DOMAIN kv)
  BY <1>1, FS_EmptySet
<1>3. \A k : ~Has(kv, k)
  BY <1>1 DEF Has
<1>4. \A kind : KeysOf(kv, kind) = {}
  BY <1>1 DEF KeysOf
<1>5. \A q, m : ~Leads(kv, q, m)
  BY <1>3 DEF Leads
<1>6. Good(kv)
  <2>1. Counters(kv)
    BY <1>3 DEF Counters, NextId
  <2>2. Databases(kv) /\ Schemas(kv) /\ TableNames(kv) /\ Payloads(kv)
    BY <1>4 DEF Databases, Schemas, TableNames, Payloads
  <2>3. Described(kv) /\ Exclusive(kv)
    BY <1>5 DEF Described, Exclusive
  <2>4. Legacies(kv)
    BY <1>3 DEF Legacies
  <2>5. Virgin(kv)
    BY <1>1 DEF Virgin
  <2> QED
    BY <1>2, <2>1, <2>2, <2>3, <2>4, <2>5 DEF Good
<1>7. ~up
  BY DEF Init
<1>8. running = [x \in Sessions |-> running[x]] /\ \A x \in Sessions : running[x] = Idle
  BY DEF Init
<1>9. \A x \in Sessions : IsRun(running[x]) /\ RunOK(kv, up, running[x])
  BY <1>8, IdleIsRun DEF RunOK
<1> QED
  BY <1>6, <1>7, <1>8, <1>9 DEF CatalogInv

\* A statement is planned.
LEMMA PlannedInv ==
  ASSUME NEW s, Sessions = {s}, CatalogInv, NEW plan, NEW ws, Planned(s, plan, ws),
         NEW new, new = AllWritten(kv, ws), Good(new), Has(new, Root), PlanOK(new, plan)
  PROVE  CatalogInv'
<1> DEFINE r == [phase |-> "planned", plan |-> plan, todo |-> <<>>]
<1>1. kv' = new /\ up' /\ running' = [running EXCEPT ![s] = r]
  BY DEF Planned
<1>2. running' = [x \in Sessions |-> running'[x]] /\ \A x \in Sessions : running'[x] = r
  BY <1>1 DEF CatalogInv
<1>3. IsRun(r) /\ r.phase = "planned" /\ r.plan = plan
  BY DEF IsRun
<1> HIDE DEF r
<1>4. \A x \in Sessions : (IsRun(running[x]) /\ RunOK(kv, up, running[x]))'
  BY <1>1, <1>2, <1>3 DEF RunOK
<1> QED
  BY <1>1, <1>2, <1>4 DEF CatalogInv

LEMMA PlanParts ==
  ASSUME NEW op, NEW place, NEW name, NEW new, NEW table, NEW pk,
         NEW plan, plan = Plan(op, place, name, new, table, pk)
  PROVE  /\ plan.op = op /\ plan.place = place /\ plan.name = name /\ plan.new = new
         /\ plan.table = table
  BY DEF Plan

\* A plan that writes nothing while it is made and carries no descriptor.
LEMMA NamePlanInv ==
  ASSUME NEW s, Sessions = {s}, CatalogInv, NEW op \in Ops, NEW place \in Places,
         NEW name, NEW new, NEW table, NEW pk,
         op \notin {"CreateTable", "CreateTableAs", "CreateTableLike", "Insert"},
         op \in {"Truncate", "RenameTable"} => name \in Tables,
         op = "RenameTable" => new \in Tables,
         Planned(s, Plan(op, place, name, new, table, pk), <<>>)
  PROVE  CatalogInv'
<1> DEFINE plan == Plan(op, place, name, new, table, pk)
<1>1. AllWritten(kv, <<>>) = kv
  BY SeqSmall, AllWrittenFacts
<1>2. Good(kv) /\ Has(kv, Root)
  BY DEF CatalogInv, Planned
<1>3. plan.op = op /\ plan.place = place /\ plan.name = name /\ plan.new = new
  BY PlanParts
<1>4. PlanOK(kv, plan)
  <2> HIDE DEF plan
  <2> QED
    BY <1>3 DEF PlanOK
<1> QED
  BY <1>1, <1>2, <1>4, PlannedInv

\* INSERT: the descriptor was loaded in this step.
LEMMA InsertPlanInv ==
  ASSUME NEW s, Sessions = {s}, CatalogInv, NEW place \in Places, NEW name \in Tables,
         NEW table, table = LoadTable(kv, place, name), Exists(table), NEW pk, NEW ws,
         AllHarmless(ws), ws = <<>> \/ \E w : ws = <<w>>,
         Planned(s, Plan("Insert", place, name, name, table, pk), ws)
  PROVE  CatalogInv'
<1> DEFINE plan == Plan("Insert", place, name, name, table, pk)
           new == AllWritten(kv, ws)
<1>1. Good(kv) /\ Has(kv, Root)
  BY DEF CatalogInv, Planned
<1>2. Owned(kv, place, table)
  BY <1>1, LoadFacts
<1>3. plan.op = "Insert" /\ plan.place = place /\ plan.table = table
  BY PlanParts
<1>4. Good(new) /\ Has(new, Root) /\ Owned(new, place, table)
  <2>1. CASE ws = <<>>
    <3>1. new = kv
      BY <2>1, SeqSmall, AllWrittenFacts
    <3> QED
      BY <1>1, <1>2, <3>1
  <2>2. ASSUME NEW w, ws = <<w>>
        PROVE  Good(new) /\ Has(new, Root) /\ Owned(new, place, table)
    <3>1. new = Written(kv, w)
      BY <2>2, SeqSmall, AllWrittenFacts
    <3>2. Harmless(w)
      BY <2>2 DEF AllHarmless
    <3> HIDE DEF new
    <3>3. Good(new)
      BY <1>1, <3>1, <3>2, HarmlessGood
    <3>4. Shrinks(kv, new)
      BY <3>1, <3>2, HarmlessShrinks
    <3>5. Has(new, Root)
      BY <1>1, <3>4 DEF Shrinks
    <3> QED
      BY <1>2, <3>3, <3>4, <3>5, OwnedShrinks
  <2> QED
    BY <2>1, <2>2
<1>5. PlanOK(new, plan)
  <2> HIDE DEF plan, new
  <2> QED
    BY <1>3, <1>4 DEF PlanOK, Ops
<1> QED
  BY <1>4, <1>5, PlannedInv

LEMMA TablePlanInv ==
  ASSUME NEW s, Sessions = {s}, CatalogInv, NEW op, NEW place \in Places,
         NEW name \in Tables, NEW auto,
         op \in {"CreateTable", "CreateTableAs", "CreateTableLike"},
         PlannedTable(s, op, place, name, auto)
  PROVE  CatalogInv'
<1> DEFINE t == NewTable(place, name, auto)
           plan == Plan(op, place, name, name, t, 0)
           ws == <<AllocateId(kv, "table")>>
           new == AllWritten(kv, ws)
<1>1. Planned(s, plan, ws)
  BY DEF PlannedTable
<1>2. Good(kv) /\ Has(kv, Root)
  BY <1>1 DEF CatalogInv, Planned
<1>3. new = Written(kv, AllocateId(kv, "table"))
  BY SeqSmall, AllWrittenFacts
<1>4. IsTable(t) /\ t.name = name /\ t.id = NextId(kv, "table")
  BY TableFields DEF NewTable
<1> HIDE DEF t, ws
<1>5. plan.op = op /\ plan.place = place /\ plan.table = t
  BY PlanParts
<1> HIDE DEF plan, new
<1>6. Good(new) /\ Has(new, Root) /\ Owned(new, place, t)
  BY <1>2, <1>3, <1>4, FreshTable
<1>7. PlanOK(new, plan)
  BY <1>5, <1>6 DEF PlanOK, Ops
<1>8. new = AllWritten(kv, ws)
  BY DEF new
<1> QED
  BY <1>1, <1>6, <1>7, <1>8, PlannedInv

\* The steps of a session that plans.
LEMMA PlanStep ==
  ASSUME NEW s, Sessions = {s}, CatalogInv,
         \/ PlanCreateDatabase(s) \/ PlanCreateSchema(s) \/ PlanDropSchema(s)
         \/ PlanCreateSequence(s) \/ PlanDropSequence(s) \/ PlanCreateView(s)
         \/ PlanDropView(s) \/ PlanDropIndex(s) \/ PlanDropTable(s) \/ PlanCreateIndex(s)
         \/ PlanRenameTable(s) \/ PlanCreateTable(s) \/ PlanCreateTableAs(s)
         \/ PlanCreateTableLike(s) \/ PlanTruncate(s) \/ PlanInsert(s)
  PROVE  CatalogInv'
<1>1. ASSUME NEW op \in {"CreateDatabase", "CreateSchema", "DropSchema", "CreateSequence",
                         "DropSequence", "CreateView", "DropView", "DropIndex", "DropTable"},
             NEW place \in Places, NEW name, Planned(s, NamePlan(op, place, name), <<>>)
      PROVE  CatalogInv'
  <2>1. op \in Ops /\ op \notin {"CreateTable", "CreateTableAs", "CreateTableLike", "Insert",
                                 "Truncate", "RenameTable"}
    BY DEF Ops
  <2>2. Planned(s, Plan(op, place, name, name, NoTable(0), 0), <<>>)
    BY <1>1 DEF NamePlan
  <2> QED
    BY <2>1, <2>2, NamePlanInv
<1>2. CASE PlanCreateDatabase(s)
  BY <1>1, <1>2 DEF PlanCreateDatabase
<1>3. CASE PlanCreateSchema(s)
  BY <1>1, <1>3 DEF PlanCreateSchema
<1>4. CASE PlanDropSchema(s)
  BY <1>1, <1>4 DEF PlanDropSchema
<1>5. CASE PlanCreateSequence(s)
  BY <1>1, <1>5 DEF PlanCreateSequence
<1>6. CASE PlanDropSequence(s)
  BY <1>1, <1>6 DEF PlanDropSequence
<1>7. CASE PlanCreateView(s)
  BY <1>1, <1>7 DEF PlanCreateView
<1>8. CASE PlanDropView(s)
  BY <1>1, <1>8 DEF PlanDropView
<1>9. CASE PlanDropIndex(s)
  BY <1>1, <1>9 DEF PlanDropIndex
<1>10. CASE PlanDropTable(s)
  BY <1>1, <1>10 DEF PlanDropTable
<1>11. CASE PlanCreateIndex(s)
  <2>1. PICK place \in Places, name \in Tables, index \in Others :
          Planned(s, Plan("CreateIndex", place, name, index, NoTable(0), 0), <<>>)
    BY <1>11 DEF PlanCreateIndex
  <2>2. "CreateIndex" \in Ops
    BY DEF Ops
  <2> QED
    BY <2>1, <2>2, NamePlanInv
<1>12. CASE PlanRenameTable(s)
  <2>1. PICK place \in Places, name \in Tables, new \in Tables :
          Planned(s, Plan("RenameTable", place, name, new, NoTable(0), 0), <<>>)
    BY <1>12 DEF PlanRenameTable
  <2>2. "RenameTable" \in Ops
    BY DEF Ops
  <2> QED
    BY <2>1, <2>2, NamePlanInv
<1>13. CASE PlanCreateTable(s)
  <2>1. PICK place \in Places, name \in Tables, auto \in BOOLEAN :
          PlannedTable(s, "CreateTable", place, name, auto)
    BY <1>13 DEF PlanCreateTable
  <2> QED
    BY <2>1, TablePlanInv
<1>14. CASE PlanCreateTableAs(s)
  <2>1. PICK place \in Places, name \in Tables :
          PlannedTable(s, "CreateTableAs", place, name, FALSE)
    BY <1>14 DEF PlanCreateTableAs
  <2>2. PICK auto : PlannedTable(s, "CreateTableAs", place, name, auto)
    BY <2>1, Zenon
  <2> QED
    BY <2>2, TablePlanInv
<1>15. CASE PlanCreateTableLike(s)
  <2>1. PICK place \in Places, name \in Tables, source \in Tables :
          PlannedTable(s, "CreateTableLike", place, name,
                       HasSequence(LoadTable(kv, place, source)))
    BY <1>15 DEF PlanCreateTableLike
  <2> QED
    BY <2>1, TablePlanInv
<1>16. CASE PlanTruncate(s)
  <2>1. PICK place \in Places, name \in Tables :
          Planned(s, Plan("Truncate", place, name, name, LoadTable(kv, place, name), 0), <<>>)
    BY <1>16 DEF PlanTruncate
  <2>2. "Truncate" \in Ops
    BY DEF Ops
  <2> QED
    BY <2>1, <2>2, NamePlanInv
<1>17. CASE PlanInsert(s)
  <2>1. PICK place \in Places, name \in Tables :
          LET table == LoadTable(kv, place, name)
              key == SequenceOf(table)
          IN /\ Exists(table)
             /\ \/ Planned(s, Plan("Insert", place, name, name, table, 0), <<>>)
                \/ Planned(s, Plan("Insert", place, name, name, table, kv[key]),
                           <<Put(key, kv[key] + 1)>>)
                \/ \E pk \in 1..MaxKey :
                     Planned(s, Plan("Insert", place, name, name, table, pk), <<>>)
    BY <1>17 DEF PlanInsert
  <2> DEFINE table == LoadTable(kv, place, name)
             key == SequenceOf(table)
             w == Put(key, kv[key] + 1)
  <2>2. AllHarmless(<<>>) /\ AllHarmless(<<w>>)
    BY ApartKeys, SequenceWrites, ApartWrites, HarmlessSmall
  <2>3. Exists(table)
    BY <2>1
  <2>4. \/ Planned(s, Plan("Insert", place, name, name, table, 0), <<>>)
        \/ Planned(s, Plan("Insert", place, name, name, table, kv[key]), <<w>>)
        \/ \E pk \in 1..MaxKey : Planned(s, Plan("Insert", place, name, name, table, pk), <<>>)
    BY <2>1
  <2> HIDE DEF w
  <2> QED
    BY <2>2, <2>3, <2>4, InsertPlanInv
<1> QED
  BY <1>2, <1>3, <1>4, <1>5, <1>6, <1>7, <1>8, <1>9, <1>10, <1>11, <1>12, <1>13, <1>14,
     <1>15, <1>16, <1>17

\* The step sets what session s, the only one, is doing.
LEMMA OneRun ==
  ASSUME NEW s, Sessions = {s}, CatalogInv, NEW r, running' = [running EXCEPT ![s] = r],
         IsRun(r), RunOK(kv', up', r), Good(kv'), up' => Has(kv', Root)
  PROVE  CatalogInv'
<1>1. running' = [x \in Sessions |-> running'[x]] /\ \A x \in Sessions : running'[x] = r
  BY DEF CatalogInv
<1>2. \A x \in Sessions : (IsRun(running[x]) /\ RunOK(kv, up, running[x]))'
  BY <1>1 DEF RunOK
<1> QED
  BY <1>1, <1>2 DEF CatalogInv

LEMMA ExecuteStep ==
  ASSUME NEW s, Sessions = {s}, CatalogInv, Execute(s)
  PROVE  CatalogInv'
<1> DEFINE plan == running[s].plan
           steps == Steps(kv, plan)
           r == [phase |-> "writing", todo |-> steps,
                 plan |-> [plan EXCEPT !.before = Removes(kv, plan), !.after = Adds(kv, plan)]]
<1>1. running[s].phase = "planned" /\ kv' = kv /\ up' = up
  BY DEF Execute
<1>2. \/ running' = [running EXCEPT ![s] = Idle]
      \/ running' = [running EXCEPT ![s] = r] /\ steps # <<>>
  BY Zenon DEF Execute
<1>3. IsRun(running[s]) /\ RunOK(kv, up, running[s])
  BY DEF CatalogInv
<1>4. up /\ PlanOK(kv, plan) /\ Good(kv) /\ Has(kv, Root)
  BY <1>1, <1>3, IdleIsRun DEF RunOK, CatalogInv
<1>5. TodoOK(kv, steps)
  BY <1>4, StepsTodo
<1>6. CASE running' = [running EXCEPT ![s] = Idle]
  <2>1. RunOK(kv', up', Idle)
    BY DEF RunOK, Idle
  <2> QED
    BY <1>1, <1>4, <1>6, <2>1, IdleIsRun, OneRun
<1>7. CASE running' = [running EXCEPT ![s] = r] /\ steps # <<>>
  <2>1. IsRun(r) /\ r.phase = "writing" /\ r.todo = steps
    BY DEF IsRun
  <2> HIDE DEF r, steps
  <2>2. RunOK(kv', up', r)
    BY <1>1, <1>4, <1>5, <1>7, <2>1 DEF RunOK
  <2> QED
    BY <1>1, <1>4, <1>7, <2>1, <2>2, OneRun
<1> QED
  BY <1>2, <1>6, <1>7

LEMMA WriteStep ==
  ASSUME NEW s, Sessions = {s}, CatalogInv, Write(s)
  PROVE  CatalogInv'
<1> DEFINE todo == running[s].todo
           r == [running[s] EXCEPT !.todo = Tail(todo)]
<1>1. kv' = Written(kv, Head(todo)) /\ running[s].phase \in {"writing", "starting"}
  BY DEF Write
<1>2. IsRun(running[s]) /\ RunOK(kv, up, running[s]) /\ Good(kv) /\ (up => Has(kv, Root))
  BY DEF CatalogInv
<1>3. running' = [running EXCEPT ![s] = IF Len(todo) = 1 THEN Idle ELSE r]
  BY DEF Write, CatalogInv
<1>4. todo # <<>> /\ TodoOK(kv, todo)
  BY <1>1, <1>2, IdleIsRun DEF RunOK, TodoOK
<1>5. IsSeq(todo) /\ IsSeq(Tail(todo)) /\ Len(Tail(todo)) = Len(todo) - 1
      /\ Len(todo) \in Nat \ {0}
  BY <1>4, SeqTail DEF TodoOK, SchemaTodo, TableTodo
<1>6. Tail(todo) = <<>> <=> Len(todo) = 1
  <2>1. Tail(todo) = <<>> <=> Len(Tail(todo)) = 0
    BY <1>5, SeqShape
  <2> QED
    BY <1>5, <2>1
<1>7. IsRun(r) /\ r.phase = running[s].phase /\ r.todo = Tail(todo)
  <2>1. PICK a, b, c : running[s] = [phase |-> a, plan |-> b, todo |-> c]
    BY <1>2 DEF IsRun
  <2>2. r = [phase |-> a, plan |-> b, todo |-> Tail(todo)]
    <3>1. \A x, v : x = [phase |-> a, plan |-> b, todo |-> c] =>
            [x EXCEPT !.todo = v] = [phase |-> a, plan |-> b, todo |-> v]
      OBVIOUS
    <3> QED
      BY <2>1, <3>1, Zenon
  <2> HIDE DEF r, todo
  <2>3. r.phase = a /\ r.plan = b /\ r.todo = Tail(todo) /\ running[s].phase = a
    BY <2>1, <2>2
  <2> QED
    BY <2>2, <2>3 DEF IsRun
<1>8. RunOK(kv', up', Idle)
  BY DEF RunOK, Idle
<1>9. CASE running[s].phase = "writing"
  <2>1. up /\ up' /\ Has(kv, Root)
    BY <1>2, <1>9, IdleIsRun DEF RunOK, Write
  <2>2. Good(kv') /\ TodoOK(kv', Tail(todo)) /\ Has(kv', Root)
    <3>1. CASE SchemaTodo(kv, todo)
      BY <1>1, <1>2, <1>4, <2>1, <3>1, SchemaStep DEF TodoOK
    <3>2. CASE \E p, t : TableTodo(kv, todo, p, t)
      BY <1>1, <1>2, <1>4, <2>1, <3>2, TableStep DEF TodoOK
    <3> QED
      BY <1>4, <3>1, <3>2 DEF TodoOK
  <2>3. CASE Len(todo) = 1
    BY <1>3, <1>8, <2>2, <2>3, IdleIsRun, OneRun
  <2>4. CASE Len(todo) # 1
    <3> HIDE DEF r
    <3>1. RunOK(kv', up', r)
      BY <1>6, <1>7, <1>9, <2>1, <2>2, <2>4 DEF RunOK
    <3>2. running' = [running EXCEPT ![s] = r]
      BY <1>3, <2>4
    <3> QED
      BY <1>7, <2>2, <3>1, <3>2, OneRun
  <2> QED
    BY <2>3, <2>4
<1>10. CASE running[s].phase = "starting"
  <2>1. ~up /\ SchemaTodo(kv, todo) /\
          (Has(kv, Root) \/ \E j \in 1..Len(todo) : PutsRoot(todo[j]))
    BY <1>2, <1>10, IdleIsRun DEF RunOK
  <2>2. Good(kv') /\ SchemaTodo(kv', Tail(todo))
        /\ (Has(kv, Root) \/ PutsRoot(todo[1]) => Has(kv', Root))
    BY <1>1, <1>2, <1>4, <2>1, SchemaStep
  <2>3. CASE Len(todo) = 1
    <3>1. Has(kv', Root)
      <4>1. \A j \in 1..Len(todo) : j = 1
        BY <2>3
      <4> QED
        BY <2>1, <2>2, <4>1
    <3> QED
      BY <1>3, <1>8, <2>2, <2>3, <3>1, IdleIsRun, OneRun
  <2>4. CASE Len(todo) # 1
    <3>1. ~up'
      BY <2>1, <2>4 DEF Write
    <3>2. Has(kv', Root) \/ \E j \in 1..Len(Tail(todo)) : PutsRoot(Tail(todo)[j])
      <4>1. ASSUME NEW j \in 1..Len(todo), PutsRoot(todo[j]), j # 1
            PROVE  \E i \in 1..Len(Tail(todo)) : PutsRoot(Tail(todo)[i])
        <5>1. j - 1 \in 1..Len(Tail(todo)) /\ (j - 1) + 1 = j
          BY <1>5, <4>1
        <5>2. Tail(todo)[j - 1] = todo[(j - 1) + 1]
          BY <1>4, <1>5, <5>1, SeqTail
        <5> QED
          BY <4>1, <5>1, <5>2
      <4> QED
        BY <2>1, <2>2, <4>1
    <3> HIDE DEF r, todo
    <3>3. RunOK(kv', up', r)
      BY <1>6, <1>7, <1>10, <2>2, <2>4, <3>1, <3>2 DEF RunOK
    <3>4. running' = [running EXCEPT ![s] = r]
      BY <1>3, <2>4
    <3> QED
      BY <1>7, <2>2, <3>1, <3>3, <3>4, OneRun
  <2> QED
    BY <2>3, <2>4
<1> QED
  BY <1>1, <1>9, <1>10

LEMMA StartStep ==
  ASSUME NEW s, Sessions = {s}, CatalogInv, StartUp
  PROVE  CatalogInv'
<1> DEFINE writes == Bootstrap(kv)
           r == [phase |-> "starting", plan |-> <<>>, todo |-> writes]
<1>1. kv' = kv /\ ~up /\ Good(kv)
  BY DEF StartUp, CatalogInv
<1>2. (CHOOSE x \in Sessions : TRUE) = s
  OBVIOUS
<1>3. running' = [running EXCEPT ![s] = IF writes = <<>> THEN Idle ELSE r]
  BY <1>2 DEF StartUp
<1>4. up' <=> writes = <<>>
  BY DEF StartUp
<1>5. CASE Has(kv, Root)
  <2>1. writes = <<>>
    BY <1>5 DEF Bootstrap, Root
  <2>2. RunOK(kv', up', Idle)
    BY DEF RunOK, Idle
  <2> QED
    BY <1>1, <1>3, <1>5, <2>1, <2>2, IdleIsRun, OneRun
<1>6. CASE ~Has(kv, Root)
  <2>1. SchemaTodo(kv, writes) /\ writes # <<>> /\ \E j \in 1..Len(writes) : PutsRoot(writes[j])
    BY <1>1, <1>6, BootstrapTodo
  <2> HIDE DEF writes
  <2>2. ~up'
    BY <1>4, <2>1
  <2>3. IsRun(r) /\ r.phase = "starting" /\ r.todo = writes
    BY DEF IsRun
  <2> HIDE DEF r
  <2>4. RunOK(kv', up', r)
    BY <1>1, <2>1, <2>2, <2>3 DEF RunOK
  <2>5. running' = [running EXCEPT ![s] = r]
    BY <1>3, <2>1
  <2> QED
    BY <1>1, <2>2, <2>3, <2>4, <2>5, OneRun
<1> QED
  BY <1>5, <1>6

LEMMA FaultStep ==
  ASSUME NEW s, Sessions = {s}, CatalogInv, Fail(s) \/ Crash
  PROVE  CatalogInv'
<1>1. kv' = kv /\ Good(kv) /\ (up' => Has(kv', Root))
  BY DEF Fail, Crash, CatalogInv
<1>2. running' = [x \in Sessions |-> running'[x]] /\ \A x \in Sessions : running'[x] = Idle
  BY DEF Fail, Crash, CatalogInv
<1>3. \A x \in Sessions : (IsRun(running[x]) /\ RunOK(kv, up, running[x]))'
  BY <1>2, IdleIsRun DEF RunOK
<1> QED
  BY <1>1, <1>2, <1>3 DEF CatalogInv

LEMMA NextInv ==
  ASSUME NEW s, Sessions = {s}, CatalogInv, [Next]_vars
  PROVE  CatalogInv'
<1>1. CASE StartUp
  BY <1>1, StartStep
<1>2. CASE Crash
  BY <1>2, FaultStep
<1>3. CASE \/ PlanCreateDatabase(s) \/ PlanCreateSchema(s) \/ PlanDropSchema(s)
           \/ PlanCreateSequence(s) \/ PlanDropSequence(s) \/ PlanCreateView(s)
           \/ PlanDropView(s) \/ PlanDropIndex(s) \/ PlanDropTable(s) \/ PlanCreateIndex(s)
           \/ PlanRenameTable(s) \/ PlanCreateTable(s) \/ PlanCreateTableAs(s)
           \/ PlanCreateTableLike(s) \/ PlanTruncate(s) \/ PlanInsert(s)
  BY <1>3, PlanStep
<1>4. CASE Execute(s)
  BY <1>4, ExecuteStep
<1>5. CASE Write(s)
  BY <1>5, WriteStep
<1>6. CASE Fail(s)
  BY <1>6, FaultStep
<1>7. CASE UNCHANGED vars
  BY <1>7 DEF vars, CatalogInv, RunOK
<1> QED
  BY <1>1, <1>2, <1>3, <1>4, <1>5, <1>6, <1>7 DEF Next

LEMMA InvExclusive ==
  ASSUME CatalogInv
  PROVE  NamesAreExclusive
<1> SUFFICES ASSUME NEW p \in Places, NEW q \in Places, NEW m \in Tables, NEW n \in Tables,
                    NEW a, a = LoadTable(kv, p, m), NEW b, b = LoadTable(kv, q, n), Exists(a)
             PROVE  /\ a.name = m /\ a.place = p
                    /\ Exists(b) /\ a.id = b.id => <<p, m>> = <<q, n>>
  BY DEF NamesAreExclusive
<1>1. Good(kv)
  BY DEF CatalogInv
<1>2. Owned(kv, p, a) /\ a.name = m /\ a.place = p
  BY <1>1, LoadFacts
<1>3. ASSUME Exists(b), a.id = b.id
      PROVE  p = q /\ m = n
  <2>1. /\ Owned(kv, q, b) /\ b.name = n /\ b.place = q
        /\ \/ Leads(kv, q, n) /\ IdOf(kv, q, n) = b.id
           \/ IsDefault(q) /\ Has(kv, LegacyTable(n)) /\ kv[LegacyTable(n)] = b
    BY <1>1, <1>3, LoadFacts
  <2>2. CASE Leads(kv, q, n) /\ IdOf(kv, q, n) = b.id
    BY <1>2, <1>3, <2>2 DEF Owned, Sole
  <2>3. CASE IsDefault(q) /\ Has(kv, LegacyTable(n)) /\ kv[LegacyTable(n)] = b
    BY <1>2, <1>3, <2>3 DEF Owned, Sole, IsDefault
  <2> QED
    BY <2>1, <2>2, <2>3
<1> QED
  BY <1>2, <1>3

\* With one session, load_table (catalog/store.rs) never returns one table under two
\* names or places, nor a descriptor stored under another name, whatever statements
\* the session runs and wherever between two writes of theirs a store error or the end
\* of the process stops them, the bootstrap of the catalog included.
THEOREM NamesStayExclusive ==
  ASSUME NEW s, Sessions = {s}
  PROVE  Spec => []NamesAreExclusive
<1>1. Init => CatalogInv
  BY InitInv
<1>2. CatalogInv /\ [Next]_vars => CatalogInv'
  BY NextInv
<1>3. CatalogInv => NamesAreExclusive
  BY InvExclusive
<1> QED
  BY <1>1, <1>2, <1>3, PTL DEF Spec
=============================================================================
