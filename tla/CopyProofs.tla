----------------------------- MODULE CopyProofs -----------------------------
(***************************************************************************)
(* Why COPY keeps a unique index unique and stores the first lines of the  *)
(* file, whatever file the client sends, however it is cut into messages   *)
(* and however large a batch may grow.                                     *)
(*                                                                         *)
(*   UniqueRows  of the store: rows have different values, and the index   *)
(*               has an entry for every row;                               *)
(*   Waiting     of the writes that wait, until a line is refused: a row   *)
(*               waits with its entry, entries of one value are of one     *)
(*               key, and the index has no entry of such a value;          *)
(*   Progress    of a server that has read n lines with data: the store    *)
(*               holds the rows of some first lines; with the writes that  *)
(*               wait, until a line is refused, those of all lines read;   *)
(*   Reached     of the messages: the buffer holds the bytes after the     *)
(*               last line end, and Progress counts the lines before them. *)
(*                                                                         *)
(* A batch is put by PutBatch only while Waiting holds; a row refused      *)
(* joins the batch without its entry and ends it.                          *)
(*                                                                         *)
(* What recursive functions compute is stated by their steps (CutSteps,    *)
(* DataSteps, StoreSteps) and shown by induction.                          *)
(***************************************************************************)
EXTENDS Copy, TLAPS, NaturalsInduction, WellFoundedInduction, SequenceTheorems

Writes == [row : BOOLEAN, key : FieldValues, value : FieldValues \cup {NullField}]

UniqueRows(rows, index) ==
  /\ \A a, b \in DOMAIN rows : rows[a] = rows[b] /\ rows[a] # NullField => a = b
  /\ \A k \in DOMAIN rows : <<rows[k], k>> \in index

Waiting(pending, index) ==
  /\ \A i \in DOMAIN pending : pending[i].row =>
       \E j \in DOMAIN pending : /\ ~pending[j].row /\ pending[j].key = pending[i].key
                                 /\ pending[j].value = pending[i].value
  /\ \A i \in DOMAIN pending : ~pending[i].row /\ pending[i].value # NullField =>
       \A e \in index : e[1] # pending[i].value
  /\ \A i, j \in DOMAIN pending :
       /\ ~pending[i].row /\ ~pending[j].row
       /\ pending[i].value = pending[j].value /\ pending[i].value # NullField
       => pending[i].key = pending[j].key

Fields == {"buffer", "headerPending", "pending", "pendingRows", "inserted", "rows", "index",
           "failed"}
HasFields(s) == Fields \subseteq DOMAIN s

IsServer(s) ==
  /\ HasFields(s)
  /\ s.buffer \in Seq(STRING) /\ s.pending \in Seq(Writes)

Good(s) ==
  /\ IsServer(s) /\ UniqueRows(s.rows, s.index)
  /\ ~s.failed => Waiting(s.pending, s.index)

-----------------------------------------------------------------------------
(***************************************************************************)
(* Induction.                                                              *)
(***************************************************************************)
LEMMA LeastNumber ==
  ASSUME NEW T, T \subseteq Nat, T # {}
  PROVE  \E x \in T : \A y \in T : x <= y
<1> DEFINE R == {p \in Nat \X Nat : p[1] < p[2]}
<1>1. IsWellFoundedOn(R, Nat)
  BY NatLessThanWellFounded DEF OpToRel
<1>2. \E x \in T : \A y \in T : ~(<<y, x>> \in R)
  <2> HIDE DEF R
  <2> QED
    BY <1>1, WFMin
<1>3. \A x \in T, y \in T : ~(<<y, x>> \in R) => x <= y
  <2> SUFFICES ASSUME NEW x \in Nat, NEW y \in Nat, ~(<<y, x>> \in R) PROVE x <= y
    OBVIOUS
  <2>1. ~(y < x)
    OBVIOUS
  <2> QED
    BY <2>1
<1> QED
  BY <1>2, <1>3

\* Induction, for a property given as a set.
LEMMA InductionOnNat ==
  ASSUME NEW T, T \subseteq Nat, 0 \in T, \A n \in T : n + 1 \in T
  PROVE  T = Nat
<1> SUFFICES ASSUME Nat \ T # {} PROVE FALSE
  OBVIOUS
<1>1. PICK x \in Nat \ T : \A y \in Nat \ T : x <= y
  BY LeastNumber
<1>2. x # 0 /\ x - 1 \in Nat
  BY <1>1
<1>3. x - 1 \in T
  <2>1. ~(x <= x - 1)
    BY <1>1
  <2> QED
    BY <1>1, <1>2, <2>1
<1>4. (x - 1) + 1 = x
  BY <1>1
<1> QED
  BY <1>1, <1>3, <1>4

LEMMA WriteTypes ==
  ASSUME NEW w \in Writes
  PROVE  /\ w.row \in BOOLEAN /\ w.key \in FieldValues
         /\ w.value \in FieldValues \cup {NullField}
  BY DEF Writes

\* What a batch puts into the store: the last row of each key, and the entries.
RowKeys(p) == {r.key : r \in {p[i] : i \in {j \in DOMAIN p : p[j].row}}}
IsLast(p, k, i) ==
  /\ p[i].row /\ p[i].key = k
  /\ \A j \in (i + 1)..Len(p) : ~(p[j].row /\ p[j].key = k)
LastOf(p, k) == CHOOSE i \in DOMAIN p : IsLast(p, k, i)
RowsAfter(rows, p) ==
  [k \in DOMAIN rows \cup RowKeys(p) |->
     IF k \in RowKeys(p) THEN p[LastOf(p, k)].value ELSE rows[k]]
IndexAfter(index, p) ==
  index \cup {<<w.value, w.key>> : w \in {p[i] : i \in {j \in DOMAIN p : ~p[j].row}}}
Batch(rows, index, p) == [rows |-> RowsAfter(rows, p), index |-> IndexAfter(index, p)]

\* Among the writes that wait, a key with a row has a last one.
LEMMA LastRow ==
  ASSUME NEW pending \in Seq(Writes), NEW k, NEW i \in DOMAIN pending,
         pending[i].row, pending[i].key = k
  PROVE  \E l \in DOMAIN pending : IsLast(pending, k, l)
<1> DEFINE N == Len(pending)
           T == {n \in Nat : n \in 0..N - 1 /\ pending[N - n].row /\ pending[N - n].key = k}
<1>1. N \in Nat /\ DOMAIN pending = 1..N
  OBVIOUS
<1> HIDE DEF N
<1>2. T # {}
  <2>1. i \in 1..N /\ pending[i].row /\ pending[i].key = k
    BY <1>1
  <2>2. N - i \in Nat /\ N - i \in 0..N - 1 /\ N - (N - i) = i
    BY <1>1, <2>1
  <2>3. N - i \in T
    BY <2>1, <2>2
  <2> QED
    BY <2>3
<1>3. PICK n \in T : \A m \in T : n <= m
  <2>1. T \subseteq Nat
    OBVIOUS
  <2> HIDE DEF T
  <2> QED
    BY <1>2, <2>1, LeastNumber
<1>4. /\ n \in Nat /\ n \in 0..N - 1 /\ pending[N - n].row /\ pending[N - n].key = k
  OBVIOUS
<1>5. N - n \in 1..N
  BY <1>1, <1>4
<1>6. ASSUME NEW j \in (N - n + 1)..N, pending[j].row, pending[j].key = k
      PROVE  FALSE
  <2>1. N - j \in Nat /\ N - j \in 0..N - 1 /\ N - (N - j) = j /\ ~(n <= N - j)
    BY <1>1, <1>4, <1>6
  <2>2. N - j \in T
    BY <1>6, <2>1
  <2> QED
    BY <1>3, <2>1, <2>2
<1> QED
  BY <1>1, <1>4, <1>5, <1>6 DEF N, IsLast

LEMMA KeysHaveLast ==
  ASSUME NEW p \in Seq(Writes), NEW k \in RowKeys(p)
  PROVE  LastOf(p, k) \in DOMAIN p /\ IsLast(p, k, LastOf(p, k))
<1>1. PICK i \in DOMAIN p : p[i].row /\ p[i].key = k
  BY DEF RowKeys
<1>2. \E l \in DOMAIN p : IsLast(p, k, l)
  BY <1>1, LastRow
<1> QED
  BY <1>2 DEF LastOf

\* What the updates of the server's state leave alone.
LEMMA SetFailed ==
  ASSUME NEW s, HasFields(s), NEW g, g = [s EXCEPT !.failed = TRUE]
  PROVE  /\ HasFields(g)
         /\ g.buffer = s.buffer /\ g.headerPending = s.headerPending /\ g.pending = s.pending
         /\ g.pendingRows = s.pendingRows /\ g.inserted = s.inserted
         /\ g.rows = s.rows /\ g.index = s.index /\ g.failed = TRUE
  BY DEF HasFields, Fields

LEMMA SetHeader ==
  ASSUME NEW s, HasFields(s), NEW g, g = [s EXCEPT !.headerPending = FALSE]
  PROVE  /\ HasFields(g)
         /\ g.buffer = s.buffer /\ g.headerPending = FALSE /\ g.pending = s.pending
         /\ g.pendingRows = s.pendingRows /\ g.inserted = s.inserted
         /\ g.rows = s.rows /\ g.index = s.index /\ g.failed = s.failed
  BY DEF HasFields, Fields

LEMMA SetBuffer ==
  ASSUME NEW s, HasFields(s), NEW v, NEW g, g = [s EXCEPT !.buffer = v]
  PROVE  /\ HasFields(g)
         /\ g.buffer = v /\ g.headerPending = s.headerPending /\ g.pending = s.pending
         /\ g.pendingRows = s.pendingRows /\ g.inserted = s.inserted
         /\ g.rows = s.rows /\ g.index = s.index /\ g.failed = s.failed
  BY DEF HasFields, Fields

LEMMA SetPending ==
  ASSUME NEW s, HasFields(s), NEW v, NEW g, g = [s EXCEPT !.pending = v]
  PROVE  /\ HasFields(g)
         /\ g.buffer = s.buffer /\ g.headerPending = s.headerPending /\ g.pending = v
         /\ g.pendingRows = s.pendingRows /\ g.inserted = s.inserted
         /\ g.rows = s.rows /\ g.index = s.index /\ g.failed = s.failed
  BY DEF HasFields, Fields

LEMMA CountedFields ==
  ASSUME NEW s, HasFields(s), NEW g, g = Counted(s)
  PROVE  /\ HasFields(g)
         /\ g.buffer = s.buffer /\ g.headerPending = s.headerPending /\ g.pending = s.pending
         /\ g.rows = s.rows /\ g.index = s.index /\ g.failed = s.failed
         /\ ~s.failed => g.inserted = s.inserted + 1
         /\ s.failed => g = s
<1>1. CASE s.failed
  BY <1>1 DEF Counted
<1>2. CASE ~s.failed
  <2>1. g = [s EXCEPT !.inserted = @ + 1]
    BY <1>2 DEF Counted
  <2> QED
    BY <1>2, <2>1 DEF HasFields, Fields
<1> QED
  BY <1>1, <1>2

LEMMA TakenFields ==
  ASSUME NEW s, HasFields(s), NEW g, g = Refused(Taken(s))
  PROVE  /\ HasFields(g) /\ g.buffer = s.buffer /\ g.headerPending = s.headerPending
         /\ g.pending = <<>> /\ g.inserted = s.inserted /\ g.failed = TRUE
         /\ g.rows = s.rows /\ g.index = s.index
<1>1. g = [[s EXCEPT !.pending = <<>>, !.pendingRows = 0] EXCEPT !.failed = TRUE]
  BY DEF Refused, Taken
<1> QED
  BY <1>1 DEF HasFields, Fields

\* flush_copy_writes: nothing waits, the store refuses the batch, or it takes it.
LEMMA FlushCases ==
  ASSUME NEW s
  PROVE  \/ s.pending = <<>> /\ FlushWrites(s) = s
         \/ FlushWrites(s) = Refused(Taken(s))
         \/ FlushWrites(s) = PutBatch(s)
  BY DEF FlushWrites

LEMMA PutFields ==
  ASSUME NEW s, HasFields(s), NEW g, g = PutBatch(s)
  PROVE  /\ HasFields(g) /\ g.buffer = s.buffer /\ g.headerPending = s.headerPending
         /\ g.pending = <<>> /\ g.inserted = s.inserted /\ g.failed = s.failed
         /\ g.rows = RowsAfter(s.rows, s.pending) /\ g.index = IndexAfter(s.index, s.pending)
<1> DEFINE rows == RowsAfter(s.rows, s.pending)
           index == IndexAfter(s.index, s.pending)
<1>1. g = [s EXCEPT !.pending = <<>>, !.pendingRows = 0, !.rows = rows, !.index = index]
  BY DEF PutBatch, RowsAfter, IndexAfter, RowKeys, LastOf, IsLast
<1> HIDE DEF rows, index
<1> QED
  BY <1>1 DEF HasFields, Fields, rows, index

\* A batch put into the store.
LEMMA PutGood ==
  ASSUME NEW s, IsServer(s), UniqueRows(s.rows, s.index), ~s.failed, Waiting(s.pending, s.index)
  PROVE  Good(PutBatch(s))
<1> DEFINE p == s.pending
           keys == RowKeys(p)
           rows == RowsAfter(s.rows, p)
           index == IndexAfter(s.index, p)
<1>1. s.buffer \in Seq(STRING) /\ p \in Seq(Writes)
  BY DEF IsServer
<1>3. ASSUME NEW k \in keys
      PROVE  \E j \in DOMAIN p : /\ ~p[j].row /\ p[j].key = k /\ p[j].value = rows[k]
  <2>1. LastOf(p, k) \in DOMAIN p /\ p[LastOf(p, k)].row /\ p[LastOf(p, k)].key = k
    BY <1>1, KeysHaveLast DEF IsLast
  <2>2. rows[k] = p[LastOf(p, k)].value
    BY DEF RowsAfter
  <2> HIDE DEF rows, keys
  <2> QED
    BY <2>1, <2>2 DEF Waiting
<1>4. \A k \in DOMAIN s.rows : k \notin keys => rows[k] = s.rows[k]
  BY DEF RowsAfter
<1>5. DOMAIN rows = DOMAIN s.rows \cup keys
  BY DEF RowsAfter
<1>6. /\ s.index \subseteq index
      /\ \A j \in DOMAIN p : ~p[j].row => <<p[j].value, p[j].key>> \in index
  BY DEF IndexAfter
<1> HIDE DEF rows, index, keys
<1>7. UniqueRows(rows, index)
  <2>1. ASSUME NEW k \in DOMAIN rows
        PROVE  <<rows[k], k>> \in index
    <3>1. CASE k \in keys
      BY <1>3, <1>6, <3>1
    <3>2. CASE k \notin keys
      BY <1>4, <1>5, <1>6, <3>2 DEF UniqueRows
    <3> QED
      BY <3>1, <3>2
  <2>2. ASSUME NEW a \in keys, NEW b \in DOMAIN s.rows, b \notin keys, rows[a] = rows[b],
               rows[a] # NullField
        PROVE  FALSE
    <3>1. PICK j \in DOMAIN p : ~p[j].row /\ p[j].key = a /\ p[j].value = rows[a]
      BY <1>3
    <3>2. <<s.rows[b], b>> \in s.index /\ <<s.rows[b], b>>[1] = s.rows[b]
      BY DEF UniqueRows
    <3>3. s.rows[b] # p[j].value
      BY <2>2, <3>1, <3>2 DEF Waiting
    <3> QED
      BY <1>4, <2>2, <3>1, <3>3
  <2>3. ASSUME NEW a \in keys, NEW b \in keys, rows[a] = rows[b], rows[a] # NullField
        PROVE  a = b
    <3>1. PICK i \in DOMAIN p : ~p[i].row /\ p[i].key = a /\ p[i].value = rows[a]
      BY <1>3
    <3>2. PICK j \in DOMAIN p : ~p[j].row /\ p[j].key = b /\ p[j].value = rows[b]
      BY <1>3
    <3> QED
      BY <2>3, <3>1, <3>2 DEF Waiting
  <2>4. ASSUME NEW a \in DOMAIN rows, NEW b \in DOMAIN rows, rows[a] = rows[b],
               rows[a] # NullField
        PROVE  a = b
    <3>1. CASE a \notin keys /\ b \notin keys
      BY <1>4, <1>5, <2>4, <3>1 DEF UniqueRows
    <3> QED
      BY <1>5, <2>2, <2>3, <2>4, <3>1
  <2> QED
    BY <2>1, <2>4 DEF UniqueRows
<1> DEFINE f == PutBatch(s)
<1>9. /\ f.buffer = s.buffer /\ f.pending = <<>> /\ f.rows = rows /\ f.index = index
      /\ f.failed = s.failed /\ HasFields(f)
  BY PutFields DEF IsServer, rows, index
<1> HIDE DEF f
<1>10. <<>> \in Seq(Writes) /\ DOMAIN <<>> = {}
  OBVIOUS
<1>11. IsServer(f)
  BY <1>1, <1>9, <1>10 DEF IsServer
<1>12. Waiting(<<>>, index)
  BY <1>10 DEF Waiting
<1>13. Good(f)
  BY <1>7, <1>9, <1>11, <1>12 DEF Good
<1> QED
  BY <1>13 DEF f

\* A batch, whether the store takes it or not.
LEMMA FlushGood ==
  ASSUME NEW s, Good(s), ~s.failed
  PROVE  Good(FlushWrites(s))
<1>1. /\ IsServer(s) /\ UniqueRows(s.rows, s.index) /\ Waiting(s.pending, s.index)
      /\ s.buffer \in Seq(STRING) /\ HasFields(s)
  BY DEF Good, IsServer
<1>2. Good(PutBatch(s))
  BY <1>1, PutGood
<1> DEFINE f == Refused(Taken(s))
<1>3. /\ HasFields(f) /\ f.buffer = s.buffer /\ f.pending = <<>> /\ f.failed = TRUE
      /\ f.rows = s.rows /\ f.index = s.index
  BY <1>1, TakenFields
<1> HIDE DEF f
<1>4. <<>> \in Seq(Writes)
  OBVIOUS
<1>5. Good(f)
  BY <1>1, <1>3, <1>4 DEF Good, IsServer
<1> QED
  BY <1>2, <1>5, FlushCases DEF f

LEMMA CountedGood ==
  ASSUME NEW s, Good(s)
  PROVE  Good(Counted(s))
<1> DEFINE f == Counted(s)
<1>1. /\ HasFields(f) /\ f.buffer = s.buffer /\ f.pending = s.pending
      /\ f.rows = s.rows /\ f.index = s.index /\ f.failed = s.failed
  BY CountedFields DEF Good, IsServer
<1> HIDE DEF f
<1>2. Good(f)
  BY <1>1 DEF Good, IsServer
<1> QED
  BY <1>2 DEF f

\* A row refused or a header read.
LEMMA RefusedGood ==
  ASSUME NEW s, IsServer(s), UniqueRows(s.rows, s.index)
  PROVE  Good(Refused(s)) /\ Refused(s).failed
<1> DEFINE f == Refused(s)
<1>1. HasFields(s) /\ f = [s EXCEPT !.failed = TRUE]
  BY DEF IsServer, Refused
<1> HIDE DEF f
<1>2. /\ HasFields(f) /\ f.buffer = s.buffer /\ f.pending = s.pending /\ f.rows = s.rows
      /\ f.index = s.index /\ (f.failed = TRUE)
  BY <1>1, SetFailed
<1>3. Good(f) /\ f.failed
  BY <1>2 DEF Good, IsServer
<1> QED
  BY <1>3 DEF f

LEMMA TwoMore ==
  ASSUME NEW p \in Seq(Writes), NEW a \in Writes, NEW b \in Writes
  PROVE  LET two == Append(Append(p, a), b)
         IN /\ Append(p, a) \in Seq(Writes) /\ two \in Seq(Writes)
            /\ Len(p) \in Nat /\ DOMAIN p = 1..Len(p) /\ DOMAIN two = 1..Len(p) + 2
            /\ \A i \in 1..Len(p) : two[i] = p[i]
            /\ two[Len(p) + 1] = a /\ two[Len(p) + 2] = b
  OBVIOUS

\* A row added to the batch: refused, or waiting with its entry.
LEMMA AddRowGood ==
  ASSUME NEW s, Good(s), ~s.failed, NEW key \in FieldValues,
         NEW value \in FieldValues \cup {NullField}
  PROVE  Good(AddRow(s, key, value))
<1> DEFINE p == s.pending
           write(isRow) == [row |-> isRow, key |-> key, value |-> value]
           added == [s EXCEPT !.pending = Append(@, write(TRUE))]
           whole == [added EXCEPT !.pending = Append(@, write(FALSE)), !.pendingRows = @ + 1]
           one == Append(p, write(TRUE))
           two == Append(one, write(FALSE))
<1>1. /\ s.buffer \in Seq(STRING) /\ p \in Seq(Writes)
      /\ UniqueRows(s.rows, s.index) /\ Waiting(p, s.index)
  BY DEF Good, IsServer
<1>2. /\ HasFields(added) /\ added.buffer = s.buffer /\ added.pending = one
      /\ added.rows = s.rows /\ added.index = s.index /\ added.failed = s.failed
  <2>1. HasFields(s) /\ added = [s EXCEPT !.pending = one]
    BY DEF Good, IsServer
  <2> HIDE DEF added, one
  <2> QED
    BY <2>1, SetPending
<1>3. /\ HasFields(whole) /\ whole.buffer = s.buffer /\ whole.pending = two
      /\ whole.rows = s.rows /\ whole.index = s.index /\ whole.failed = s.failed
  <2>1. whole = [added EXCEPT !.pending = two, !.pendingRows = @ + 1]
    <3> HIDE DEF added, write
    <3>1. added.pending = one
      BY <1>2
    <3> QED
      BY <3>1
  <2> HIDE DEF added, whole, one, two
  <2> QED
    BY <1>2, <2>1 DEF HasFields, Fields
<1>4. /\ write(TRUE) \in Writes /\ write(FALSE) \in Writes
      /\ write(TRUE).row /\ ~write(FALSE).row
      /\ write(TRUE).key = key /\ write(FALSE).key = key
      /\ write(TRUE).value = value /\ write(FALSE).value = value
  BY DEF Writes, write
<1>5. AddRow(s, key, value)
        = IF Duplicate(s, key, value) THEN Refused(added)
          ELSE Counted(IF whole.pendingRows >= MaxBatchRows
                            \/ 3 * whole.pendingRows >= MaxBatchEntries
                         THEN FlushWrites(whole) ELSE whole)
  BY DEF AddRow, write
<1> HIDE DEF added, whole, write
<1>6. one \in Seq(Writes) /\ two \in Seq(Writes)
  BY <1>1, <1>4, TwoMore
<1>7. /\ Len(p) \in Nat /\ DOMAIN p = 1..Len(p) /\ DOMAIN two = 1..Len(p) + 2
      /\ \A i \in 1..Len(p) : two[i] = p[i]
      /\ two[Len(p) + 1] = write(TRUE) /\ two[Len(p) + 2] = write(FALSE)
  <2> DEFINE a == write(TRUE)
             z == write(FALSE)
  <2>1. a \in Writes /\ z \in Writes /\ two = Append(Append(p, a), z)
    BY <1>4
  <2> HIDE DEF a, z, one, two, p
  <2>2. /\ Len(p) \in Nat /\ DOMAIN p = 1..Len(p) /\ DOMAIN two = 1..Len(p) + 2
        /\ \A i \in 1..Len(p) : two[i] = p[i]
        /\ two[Len(p) + 1] = a /\ two[Len(p) + 2] = z
    BY <1>1, <2>1, TwoMore
  <2> QED
    BY <2>2 DEF a, z
<1> HIDE DEF one, two
<1>8. /\ IsServer(added) /\ UniqueRows(added.rows, added.index)
  BY <1>1, <1>2, <1>6 DEF IsServer
<1>9. /\ IsServer(whole) /\ UniqueRows(whole.rows, whole.index)
      /\ whole.failed = s.failed /\ whole.pending = two /\ whole.index = s.index
  BY <1>1, <1>3, <1>6 DEF IsServer
<1>10. ASSUME ~Duplicate(s, key, value)
       PROVE  Waiting(two, s.index)
  <2> DEFINE n == Len(p)
  <2>1. /\ n \in Nat /\ DOMAIN p = 1..n /\ DOMAIN two = 1..n + 2
        /\ \A i \in 1..n : two[i] = p[i]
        /\ two[n + 1] = write(TRUE) /\ two[n + 2] = write(FALSE)
    BY <1>7
  <2> HIDE DEF n
  <2>2. \A i \in 1..n + 2 : i \in 1..n \/ i = n + 1 \/ i = n + 2
    BY <2>1
  <2>3. n + 1 \in 1..n + 2 /\ n + 2 \in 1..n + 2 /\ 1..n \subseteq 1..n + 2
    BY <2>1
  <2>4. value # NullField => \A e \in s.index : e[1] # value
    BY <1>10 DEF Duplicate
  <2>5. value # NullField => \A i \in 1..n : ~p[i].row /\ p[i].value = value => p[i].key = key
    BY <1>10, <2>1 DEF Duplicate
  <2>6. ASSUME NEW i \in 1..n + 2, two[i].row
        PROVE  \E j \in 1..n + 2 : /\ ~two[j].row /\ two[j].key = two[i].key
                                   /\ two[j].value = two[i].value
    <3>1. CASE i \in 1..n
      <4>1. \E j \in 1..n : ~p[j].row /\ p[j].key = p[i].key /\ p[j].value = p[i].value
        BY <1>1, <2>1, <2>6, <3>1 DEF Waiting
      <4> QED
        BY <2>1, <2>3, <3>1, <4>1
    <3>2. CASE i = n + 1 \/ i = n + 2
      BY <1>4, <2>1, <2>3, <2>6, <3>2
    <3> QED
      BY <2>2, <3>1, <3>2
  <2>7. ASSUME NEW i \in 1..n + 2, ~two[i].row, two[i].value # NullField, NEW e \in s.index
        PROVE  e[1] # two[i].value
    <3>1. CASE i \in 1..n
      BY <1>1, <2>1, <2>7, <3>1 DEF Waiting
    <3>2. CASE i = n + 1 \/ i = n + 2
      BY <1>4, <2>1, <2>4, <2>7, <3>2
    <3> QED
      BY <2>2, <3>1, <3>2
  <2>8. ASSUME NEW i \in 1..n + 2, NEW j \in 1..n + 2, ~two[i].row, ~two[j].row,
               two[i].value = two[j].value, two[i].value # NullField
        PROVE  two[i].key = two[j].key
    <3>1. \A k \in 1..n + 2 :
            ~two[k].row => k \in 1..n \/ (two[k].key = key /\ two[k].value = value)
      BY <1>4, <2>1, <2>2
    <3>2. CASE i \in 1..n /\ j \in 1..n
      BY <1>1, <2>1, <2>8, <3>2, SMTT(30) DEF Waiting
    <3> QED
      BY <2>1, <2>5, <2>8, <3>1, <3>2
  <2> QED
    BY <2>1, <2>6, <2>7, <2>8 DEF Waiting
<1>11. CASE Duplicate(s, key, value)
  BY <1>5, <1>8, <1>11, RefusedGood
<1>12. CASE ~Duplicate(s, key, value)
  <2>1. Good(whole) /\ ~whole.failed
    BY <1>9, <1>10, <1>12 DEF Good
  <2>2. Good(Counted(whole)) /\ Good(Counted(FlushWrites(whole)))
    BY <2>1, FlushGood, CountedGood
  <2> QED
    BY <1>5, <1>12, <2>2
<1> QED
  BY <1>11, <1>12

\* apply_copy_line, whatever the line.
LEMMA ApplyLineGood ==
  ASSUME NEW s, Good(s), NEW line
  PROVE  Good(ApplyLine(s, line))
<1> DEFINE stripped == Stripped(line)
           fields == SplitFields(file, stripped)
<1>1. ApplyLine(s, line)
        = IF s.failed \/ line = <<>> \/ stripped = <<".">> THEN s
          ELSE IF s.headerPending THEN [s EXCEPT !.headerPending = FALSE]
          ELSE IF Len(fields) # 2 THEN Refused(s)
          ELSE IF \E i \in 1..2 : fields[i] \notin FieldValues \cup {NullField} THEN Refused(s)
          ELSE IF fields[1] = NullField THEN Refused(s)
          ELSE AddRow(s, fields[1], fields[2])
  BY DEF ApplyLine
<1> HIDE DEF stripped, fields
<1>2. Good([s EXCEPT !.headerPending = FALSE])
  <2> DEFINE f == [s EXCEPT !.headerPending = FALSE]
  <2>1. HasFields(s)
    BY DEF Good, IsServer
  <2>2. /\ HasFields(f) /\ f.buffer = s.buffer /\ f.pending = s.pending /\ f.rows = s.rows
        /\ f.index = s.index /\ f.failed = s.failed
    BY <2>1, SetHeader
  <2> HIDE DEF f
  <2>3. Good(f)
    BY <2>2 DEF Good, IsServer
  <2> QED
    BY <2>3 DEF f
<1>3. Good(Refused(s))
  BY RefusedGood DEF Good
<1>4. ASSUME ~s.failed, \A i \in 1..2 : fields[i] \in FieldValues \cup {NullField},
             fields[1] # NullField
      PROVE  Good(AddRow(s, fields[1], fields[2]))
  <2>1. fields[1] \in FieldValues /\ fields[2] \in FieldValues \cup {NullField}
    BY <1>4
  <2> QED
    BY <1>4, <2>1, AddRowGood
<1> QED
  BY <1>1, <1>2, <1>3, <1>4

-----------------------------------------------------------------------------
(***************************************************************************)
(* The lines of a message.  The recursive functions are unfolded once;     *)
(* what they keep follows by induction.                                    *)
(***************************************************************************)
NoBytes == [lines |-> <<>>, rest |-> <<>>]
NextByte(s, b) == IF b = "n" THEN [lines |-> Append(s.lines, s.rest), rest |-> <<>>]
                  ELSE [lines |-> s.lines, rest |-> Append(s.rest, b)]

LEMMA CutUnfolds ==
  ASSUME NEW bytes, Len(bytes) \in Nat
  PROVE  \E h : /\ Cut(bytes) = h[Len(bytes)] /\ h[0] = NoBytes
                /\ \A i \in 1..Len(bytes) : h[i] = NextByte(h[i - 1], bytes[i])
<1> DEFINE step(n, f) ==
             [i \in 0..n |-> IF i = 0 THEN NoBytes ELSE NextByte(f[i - 1], bytes[i])]
           h == CHOOSE f : f = step(Len(bytes), f)
<1>1. Cut(bytes) = h[Len(bytes)]
  BY DEF Cut, NextByte, NoBytes
<1>2. \E f : f = step(Len(bytes), f)
  <2> DEFINE T == {n \in Nat : \E f : f = step(n, f)}
  <2>1. 0 \in T
    <3> DEFINE f0 == [i \in 0..0 |-> NoBytes]
    <3>1. f0 = step(0, f0)
      OBVIOUS
    <3> HIDE DEF f0, step
    <3> QED
      BY <3>1
  <2>2. ASSUME NEW n \in T
        PROVE  n + 1 \in T
    <3>1. n \in Nat
      OBVIOUS
    <3>2. PICK f : f = step(n, f)
      OBVIOUS
    <3> DEFINE last == NextByte(f[n], bytes[n + 1])
               g == [i \in 0..n + 1 |-> IF i = n + 1 THEN last ELSE f[i]]
    <3> HIDE DEF last
    <3>3. \A i \in 0..n + 1 : g[i] = step(n + 1, g)[i]
      <4> TAKE i \in 0..n + 1
      <4>1. CASE i = n + 1
        <5>1. (n + 1) - 1 = n /\ n \in 0..n + 1 /\ n # n + 1 /\ n + 1 # 0
          BY <3>1
        <5>2. g[n] = f[n]
          BY <5>1
        <5>3. g[n + 1] = last
          BY <3>1
        <5>4. step(n + 1, g)[n + 1]
                = IF n + 1 = 0 THEN NoBytes ELSE NextByte(g[(n + 1) - 1], bytes[n + 1])
          BY <4>1, Zenon
        <5>5. step(n + 1, g)[n + 1] = last
          <6> HIDE DEF g, step
          <6> QED
            BY <5>1, <5>2, <5>4 DEF last
        <5> QED
          BY <4>1, <5>3, <5>5
      <4>2. CASE i # n + 1
        <5>1. i \in 0..n
          BY <3>1, <4>2
        <5>2. f[i] = IF i = 0 THEN NoBytes ELSE NextByte(f[i - 1], bytes[i])
          BY <3>2, <5>1, Zenon
        <5>3. i # 0 => i - 1 \in 0..n + 1 /\ i - 1 # n + 1
          BY <3>1, <5>1
        <5>4. i # 0 => g[i - 1] = f[i - 1]
          BY <5>3
        <5> QED
          BY <4>2, <5>2, <5>4
      <4> QED
        BY <4>1, <4>2
    <3>4. g = step(n + 1, g)
      <4>1. DOMAIN g = 0..n + 1 /\ g = [i \in 0..n + 1 |-> g[i]]
        OBVIOUS
      <4>2. step(n + 1, g) = [i \in 0..n + 1 |-> step(n + 1, g)[i]]
        OBVIOUS
      <4> HIDE DEF g, step
      <4> QED
        BY <3>3, <4>1, <4>2
    <3>5. n + 1 \in Nat
      BY <3>1
    <3> HIDE DEF g, step
    <3> QED
      BY <3>4, <3>5
  <2> HIDE DEF T
  <2>3. T = Nat
    <3>1. T \subseteq Nat
      BY DEF T
    <3> QED
      BY <2>1, <2>2, <3>1, InductionOnNat
  <2> QED
    BY <2>3 DEF T
<1>3. h = step(Len(bytes), h)
  BY <1>2
<1> HIDE DEF h
<1>4. \A i \in 0..Len(bytes) : h[i] = IF i = 0 THEN NoBytes ELSE NextByte(h[i - 1], bytes[i])
  BY <1>3, Zenon
<1>5. h[0] = NoBytes
  BY <1>4
<1>6. \A i \in 1..Len(bytes) : h[i] = NextByte(h[i - 1], bytes[i])
  <2>1. \A i \in 1..Len(bytes) : i \in 0..Len(bytes) /\ i # 0
    OBVIOUS
  <2> QED
    BY <1>4, <2>1, Zenon
<1> QED
  BY <1>1, <1>5, <1>6

LEMMA LinesUnfold ==
  ASSUME NEW s, NEW lines, Len(lines) \in Nat
  PROVE  \E h : /\ ApplyLines(s, lines) = h[Len(lines)] /\ h[0] = s
                /\ \A i \in 1..Len(lines) : h[i] = ApplyLine(h[i - 1], lines[i])
<1> DEFINE step(n, f) == [i \in 0..n |-> IF i = 0 THEN s ELSE ApplyLine(f[i - 1], lines[i])]
           h == CHOOSE f : f = step(Len(lines), f)
<1>1. ApplyLines(s, lines) = h[Len(lines)]
  BY DEF ApplyLines
<1>2. \E f : f = step(Len(lines), f)
  <2> DEFINE T == {n \in Nat : \E f : f = step(n, f)}
  <2>1. 0 \in T
    <3> DEFINE f0 == [i \in 0..0 |-> s]
    <3>1. f0 = step(0, f0)
      OBVIOUS
    <3> HIDE DEF f0, step
    <3> QED
      BY <3>1
  <2>2. ASSUME NEW n \in T
        PROVE  n + 1 \in T
    <3>1. n \in Nat
      OBVIOUS
    <3>2. PICK f : f = step(n, f)
      OBVIOUS
    <3> DEFINE last == ApplyLine(f[n], lines[n + 1])
               g == [i \in 0..n + 1 |-> IF i = n + 1 THEN last ELSE f[i]]
    <3> HIDE DEF last
    <3>3. \A i \in 0..n + 1 : g[i] = step(n + 1, g)[i]
      <4> TAKE i \in 0..n + 1
      <4>1. CASE i = n + 1
        <5>1. (n + 1) - 1 = n /\ n \in 0..n + 1 /\ n # n + 1 /\ n + 1 # 0
          BY <3>1
        <5>2. g[n] = f[n]
          BY <5>1
        <5>3. g[n + 1] = last
          BY <3>1
        <5>4. step(n + 1, g)[n + 1]
                = IF n + 1 = 0 THEN s ELSE ApplyLine(g[(n + 1) - 1], lines[n + 1])
          BY <4>1, Zenon
        <5>5. step(n + 1, g)[n + 1] = last
          <6> HIDE DEF g, step
          <6> QED
            BY <5>1, <5>2, <5>4 DEF last
        <5> QED
          BY <4>1, <5>3, <5>5
      <4>2. CASE i # n + 1
        <5>1. i \in 0..n
          BY <3>1, <4>2
        <5>2. f[i] = IF i = 0 THEN s ELSE ApplyLine(f[i - 1], lines[i])
          BY <3>2, <5>1, Zenon
        <5>3. i # 0 => i - 1 \in 0..n + 1 /\ i - 1 # n + 1
          BY <3>1, <5>1
        <5>4. i # 0 => g[i - 1] = f[i - 1]
          BY <5>3
        <5> QED
          BY <4>2, <5>2, <5>4
      <4> QED
        BY <4>1, <4>2
    <3>4. g = step(n + 1, g)
      <4>1. DOMAIN g = 0..n + 1 /\ g = [i \in 0..n + 1 |-> g[i]]
        OBVIOUS
      <4>2. step(n + 1, g) = [i \in 0..n + 1 |-> step(n + 1, g)[i]]
        OBVIOUS
      <4> HIDE DEF g, step
      <4> QED
        BY <3>3, <4>1, <4>2
    <3>5. n + 1 \in Nat
      BY <3>1
    <3> HIDE DEF g, step
    <3> QED
      BY <3>4, <3>5
  <2> HIDE DEF T
  <2>3. T = Nat
    <3>1. T \subseteq Nat
      BY DEF T
    <3> QED
      BY <2>1, <2>2, <3>1, InductionOnNat
  <2> QED
    BY <2>3 DEF T
<1>3. h = step(Len(lines), h)
  BY <1>2
<1> HIDE DEF h
<1>4. \A i \in 0..Len(lines) : h[i] = IF i = 0 THEN s ELSE ApplyLine(h[i - 1], lines[i])
  BY <1>3, Zenon
<1>5. h[0] = s
  BY <1>4
<1>6. \A i \in 1..Len(lines) : h[i] = ApplyLine(h[i - 1], lines[i])
  <2>1. \A i \in 1..Len(lines) : i \in 0..Len(lines) /\ i # 0
    OBVIOUS
  <2> QED
    BY <1>4, <2>1, Zenon
<1> QED
  BY <1>1, <1>5, <1>6

LEMMA CutFacts ==
  ASSUME NEW bytes \in Seq(STRING)
  PROVE  Cut(bytes).lines \in Seq(Seq(STRING)) /\ Cut(bytes).rest \in Seq(STRING)
<1> DEFINE N == Len(bytes)
           OK(s) == s.lines \in Seq(Seq(STRING)) /\ s.rest \in Seq(STRING)
<1>1. N \in Nat /\ \A i \in 1..N : bytes[i] \in STRING
  OBVIOUS
<1>2. PICK h : /\ Cut(bytes) = h[N] /\ h[0] = NoBytes
               /\ \A i \in 1..N : h[i] = NextByte(h[i - 1], bytes[i])
  BY <1>1, CutUnfolds
<1> HIDE DEF N
<1> DEFINE T == {n \in Nat : n \in 0..N => OK(h[n])}
<1>3. 0 \in T
  <2>1. NoBytes.lines = <<>> /\ NoBytes.rest = <<>>
    BY DEF NoBytes
  <2>2. <<>> \in Seq(Seq(STRING)) /\ <<>> \in Seq(STRING)
    OBVIOUS
  <2> QED
    BY <1>2, <2>1, <2>2
<1>4. ASSUME NEW n \in T
      PROVE  n + 1 \in T
  <2> SUFFICES ASSUME n + 1 \in 0..N
               PROVE  OK(h[n + 1])
    OBVIOUS
  <2>1. n \in Nat /\ n \in 0..N /\ n + 1 \in 1..N /\ (n + 1) - 1 = n
    BY <1>1
  <2>2. OK(h[n])
    BY <2>1
  <2>3. h[n + 1] = NextByte(h[n], bytes[n + 1]) /\ bytes[n + 1] \in STRING
    BY <1>1, <1>2, <2>1
  <2> DEFINE g == h[n]
             b == bytes[n + 1]
  <2>4. NextByte(g, b).lines = IF b = "n" THEN Append(g.lines, g.rest) ELSE g.lines
    BY DEF NextByte
  <2>5. NextByte(g, b).rest = IF b = "n" THEN <<>> ELSE Append(g.rest, b)
    BY DEF NextByte
  <2>6. Append(g.lines, g.rest) \in Seq(Seq(STRING)) /\ Append(g.rest, b) \in Seq(STRING)
    BY <2>2, <2>3
  <2>7. <<>> \in Seq(STRING)
    OBVIOUS
  <2> HIDE DEF g, b
  <2>8. OK(NextByte(g, b))
    BY <2>2, <2>4, <2>5, <2>6, <2>7 DEF g
  <2> QED
    BY <2>3, <2>8 DEF g, b
<1> HIDE DEF T
<1>5. T = Nat
  <2>1. T \subseteq Nat
    BY DEF T
  <2> QED
    BY <1>3, <1>4, <2>1, InductionOnNat
<1>6. N \in T /\ N \in 0..N
  BY <1>1, <1>5
<1> QED
  BY <1>2, <1>6 DEF T

LEMMA ApplyLinesGood ==
  ASSUME NEW s, Good(s), NEW lines, Len(lines) \in Nat
  PROVE  Good(ApplyLines(s, lines))
<1> DEFINE N == Len(lines)
<1>1. PICK h : /\ ApplyLines(s, lines) = h[N] /\ h[0] = s
               /\ \A i \in 1..N : h[i] = ApplyLine(h[i - 1], lines[i])
  BY LinesUnfold
<1> HIDE DEF N
<1>2. N \in Nat
  BY DEF N
<1> DEFINE T == {n \in Nat : n \in 0..N => Good(h[n])}
<1>3. 0 \in T
  BY <1>1
<1>4. ASSUME NEW n \in T
      PROVE  n + 1 \in T
  <2> SUFFICES ASSUME n + 1 \in 0..N
               PROVE  Good(h[n + 1])
    OBVIOUS
  <2>1. n \in Nat /\ n \in 0..N /\ n + 1 \in 1..N /\ (n + 1) - 1 = n
    BY <1>2
  <2>2. Good(h[n]) /\ h[n + 1] = ApplyLine(h[n], lines[n + 1])
    BY <1>1, <2>1
  <2> QED
    BY <2>2, ApplyLineGood
<1> HIDE DEF T
<1>5. T = Nat
  <2>1. T \subseteq Nat
    BY DEF T
  <2> QED
    BY <1>3, <1>4, <2>1, InductionOnNat
<1>6. N \in T /\ N \in 0..N
  BY <1>2, <1>5
<1> QED
  BY <1>1, <1>6 DEF T

\* flush_copy_buffer, in the middle of the file or at its end.
LEMMA FlushBufferGood ==
  ASSUME NEW s, Good(s), NEW final \in BOOLEAN
  PROVE  Good(FlushBuffer(s, final))
<1> DEFINE cut == Cut(s.buffer)
           lines == IF final /\ cut.rest # <<>> THEN Append(cut.lines, cut.rest) ELSE cut.lines
           end == ApplyLines(s, lines)
           left == IF final THEN <<>> ELSE Drained(cut.rest)
<1>1. cut.lines \in Seq(Seq(STRING)) /\ cut.rest \in Seq(STRING)
  BY CutFacts DEF Good, IsServer
<1>2. FlushBuffer(s, final) = IF end.failed THEN end ELSE [end EXCEPT !.buffer = left]
  BY DEF FlushBuffer
<1> HIDE DEF cut
<1>3. left \in Seq(STRING)
  <2>1. <<>> \in Seq(STRING) /\ Drained(cut.rest) \in Seq(STRING)
    BY <1>1 DEF Drained
  <2> QED
    BY <2>1
<1>4. Len(lines) \in Nat
  <2>1. Append(cut.lines, cut.rest) \in Seq(Seq(STRING))
    BY <1>1
  <2>2. lines \in Seq(Seq(STRING))
    BY <1>1, <2>1
  <2> HIDE DEF lines
  <2> QED
    BY <2>2
<1> HIDE DEF lines
<1>5. Good(end)
  BY <1>4, ApplyLinesGood
<1> HIDE DEF end, left
<1>6. Good([end EXCEPT !.buffer = left])
  <2> DEFINE g == [end EXCEPT !.buffer = left]
  <2>1. HasFields(end)
    BY <1>5 DEF Good, IsServer
  <2>2. /\ HasFields(g) /\ g.buffer = left /\ g.pending = end.pending /\ g.rows = end.rows
        /\ g.index = end.index /\ g.failed = end.failed
    BY <2>1, SetBuffer
  <2> HIDE DEF g
  <2>3. Good(g)
    BY <1>3, <1>5, <2>2 DEF Good, IsServer
  <2> QED
    BY <2>3 DEF g
<1> QED
  BY <1>2, <1>5, <1>6

-----------------------------------------------------------------------------
(***************************************************************************)
(* The messages.                                                           *)
(***************************************************************************)
CopyInv ==
  /\ file.bytes \in Seq(STRING) /\ sent \in Nat
  /\ UniqueRows(copied, entries)
  /\ reply = "open" => Good(Server)

LEMMA ServerFields ==
  /\ HasFields(Server)
  /\ Server.buffer = copying.buffer /\ Server.pending = copying.pending
  /\ Server.rows = copied /\ Server.index = entries /\ (Server.failed = FALSE)
  BY DEF Server, HasFields, Fields

\* What a handler leaves is what the next one finds.
LEMMA LeaveGood ==
  ASSUME NEW s, Good(s), Leave(s), s.failed => reply' # "open"
  PROVE  UniqueRows(copied, entries)' /\ (reply' = "open" => Good(Server)')
<1>1. /\ copied' = s.rows /\ entries' = s.index
      /\ copying'.buffer = s.buffer /\ copying'.pending = s.pending
  BY DEF Leave
<1>2. UniqueRows(copied, entries)'
  BY <1>1 DEF Good, UniqueRows
<1>3. /\ HasFields(Server)' /\ Server'.buffer = s.buffer /\ Server'.pending = s.pending
      /\ Server'.rows = s.rows /\ Server'.index = s.index
  BY <1>1 DEF Server, HasFields, Fields
<1>4. ASSUME reply' = "open"
      PROVE  Good(Server)'
  <2>1. ~s.failed /\ Waiting(s.pending, s.index)
    BY <1>4 DEF Good
  <2>2. IsServer(s) /\ UniqueRows(s.rows, s.index)
    BY DEF Good
  <2> QED
    BY <1>3, <2>1, <2>2 DEF Good, IsServer, UniqueRows, Waiting, HasFields
<1> QED
  BY <1>2, <1>4

LEMMA CopyInvStarts ==
  ASSUME NEW f, CopyInit(f), f.bytes \in Seq(STRING),
         \A a, b \in DOMAIN f.before :
           f.before[a] = f.before[b] /\ f.before[a] # NullField => a = b
  PROVE  CopyInv
<1>1. /\ file = f /\ sent = 0 /\ copied = f.before /\ entries = EntriesOf(f.before)
      /\ copying.buffer = <<>> /\ copying.pending = <<>>
  BY DEF CopyInit
<1>2. UniqueRows(copied, entries)
  BY <1>1 DEF UniqueRows, EntriesOf
<1>3. <<>> \in Seq(STRING) /\ <<>> \in Seq(Writes) /\ DOMAIN <<>> = {}
  OBVIOUS
<1>4. Good(Server)
  BY <1>1, <1>2, <1>3, ServerFields DEF Good, IsServer, Waiting
<1> QED
  BY <1>1, <1>2, <1>4 DEF CopyInv

LEMMA CopyInvStep ==
  ASSUME CopyInv, [CopyNext]_copyVars
  PROVE  CopyInv'
<1>1. ASSUME NEW n \in 1..Len(file.bytes), OnCopyData(n)
      PROVE  CopyInv'
  <2> DEFINE more == SubSeq(file.bytes, sent + 1, sent + n)
             before == [Server EXCEPT !.buffer = @ \o more]
             s == FlushBuffer(before, FALSE)
  <2>1. /\ reply = "open" /\ sent + n <= Len(file.bytes) /\ Leave(s) /\ sent' = sent + n
        /\ (reply' = IF s.failed THEN "failed" ELSE reply) /\ file' = file
    BY <1>1 DEF OnCopyData
  <2>2. Good(Server) /\ file.bytes \in Seq(STRING) /\ sent \in Nat /\ n \in Nat
    BY <2>1 DEF CopyInv
  <2>3. more \in Seq(STRING)
    BY <2>1, <2>2
  <2>4. Server.buffer \o more \in Seq(STRING)
    <3> HIDE DEF more
    <3> QED
      BY <2>2, <2>3 DEF Good, IsServer
  <2> HIDE DEF more
  <2>5. Good(before)
    <3>1. before = [Server EXCEPT !.buffer = Server.buffer \o more]
      OBVIOUS
    <3>2. /\ HasFields(before) /\ before.buffer = Server.buffer \o more
          /\ before.pending = Server.pending /\ before.rows = Server.rows
          /\ before.index = Server.index /\ before.failed = Server.failed
      <4> HIDE DEF before
      <4> QED
        BY <3>1, ServerFields DEF HasFields, Fields
    <3> HIDE DEF before
    <3> QED
      BY <2>2, <2>4, <3>2 DEF Good, IsServer
  <2>6. Good(s)
    <3> HIDE DEF before
    <3> QED
      BY <2>5, FlushBufferGood
  <2> HIDE DEF s
  <2>7. s.failed => reply' # "open"
    BY <2>1
  <2>8. UniqueRows(copied, entries)' /\ (reply' = "open" => Good(Server)')
    BY <2>1, <2>6, <2>7, LeaveGood
  <2>9. file'.bytes \in Seq(STRING) /\ sent' \in Nat
    BY <2>1, <2>2
  <2> QED
    BY <2>8, <2>9 DEF CopyInv
<1>2. CASE OnCopyDone
  <2> DEFINE t == FlushBuffer(Server, TRUE)
             s == FinishWrites(t)
  <2>1. /\ reply = "open" /\ Leave(s) /\ (reply' = IF s.failed THEN "failed" ELSE "done")
        /\ file' = file /\ sent' = sent
    BY <1>2 DEF OnCopyDone
  <2>2. Good(t)
    BY <2>1, FlushBufferGood DEF CopyInv
  <2>3. Good(s)
    <3> HIDE DEF t
    <3>1. ~t.failed => Good(FlushWrites(t))
      BY <2>2, FlushGood
    <3> QED
      BY <2>2, <3>1 DEF FinishWrites
  <2> HIDE DEF s
  <2>4. reply' # "open"
    BY <2>1
  <2>5. UniqueRows(copied, entries)'
    BY <2>1, <2>3, <2>4, LeaveGood
  <2> QED
    BY <2>1, <2>4, <2>5 DEF CopyInv
<1>3. CASE OnCopyFail
  BY <1>3 DEF OnCopyFail, CopyInv, UniqueRows
<1>4. CASE UNCHANGED copyVars
  <2>1. Server' = Server
    BY <1>4 DEF copyVars, Server
  <2>2. Good(Server)' = Good(Server)
    BY <2>1 DEF Good, IsServer, UniqueRows, Waiting, HasFields
  <2> QED
    BY <1>4, <2>2 DEF copyVars, CopyInv, UniqueRows
<1> QED
  BY <1>1, <1>2, <1>3, <1>4 DEF CopyNext

\* No two rows in the store share a value of the unique index and the index finds every
\* row: at any moment of any COPY or LOAD DATA, for any file, cut into messages anywhere,
\* with batches of any size, into a table whose rows had different values before.  A line
\* is compared with the store and with the writes that wait for their batch.
THEOREM CopiesStayUnique ==
  ASSUME NEW CONSTANT files,
         \A f \in files : /\ f.bytes \in Seq(STRING)
                          /\ \A a, b \in DOMAIN f.before :
                               f.before[a] = f.before[b] /\ f.before[a] # NullField => a = b
  PROVE  CopySpec(files) => []CopyKeepsUnique
<1>1. (\E f \in files : CopyInit(f)) => CopyInv
  BY CopyInvStarts
<1>2. CopyInv /\ [CopyNext]_copyVars => CopyInv'
  BY CopyInvStep
<1>3. CopyInv => CopyKeepsUnique
  BY DEF CopyInv, UniqueRows, CopyKeepsUnique, EntriesOf
<1> QED
  BY <1>1, <1>2, <1>3, PTL DEF CopySpec

-----------------------------------------------------------------------------
(***************************************************************************)
(* A file read in one piece: the bytes cut into lines, the lines with data *)
(* among them, and what the store holds after each.                        *)
(***************************************************************************)
WithRow(s, key, value) ==
  [rows |-> [k \in DOMAIN s.rows \cup {key} |-> IF k = key THEN value ELSE s.rows[k]],
   index |-> s.index \cup {<<value, key>>}]
AfterLines(f, lines, n) ==
  LET next(s, line) == WithRow(s, SplitFields(f, line)[1], SplitFields(f, line)[2])
      after[i \in 0..Len(lines)] ==
        IF i = 0 THEN [rows |-> f.before, index |-> EntriesOf(f.before)]
        ELSE next(after[i - 1], lines[i])
  IN after[n]

KeepData(d, line) == IF IsData(line) THEN Append(d, Stripped(line)) ELSE d
Begun(f) == [rows |-> f.before, index |-> EntriesOf(f.before)]
StoreLine(f, s, line) == WithRow(s, SplitFields(f, line)[1], SplitFields(f, line)[2])

LEMMA DataUnfolds ==
  ASSUME NEW lines, Len(lines) \in Nat
  PROVE  \E h : /\ LinesWithData(lines) = h[Len(lines)] /\ h[0] = <<>>
                /\ \A i \in 1..Len(lines) : h[i] = KeepData(h[i - 1], lines[i])
<1> DEFINE step(n, f) == [i \in 0..n |-> IF i = 0 THEN <<>> ELSE KeepData(f[i - 1], lines[i])]
           h == CHOOSE f : f = step(Len(lines), f)
<1>1. LinesWithData(lines) = h[Len(lines)]
  BY DEF LinesWithData, KeepData
<1>2. \E f : f = step(Len(lines), f)
  <2> DEFINE T == {n \in Nat : \E f : f = step(n, f)}
  <2>1. 0 \in T
    <3> DEFINE f0 == [i \in 0..0 |-> <<>>]
    <3>1. f0 = step(0, f0)
      OBVIOUS
    <3> HIDE DEF f0, step
    <3> QED
      BY <3>1
  <2>2. ASSUME NEW n \in T
        PROVE  n + 1 \in T
    <3>1. n \in Nat
      OBVIOUS
    <3>2. PICK f : f = step(n, f)
      OBVIOUS
    <3> DEFINE last == KeepData(f[n], lines[n + 1])
               g == [i \in 0..n + 1 |-> IF i = n + 1 THEN last ELSE f[i]]
    <3> HIDE DEF last
    <3>3. \A i \in 0..n + 1 : g[i] = step(n + 1, g)[i]
      <4> TAKE i \in 0..n + 1
      <4>1. CASE i = n + 1
        <5>1. (n + 1) - 1 = n /\ n \in 0..n + 1 /\ n # n + 1 /\ n + 1 # 0
          BY <3>1
        <5>2. g[n] = f[n]
          BY <5>1
        <5>3. g[n + 1] = last
          BY <3>1
        <5>4. step(n + 1, g)[n + 1]
                = IF n + 1 = 0 THEN <<>> ELSE KeepData(g[(n + 1) - 1], lines[n + 1])
          BY <4>1, Zenon
        <5>5. step(n + 1, g)[n + 1] = last
          <6> HIDE DEF g, step
          <6> QED
            BY <5>1, <5>2, <5>4 DEF last
        <5> QED
          BY <4>1, <5>3, <5>5
      <4>2. CASE i # n + 1
        <5>1. i \in 0..n
          BY <3>1, <4>2
        <5>2. f[i] = IF i = 0 THEN <<>> ELSE KeepData(f[i - 1], lines[i])
          BY <3>2, <5>1, Zenon
        <5>3. i # 0 => i - 1 \in 0..n + 1 /\ i - 1 # n + 1
          BY <3>1, <5>1
        <5>4. i # 0 => g[i - 1] = f[i - 1]
          BY <5>3
        <5> QED
          BY <4>2, <5>2, <5>4
      <4> QED
        BY <4>1, <4>2
    <3>4. g = step(n + 1, g)
      <4>1. DOMAIN g = 0..n + 1 /\ g = [i \in 0..n + 1 |-> g[i]]
        OBVIOUS
      <4>2. step(n + 1, g) = [i \in 0..n + 1 |-> step(n + 1, g)[i]]
        OBVIOUS
      <4> HIDE DEF g, step
      <4> QED
        BY <3>3, <4>1, <4>2
    <3>5. n + 1 \in Nat
      BY <3>1
    <3> HIDE DEF g, step
    <3> QED
      BY <3>4, <3>5
  <2> HIDE DEF T
  <2>3. T = Nat
    <3>1. T \subseteq Nat
      BY DEF T
    <3> QED
      BY <2>1, <2>2, <3>1, InductionOnNat
  <2> QED
    BY <2>3 DEF T
<1>3. h = step(Len(lines), h)
  BY <1>2
<1> HIDE DEF h
<1>4. \A i \in 0..Len(lines) : h[i] = IF i = 0 THEN <<>> ELSE KeepData(h[i - 1], lines[i])
  BY <1>3, Zenon
<1>5. h[0] = <<>>
  BY <1>4
<1>6. \A i \in 1..Len(lines) : h[i] = KeepData(h[i - 1], lines[i])
  <2>1. \A i \in 1..Len(lines) : i \in 0..Len(lines) /\ i # 0
    OBVIOUS
  <2> QED
    BY <1>4, <2>1, Zenon
<1> QED
  BY <1>1, <1>5, <1>6

StoreSteps(f, lines, h) ==
  /\ \A n : AfterLines(f, lines, n) = h[n]
  /\ h[0] = Begun(f)
  /\ \A i \in 1..Len(lines) : h[i] = StoreLine(f, h[i - 1], lines[i])

LEMMA StoreUnfolds ==
  ASSUME NEW f, NEW lines, Len(lines) \in Nat
  PROVE  \E h : StoreSteps(f, lines, h)
<1> DEFINE step(n, z) ==
             [i \in 0..n |-> IF i = 0 THEN Begun(f) ELSE StoreLine(f, z[i - 1], lines[i])]
           h == CHOOSE z : z = step(Len(lines), z)
<1>1. \A n : AfterLines(f, lines, n) = h[n]
  BY DEF AfterLines, StoreLine, Begun
<1>2. \E z : z = step(Len(lines), z)
  <2> DEFINE T == {n \in Nat : \E z : z = step(n, z)}
  <2>1. 0 \in T
    <3> DEFINE f0 == [i \in 0..0 |-> Begun(f)]
    <3>1. f0 = step(0, f0)
      OBVIOUS
    <3> HIDE DEF f0, step
    <3> QED
      BY <3>1
  <2>2. ASSUME NEW n \in T
        PROVE  n + 1 \in T
    <3>1. n \in Nat
      OBVIOUS
    <3>2. PICK z : z = step(n, z)
      OBVIOUS
    <3> DEFINE last == StoreLine(f, z[n], lines[n + 1])
               g == [i \in 0..n + 1 |-> IF i = n + 1 THEN last ELSE z[i]]
    <3> HIDE DEF last
    <3>3. \A i \in 0..n + 1 : g[i] = step(n + 1, g)[i]
      <4> TAKE i \in 0..n + 1
      <4>1. CASE i = n + 1
        <5>1. (n + 1) - 1 = n /\ n \in 0..n + 1 /\ n # n + 1 /\ n + 1 # 0
          BY <3>1
        <5>2. g[n] = z[n]
          BY <5>1
        <5>3. g[n + 1] = last
          BY <3>1
        <5>4. step(n + 1, g)[n + 1]
                = IF n + 1 = 0 THEN Begun(f) ELSE StoreLine(f, g[(n + 1) - 1], lines[n + 1])
          BY <4>1, Zenon
        <5>5. step(n + 1, g)[n + 1] = last
          <6> HIDE DEF g, step
          <6> QED
            BY <5>1, <5>2, <5>4 DEF last
        <5> QED
          BY <4>1, <5>3, <5>5
      <4>2. CASE i # n + 1
        <5>1. i \in 0..n
          BY <3>1, <4>2
        <5>2. z[i] = IF i = 0 THEN Begun(f) ELSE StoreLine(f, z[i - 1], lines[i])
          BY <3>2, <5>1, Zenon
        <5>3. i # 0 => i - 1 \in 0..n + 1 /\ i - 1 # n + 1
          BY <3>1, <5>1
        <5>4. i # 0 => g[i - 1] = z[i - 1]
          BY <5>3
        <5> QED
          BY <4>2, <5>2, <5>4
      <4> QED
        BY <4>1, <4>2
    <3>4. g = step(n + 1, g)
      <4>1. DOMAIN g = 0..n + 1 /\ g = [i \in 0..n + 1 |-> g[i]]
        OBVIOUS
      <4>2. step(n + 1, g) = [i \in 0..n + 1 |-> step(n + 1, g)[i]]
        OBVIOUS
      <4> HIDE DEF g, step
      <4> QED
        BY <3>3, <4>1, <4>2
    <3>5. n + 1 \in Nat
      BY <3>1
    <3> HIDE DEF g, step
    <3> QED
      BY <3>4, <3>5
  <2> HIDE DEF T
  <2>3. T = Nat
    <3>1. T \subseteq Nat
      BY DEF T
    <3> QED
      BY <2>1, <2>2, <3>1, InductionOnNat
  <2> QED
    BY <2>3 DEF T
<1>3. h = step(Len(lines), h)
  BY <1>2
<1> HIDE DEF h
<1>4. \A i \in 0..Len(lines) :
        h[i] = IF i = 0 THEN Begun(f) ELSE StoreLine(f, h[i - 1], lines[i])
  BY <1>3, Zenon
<1>5. h[0] = Begun(f)
  BY <1>4
<1>6. \A i \in 1..Len(lines) : h[i] = StoreLine(f, h[i - 1], lines[i])
  <2>1. \A i \in 1..Len(lines) : i \in 0..Len(lines) /\ i # 0
    OBVIOUS
  <2> QED
    BY <1>4, <2>1, Zenon
<1>7. StoreSteps(f, lines, h)
  BY <1>1, <1>5, <1>6 DEF StoreSteps
<1> QED
  BY <1>7
-----------------------------------------------------------------------------
(***************************************************************************)
(* How the lines of the messages make up the lines of the file.            *)
(***************************************************************************)
CutSteps(h, bytes) ==
  h[0] = NoBytes /\ \A i \in 1..Len(bytes) : h[i] = NextByte(h[i - 1], bytes[i])

\* A rest is a sequence of bytes without a newline.
IsRest(rest) == rest \in Seq(STRING) /\ \A i \in 1..Len(rest) : rest[i] # "n"
IsCut(s) == s.lines \in Seq(Seq(STRING)) /\ IsRest(s.rest)

\* e cuts the first n of bs.
Cuts(e, bs, n) ==
  /\ \A i \in 0..n : IsCut(e[i])
  /\ \A i \in 1..n : bs[i] \in STRING /\ e[i] = NextByte(e[i - 1], bs[i])

LEMMA ConcatAppend ==
  ASSUME NEW a \in Seq(Seq(STRING)), NEW b \in Seq(Seq(STRING)), NEW x \in Seq(STRING)
  PROVE  Append(a \o b, x) = a \o Append(b, x)
<1> DEFINE S == Seq(STRING)
<1>0. a \in Seq(S) /\ b \in Seq(S) /\ x \in S
  OBVIOUS
<1> HIDE DEF S
<1>1. a \o b \in Seq(S) /\ Append(b, x) \in Seq(S)
  BY <1>0
<1>2. /\ Append(a \o b, x) \in Seq(S) /\ a \o Append(b, x) \in Seq(S)
      /\ Len(Append(a \o b, x)) = Len(a \o Append(b, x))
  BY <1>0, <1>1
<1>3. \A i \in 1..Len(Append(a \o b, x)) : Append(a \o b, x)[i] = (a \o Append(b, x))[i]
  BY <1>0, <1>1, <1>2
<1> QED
  BY <1>2, <1>3, SeqEqual

LEMMA NextByteFacts ==
  ASSUME NEW s, IsCut(s), NEW b \in STRING
  PROVE  /\ IsCut(NextByte(s, b))
         /\ b = "n" =>
              NextByte(s, b).lines = Append(s.lines, s.rest) /\ NextByte(s, b).rest = <<>>
         /\ b # "n" => NextByte(s, b).lines = s.lines /\ NextByte(s, b).rest = Append(s.rest, b)
<1>1. b = "n" => NextByte(s, b).lines = Append(s.lines, s.rest) /\ NextByte(s, b).rest = <<>>
  BY DEF NextByte
<1>2. b # "n" => NextByte(s, b).lines = s.lines /\ NextByte(s, b).rest = Append(s.rest, b)
  BY DEF NextByte
<1>3. CASE b = "n"
  <2>1. Append(s.lines, s.rest) \in Seq(Seq(STRING))
    BY DEF IsCut, IsRest
  <2>2. <<>> \in Seq(STRING) /\ Len(<<>>) = 0
    OBVIOUS
  <2>3. IsRest(<<>>)
    BY <2>2 DEF IsRest
  <2> QED
    BY <1>1, <1>3, <2>1, <2>3 DEF IsCut
<1>4. CASE b # "n"
  <2>1. s.rest \in Seq(STRING) /\ \A i \in 1..Len(s.rest) : s.rest[i] # "n"
    BY DEF IsCut, IsRest
  <2> DEFINE r == s.rest
             a == Append(r, b)
  <2>2. a \in Seq(STRING) /\ Len(a) = Len(r) + 1 /\ Len(r) \in Nat
    BY <2>1
  <2>3. \A i \in 1..Len(a) : a[i] = IF i = Len(r) + 1 THEN b ELSE r[i]
    BY <2>1
  <2>4. \A i \in 1..Len(a) : i = Len(r) + 1 \/ i \in 1..Len(r)
    BY <2>2
  <2> HIDE DEF r, a
  <2>5. \A i \in 1..Len(a) : a[i] # "n"
    BY <1>4, <2>1, <2>3, <2>4 DEF r
  <2>6. IsRest(a)
    BY <2>2, <2>5 DEF IsRest
  <2> QED
    BY <1>2, <1>4, <2>6 DEF IsCut, r, a
<1> QED
  BY <1>1, <1>2, <1>3, <1>4

LEMMA CutsTyped ==
  ASSUME NEW bytes \in Seq(STRING), NEW h, CutSteps(h, bytes)
  PROVE  \A i \in 0..Len(bytes) : IsCut(h[i])
<1> DEFINE N == Len(bytes)
           T == {n \in Nat : n \in 0..N => IsCut(h[n])}
<1>1. N \in Nat /\ \A i \in 1..N : bytes[i] \in STRING
  OBVIOUS
<1> HIDE DEF N
<1>2. h[0] = NoBytes /\ \A i \in 1..N : h[i] = NextByte(h[i - 1], bytes[i])
  BY DEF CutSteps, N
<1>3. 0 \in T
  <2>1. NoBytes.lines = <<>> /\ NoBytes.rest = <<>>
    BY DEF NoBytes
  <2>2. <<>> \in Seq(Seq(STRING)) /\ <<>> \in Seq(STRING) /\ Len(<<>>) = 0
    OBVIOUS
  <2>3. IsCut(NoBytes)
    BY <2>1, <2>2 DEF IsCut, IsRest
  <2> QED
    BY <1>2, <2>3
<1>4. ASSUME NEW n \in T
      PROVE  n + 1 \in T
  <2> SUFFICES ASSUME n + 1 \in 0..N
               PROVE  IsCut(h[n + 1])
    OBVIOUS
  <2>1. n \in Nat /\ n \in 0..N /\ n + 1 \in 1..N /\ (n + 1) - 1 = n
    BY <1>1
  <2>2. IsCut(h[n]) /\ h[n + 1] = NextByte(h[n], bytes[n + 1]) /\ bytes[n + 1] \in STRING
    BY <1>1, <1>2, <2>1
  <2> QED
    BY <2>2, NextByteFacts
<1> HIDE DEF T
<1>5. T = Nat
  <2>1. T \subseteq Nat
    BY DEF T
  <2> QED
    BY <1>3, <1>4, <2>1, InductionOnNat
<1>6. \A i \in 0..N : i \in T
  BY <1>1, <1>5
<1> QED
  BY <1>6 DEF T, N

\* The lines found so far are the first of those found in the end.
LEMMA LinesArePrefix ==
  ASSUME NEW bytes \in Seq(STRING), NEW h, CutSteps(h, bytes), NEW j \in 0..Len(bytes),
         NEW m \in j..Len(bytes)
  PROVE  /\ Len(h[j].lines) <= Len(h[m].lines)
         /\ \A i \in 1..Len(h[j].lines) : h[m].lines[i] = h[j].lines[i]
<1> DEFINE N == Len(bytes)
           P(n) == /\ Len(h[j].lines) <= Len(h[n].lines)
                   /\ \A i \in 1..Len(h[j].lines) : h[n].lines[i] = h[j].lines[i]
           T == {n \in Nat : j + n \in j..N => P(j + n)}
<1>1. N \in Nat /\ \A i \in 1..N : bytes[i] \in STRING
  OBVIOUS
<1>2. \A i \in 1..N : h[i] = NextByte(h[i - 1], bytes[i])
  BY DEF CutSteps
<1>3. \A i \in 0..N : IsCut(h[i])
  BY CutsTyped
<1>4. j \in 0..N /\ m \in j..N /\ j \in Nat
  OBVIOUS
<1> HIDE DEF N
<1>5. Len(h[j].lines) \in Nat
  BY <1>3, <1>4 DEF IsCut
<1>6. 0 \in T
  <2>1. j + 0 = j /\ P(j)
    BY <1>4, <1>5
  <2> QED
    BY <2>1
<1> HIDE DEF P
<1>7. ASSUME NEW n \in T
      PROVE  n + 1 \in T
  <2> SUFFICES ASSUME j + (n + 1) \in j..N
               PROVE  P(j + (n + 1))
    <3>1. n + 1 \in Nat
      OBVIOUS
    <3> QED
      BY <3>1
  <2> DEFINE k == j + n
  <2>1. /\ n \in Nat /\ k \in j..N /\ k \in 0..N /\ k + 1 \in 1..N /\ (k + 1) - 1 = k
        /\ j + (n + 1) = k + 1
    BY <1>1, <1>4
  <2> HIDE DEF k
  <2>2. P(k)
    BY <2>1 DEF k
  <2>3. IsCut(h[k]) /\ h[k + 1] = NextByte(h[k], bytes[k + 1]) /\ bytes[k + 1] \in STRING
    BY <1>1, <1>2, <1>3, <2>1
  <2>4. h[k + 1].lines = h[k].lines \/ h[k + 1].lines = Append(h[k].lines, h[k].rest)
    BY <2>3, NextByteFacts
  <2>5. h[k].lines \in Seq(Seq(STRING)) /\ h[k].rest \in Seq(STRING)
    BY <2>3 DEF IsCut, IsRest
  <2>6. P(k + 1)
    <3>1. CASE h[k + 1].lines = h[k].lines
      BY <2>2, <3>1 DEF P
    <3>2. CASE h[k + 1].lines = Append(h[k].lines, h[k].rest)
      <4> DEFINE q == h[k].lines
                 z == Append(q, h[k].rest)
      <4>1. Len(z) = Len(q) + 1 /\ Len(q) \in Nat /\ \A i \in 1..Len(q) : z[i] = q[i]
        BY <2>5
      <4>2. Len(h[j].lines) <= Len(q) /\ \A i \in 1..Len(h[j].lines) : q[i] = h[j].lines[i]
        BY <2>2 DEF P
      <4>3. h[k + 1].lines = z
        BY <3>2
      <4> HIDE DEF z, q
      <4>4. Len(h[j].lines) <= Len(z)
        BY <1>5, <4>1, <4>2
      <4>5. \A i \in 1..Len(h[j].lines) : z[i] = h[j].lines[i]
        BY <1>5, <4>1, <4>2
      <4> QED
        BY <4>3, <4>4, <4>5 DEF P
    <3> QED
      BY <2>4, <3>1, <3>2
  <2> QED
    BY <2>1, <2>6
<1> HIDE DEF T
<1>8. T = Nat
  <2>1. T \subseteq Nat
    BY DEF T
  <2> QED
    BY <1>6, <1>7, <2>1, InductionOnNat
<1>9. m - j \in T /\ j + (m - j) = m
  BY <1>1, <1>4, <1>8
<1>10. P(m)
  BY <1>4, <1>9 DEF T
<1> QED
  BY <1>10 DEF P

LEMMA OneByteMore ==
  ASSUME NEW S, NEW s \in Seq(S), NEW i \in Nat, i + 1 <= Len(s)
  PROVE  Append(SubSeq(s, 1, i), s[i + 1]) = SubSeq(s, 1, i + 1)
<1>1. /\ SubSeq(s, 1, i) \in Seq(S) /\ Len(SubSeq(s, 1, i)) = i
      /\ \A k \in 1..i : SubSeq(s, 1, i)[k] = s[k]
  OBVIOUS
<1>2. /\ SubSeq(s, 1, i + 1) \in Seq(S) /\ Len(SubSeq(s, 1, i + 1)) = i + 1
      /\ \A k \in 1..i + 1 : SubSeq(s, 1, i + 1)[k] = s[k]
  OBVIOUS
<1> DEFINE p == SubSeq(s, 1, i)
           q == SubSeq(s, 1, i + 1)
<1>3. s[i + 1] \in S
  OBVIOUS
<1> HIDE DEF p, q
<1>4. /\ Append(p, s[i + 1]) \in Seq(S) /\ Len(Append(p, s[i + 1])) = i + 1
      /\ \A k \in 1..i + 1 : Append(p, s[i + 1])[k] = s[k]
  BY <1>1, <1>3 DEF p
<1>5. Append(p, s[i + 1]) = q
  BY <1>2, <1>4, SeqEqual DEF q
<1> QED
  BY <1>5 DEF p, q

\* buf is rest with more after it; more is bytes from a + 1 to a + n.
Joined(buf, rest, more) ==
  /\ buf \in Seq(STRING) /\ Len(buf) = Len(rest) + Len(more)
  /\ \A i \in 1..Len(rest) : buf[i] = rest[i]
  /\ \A i \in 1..Len(more) : buf[Len(rest) + i] = more[i]
Piece(more, bytes, a, n) ==
  more \in Seq(STRING) /\ Len(more) = n /\ \A i \in 1..n : more[i] = bytes[a + i]

\* v cuts buf, a rest with more after it, from the n bytes of more on.
CutsAfter(v, buf, rest, more, n) ==
  /\ Cut(buf) = v[n] /\ v[0].lines = <<>> /\ v[0].rest = rest
  /\ Cuts(v, more, n)

LEMMA BufferFacts ==
  ASSUME NEW rest \in Seq(STRING), NEW more \in Seq(STRING)
  PROVE  Joined(rest \o more, rest, more)
  BY DEF Joined

\* Cutting a rest again: no line ends in it.
LEMMA RestStays ==
  ASSUME NEW rest, IsRest(rest), NEW R \in Nat, R = Len(rest), NEW e, e[0] = NoBytes,
         Cuts(e, rest, R)
  PROVE  e[R].lines = <<>> /\ e[R].rest = rest
<1> USE DEF Cuts
<1> DEFINE T == {i \in Nat : i \in 0..R => e[i].lines = <<>> /\ e[i].rest = SubSeq(rest, 1, i)}
<1>0. rest \in Seq(STRING) /\ \A i \in 1..R : rest[i] # "n" /\ rest[i] \in STRING
  BY DEF IsRest
<1>1. 0 \in T
  <2>1. SubSeq(rest, 1, 0) = <<>>
    BY <1>0
  <2>2. e[0].lines = <<>> /\ e[0].rest = <<>>
    BY DEF NoBytes
  <2> QED
    BY <2>1, <2>2
<1>2. ASSUME NEW i \in T
      PROVE  i + 1 \in T
  <2> SUFFICES ASSUME i + 1 \in 0..R
               PROVE  e[i + 1].lines = <<>> /\ e[i + 1].rest = SubSeq(rest, 1, i + 1)
    OBVIOUS
  <2>1. i \in Nat /\ i \in 0..R /\ i + 1 \in 1..R /\ (i + 1) - 1 = i /\ i + 1 <= R
    OBVIOUS
  <2>2. e[i].lines = <<>> /\ e[i].rest = SubSeq(rest, 1, i) /\ IsCut(e[i])
    BY <2>1
  <2>3. e[i + 1] = NextByte(e[i], rest[i + 1]) /\ rest[i + 1] # "n" /\ rest[i + 1] \in STRING
    BY <1>0, <2>1
  <2> DEFINE b == rest[i + 1]
  <2> HIDE DEF b
  <2>4. NextByte(e[i], b).lines = e[i].lines /\ NextByte(e[i], b).rest = Append(e[i].rest, b)
    BY <2>2, <2>3, NextByteFacts DEF b
  <2>5. e[i + 1].lines = <<>> /\ e[i + 1].rest = Append(SubSeq(rest, 1, i), rest[i + 1])
    BY <2>2, <2>3, <2>4 DEF b
  <2> QED
    BY <1>0, <2>1, <2>5, OneByteMore
<1> HIDE DEF T
<1>3. T = Nat
  <2>1. T \subseteq Nat
    BY DEF T
  <2> QED
    BY <1>1, <1>2, <2>1, InductionOnNat
<1>4. R \in T /\ R \in 0..R
  BY <1>3
<1>5. e[R].lines = <<>> /\ e[R].rest = SubSeq(rest, 1, R)
  BY <1>4 DEF T
<1>6. SubSeq(rest, 1, R) = rest
  BY <1>0
<1> QED
  BY <1>5, <1>6

\* The same bytes, cut after other lines.
LEMMA SameCut ==
  ASSUME NEW n \in Nat, NEW u, NEW v, NEW bs, NEW L \in Seq(Seq(STRING)),
         Cuts(u, bs, n), Cuts(v, bs, n),
         u[0].lines = L \o v[0].lines, u[0].rest = v[0].rest
  PROVE  u[n].lines = L \o v[n].lines /\ u[n].rest = v[n].rest
<1> USE DEF Cuts
<1> DEFINE T == {i \in Nat :
                   i \in 0..n => u[i].lines = L \o v[i].lines /\ u[i].rest = v[i].rest}
<1>1. 0 \in T
  OBVIOUS
<1>2. ASSUME NEW i \in T
      PROVE  i + 1 \in T
  <2> SUFFICES ASSUME i + 1 \in 0..n
               PROVE  u[i + 1].lines = L \o v[i + 1].lines /\ u[i + 1].rest = v[i + 1].rest
    OBVIOUS
  <2>1. i \in Nat /\ i \in 0..n /\ i + 1 \in 1..n /\ (i + 1) - 1 = i
    OBVIOUS
  <2>2. /\ u[i].lines = L \o v[i].lines /\ u[i].rest = v[i].rest
        /\ IsCut(u[i]) /\ IsCut(v[i])
    BY <2>1
  <2> DEFINE b == bs[i + 1]
             x == u[i]
             y == v[i]
  <2>3. b \in STRING /\ u[i + 1] = NextByte(x, b) /\ v[i + 1] = NextByte(y, b)
    BY <2>1
  <2>4. x.lines = L \o y.lines /\ x.rest = y.rest /\ IsCut(x) /\ IsCut(y)
    BY <2>2
  <2> HIDE DEF b, x, y
  <2>5. CASE b = "n"
    <3>1. NextByte(x, b).lines = Append(x.lines, x.rest) /\ NextByte(x, b).rest = <<>>
      BY <2>3, <2>4, <2>5, NextByteFacts
    <3>2. NextByte(y, b).lines = Append(y.lines, y.rest) /\ NextByte(y, b).rest = <<>>
      BY <2>3, <2>4, <2>5, NextByteFacts
    <3>3. y.lines \in Seq(Seq(STRING)) /\ y.rest \in Seq(STRING)
      BY <2>4 DEF IsCut, IsRest
    <3>4. Append(L \o y.lines, y.rest) = L \o Append(y.lines, y.rest)
      BY <3>3, ConcatAppend
    <3> QED
      BY <2>3, <2>4, <3>1, <3>2, <3>4
  <2>6. CASE b # "n"
    <3>1. NextByte(x, b).lines = x.lines /\ NextByte(x, b).rest = Append(x.rest, b)
      BY <2>3, <2>4, <2>6, NextByteFacts
    <3>2. NextByte(y, b).lines = y.lines /\ NextByte(y, b).rest = Append(y.rest, b)
      BY <2>3, <2>4, <2>6, NextByteFacts
    <3> QED
      BY <2>3, <2>4, <3>1, <3>2
  <2> QED
    BY <2>5, <2>6
<1> HIDE DEF T
<1>3. T = Nat
  <2>1. T \subseteq Nat
    BY DEF T
  <2> QED
    BY <1>1, <1>2, <2>1, InductionOnNat
<1>4. n \in T /\ n \in 0..n
  BY <1>3
<1> QED
  BY <1>4 DEF T

\* Cutting a rest with more bytes after it.
LEMMA CutAfterRest ==
  ASSUME NEW rest, IsRest(rest), NEW more \in Seq(STRING), NEW buf, Joined(buf, rest, more)
  PROVE  \E v : CutsAfter(v, buf, rest, more, Len(more))
<1> DEFINE R == Len(rest)
           n == Len(more)
<1>0. /\ n \in Nat /\ R \in Nat /\ R = Len(rest) /\ buf \in Seq(STRING) /\ Len(buf) = R + n
      /\ \A i \in 1..R : buf[i] = rest[i]
      /\ \A i \in 1..n : buf[R + i] = more[i]
  BY DEF IsRest, Joined
<1> HIDE DEF R, n
<1> USE <1>0
<1>1. Len(buf) \in Nat /\ \A i \in 1..R + n : buf[i] \in STRING
  OBVIOUS
<1>2. PICK e : /\ Cut(buf) = e[Len(buf)] /\ e[0] = NoBytes
               /\ \A i \in 1..Len(buf) : e[i] = NextByte(e[i - 1], buf[i])
  BY <1>1, CutUnfolds
<1>3. CutSteps(e, buf)
  BY <1>2 DEF CutSteps
<1>4. \A i \in 0..R + n : IsCut(e[i])
  <2>1. \A i \in 0..Len(buf) : IsCut(e[i])
    BY <1>3, CutsTyped
  <2> QED
    BY <2>1
<1>5. \A i \in 1..R + n : e[i] = NextByte(e[i - 1], buf[i])
  BY <1>2
<1>6. e[R].lines = <<>> /\ e[R].rest = rest
  <2>1. \A i \in 0..R : IsCut(e[i])
    <3>1. \A i \in 0..R : i \in 0..R + n
      OBVIOUS
    <3> QED
      BY <1>4, <3>1
  <2>2. \A i \in 1..R : rest[i] \in STRING /\ e[i] = NextByte(e[i - 1], rest[i])
    <3>1. \A i \in 1..R : i \in 1..R + n
      OBVIOUS
    <3> QED
      BY <1>1, <1>5, <3>1
  <2>3. e[0] = NoBytes /\ Cuts(e, rest, R)
    BY <1>2, <2>1, <2>2 DEF Cuts
  <2> QED
    BY <2>3, RestStays
<1> DEFINE v == [i \in 0..n |-> e[R + i]]
<1>7. \A i \in 0..n : v[i] = e[R + i] /\ R + i \in 0..R + n
  OBVIOUS
<1>8. v[n] = e[Len(buf)] /\ v[0] = e[R]
  BY <1>7
<1>9. \A i \in 1..n : more[i] \in STRING /\ v[i] = NextByte(v[i - 1], more[i])
  <2> TAKE i \in 1..n
  <2>1. /\ R + i \in 1..R + n /\ i \in 0..n /\ i - 1 \in 0..n /\ R + (i - 1) = (R + i) - 1
    OBVIOUS
  <2>2. v[i] = e[R + i] /\ v[i - 1] = e[(R + i) - 1]
    BY <1>7, <2>1
  <2> HIDE DEF v
  <2>3. e[R + i] = NextByte(e[(R + i) - 1], buf[R + i]) /\ buf[R + i] \in STRING
    BY <1>1, <1>5, <2>1
  <2>4. buf[R + i] = more[i]
    OBVIOUS
  <2> QED
    BY <2>2, <2>3, <2>4, Zenon
<1> HIDE DEF v
<1>10. \A i \in 0..n : IsCut(v[i])
  BY <1>4, <1>7
<1>11. Cuts(v, more, n)
  BY <1>9, <1>10 DEF Cuts
<1>12. CutsAfter(v, buf, rest, more, n)
  BY <1>2, <1>6, <1>8, <1>11, Zenon DEF CutsAfter
<1> QED
  BY <1>12 DEF n

\* What a message adds to the lines found before it.
Adds(h, a, n, buf) ==
  h[a + n].lines = h[a].lines \o Cut(buf).lines /\ h[a + n].rest = Cut(buf).rest

LEMMA CutMore ==
  ASSUME NEW bytes \in Seq(STRING), NEW h, CutSteps(h, bytes), NEW a \in 0..Len(bytes),
         NEW n \in Nat, a + n <= Len(bytes), NEW more, Piece(more, bytes, a, n)
  PROVE  Adds(h, a, n, h[a].rest \o more)
<1> DEFINE N == Len(bytes)
           rest == h[a].rest
           L == h[a].lines
           buf == rest \o more
<1>1. more \in Seq(STRING) /\ Len(more) = n /\ \A i \in 1..n : more[i] = bytes[a + i]
  BY DEF Piece
<1>2. N \in Nat /\ a \in 0..N /\ a + n <= N /\ \A i \in 1..N : bytes[i] \in STRING
  OBVIOUS
<1>3. \A i \in 0..N : IsCut(h[i])
  BY CutsTyped
<1>4. \A i \in 1..N : h[i] = NextByte(h[i - 1], bytes[i])
  BY DEF CutSteps
<1> HIDE DEF N
<1>5. rest \in Seq(STRING) /\ IsRest(rest) /\ L \in Seq(Seq(STRING))
  BY <1>2, <1>3 DEF IsCut, IsRest
<1>6. rest = h[a].rest /\ L = h[a].lines
  OBVIOUS
<1> HIDE DEF rest, L
<1>7. Joined(buf, rest, more)
  BY <1>1, <1>5, BufferFacts
<1> HIDE DEF buf
<1>8. PICK v : Cut(buf) = v[n] /\ v[0].lines = <<>> /\ v[0].rest = rest /\ Cuts(v, more, n)
  <2>1. IsRest(rest) /\ more \in Seq(STRING) /\ Len(more) = n
    BY <1>1, <1>5, Zenon
  <2>2. \E v : CutsAfter(v, buf, rest, more, Len(more))
    BY <1>7, <2>1, CutAfterRest
  <2> QED
    BY <2>1, <2>2 DEF CutsAfter
<1> DEFINE u == [i \in 0..n |-> h[a + i]]
<1>9. \A i \in 0..n : u[i] = h[a + i] /\ a + i \in 0..N
  BY <1>2
<1>10. u[0] = h[a] /\ u[n] = h[a + n]
  BY <1>2, <1>9
<1>11. \A i \in 1..n : more[i] \in STRING /\ u[i] = NextByte(u[i - 1], more[i])
  <2> TAKE i \in 1..n
  <2>1. a + i \in 1..N /\ i \in 0..n /\ i - 1 \in 0..n /\ a + (i - 1) = (a + i) - 1
    BY <1>2
  <2>2. u[i] = h[a + i] /\ u[i - 1] = h[(a + i) - 1]
    BY <1>9, <2>1
  <2> HIDE DEF u
  <2>3. h[a + i] = NextByte(h[(a + i) - 1], bytes[a + i])
    BY <1>4, <2>1
  <2>4. more[i] = bytes[a + i] /\ more[i] \in STRING
    BY <1>1, <1>2, <2>1
  <2> QED
    BY <2>2, <2>3, <2>4, Zenon
<1> HIDE DEF u
<1>12. Cuts(u, more, n)
  BY <1>3, <1>9, <1>11 DEF Cuts
<1>13. u[0].lines = L \o v[0].lines /\ u[0].rest = v[0].rest
  <2>1. L \o <<>> = L
    BY <1>5
  <2> QED
    BY <1>6, <1>8, <1>10, <2>1
<1>14. u[n].lines = L \o v[n].lines /\ u[n].rest = v[n].rest
  BY <1>5, <1>8, <1>12, <1>13, SameCut
<1> QED
  BY <1>8, <1>10, <1>14 DEF Adds, L, rest, buf

LEMMA PieceOfFile ==
  ASSUME NEW bytes \in Seq(STRING), NEW a \in 0..Len(bytes), NEW n \in Nat, a + n <= Len(bytes)
  PROVE  Piece(SubSeq(bytes, a + 1, a + n), bytes, a, n)
  BY SMTT(30) DEF Piece

-----------------------------------------------------------------------------
(***************************************************************************)
(* What a batch puts into the store.                                       *)
(***************************************************************************)
LEMMA LastIs ==
  ASSUME NEW p \in Seq(Writes), NEW k, NEW i \in DOMAIN p, IsLast(p, k, i)
  PROVE  LastOf(p, k) = i
<1> DEFINE j == LastOf(p, k)
<1>1. j \in DOMAIN p /\ IsLast(p, k, j)
  BY DEF LastOf
<1>2. DOMAIN p = 1..Len(p) /\ Len(p) \in Nat
  OBVIOUS
<1> HIDE DEF j
<1>3. ~(j \in (i + 1)..Len(p)) /\ ~(i \in (j + 1)..Len(p))
  BY <1>1 DEF IsLast
<1>4. i \in 1..Len(p) /\ j \in 1..Len(p)
  BY <1>1, <1>2
<1>5. i = j
  BY <1>2, <1>3, <1>4
<1> QED
  BY <1>5 DEF j

LEMMA NothingWaits ==
  ASSUME NEW rows, rows = [k \in DOMAIN rows |-> rows[k]], NEW index
  PROVE  RowsAfter(rows, <<>>) = rows /\ IndexAfter(index, <<>>) = index
<1>1. DOMAIN <<>> = {}
  OBVIOUS
<1>2. RowKeys(<<>>) = {}
  BY <1>1 DEF RowKeys
<1>3. RowsAfter(rows, <<>>) = [k \in DOMAIN rows |-> rows[k]]
  BY <1>2 DEF RowsAfter
<1>4. IndexAfter(index, <<>>) = index
  BY <1>1 DEF IndexAfter
<1> QED
  BY <1>3, <1>4

WriteOf(isRow, key, value) == [row |-> isRow, key |-> key, value |-> value]
RowAndEntry(p, key, value) ==
  Append(Append(p, WriteOf(TRUE, key, value)), WriteOf(FALSE, key, value))

\* A row that waits with its entry is the last of its key.
LEMMA OneMoreRow ==
  ASSUME NEW p \in Seq(Writes), NEW key \in FieldValues,
         NEW value \in FieldValues \cup {NullField}, NEW rows, NEW index
  PROVE  Batch(rows, index, RowAndEntry(p, key, value))
           = WithRow(Batch(rows, index, p), key, value)
<1> DEFINE N == Len(p)
           a == WriteOf(TRUE, key, value)
           b == WriteOf(FALSE, key, value)
           two == Append(Append(p, a), b)
<1>0. /\ a \in Writes /\ b \in Writes /\ a.row /\ ~b.row /\ a.key = key /\ b.key = key
      /\ a.value = value /\ b.value = value
  BY DEF WriteOf, Writes
<1>01. two = RowAndEntry(p, key, value)
  BY DEF RowAndEntry
<1> HIDE DEF a, b
<1>1. /\ two \in Seq(Writes) /\ N \in Nat /\ DOMAIN p = 1..N /\ DOMAIN two = 1..N + 2
      /\ (\A i \in 1..N : two[i] = p[i]) /\ two[N + 1] = a /\ two[N + 2] = b
      /\ Len(two) = N + 2
  BY <1>0, TwoMore
<1> HIDE DEF two
<1> USE <1>0
<1>2. Len(p) = N
  OBVIOUS
<1> HIDE DEF N
<1>3. \A i \in 1..N + 2 : i \in 1..N \/ i = N + 1 \/ i = N + 2
  BY <1>1
<1>4. \A i \in 1..N : i \in 1..N + 2
  BY <1>1
<1>5. N + 1 \in 1..N + 2 /\ N + 2 \in 1..N + 2 /\ N + 1 # N + 2
  BY <1>1
<1>6. \A k : k \in RowKeys(two) <=> \E i \in 1..N + 2 : two[i].row /\ two[i].key = k
  BY <1>1 DEF RowKeys
<1>7. \A k : k \in RowKeys(p) <=> \E i \in 1..N : p[i].row /\ p[i].key = k
  BY <1>1 DEF RowKeys
<1>8. RowKeys(two) = RowKeys(p) \cup {key}
  <2>1. ASSUME NEW k \in RowKeys(two) PROVE k \in RowKeys(p) \cup {key}
    <3>1. PICK i \in 1..N + 2 : two[i].row /\ two[i].key = k
      BY <1>6
    <3>2. i \in 1..N \/ i = N + 1
      BY <1>1, <1>3, <3>1
    <3> QED
      BY <1>1, <1>7, <3>1, <3>2
  <2>2. ASSUME NEW k \in RowKeys(p) PROVE k \in RowKeys(two)
    BY <1>1, <1>4, <1>6, <1>7
  <2>3. key \in RowKeys(two)
    BY <1>1, <1>5, <1>6
  <2> QED
    BY <2>1, <2>2, <2>3
<1>9. LastOf(two, key) = N + 1
  <2>1. \A j \in (N + 2)..(N + 2) : ~two[j].row
    BY <1>1
  <2>2. IsLast(two, key, N + 1)
    BY <1>1, <2>1 DEF IsLast
  <2> QED
    BY <1>1, <1>5, <2>2, LastIs
<1>10. ASSUME NEW k \in RowKeys(p), k # key
       PROVE  two[LastOf(two, k)] = p[LastOf(p, k)]
  <2> DEFINE i == LastOf(p, k)
  <2>1. i \in 1..N /\ IsLast(p, k, i)
    BY <1>1, KeysHaveLast
  <2> HIDE DEF i
  <2>2. i \in 1..N + 2 /\ two[i] = p[i] /\ i \in Nat
    BY <1>1, <1>4, <2>1
  <2>3. ASSUME NEW j \in (i + 1)..(N + 2)
        PROVE  ~(two[j].row /\ two[j].key = k)
    <3>1. j \in (i + 1)..N \/ j = N + 1 \/ j = N + 2
      BY <1>1, <2>1
    <3>2. CASE j \in (i + 1)..N
      <4>1. j \in 1..N
        BY <1>1, <2>1, <3>2
      <4> QED
        BY <1>1, <1>2, <2>1, <3>2, <4>1 DEF IsLast
    <3> QED
      BY <1>1, <1>10, <3>1, <3>2
  <2>4. IsLast(two, k, i)
    BY <1>1, <2>1, <2>2, <2>3 DEF IsLast
  <2>5. LastOf(two, k) = i
    BY <1>1, <2>2, <2>4, LastIs
  <2> QED
    BY <2>2, <2>5 DEF i
<1> DEFINE before == RowsAfter(rows, p)
           after == RowsAfter(rows, two)
           D == DOMAIN rows \cup RowKeys(p) \cup {key}
<1>11. DOMAIN before = DOMAIN rows \cup RowKeys(p)
  BY DEF RowsAfter
<1>12. after = [k \in D |-> after[k]]
  BY <1>8 DEF RowsAfter
<1>13. \A k \in D : after[k] = IF k = key THEN value ELSE before[k]
  <2> TAKE k \in D
  <2>1. after[k] = IF k \in RowKeys(two) THEN two[LastOf(two, k)].value ELSE rows[k]
    BY <1>8 DEF RowsAfter
  <2>2. k # key => before[k] = IF k \in RowKeys(p) THEN p[LastOf(p, k)].value ELSE rows[k]
    BY DEF RowsAfter
  <2> HIDE DEF before, after
  <2> QED
    BY <1>1, <1>8, <1>9, <1>10, <2>1, <2>2
<1>14. after = [k \in DOMAIN before \cup {key} |-> IF k = key THEN value ELSE before[k]]
  <2> HIDE DEF before, after
  <2> QED
    BY <1>11, <1>12, <1>13
<1>15. IndexAfter(index, two) = IndexAfter(index, p) \cup {<<value, key>>}
  <2>1. \A e : e \in IndexAfter(index, two) <=>
           e \in index \/ \E i \in 1..N + 2 : ~two[i].row /\ e = <<two[i].value, two[i].key>>
    BY <1>1 DEF IndexAfter
  <2>2. \A e : e \in IndexAfter(index, p) <=>
           e \in index \/ \E i \in 1..N : ~p[i].row /\ e = <<p[i].value, p[i].key>>
    BY <1>1 DEF IndexAfter
  <2> DEFINE entry == <<value, key>>
  <2>3. ASSUME NEW e \in IndexAfter(index, two) PROVE e \in IndexAfter(index, p) \cup {entry}
    <3>1. ASSUME NEW i \in 1..N + 2, ~two[i].row, e = <<two[i].value, two[i].key>>
          PROVE  e \in IndexAfter(index, p) \cup {entry}
      <4>1. i \in 1..N \/ i = N + 2
        BY <1>1, <1>3, <3>1
      <4> QED
        BY <1>1, <2>2, <3>1, <4>1
    <3> QED
      BY <2>1, <2>2, <3>1
  <2>4. ASSUME NEW e \in IndexAfter(index, p) PROVE e \in IndexAfter(index, two)
    BY <1>1, <1>4, <2>1, <2>2
  <2>5. entry \in IndexAfter(index, two)
    BY <1>1, <1>5, <2>1
  <2> HIDE DEF entry
  <2> QED
    BY <2>3, <2>4, <2>5 DEF entry
<1> HIDE DEF before, after
<1> QED
  BY <1>01, <1>14, <1>15 DEF Batch, WithRow, before, after

-----------------------------------------------------------------------------
(***************************************************************************)
(* The lines with data.                                                    *)
(***************************************************************************)
DataSteps(d, lines) ==
  d[0] = <<>> /\ \A i \in 1..Len(lines) : d[i] = KeepData(d[i - 1], lines[i])

\* How many of the first n lines with data are rows.
Count(f, n) == IF f.header /\ n # 0 THEN n - 1 ELSE n

LEMMA KeepDataFacts ==
  ASSUME NEW d \in Seq(Seq(STRING)), NEW line \in Seq(STRING), NEW e, e = KeepData(d, line)
  PROVE  /\ e \in Seq(Seq(STRING)) /\ Len(d) \in Nat
         /\ IsData(line) => Len(e) = Len(d) + 1 /\ e[Len(d) + 1] = Stripped(line)
         /\ ~IsData(line) => e = d
         /\ Len(d) <= Len(e) /\ \A i \in 1..Len(d) : e[i] = d[i]
<1>1. Stripped(line) \in Seq(STRING)
  <2>1. CASE line = <<>>
    BY <2>1 DEF Stripped
  <2>2. CASE line # <<>>
    <3>1. Len(line) \in Nat /\ Len(line) >= 1
      BY <2>2
    <3>2. SubSeq(line, 1, Len(line) - 1) \in Seq(STRING)
      BY <3>1
    <3> QED
      BY <3>2 DEF Stripped, Front
  <2> QED
    BY <2>1, <2>2
<1> DEFINE x == Stripped(line)
           S == Seq(STRING)
<1>2. d \in Seq(S) /\ x \in S
  BY <1>1
<1>3. e = IF IsData(line) THEN Append(d, x) ELSE d
  BY DEF KeepData
<1> HIDE DEF x, S
<1>4. /\ Append(d, x) \in Seq(S) /\ Len(d) \in Nat /\ Len(Append(d, x)) = Len(d) + 1
      /\ Append(d, x)[Len(d) + 1] = x /\ \A i \in 1..Len(d) : Append(d, x)[i] = d[i]
  BY <1>2
<1>5. CASE IsData(line)
  <2>1. e = Append(d, x)
    BY <1>3, <1>5
  <2> QED
    BY <1>4, <1>5, <2>1 DEF x, S
<1>6. CASE ~IsData(line)
  <2>1. e = d
    BY <1>3, <1>6
  <2> QED
    BY <1>2, <1>4, <1>6, <2>1 DEF S
<1> QED
  BY <1>5, <1>6

LEMMA DataTyped ==
  ASSUME NEW lines \in Seq(Seq(STRING)), NEW d, DataSteps(d, lines)
  PROVE  \A i \in 0..Len(lines) : d[i] \in Seq(Seq(STRING))
<1> DEFINE N == Len(lines)
           T == {n \in Nat : n \in 0..N => d[n] \in Seq(Seq(STRING))}
<1>1. N \in Nat /\ \A i \in 1..N : lines[i] \in Seq(STRING)
  OBVIOUS
<1> HIDE DEF N
<1>2. d[0] = <<>> /\ \A i \in 1..N : d[i] = KeepData(d[i - 1], lines[i])
  BY DEF DataSteps, N
<1>3. 0 \in T
  <2>1. <<>> \in Seq(Seq(STRING))
    OBVIOUS
  <2> QED
    BY <1>2, <2>1
<1>4. ASSUME NEW n \in T
      PROVE  n + 1 \in T
  <2> SUFFICES ASSUME n + 1 \in 0..N
               PROVE  d[n + 1] \in Seq(Seq(STRING))
    OBVIOUS
  <2>1. n \in Nat /\ n \in 0..N /\ n + 1 \in 1..N /\ (n + 1) - 1 = n
    BY <1>1
  <2>2. d[n] \in Seq(Seq(STRING)) /\ d[n + 1] = KeepData(d[n], lines[n + 1])
    BY <1>2, <2>1
  <2>3. lines[n + 1] \in Seq(STRING)
    BY <1>1, <2>1
  <2> QED
    BY <2>2, <2>3, KeepDataFacts
<1> HIDE DEF T
<1>5. T = Nat
  <2>1. T \subseteq Nat
    BY DEF T
  <2> QED
    BY <1>3, <1>4, <2>1, InductionOnNat
<1>6. \A i \in 0..N : i \in T
  BY <1>1, <1>5
<1> QED
  BY <1>6 DEF T, N

\* e starts with d.
StartsWith(e, d) == Len(d) <= Len(e) /\ \A i \in 1..Len(d) : e[i] = d[i]

LEMMA StartsWithMore ==
  ASSUME NEW a, NEW b, NEW c, Len(a) \in Nat, Len(b) \in Nat, Len(c) \in Nat,
         StartsWith(b, a), StartsWith(c, b)
  PROVE  StartsWith(c, a)
<1>1. \A i \in 1..Len(a) : i \in 1..Len(b)
  BY DEF StartsWith
<1> QED
  BY <1>1 DEF StartsWith

LEMMA DataIsPrefix ==
  ASSUME NEW lines \in Seq(Seq(STRING)), NEW d, DataSteps(d, lines), NEW j \in 0..Len(lines)
  PROVE  StartsWith(d[Len(lines)], d[j])
<1> DEFINE N == Len(lines)
           T == {n \in Nat : j + n \in j..N => StartsWith(d[j + n], d[j])}
<1>1. N \in Nat /\ j \in 0..N /\ \A i \in 1..N : lines[i] \in Seq(STRING)
  OBVIOUS
<1>2. \A i \in 1..N : d[i] = KeepData(d[i - 1], lines[i])
  BY DEF DataSteps
<1>3. \A i \in 0..N : d[i] \in Seq(Seq(STRING))
  BY DataTyped
<1> HIDE DEF N
<1>4. \A i \in 0..N : Len(d[i]) \in Nat
  <2> TAKE i \in 0..N
  <2>1. d[i] \in Seq(Seq(STRING))
    BY <1>3
  <2> QED
    BY <2>1
<1>5. 0 \in T
  BY <1>1, <1>4 DEF StartsWith
<1>6. ASSUME NEW n \in T
      PROVE  n + 1 \in T
  <2> SUFFICES ASSUME j + (n + 1) \in j..N
               PROVE  StartsWith(d[j + (n + 1)], d[j])
    OBVIOUS
  <2> DEFINE k == j + n
  <2>1. /\ n \in Nat /\ k \in j..N /\ k \in 0..N /\ k + 1 \in 1..N /\ k + 1 \in 0..N
        /\ (k + 1) - 1 = k /\ j + (n + 1) = k + 1
    BY <1>1
  <2> HIDE DEF k
  <2>2. StartsWith(d[k], d[j])
    BY <2>1 DEF k
  <2>3. d[k] \in Seq(Seq(STRING)) /\ d[k + 1] = KeepData(d[k], lines[k + 1])
    BY <1>2, <1>3, <2>1
  <2>4. lines[k + 1] \in Seq(STRING)
    BY <1>1, <2>1
  <2>5. StartsWith(d[k + 1], d[k])
    BY <2>3, <2>4, KeepDataFacts DEF StartsWith
  <2>6. StartsWith(d[k + 1], d[j])
    BY <1>1, <1>4, <2>1, <2>2, <2>5, StartsWithMore
  <2> QED
    BY <2>1, <2>6
<1> HIDE DEF T
<1>7. T = Nat
  <2>1. T \subseteq Nat
    BY DEF T
  <2> QED
    BY <1>5, <1>6, <2>1, InductionOnNat
<1>8. N - j \in T /\ j + (N - j) = N /\ N \in j..N
  BY <1>1, <1>7
<1> QED
  BY <1>8 DEF T, N

\* A line gives the next of the lines with data, or none.
LEMMA DataStep ==
  ASSUME NEW lines \in Seq(Seq(STRING)), NEW d, DataSteps(d, lines), NEW k \in 1..Len(lines),
         NEW W, W = d[Len(lines)]
  PROVE  /\ Len(d[k - 1]) \in Nat /\ Len(d[k]) <= Len(W)
         /\ ~IsData(lines[k]) => Len(d[k]) = Len(d[k - 1])
         /\ IsData(lines[k]) =>
              Len(d[k]) = Len(d[k - 1]) + 1 /\ W[Len(d[k])] = Stripped(lines[k])
<1>1. k \in 0..Len(lines) /\ k - 1 \in 0..Len(lines) /\ lines[k] \in Seq(STRING)
  OBVIOUS
<1>2. d[k - 1] \in Seq(Seq(STRING)) /\ d[k] \in Seq(Seq(STRING))
  BY <1>1, DataTyped
<1>3. d[k] = KeepData(d[k - 1], lines[k])
  BY DEF DataSteps
<1>4. StartsWith(W, d[k])
  BY <1>1, DataIsPrefix
<1> DEFINE a == d[k - 1]
           b == d[k]
           line == lines[k]
<1> HIDE DEF a, b, line
<1>5. /\ Len(a) \in Nat
      /\ IsData(line) => Len(b) = Len(a) + 1 /\ b[Len(a) + 1] = Stripped(line)
      /\ ~IsData(line) => b = a
  <2>1. a \in Seq(Seq(STRING)) /\ line \in Seq(STRING) /\ b = KeepData(a, line)
    BY <1>1, <1>2, <1>3 DEF a, b, line
  <2> QED
    BY <2>1, KeepDataFacts
<1>6. Len(b) <= Len(W) /\ \A i \in 1..Len(b) : W[i] = b[i]
  BY <1>4 DEF StartsWith, b
<1>7. IsData(line) => Len(b) \in 1..Len(b)
  BY <1>5
<1>8. IsData(line) => W[Len(b)] = Stripped(line)
  BY <1>5, <1>6, <1>7
<1> QED
  BY <1>5, <1>6, <1>8 DEF a, b, line

\* The lines after the header.
LEMMA LinesAfterHeader ==
  ASSUME NEW f, f.header \in BOOLEAN, NEW W \in Seq(Seq(STRING)), W = LinesWithData(AllLines(f))
  PROVE  /\ Len(DataLines(f)) = Count(f, Len(W)) /\ Len(DataLines(f)) \in Nat
         /\ \A n \in 1..Len(W) : ~(f.header /\ n = 1) =>
              Count(f, n) \in 1..Len(DataLines(f)) /\ DataLines(f)[Count(f, n)] = W[n]
<1>1. DataLines(f) = IF f.header /\ W # <<>> THEN Tail(W) ELSE W
  BY DEF DataLines
<1>2. Len(W) \in Nat /\ (W = <<>> <=> Len(W) = 0)
  OBVIOUS
<1>3. CASE f.header /\ W # <<>>
  <2>1. DataLines(f) = Tail(W) /\ Len(W) # 0
    BY <1>1, <1>2, <1>3
  <2>2. Len(Tail(W)) = Len(W) - 1 /\ \A i \in 1..Len(W) - 1 : Tail(W)[i] = W[i + 1]
    BY <1>3
  <2>3. \A n \in 1..Len(W) : Count(f, n) = n - 1
    BY <1>3 DEF Count
  <2>4. Count(f, Len(W)) = Len(W) - 1 /\ Len(W) - 1 \in Nat
    BY <1>2, <1>3, <2>1 DEF Count
  <2>5. \A n \in 1..Len(W) : n # 1 => n - 1 \in 1..Len(W) - 1 /\ (n - 1) + 1 = n
    BY <1>2
  <2> HIDE DEF Count
  <2> QED
    BY <1>3, <2>1, <2>2, <2>3, <2>4, <2>5
<1>4. CASE ~(f.header /\ W # <<>>)
  <2>1. DataLines(f) = W
    BY <1>1, <1>4
  <2>2. Count(f, Len(W)) = Len(W)
    BY <1>2, <1>4 DEF Count
  <2>3. \A n \in 1..Len(W) : Count(f, n) = n
    BY <1>2, <1>4 DEF Count
  <2> QED
    BY <1>2, <2>1, <2>2, <2>3
<1> QED
  BY <1>3, <1>4

-----------------------------------------------------------------------------
(***************************************************************************)
(* How far a server has come that has read n lines with data: the store    *)
(* holds the rows of some first lines, and with the writes that wait, if   *)
(* no line was refused, those of all lines read.                           *)
(***************************************************************************)
Holds(f, store, m) ==
  /\ \A i \in 1..m : WellFormed(f, DataLines(f)[i])
  /\ store = AfterLines(f, DataLines(f), m)

Store(s) == [rows |-> s.rows, index |-> s.index]
Flushed(s) == Batch(s.rows, s.index, s.pending)

Progress(f, s, n) ==
  /\ \E m \in 0..Len(DataLines(f)) : Holds(f, Store(s), m)
  /\ ~s.failed => /\ s.headerPending = (f.header /\ n = 0)
                  /\ s.inserted = Count(f, n)
                  /\ Holds(f, Flushed(s), Count(f, n))

LEMMA StoreStarts ==
  ASSUME NEW f, NEW lines, Len(lines) \in Nat
  PROVE  AfterLines(f, lines, 0) = Begun(f)
<1>1. PICK h : StoreSteps(f, lines, h)
  BY StoreUnfolds
<1>2. AfterLines(f, lines, 0) = h[0] /\ h[0] = Begun(f)
  BY <1>1, Zenon DEF StoreSteps
<1> QED
  BY <1>2

LEMMA HoldsMore ==
  ASSUME NEW f, Len(DataLines(f)) \in Nat, NEW c \in Nat, c + 1 <= Len(DataLines(f)),
         NEW store, Holds(f, store, c), NEW line, line = DataLines(f)[c + 1],
         WellFormed(f, line)
  PROVE  Holds(f, StoreLine(f, store, line), c + 1)
<1> DEFINE lines == DataLines(f)
<1>1. PICK h : StoreSteps(f, lines, h)
  BY StoreUnfolds
<1>2. c + 1 \in 1..Len(lines) /\ (c + 1) - 1 = c
  OBVIOUS
<1>3. AfterLines(f, lines, c + 1) = StoreLine(f, AfterLines(f, lines, c), line)
  <2>1. h[c + 1] = StoreLine(f, h[c], lines[c + 1])
    BY <1>1, <1>2 DEF StoreSteps
  <2>2. AfterLines(f, lines, c + 1) = h[c + 1] /\ AfterLines(f, lines, c) = h[c]
    BY <1>1, Zenon DEF StoreSteps
  <2> QED
    BY <2>1, <2>2
<1>4. \A i \in 1..c + 1 : i \in 1..c \/ i = c + 1
  OBVIOUS
<1> HIDE DEF lines
<1> QED
  BY <1>3, <1>4 DEF Holds, lines

LEMMA AddRowOutcome ==
  ASSUME NEW s, HasFields(s), NEW key, NEW value
  PROVE  \E whole : /\ HasFields(whole) /\ whole.headerPending = s.headerPending
                    /\ whole.rows = s.rows /\ whole.index = s.index /\ whole.failed = s.failed
                    /\ whole.inserted = s.inserted
                    /\ whole.pending
                         = RowAndEntry(s.pending, key, value)
                    /\ \/ AddRow(s, key, value) = Counted(whole)
                       \/ AddRow(s, key, value) = Counted(PutBatch(whole))
                       \/ /\ AddRow(s, key, value).failed
                          /\ Store(AddRow(s, key, value)) = Store(s)
<1> DEFINE p == s.pending
           write(isRow) == [row |-> isRow, key |-> key, value |-> value]
           added == [s EXCEPT !.pending = Append(@, write(TRUE))]
           whole == [added EXCEPT !.pending = Append(@, write(FALSE)), !.pendingRows = @ + 1]
           one == Append(p, write(TRUE))
           two == Append(one, write(FALSE))
<1>2. /\ HasFields(added) /\ added.headerPending = s.headerPending /\ added.pending = one
      /\ added.rows = s.rows /\ added.index = s.index /\ added.failed = s.failed
      /\ added.inserted = s.inserted
  <2>1. added = [s EXCEPT !.pending = one]
    OBVIOUS
  <2> HIDE DEF added, one
  <2> QED
    BY <2>1, SetPending
<1>3. /\ HasFields(whole) /\ whole.headerPending = s.headerPending /\ whole.pending = two
      /\ whole.rows = s.rows /\ whole.index = s.index /\ whole.failed = s.failed
      /\ whole.inserted = s.inserted
  <2>1. whole = [added EXCEPT !.pending = two, !.pendingRows = @ + 1]
    <3> HIDE DEF added, write
    <3>1. added.pending = one /\ added.inserted = s.inserted
      BY <1>2
    <3> QED
      BY <3>1
  <2> HIDE DEF added, whole, one, two
  <2> QED
    BY <1>2, <2>1 DEF HasFields, Fields
<1>4. AddRow(s, key, value)
        = IF Duplicate(s, key, value) THEN Refused(added)
          ELSE Counted(IF whole.pendingRows >= MaxBatchRows
                            \/ 3 * whole.pendingRows >= MaxBatchEntries
                         THEN FlushWrites(whole) ELSE whole)
  BY DEF AddRow, write
<1>5. Refused(added) = [added EXCEPT !.failed = TRUE]
  BY DEF Refused
<1>6. whole.pending = RowAndEntry(s.pending, key, value)
  <2> HIDE DEF whole, added
  <2> QED
    BY <1>3 DEF RowAndEntry, WriteOf
<1> HIDE DEF added, whole, write, one, two
<1>7. Refused(added).failed /\ Store(Refused(added)) = Store(s)
  <2> DEFINE r == Refused(added)
  <2>1. r.rows = s.rows /\ r.index = s.index /\ r.failed = TRUE
    <3> HIDE DEF r
    <3>1. r = [added EXCEPT !.failed = TRUE]
      BY <1>5 DEF r
    <3> QED
      BY <1>2, <3>1, SetFailed
  <2> QED
    BY <2>1 DEF Store
<1>8. LET r == Counted(Refused(Taken(whole))) IN r.failed /\ Store(r) = Store(s)
  <2> DEFINE g == Refused(Taken(whole))
  <2>1. HasFields(g) /\ g.failed = TRUE /\ g.rows = s.rows /\ g.index = s.index
    BY <1>3, TakenFields
  <2> HIDE DEF g
  <2>2. Counted(g) = g
    BY <2>1, CountedFields
  <2>3. Counted(g).failed /\ Store(Counted(g)) = Store(s)
    BY <2>1, <2>2 DEF Store
  <2> QED
    BY <2>3 DEF g
<1>9. \/ AddRow(s, key, value) = Counted(whole)
      \/ AddRow(s, key, value) = Counted(PutBatch(whole))
      \/ AddRow(s, key, value).failed /\ Store(AddRow(s, key, value)) = Store(s)
  BY <1>4, <1>7, <1>8, FlushCases
<1> QED
  BY <1>3, <1>6, <1>9

\* A row added is one more line read, or the COPY fails.
LEMMA AddRowProgress ==
  ASSUME NEW f, NEW s, IsServer(s), ~s.failed, ~s.headerPending,
         NEW key \in FieldValues, NEW value \in FieldValues \cup {NullField}, NEW n \in Nat,
         Progress(f, s, n), ~(f.header /\ n = 0),
         NEW c \in 0..Len(DataLines(f)), c = Count(f, n + 1), s.inserted + 1 = c,
         Holds(f, WithRow(Flushed(s), key, value), c)
  PROVE  Progress(f, AddRow(s, key, value), n + 1)
<1> DEFINE r == AddRow(s, key, value)
<1>1. PICK whole : /\ HasFields(whole) /\ whole.headerPending = s.headerPending
                   /\ whole.rows = s.rows /\ whole.index = s.index /\ whole.failed = s.failed
                   /\ whole.inserted = s.inserted
                   /\ whole.pending = RowAndEntry(s.pending, key, value)
                   /\ \/ r = Counted(whole) \/ r = Counted(PutBatch(whole))
                      \/ r.failed /\ Store(r) = Store(s)
  BY AddRowOutcome DEF IsServer
<1>2. s.pending \in Seq(Writes)
  BY DEF IsServer
<1> HIDE DEF r
<1>3. Flushed(whole) = WithRow(Flushed(s), key, value)
  <2>1. Batch(s.rows, s.index, RowAndEntry(s.pending, key, value))
          = WithRow(Batch(s.rows, s.index, s.pending), key, value)
    BY <1>2, OneMoreRow
  <2> QED
    BY <1>1, <2>1 DEF Flushed
<1>4. Holds(f, Flushed(whole), c)
  BY <1>3
<1>5. \E m \in 0..Len(DataLines(f)) : Holds(f, Store(s), m)
  BY DEF Progress
<1>6. ASSUME r.failed, Store(r) = Store(s)
      PROVE  Progress(f, r, n + 1)
  BY <1>5, <1>6 DEF Progress
<1>7. (f.header /\ n + 1 = 0) = FALSE /\ s.headerPending = FALSE
  <2>1. n + 1 # 0
    OBVIOUS
  <2>2. s.headerPending = (f.header /\ n = 0)
    BY DEF Progress
  <2> QED
    BY <2>1, <2>2
<1>8. ASSUME r = Counted(whole)
      PROVE  Progress(f, r, n + 1)
  <2>0. /\ r.headerPending = whole.headerPending /\ r.pending = whole.pending
        /\ r.inserted = whole.inserted + 1
        /\ r.rows = whole.rows /\ r.index = whole.index
    BY <1>1, <1>8, CountedFields
  <2>1. Store(r) = Store(s) /\ Flushed(r) = Flushed(whole)
    BY <1>1, <2>0 DEF Store, Flushed
  <2>2. \E m \in 0..Len(DataLines(f)) : Holds(f, Store(r), m)
    BY <1>5, <2>1
  <2>3. r.headerPending = (f.header /\ n + 1 = 0) /\ r.inserted = Count(f, n + 1)
    BY <1>1, <1>7, <2>0
  <2> QED
    BY <1>4, <2>1, <2>2, <2>3 DEF Progress
<1>9. ASSUME r = Counted(PutBatch(whole))
      PROVE  Progress(f, r, n + 1)
  <2>0. /\ HasFields(PutBatch(whole)) /\ PutBatch(whole).headerPending = whole.headerPending
        /\ PutBatch(whole).pending = <<>> /\ PutBatch(whole).inserted = whole.inserted
        /\ PutBatch(whole).failed = whole.failed
        /\ PutBatch(whole).rows = RowsAfter(whole.rows, whole.pending)
        /\ PutBatch(whole).index = IndexAfter(whole.index, whole.pending)
    BY <1>1, PutFields
  <2>1. /\ r.headerPending = whole.headerPending /\ r.pending = <<>>
        /\ r.inserted = whole.inserted + 1
        /\ r.rows = RowsAfter(whole.rows, whole.pending)
        /\ r.index = IndexAfter(whole.index, whole.pending)
    BY <1>1, <1>9, <2>0, CountedFields
  <2>2. Store(r) = Flushed(whole)
    BY <2>1 DEF Store, Flushed, Batch
  <2>3. r.rows = [k \in DOMAIN r.rows |-> r.rows[k]]
    BY <2>1 DEF RowsAfter
  <2>4. RowsAfter(r.rows, <<>>) = r.rows /\ IndexAfter(r.index, <<>>) = r.index
    BY <2>3, NothingWaits
  <2>5. Flushed(r) = Flushed(whole)
    BY <2>1, <2>2, <2>4 DEF Store, Flushed, Batch
  <2>6. \E m \in 0..Len(DataLines(f)) : Holds(f, Store(r), m)
    BY <1>4, <2>2
  <2>7. r.headerPending = (f.header /\ n + 1 = 0) /\ r.inserted = Count(f, n + 1)
    BY <1>1, <1>7, <2>1
  <2> QED
    BY <1>4, <2>5, <2>6, <2>7 DEF Progress
<1> QED
  BY <1>1, <1>6, <1>8, <1>9 DEF r

\* apply_copy_line.
LEMMA ApplyLineSteps ==
  ASSUME NEW s, NEW line, NEW fields, fields = SplitFields(file, Stripped(line))
  PROVE  /\ s.failed \/ ~IsData(line) => ApplyLine(s, line) = s
         /\ ~s.failed /\ IsData(line) /\ s.headerPending =>
              ApplyLine(s, line) = [s EXCEPT !.headerPending = FALSE]
         /\ ~s.failed /\ IsData(line) /\ ~s.headerPending =>
              \/ ApplyLine(s, line) = Refused(s)
              \/ /\ WellFormed(file, Stripped(line))
                 /\ ApplyLine(s, line) = AddRow(s, fields[1], fields[2])
<1> DEFINE stripped == Stripped(line)
<1>1. ApplyLine(s, line)
        = IF s.failed \/ line = <<>> \/ stripped = <<".">> THEN s
          ELSE IF s.headerPending THEN [s EXCEPT !.headerPending = FALSE]
          ELSE IF Len(fields) # 2 THEN Refused(s)
          ELSE IF \E i \in 1..2 : fields[i] \notin FieldValues \cup {NullField} THEN Refused(s)
          ELSE IF fields[1] = NullField THEN Refused(s)
          ELSE AddRow(s, fields[1], fields[2])
  BY DEF ApplyLine
<1>2. IsData(line) <=> line # <<>> /\ stripped # <<".">>
  BY DEF IsData
<1>3. WellFormed(file, stripped) <=> /\ Len(fields) = 2 /\ fields[1] \in FieldValues
                                     /\ fields[2] \in FieldValues \cup {NullField}
  BY DEF WellFormed
<1> HIDE DEF stripped
<1>4. ASSUME Len(fields) = 2, \A i \in 1..2 : fields[i] \in FieldValues \cup {NullField},
             fields[1] # NullField
      PROVE  WellFormed(file, stripped)
  <2>1. 1 \in 1..2 /\ 2 \in 1..2
    OBVIOUS
  <2> QED
    BY <1>3, <1>4, <2>1
<1> QED
  BY <1>1, <1>2, <1>4 DEF stripped

LEMMA ApplyLineProgress ==
  ASSUME NEW s, Good(s), NEW line, IsData(line), NEW n \in Nat, Progress(file, s, n),
         file.header \in BOOLEAN, NEW W \in Seq(Seq(STRING)),
         W = LinesWithData(AllLines(file)), n + 1 <= Len(W), W[n + 1] = Stripped(line)
  PROVE  Progress(file, ApplyLine(s, line), n + 1)
<1> DEFINE r == ApplyLine(s, line)
           stripped == Stripped(line)
           fields == SplitFields(file, stripped)
           lines == DataLines(file)
<1>1. HasFields(s) /\ IsServer(s)
  BY DEF Good, IsServer
<1>2. \E m \in 0..Len(lines) : Holds(file, Store(s), m)
  BY DEF Progress
<1>3. ~s.failed => /\ s.headerPending = (file.header /\ n = 0)
                   /\ s.inserted = Count(file, n) /\ Holds(file, Flushed(s), Count(file, n))
  BY DEF Progress
<1>4. CASE s.failed
  <2>1. r = s
    BY <1>4, ApplyLineSteps
  <2> HIDE DEF r
  <2>2. Progress(file, r, n + 1)
    BY <1>2, <1>4, <2>1 DEF Progress
  <2> QED
    BY <2>2 DEF r
<1>5. CASE ~s.failed /\ s.headerPending
  <2>1. r = [s EXCEPT !.headerPending = FALSE]
    BY <1>5, ApplyLineSteps
  <2> HIDE DEF r
  <2>2. /\ r.headerPending = FALSE /\ r.pending = s.pending /\ r.inserted = s.inserted
        /\ r.rows = s.rows /\ r.index = s.index /\ r.failed = s.failed
    BY <1>1, <2>1, SetHeader
  <2>3. file.header /\ n = 0
    BY <1>3, <1>5
  <2>4. Count(file, n) = 0 /\ Count(file, n + 1) = 0 /\ n + 1 # 0
    BY <2>3 DEF Count
  <2>5. Store(r) = Store(s) /\ Flushed(r) = Flushed(s)
    BY <2>2 DEF Store, Flushed
  <2>6. r.headerPending = (file.header /\ n + 1 = 0)
    BY <2>2, <2>4
  <2>7. r.inserted = Count(file, n + 1) /\ Holds(file, Flushed(r), Count(file, n + 1))
    BY <1>3, <1>5, <2>2, <2>4, <2>5
  <2>8. Progress(file, r, n + 1)
    BY <1>2, <2>5, <2>6, <2>7 DEF Progress
  <2> QED
    BY <2>8 DEF r
<1>6. CASE ~s.failed /\ ~s.headerPending
  <2>1. ~(file.header /\ n = 0)
    BY <1>3, <1>6
  <2> DEFINE c == Count(file, n + 1)
  <2>2. n + 1 \in 1..Len(W) /\ ~(file.header /\ n + 1 = 1)
    BY <2>1
  <2>3. c \in 1..Len(lines) /\ lines[c] = stripped /\ Len(lines) \in Nat
    BY <2>2, LinesAfterHeader
  <2>4. Count(file, n) \in Nat /\ c = Count(file, n) + 1 /\ c \in 0..Len(lines)
        /\ Count(file, n) + 1 <= Len(lines)
    BY <2>1, <2>3 DEF Count
  <2> HIDE DEF c
  <2>5. ASSUME r = Refused(s) PROVE Progress(file, r, n + 1)
    <3> HIDE DEF r
    <3>1. r = [s EXCEPT !.failed = TRUE]
      BY <2>5 DEF Refused
    <3>2. r.rows = s.rows /\ r.index = s.index /\ r.failed
      BY <1>1, <3>1, SetFailed
    <3>3. Store(r) = Store(s)
      BY <3>2 DEF Store
    <3> QED
      BY <1>2, <3>2, <3>3 DEF Progress
  <2>6. ASSUME WellFormed(file, stripped), r = AddRow(s, fields[1], fields[2])
        PROVE  Progress(file, r, n + 1)
    <3>1. fields[1] \in FieldValues /\ fields[2] \in FieldValues \cup {NullField}
      BY <2>6 DEF WellFormed
    <3>2. StoreLine(file, Flushed(s), stripped) = WithRow(Flushed(s), fields[1], fields[2])
      BY DEF StoreLine
    <3>3. Holds(file, Flushed(s), Count(file, n)) /\ s.inserted + 1 = c
      BY <1>3, <1>6, <2>4
    <3> HIDE DEF fields, r, stripped
    <3>4. Holds(file, StoreLine(file, Flushed(s), stripped), Count(file, n) + 1)
      <4> DEFINE b == Count(file, n)
                 store == Flushed(s)
      <4>1. /\ b \in Nat /\ b + 1 <= Len(lines) /\ Holds(file, store, b)
            /\ stripped = lines[b + 1] /\ Len(lines) \in Nat
        BY <2>3, <2>4, <3>3
      <4> HIDE DEF b, store
      <4>2. Holds(file, StoreLine(file, store, stripped), b + 1)
        BY <2>6, <4>1, HoldsMore
      <4> QED
        BY <4>2 DEF b, store
    <3>5. Holds(file, WithRow(Flushed(s), fields[1], fields[2]), c)
      BY <2>4, <3>2, <3>4
    <3>6. c = Count(file, n + 1)
      BY DEF c
    <3> DEFINE key == fields[1]
               value == fields[2]
    <3> HIDE DEF key, value
    <3>7. /\ key \in FieldValues /\ value \in FieldValues \cup {NullField}
          /\ Holds(file, WithRow(Flushed(s), key, value), c)
      BY <3>1, <3>5 DEF key, value
    <3>8. Progress(file, AddRow(s, key, value), n + 1)
      BY <1>1, <1>6, <2>1, <2>4, <3>3, <3>6, <3>7, AddRowProgress
    <3> QED
      BY <2>6, <3>8 DEF key, value
  <2>7. r = Refused(s) \/ (WellFormed(file, stripped) /\ r = AddRow(s, fields[1], fields[2]))
    BY <1>6, ApplyLineSteps
  <2> QED
    BY <2>5, <2>6, <2>7 DEF r
<1> QED
  BY <1>4, <1>5, <1>6

-----------------------------------------------------------------------------
(***************************************************************************)
(* How far a message brings the server: h is how the file is cut into      *)
(* lines, d how the lines with data are found among them.                  *)
(***************************************************************************)
Reading(f, h, d) ==
  /\ CutSteps(h, f.bytes) /\ Cut(f.bytes) = h[Len(f.bytes)]
  /\ DataSteps(d, AllLines(f)) /\ LinesWithData(AllLines(f)) = d[Len(AllLines(f))]

IsFile(f) ==
  /\ f.bytes \in Seq(STRING) /\ f.header \in BOOLEAN
  /\ f.before = [k \in DOMAIN f.before |-> f.before[k]]

LEMMA AllLinesTyped ==
  ASSUME NEW f, IsFile(f)
  PROVE  AllLines(f) \in Seq(Seq(STRING))
<1>1. Cut(f.bytes).lines \in Seq(Seq(STRING)) /\ Cut(f.bytes).rest \in Seq(STRING)
  BY CutFacts DEF IsFile
<1> QED
  BY <1>1 DEF AllLines

LEMMA FilesAreRead ==
  ASSUME NEW f, IsFile(f)
  PROVE  \E h, d : Reading(f, h, d)
<1>1. Len(f.bytes) \in Nat
  BY DEF IsFile
<1>2. PICK h : /\ Cut(f.bytes) = h[Len(f.bytes)] /\ h[0] = NoBytes
               /\ \A i \in 1..Len(f.bytes) : h[i] = NextByte(h[i - 1], f.bytes[i])
  BY <1>1, CutUnfolds
<1> DEFINE lines == AllLines(f)
<1>3. Len(lines) \in Nat
  BY AllLinesTyped
<1> HIDE DEF lines
<1>4. PICK d : /\ LinesWithData(lines) = d[Len(lines)] /\ d[0] = <<>>
               /\ \A i \in 1..Len(lines) : d[i] = KeepData(d[i - 1], lines[i])
  BY <1>3, DataUnfolds
<1>5. Reading(f, h, d)
  BY <1>2, <1>4 DEF Reading, CutSteps, DataSteps, lines
<1> QED
  BY <1>5

\* What the file says of the lines found in its first a bytes.
LEMMA LinesOfFile ==
  ASSUME NEW f, IsFile(f), NEW h, NEW d, Reading(f, h, d), NEW a \in 0..Len(f.bytes)
  PROVE  /\ IsCut(h[a]) /\ Len(h[a].lines) \in Nat
         /\ Len(h[a].lines) + 1 <= Len(AllLines(f))
         /\ \A i \in 1..Len(h[a].lines) : AllLines(f)[i] = h[a].lines[i]
<1> DEFINE N == Len(f.bytes)
           L == h[a].lines
           M == h[N].lines
           rest == h[N].rest
<1>1. N \in Nat /\ f.bytes \in Seq(STRING) /\ a \in 0..N /\ N \in a..N /\ N \in 0..N
  BY DEF IsFile
<1>2. CutSteps(h, f.bytes) /\ AllLines(f) = Append(M, rest)
  BY DEF Reading, AllLines
<1>3. IsCut(h[a]) /\ IsCut(h[N])
  BY <1>1, <1>2, CutsTyped
<1>4. Len(L) <= Len(M) /\ \A i \in 1..Len(L) : M[i] = L[i]
  BY <1>1, <1>2, LinesArePrefix, SMTT(30)
<1>5. L \in Seq(Seq(STRING)) /\ M \in Seq(Seq(STRING)) /\ rest \in Seq(STRING)
  BY <1>3 DEF IsCut, IsRest
<1> HIDE DEF N, L, M, rest
<1>6. /\ Len(L) \in Nat /\ Len(M) \in Nat /\ Len(Append(M, rest)) = Len(M) + 1
      /\ \A i \in 1..Len(M) : Append(M, rest)[i] = M[i]
  BY <1>5
<1>7. \A i \in 1..Len(L) : i \in 1..Len(M)
  BY <1>4, <1>6
<1>8. /\ Len(L) + 1 <= Len(AllLines(f))
      /\ \A i \in 1..Len(L) : AllLines(f)[i] = L[i]
  BY <1>2, <1>4, <1>6, <1>7
<1> QED
  BY <1>3, <1>6, <1>8 DEF L

\* The lines k + 1, k + 2, ... of the file.
From(ls, lines, k) ==
  Len(ls) \in Nat /\ k + Len(ls) <= Len(lines) /\ \A i \in 1..Len(ls) : ls[i] = lines[k + i]

LEMMA ApplyLinesProgress ==
  ASSUME IsFile(file), NEW h, NEW d, Reading(file, h, d), NEW s, Good(s), NEW k \in Nat,
         NEW ls, From(ls, AllLines(file), k), Progress(file, s, Len(d[k]))
  PROVE  Progress(file, ApplyLines(s, ls), Len(d[k + Len(ls)]))
<1> DEFINE A == AllLines(file)
           N == Len(ls)
           W == LinesWithData(A)
<1>1. /\ A \in Seq(Seq(STRING)) /\ DataSteps(d, A) /\ W = d[Len(A)]
      /\ file.header \in BOOLEAN
  BY AllLinesTyped DEF Reading, IsFile
<1>2. N \in Nat /\ k + N <= Len(A) /\ \A i \in 1..N : ls[i] = A[k + i]
  BY DEF From
<1>3. PICK e : /\ ApplyLines(s, ls) = e[N] /\ e[0] = s
               /\ \A i \in 1..N : e[i] = ApplyLine(e[i - 1], ls[i])
  BY <1>2, LinesUnfold
<1>4. W \in Seq(Seq(STRING)) /\ Len(A) \in Nat /\ W = LinesWithData(AllLines(file))
  <2>1. Len(A) \in Nat /\ Len(A) \in 0..Len(A)
    BY <1>1
  <2>2. d[Len(A)] \in Seq(Seq(STRING))
    BY <1>1, <2>1, DataTyped
  <2> QED
    BY <1>1, <2>1, <2>2
<1> HIDE DEF A, N, W
<1> DEFINE T == {i \in Nat : i \in 0..N => Good(e[i]) /\ Progress(file, e[i], Len(d[k + i]))}
<1>5. 0 \in T
  BY <1>3
<1>6. ASSUME NEW i \in T
      PROVE  i + 1 \in T
  <2> SUFFICES ASSUME i + 1 \in 0..N
               PROVE  Good(e[i + 1]) /\ Progress(file, e[i + 1], Len(d[k + (i + 1)]))
    OBVIOUS
  <2> DEFINE q == k + (i + 1)
             line == ls[i + 1]
             z == e[i]
             n == Len(d[q - 1])
  <2>1. /\ i \in Nat /\ i \in 0..N /\ i + 1 \in 1..N /\ (i + 1) - 1 = i
        /\ q \in 1..Len(A) /\ q - 1 = k + i
    BY <1>2, <1>4
  <2>2. /\ Good(z) /\ Progress(file, z, n) /\ e[i + 1] = ApplyLine(z, line)
        /\ line = A[q]
    BY <1>2, <1>3, <2>1
  <2> HIDE DEF q, line, z, n
  <2>3. /\ Len(d[q - 1]) \in Nat /\ Len(d[q]) <= Len(W)
        /\ ~IsData(A[q]) => Len(d[q]) = Len(d[q - 1])
        /\ IsData(A[q]) => Len(d[q]) = Len(d[q - 1]) + 1 /\ W[Len(d[q])] = Stripped(A[q])
    BY <1>1, <2>1, DataStep
  <2>4. /\ n \in Nat
        /\ ~IsData(line) => Len(d[q]) = n
        /\ IsData(line) => Len(d[q]) = n + 1 /\ n + 1 <= Len(W) /\ W[n + 1] = Stripped(line)
    BY <2>2, <2>3 DEF n
  <2>5. CASE ~IsData(line)
    <3>1. ApplyLine(z, line) = z
      BY <2>5, ApplyLineSteps
    <3> QED
      BY <2>2, <2>4, <2>5, <3>1 DEF q
  <2>6. CASE IsData(line)
    <3>1. Progress(file, ApplyLine(z, line), n + 1)
      BY <1>1, <1>4, <2>2, <2>4, <2>6, ApplyLineProgress
    <3>2. Good(ApplyLine(z, line))
      BY <2>2, ApplyLineGood
    <3> QED
      BY <2>2, <2>4, <2>6, <3>1, <3>2 DEF q
  <2> QED
    BY <2>5, <2>6
<1> HIDE DEF T
<1>7. T = Nat
  <2>1. T \subseteq Nat
    BY DEF T
  <2> QED
    BY <1>5, <1>6, <2>1, InductionOnNat
<1>8. N \in T /\ N \in 0..N
  BY <1>2, <1>7
<1> QED
  BY <1>3, <1>8 DEF T, N

\* What stays in the buffer does not matter.
WithBuffer(s, v) == [s EXCEPT !.buffer = v]
LEMMA BufferProgress ==
  ASSUME NEW f, NEW s, HasFields(s), NEW n, Progress(f, s, n), NEW v
  PROVE  /\ Progress(f, WithBuffer(s, v), n)
         /\ WithBuffer(s, v).buffer = v /\ WithBuffer(s, v).failed = s.failed
<1> DEFINE g == WithBuffer(s, v)
<1>1. /\ g.buffer = v /\ g.headerPending = s.headerPending
      /\ g.pending = s.pending /\ g.inserted = s.inserted /\ g.rows = s.rows
      /\ g.index = s.index /\ g.failed = s.failed
  BY SetBuffer DEF WithBuffer
<1> HIDE DEF g
<1>2. Store(g) = Store(s) /\ Flushed(g) = Flushed(s)
  BY <1>1 DEF Store, Flushed
<1>3. Progress(f, g, n)
  BY <1>1, <1>2 DEF Progress
<1> QED
  BY <1>1, <1>3 DEF g

\* A server that has read the first b bytes.
CameTo(f, s, h, d, b) ==
  /\ Progress(f, s, Len(d[Len(h[b].lines)]))
  /\ ~s.failed => s.buffer = h[b].rest

\* flush_copy_buffer in the middle of the file.
LEMMA MessageProgress ==
  ASSUME IsFile(file), NEW h, NEW d, Reading(file, h, d), NEW a \in 0..Len(file.bytes),
         NEW n \in Nat, a + n <= Len(file.bytes), NEW s, Good(s),
         NEW more, Piece(more, file.bytes, a, n), s.buffer = h[a].rest \o more,
         Progress(file, s, Len(d[Len(h[a].lines)]))
  PROVE  CameTo(file, FlushBuffer(s, FALSE), h, d, a + n)
<1> DEFINE g == FlushBuffer(s, FALSE)
           b == a + n
           cut == Cut(s.buffer)
           ls == cut.lines
           L == h[a].lines
           M == h[b].lines
           A == AllLines(file)
           end == ApplyLines(s, ls)
<1>1. file.bytes \in Seq(STRING) /\ CutSteps(h, file.bytes) /\ b \in 0..Len(file.bytes)
  BY DEF IsFile, Reading
<1>2. M = L \o ls /\ h[b].rest = cut.rest
  <2> DEFINE bytes == file.bytes
  <2>1. /\ bytes \in Seq(STRING) /\ CutSteps(h, bytes) /\ a \in 0..Len(bytes)
        /\ a + n <= Len(bytes) /\ Piece(more, bytes, a, n)
    BY <1>1
  <2> HIDE DEF bytes
  <2>2. Adds(h, a, n, h[a].rest \o more)
    BY <2>1, CutMore
  <2> QED
    BY <2>2 DEF Adds
<1>3. /\ Len(M) \in Nat /\ Len(M) + 1 <= Len(A)
      /\ \A i \in 1..Len(M) : A[i] = M[i]
  BY <1>1, LinesOfFile
<1>4. L \in Seq(Seq(STRING)) /\ ls \in Seq(Seq(STRING))
  <2>1. IsCut(h[a])
    BY <1>1, CutsTyped
  <2>2. s.buffer \in Seq(STRING)
    BY DEF Good, IsServer
  <2> QED
    BY <2>1, <2>2, CutFacts DEF IsCut
<1>5. g = IF end.failed THEN end ELSE WithBuffer(end, cut.rest)
  BY DEF FlushBuffer, Drained, WithBuffer
<1> HIDE DEF g, b, cut, L, M, A, end
<1>6. Len(L) \in Nat /\ Len(ls) \in Nat /\ Len(M) = Len(L) + Len(ls)
  BY <1>2, <1>4
<1>7. \A i \in 1..Len(ls) : ls[i] = M[Len(L) + i]
  BY <1>2, <1>4
<1>8. Len(A) \in Nat
  <2>1. A \in Seq(Seq(STRING))
    BY AllLinesTyped DEF A
  <2> QED
    BY <2>1
<1>9. From(ls, A, Len(L))
  <2>1. Len(L) + Len(ls) <= Len(A)
    BY <1>3, <1>6, <1>8
  <2>2. \A i \in 1..Len(ls) : Len(L) + i \in 1..Len(M)
    BY <1>6
  <2>3. \A i \in 1..Len(ls) : ls[i] = A[Len(L) + i]
    BY <1>3, <1>7, <2>2
  <2> QED
    BY <1>6, <2>1, <2>3 DEF From
<1>10. Progress(file, end, Len(d[Len(M)]))
  <2>1. Progress(file, s, Len(d[Len(L)])) /\ From(ls, AllLines(file), Len(L))
    BY <1>9 DEF L, A
  <2>2. Progress(file, ApplyLines(s, ls), Len(d[Len(L) + Len(ls)]))
    BY <1>6, <2>1, ApplyLinesProgress
  <2> QED
    BY <1>6, <2>2 DEF end
<1>11. HasFields(end)
  <2>1. Good(end)
    BY <1>6, ApplyLinesGood DEF end
  <2> QED
    BY <2>1 DEF Good, IsServer
<1>12. CASE end.failed
  BY <1>5, <1>10, <1>12 DEF CameTo, g, b, M
<1>13. CASE ~end.failed
  <2>1. g = WithBuffer(end, cut.rest)
    BY <1>5, <1>13
  <2>2. /\ Progress(file, WithBuffer(end, cut.rest), Len(d[Len(M)]))
        /\ WithBuffer(end, cut.rest).buffer = cut.rest
    BY <1>10, <1>11, BufferProgress
  <2> QED
    BY <1>2, <2>1, <2>2 DEF CameTo, g, b, M
<1> QED
  BY <1>12, <1>13

\* A rest cut again is itself.
LEMMA CutOfRest ==
  ASSUME NEW rest, IsRest(rest)
  PROVE  Cut(rest).lines = <<>> /\ Cut(rest).rest = rest
<1> DEFINE none == <<>>
<1>1. none \in Seq(STRING) /\ Len(none) = 0 /\ rest \in Seq(STRING)
  BY DEF IsRest
<1>2. Joined(rest, rest, none)
  BY <1>1 DEF Joined
<1> HIDE DEF none
<1>3. PICK v : CutsAfter(v, rest, rest, none, Len(none))
  BY <1>1, <1>2, CutAfterRest
<1> QED
  BY <1>1, <1>3 DEF CutsAfter

\* flush_copy_buffer at the end of the file.
LEMMA EndProgress ==
  ASSUME IsFile(file), NEW h, NEW d, Reading(file, h, d), NEW s, Good(s),
         s.buffer = h[Len(file.bytes)].rest,
         Progress(file, s, Len(d[Len(h[Len(file.bytes)].lines)])), NEW g,
         g = FlushBuffer(s, TRUE)
  PROVE  Progress(file, g, Len(LinesWithData(AllLines(file))))
<1> DEFINE N == Len(file.bytes)
           rest == h[N].rest
           L == h[N].lines
           A == AllLines(file)
           cut == Cut(s.buffer)
           ls == IF cut.rest # <<>> THEN Append(cut.lines, cut.rest) ELSE cut.lines
           end == ApplyLines(s, ls)
<1>1. file.bytes \in Seq(STRING) /\ CutSteps(h, file.bytes) /\ N \in 0..Len(file.bytes)
  BY DEF IsFile, Reading
<1>2. IsCut(h[N])
  BY <1>1, CutsTyped
<1>3. IsRest(rest) /\ L \in Seq(Seq(STRING)) /\ rest \in Seq(STRING)
  BY <1>2 DEF IsCut, IsRest
<1>4. A = Append(L, rest) /\ A \in Seq(Seq(STRING))
  BY AllLinesTyped DEF Reading, AllLines
<1>5. g = IF end.failed THEN end ELSE WithBuffer(end, <<>>)
  BY DEF FlushBuffer, WithBuffer
<1>6. ls = IF rest # <<>> THEN <<rest>> ELSE <<>>
  <2>1. cut.lines = <<>> /\ cut.rest = rest
    BY <1>3, CutOfRest
  <2>2. Append(<<>>, rest) = <<rest>>
    OBVIOUS
  <2> QED
    BY <2>1, <2>2
<1>7. /\ DataSteps(d, A) /\ LinesWithData(A) = d[Len(A)]
      /\ Progress(file, s, Len(d[Len(L)]))
  BY DEF Reading
<1> HIDE DEF N, rest, L, A, ls, end
<1>8. Len(A) = Len(L) + 1 /\ A[Len(L) + 1] = rest /\ Len(L) \in Nat
  BY <1>3, <1>4
<1>9. Len(ls) \in Nat
  BY <1>6
<1>10. Progress(file, end, Len(LinesWithData(A)))
  <2>1. CASE rest # <<>>
    <3>1. Len(ls) = 1 /\ ls[1] = rest
      BY <1>6, <2>1
    <3>2. \A i \in 1..Len(ls) : i = 1
      BY <3>1
    <3>3. From(ls, A, Len(L))
      BY <1>8, <3>1, <3>2 DEF From
    <3>4. From(ls, AllLines(file), Len(L))
      BY <3>3 DEF A
    <3>5. Progress(file, ApplyLines(s, ls), Len(d[Len(L) + Len(ls)]))
      BY <1>7, <1>8, <3>4, ApplyLinesProgress
    <3> QED
      BY <1>7, <1>8, <3>1, <3>5 DEF end
  <2>2. CASE rest = <<>>
    <3>1. Len(ls) = 0
      BY <1>6, <2>2
    <3>2. From(ls, A, Len(L))
      BY <1>8, <3>1 DEF From
    <3>3. From(ls, AllLines(file), Len(L))
      BY <3>2 DEF A
    <3>4. Progress(file, ApplyLines(s, ls), Len(d[Len(L) + Len(ls)]))
      BY <1>7, <1>8, <3>3, ApplyLinesProgress
    <3>5. Len(d[Len(A)]) = Len(d[Len(L)])
      <4>1. ~IsData(rest)
        BY <2>2 DEF IsData
      <4>2. Len(A) \in 1..Len(A) /\ Len(A) - 1 = Len(L) /\ A[Len(A)] = rest
        BY <1>8
      <4>3. ~IsData(A[Len(A)]) => Len(d[Len(A)]) = Len(d[Len(A) - 1])
        BY <1>4, <1>7, <4>2, DataStep
      <4> QED
        BY <4>1, <4>2, <4>3
    <3> QED
      BY <1>7, <1>8, <3>1, <3>4, <3>5 DEF end
  <2> QED
    BY <2>1, <2>2
<1>11. HasFields(end)
  <2>1. Good(end)
    BY <1>9, ApplyLinesGood DEF end
  <2> QED
    BY <2>1 DEF Good, IsServer
<1>12. CASE end.failed
  BY <1>5, <1>10, <1>12 DEF A
<1>13. CASE ~end.failed
  <2>1. g = WithBuffer(end, <<>>)
    BY <1>5, <1>13
  <2>2. Progress(file, WithBuffer(end, <<>>), Len(LinesWithData(A)))
    BY <1>10, <1>11, BufferProgress
  <2> QED
    BY <2>1, <2>2 DEF A
<1> QED
  BY <1>12, <1>13

AreRows(rows) == rows = [k \in DOMAIN rows |-> rows[k]]
LEMMA StoreHasRows ==
  ASSUME NEW f, NEW lines, Len(lines) \in Nat, NEW n \in 0..Len(lines), AreRows(f.before),
         NEW store, store = AfterLines(f, lines, n)
  PROVE  AreRows(store.rows)
<1>1. PICK h : StoreSteps(f, lines, h)
  BY StoreUnfolds
<1>2. store = h[n]
  BY <1>1 DEF StoreSteps
<1>3. CASE n = 0
  <2>1. store.rows = f.before
    BY <1>1, <1>2, <1>3 DEF StoreSteps, Begun
  <2> QED
    BY <2>1
<1>4. CASE n # 0
  <2>1. n \in 1..Len(lines)
    BY <1>4
  <2>2. store = StoreLine(f, h[n - 1], lines[n])
    BY <1>1, <1>2, <2>1 DEF StoreSteps
  <2> QED
    BY <2>2 DEF StoreLine, WithRow, AreRows
<1> QED
  BY <1>3, <1>4

\* What a first part of the lines leaves of a key: as it was if no line names it, and
\* the row and the entry of the line if it is the only one and the key is new.
KeyEntries(store, key) == {e \in store.index : e[2] = key}
Unnamed(f, store, key) ==
  /\ key \in DOMAIN store.rows <=> key \in DOMAIN f.before
  /\ key \in DOMAIN f.before => store.rows[key] = f.before[key]
  /\ KeyEntries(store, key)
       = IF key \in DOMAIN f.before THEN {<<f.before[key], key>>} ELSE {}
NamedBy(f, store, key, line) ==
  /\ key \in DOMAIN store.rows /\ store.rows[key] = SplitFields(f, line)[2]
  /\ KeyEntries(store, key) = {<<SplitFields(f, line)[2], key>>}
Named(f, lines, store, n, key) ==
  LET naming == Naming(f, lines, n, key)
  IN /\ naming = {} => Unnamed(f, store, key)
     /\ key \notin DOMAIN f.before =>
          \A i \in naming : naming = {i} => NamedBy(f, store, key, lines[i])

LEMMA LinesName ==
  ASSUME NEW f, NEW lines, Len(lines) \in Nat, NEW key, NEW n \in 0..Len(lines)
  PROVE  Named(f, lines, AfterLines(f, lines, n), n, key)
<1>1. PICK h : StoreSteps(f, lines, h)
  BY StoreUnfolds
<1> DEFINE T == {m \in Nat : m <= Len(lines) => Named(f, lines, h[m], m, key)}
<1>2. 0 \in T
  <2>1. h[0].rows = f.before /\ h[0].index = EntriesOf(f.before)
    BY <1>1 DEF StoreSteps, Begun
  <2>2. Naming(f, lines, 0, key) = {}
    BY DEF Naming
  <2>3. KeyEntries(h[0], key)
          = IF key \in DOMAIN f.before THEN {<<f.before[key], key>>} ELSE {}
    BY <2>1 DEF KeyEntries, EntriesOf
  <2>4. Named(f, lines, h[0], 0, key)
    BY <2>1, <2>2, <2>3 DEF Named, Unnamed
  <2> QED
    BY <2>4
<1>3. ASSUME NEW m \in T
      PROVE  m + 1 \in T
  <2> SUFFICES ASSUME m + 1 <= Len(lines)
               PROVE  Named(f, lines, h[m + 1], m + 1, key)
    OBVIOUS
  <2>1. m \in Nat /\ m + 1 \in 1..Len(lines) /\ (m + 1) - 1 = m /\ m <= Len(lines)
    OBVIOUS
  <2> DEFINE line == lines[m + 1]
             k == SplitFields(f, line)[1]
             v == SplitFields(f, line)[2]
             was == h[m]
             is == h[m + 1]
  <2>2. Named(f, lines, was, m, key)
    BY <2>1
  <2>3. is = WithRow(was, k, v)
    BY <1>1, <2>1 DEF StoreSteps, StoreLine
  <2>4. /\ DOMAIN is.rows = DOMAIN was.rows \cup {k} /\ is.index = was.index \cup {<<v, k>>}
        /\ is.rows[k] = v /\ \A j \in DOMAIN was.rows : j # k => is.rows[j] = was.rows[j]
    BY <2>3 DEF WithRow
  <2>5. Naming(f, lines, m + 1, key)
          = Naming(f, lines, m, key) \cup (IF k = key THEN {m + 1} ELSE {})
    BY <2>1 DEF Naming
  <2>6. m + 1 \notin Naming(f, lines, m, key)
    BY <2>1 DEF Naming
  <2> HIDE DEF was, is, k, v, line
  <2>7. CASE k # key
    <3>1. KeyEntries(is, key) = KeyEntries(was, key)
      BY <2>4, <2>7 DEF KeyEntries
    <3>2. Naming(f, lines, m + 1, key) = Naming(f, lines, m, key)
      BY <2>5, <2>7
    <3>3. /\ key \in DOMAIN is.rows <=> key \in DOMAIN was.rows
          /\ key \in DOMAIN was.rows => is.rows[key] = was.rows[key]
      BY <2>4, <2>7
    <3>4. Unnamed(f, was, key) => Unnamed(f, is, key)
      BY <3>1, <3>3 DEF Unnamed
    <3>5. \A l : NamedBy(f, was, key, l) => NamedBy(f, is, key, l)
      BY <3>1, <3>3 DEF NamedBy
    <3>6. Named(f, lines, is, m + 1, key)
      BY <2>2, <3>2, <3>4, <3>5 DEF Named
    <3> QED
      BY <3>6 DEF is
  <2>8. CASE k = key
    <3>1. m + 1 \in Naming(f, lines, m + 1, key)
      BY <2>5, <2>8
    <3>2. ASSUME NEW i \in Naming(f, lines, m + 1, key),
                 Naming(f, lines, m + 1, key) = {i}, key \notin DOMAIN f.before
          PROVE  NamedBy(f, is, key, lines[i])
      <4>1. i = m + 1 /\ Naming(f, lines, m, key) = {}
        BY <2>5, <2>6, <2>8, <3>1, <3>2
      <4>2. KeyEntries(was, key) = {}
        BY <2>2, <3>2, <4>1 DEF Named, Unnamed
      <4>3. KeyEntries(is, key) = {<<v, key>>}
        BY <2>4, <2>8, <4>2 DEF KeyEntries
      <4>4. key \in DOMAIN is.rows /\ is.rows[key] = v
        BY <2>4, <2>8
      <4>5. v = SplitFields(f, lines[i])[2]
        BY <4>1 DEF v, line
      <4> QED
        BY <4>3, <4>4, <4>5 DEF NamedBy
    <3>3. Named(f, lines, is, m + 1, key)
      BY <3>1, <3>2 DEF Named
    <3> QED
      BY <3>3 DEF is
  <2> QED
    BY <2>7, <2>8
<1>4. T = Nat
  <2>1. T \subseteq Nat
    OBVIOUS
  <2> HIDE DEF T
  <2> QED
    BY <1>2, <1>3, <2>1, InductionOnNat
<1>5. n \in T /\ n <= Len(lines)
  BY <1>4
<1>6. AfterLines(f, lines, n) = h[n]
  BY <1>1, Zenon DEF StoreSteps
<1> QED
  BY <1>5, <1>6

-----------------------------------------------------------------------------
(***************************************************************************)
(* The messages again: where they are in the file.                         *)
(***************************************************************************)
Reached(h, d) ==
  /\ Reading(file, h, d) /\ copying.buffer = h[sent].rest
  /\ Progress(file, Server, Len(d[Len(h[sent].lines)]))

FirstLines(m) ==
  /\ Holds(file, [rows |-> copied, index |-> entries], m)
  /\ reply = "done" => m = Len(DataLines(file)) /\ copying.inserted = m

ReadInv ==
  /\ IsFile(file) /\ sent \in 0..Len(file.bytes)
  /\ \E m \in 0..Len(DataLines(file)) : FirstLines(m)
  /\ reply = "open" => \E h, d : Reached(h, d)

LEMMA DataLinesTyped ==
  ASSUME NEW f, IsFile(f)
  PROVE  /\ Len(DataLines(f)) \in Nat
         /\ Len(DataLines(f)) = Count(f, Len(LinesWithData(AllLines(f))))
<1> DEFINE A == AllLines(f)
           W == LinesWithData(A)
<1>1. A \in Seq(Seq(STRING)) /\ f.header \in BOOLEAN
  BY AllLinesTyped DEF IsFile
<1>2. PICK h, d : Reading(f, h, d)
  BY FilesAreRead
<1>3. DataSteps(d, A) /\ W = d[Len(A)]
  BY <1>2 DEF Reading
<1> HIDE DEF W
<1>4. Len(A) \in 0..Len(A)
  <2> HIDE DEF A
  <2> QED
    BY <1>1
<1>5. W \in Seq(Seq(STRING))
  BY <1>1, <1>3, <1>4, DataTyped
<1>6. W = LinesWithData(AllLines(f))
  BY DEF W
<1> QED
  BY <1>1, <1>5, <1>6, LinesAfterHeader

\* What a handler leaves.
LEMMA LeaveProgress ==
  ASSUME NEW s, Leave(s), file' = file, NEW n, Progress(file, s, n)
  PROVE  /\ copying'.buffer = s.buffer /\ copying'.inserted = s.inserted
         /\ [rows |-> copied', index |-> entries'] = Store(s)
         /\ ~s.failed => Progress(file, Server', n)
<1>1. /\ copied' = s.rows /\ entries' = s.index
      /\ copying'.buffer = s.buffer /\ copying'.pending = s.pending
      /\ copying'.inserted = s.inserted /\ copying'.headerPending = s.headerPending
  BY DEF Leave
<1> DEFINE g == Server'
<1>2. /\ g.pending = s.pending /\ g.inserted = s.inserted
      /\ g.headerPending = s.headerPending /\ g.rows = s.rows /\ g.index = s.index
  BY <1>1 DEF Server
<1> HIDE DEF g
<1>3. Store(g) = Store(s) /\ Flushed(g) = Flushed(s)
  BY <1>2 DEF Store, Flushed
<1>4. ~s.failed => Progress(file, g, n)
  BY <1>2, <1>3 DEF Progress
<1> QED
  BY <1>1, <1>4 DEF Store, g

LEMMA ReadInvStarts ==
  ASSUME NEW f, CopyInit(f), IsFile(f)
  PROVE  ReadInv
<1>1. /\ file = f /\ sent = 0 /\ reply = "open" /\ copied = f.before
      /\ entries = EntriesOf(f.before) /\ copying.buffer = <<>> /\ copying.pending = <<>>
      /\ copying.inserted = 0 /\ copying.headerPending = f.header
  BY DEF CopyInit
<1> DEFINE lines == DataLines(f)
<1>2. Len(lines) \in Nat
  BY DataLinesTyped
<1>3. AfterLines(f, lines, 0) = Begun(f)
  BY <1>2, StoreStarts
<1>4. Holds(f, Begun(f), 0)
  BY <1>3 DEF Holds
<1>5. PICK h, d : Reading(f, h, d)
  BY FilesAreRead
<1>6. h[0].lines = <<>> /\ h[0].rest = <<>> /\ d[0] = <<>>
  BY <1>5 DEF Reading, CutSteps, DataSteps, NoBytes
<1>7. Len(d[Len(h[0].lines)]) = 0
  BY <1>6
<1> DEFINE s == Server
<1>8. /\ s.pending = <<>> /\ s.inserted = 0 /\ s.headerPending = f.header
      /\ s.rows = f.before /\ s.index = EntriesOf(f.before)
  BY <1>1 DEF Server
<1> HIDE DEF s, lines
<1>9. Store(s) = Begun(f)
  BY <1>8 DEF Store, Begun
<1>10. Flushed(s) = Begun(f)
  BY <1>8, NothingWaits DEF Flushed, Batch, Begun, IsFile
<1>11. Count(f, 0) = 0 /\ f.header = (f.header /\ 0 = 0)
  BY DEF Count, IsFile
<1>12. Progress(f, s, 0)
  <2>1. 0 \in 0..Len(DataLines(f))
    BY <1>2 DEF lines
  <2>2. \E m \in 0..Len(DataLines(f)) : Holds(f, Store(s), m)
    BY <1>4, <1>9, <2>1
  <2> QED
    BY <1>4, <1>8, <1>10, <1>11, <2>2 DEF Progress
<1>13. Reached(h, d)
  BY <1>1, <1>5, <1>6, <1>7, <1>12 DEF Reached, s
<1>14. FirstLines(0)
  BY <1>1, <1>4 DEF FirstLines, Begun
<1>15. 0 \in 0..Len(DataLines(file)) /\ sent \in 0..Len(file.bytes)
  BY <1>1, <1>2 DEF IsFile, lines
<1> QED
  BY <1>1, <1>13, <1>14, <1>15 DEF ReadInv

\* A message of n bytes.
LEMMA DataKeepsReadInv ==
  ASSUME CopyInv, ReadInv, NEW n \in 1..Len(file.bytes), OnCopyData(n)
  PROVE  ReadInv'
<1> DEFINE more == SubSeq(file.bytes, sent + 1, sent + n)
           before == WithBuffer(Server, Server.buffer \o more)
           s == FlushBuffer(before, FALSE)
<1>1. /\ reply = "open" /\ sent + n <= Len(file.bytes) /\ Leave(s) /\ sent' = sent + n
      /\ (reply' = IF s.failed THEN "failed" ELSE reply) /\ file' = file
  BY DEF OnCopyData, WithBuffer
<1>2. /\ IsFile(file) /\ sent \in 0..Len(file.bytes) /\ n \in Nat /\ Good(Server)
      /\ file.bytes \in Seq(STRING)
  BY <1>1 DEF ReadInv, CopyInv, IsFile
<1>3. PICK h, d : Reached(h, d)
  BY <1>1 DEF ReadInv
<1> DEFINE q == Len(d[Len(h[sent].lines)])
<1>4. Reading(file, h, d) /\ copying.buffer = h[sent].rest /\ Progress(file, Server, q)
  BY <1>3 DEF Reached
<1>5. Piece(more, file.bytes, sent, n)
  BY <1>1, <1>2, PieceOfFile
<1> HIDE DEF more, q
<1>6. HasFields(Server) /\ Server.buffer = copying.buffer
  BY ServerFields
<1>7. Progress(file, before, q) /\ before.buffer = h[sent].rest \o more
  <2> DEFINE v == Server.buffer \o more
  <2>1. v = h[sent].rest \o more
    BY <1>4, <1>6
  <2> HIDE DEF v
  <2>2. Progress(file, WithBuffer(Server, v), q) /\ WithBuffer(Server, v).buffer = v
    BY <1>4, <1>6, BufferProgress
  <2> QED
    BY <2>1, <2>2 DEF v
<1>8. Good(before)
  <2>1. Server.buffer \o more \in Seq(STRING)
    BY <1>2, <1>5 DEF Good, IsServer, Piece
  <2> DEFINE v == Server.buffer \o more
  <2>2. v \in Seq(STRING) /\ before = [Server EXCEPT !.buffer = v]
    BY <2>1 DEF WithBuffer
  <2> HIDE DEF v, before
  <2>3. /\ HasFields(before) /\ before.buffer = v /\ before.pending = Server.pending
        /\ before.rows = Server.rows /\ before.index = Server.index
        /\ before.failed = Server.failed
    BY <1>6, <2>2, SetBuffer, SMTT(30)
  <2> QED
    BY <1>2, <2>2, <2>3 DEF Good, IsServer
<1> HIDE DEF before
<1> DEFINE b == sent + n
           p == Len(d[Len(h[b].lines)])
<1>9. Progress(file, s, p) /\ (~s.failed => s.buffer = h[b].rest)
  <2>1. /\ IsFile(file) /\ Reading(file, h, d) /\ sent \in 0..Len(file.bytes) /\ n \in Nat
        /\ sent + n <= Len(file.bytes) /\ Good(before) /\ Piece(more, file.bytes, sent, n)
        /\ before.buffer = h[sent].rest \o more
        /\ Progress(file, before, Len(d[Len(h[sent].lines)]))
    BY <1>1, <1>2, <1>4, <1>5, <1>7, <1>8 DEF q
  <2> HIDE DEF s, p
  <2>2. CameTo(file, FlushBuffer(before, FALSE), h, d, sent + n)
    BY <2>1, MessageProgress
  <2> QED
    BY <2>2 DEF CameTo, s, p
<1> HIDE DEF s, p
<1>10. /\ copying'.buffer = s.buffer /\ [rows |-> copied', index |-> entries'] = Store(s)
       /\ (~s.failed => Progress(file, Server', p))
  BY <1>1, <1>9, LeaveProgress
<1>11. sent' \in 0..Len(file'.bytes) /\ IsFile(file') /\ sent' = b
  BY <1>1, <1>2
<1>12. \E m \in 0..Len(DataLines(file)) : Holds(file, Store(s), m)
  BY <1>9 DEF Progress
<1>13. reply' # "done"
  BY <1>1
<1>14. (\E m \in 0..Len(DataLines(file)) : FirstLines(m))'
  BY <1>1, <1>10, <1>12, <1>13 DEF FirstLines
<1>15. ASSUME reply' = "open"
       PROVE  Reached(h, d)'
  <2>1. ~s.failed
    BY <1>1, <1>15
  <2>2. copying'.buffer = h[b].rest /\ Progress(file, Server', p)
    BY <1>9, <1>10, <2>1
  <2> HIDE DEF b
  <2> QED
    BY <1>1, <1>4, <1>11, <2>2 DEF Reached, p
<1> QED
  BY <1>11, <1>14, <1>15 DEF ReadInv

\* The end of the file.
LEMMA DoneKeepsReadInv ==
  ASSUME CopyInv, ReadInv, OnCopyDone
  PROVE  ReadInv'
<1> DEFINE t == FlushBuffer(Server, TRUE)
           s == FinishWrites(t)
           W == LinesWithData(AllLines(file))
           lines == DataLines(file)
<1>1. /\ reply = "open" /\ Leave(s) /\ (reply' = IF s.failed THEN "failed" ELSE "done")
      /\ file' = file /\ sent' = sent /\ sent = Len(file.bytes)
  BY DEF OnCopyDone
<1>2. IsFile(file) /\ sent \in 0..Len(file.bytes) /\ Good(Server)
  BY <1>1 DEF ReadInv, CopyInv
<1>3. PICK h, d : Reached(h, d)
  BY <1>1 DEF ReadInv
<1>4. /\ Reading(file, h, d) /\ Server.buffer = h[Len(file.bytes)].rest
      /\ Progress(file, Server, Len(d[Len(h[Len(file.bytes)].lines)]))
  BY <1>1, <1>3, ServerFields DEF Reached
<1>5. Progress(file, t, Len(W))
  BY <1>2, <1>4, EndProgress
<1>6. Good(t) /\ HasFields(t)
  <2>1. Good(t)
    BY <1>2, FlushBufferGood
  <2> QED
    BY <2>1 DEF Good, IsServer
<1>7. Len(lines) \in Nat /\ Len(lines) = Count(file, Len(W))
  BY <1>2, DataLinesTyped
<1> HIDE DEF t, W, lines
<1>8. [rows |-> copied', index |-> entries'] = Store(s) /\ copying'.inserted = s.inserted
  BY <1>1 DEF Leave, Store
<1>9. CASE t.failed
  <2>1. s = t
    BY <1>9 DEF FinishWrites
  <2> HIDE DEF s
  <2>2. \E m \in 0..Len(DataLines(file)) : Holds(file, Store(s), m)
    BY <1>5, <2>1 DEF Progress
  <2>3. reply' = "failed"
    BY <1>1, <1>9, <2>1
  <2>4. (\E m \in 0..Len(DataLines(file)) : FirstLines(m))'
    BY <1>1, <1>8, <2>2, <2>3 DEF FirstLines
  <2> QED
    BY <1>1, <1>2, <2>3, <2>4 DEF ReadInv
<1>10. CASE ~t.failed /\ s = Refused(Taken(t))
  <2> HIDE DEF s
  <2>1. s.rows = t.rows /\ s.index = t.index /\ s.failed = TRUE
    BY <1>6, <1>10, TakenFields
  <2>2. Store(s) = Store(t)
    BY <2>1 DEF Store
  <2>3. \E m \in 0..Len(DataLines(file)) : Holds(file, Store(s), m)
    BY <1>5, <2>2 DEF Progress
  <2>4. reply' = "failed"
    BY <1>1, <2>1
  <2>5. (\E m \in 0..Len(DataLines(file)) : FirstLines(m))'
    BY <1>1, <1>8, <2>3, <2>4 DEF FirstLines
  <2> QED
    BY <1>1, <1>2, <2>4, <2>5 DEF ReadInv
<1>11. CASE ~t.failed /\ ((t.pending = <<>> /\ s = t) \/ s = PutBatch(t))
  <2> HIDE DEF s
  <2>2. s.inserted = t.inserted /\ s.failed = t.failed
    BY <1>6, <1>11, PutFields
  <2>3. Store(s) = Flushed(t)
    <3>1. CASE s = PutBatch(t)
      <4>1. s.rows = RowsAfter(t.rows, t.pending) /\ s.index = IndexAfter(t.index, t.pending)
        BY <1>6, <3>1, PutFields
      <4> QED
        BY <4>1 DEF Store, Flushed, Batch
    <3>2. CASE t.pending = <<>> /\ s = t
      <4>1. PICK m \in 0..Len(lines) : Holds(file, Store(t), m)
        BY <1>5 DEF Progress, lines
      <4>2. Store(t) = AfterLines(file, lines, m)
        BY <4>1 DEF Holds, lines
      <4>3. Store(t).rows = [k \in DOMAIN Store(t).rows |-> Store(t).rows[k]]
        <5> DEFINE u == Store(t)
        <5>1. u = AfterLines(file, lines, m) /\ m \in 0..Len(lines)
          BY <4>2
        <5>2. AreRows(file.before)
          BY <1>2 DEF IsFile, AreRows
        <5> HIDE DEF u
        <5>3. AreRows(u.rows)
          BY <1>7, <5>1, <5>2, StoreHasRows
        <5> QED
          BY <5>3 DEF u, AreRows
      <4>4. t.rows = [k \in DOMAIN t.rows |-> t.rows[k]]
        BY <4>3 DEF Store
      <4>5. RowsAfter(t.rows, <<>>) = t.rows /\ IndexAfter(t.index, <<>>) = t.index
        BY <4>4, NothingWaits
      <4> QED
        BY <3>2, <4>5 DEF Store, Flushed, Batch
    <3> QED
      BY <1>11, <3>1, <3>2
  <2>4. t.inserted = Len(lines) /\ Holds(file, Flushed(t), Len(lines))
    BY <1>5, <1>7, <1>11 DEF Progress
  <2>5. FirstLines(Len(lines))'
    BY <1>1, <1>8, <2>2, <2>3, <2>4 DEF FirstLines, lines
  <2>6. Len(lines) \in 0..Len(lines) /\ reply' # "open"
    BY <1>1, <1>7
  <2>7. (\E m \in 0..Len(DataLines(file)) : FirstLines(m))'
    BY <1>1, <2>5, <2>6 DEF lines
  <2> QED
    BY <1>1, <1>2, <2>6, <2>7 DEF ReadInv
<1>12. ~t.failed => s = FlushWrites(t)
  BY DEF FinishWrites
<1> QED
  BY <1>9, <1>10, <1>11, <1>12, FlushCases

LEMMA ReadInvStep ==
  ASSUME CopyInv, ReadInv, [CopyNext]_copyVars
  PROVE  ReadInv'
<1>1. ASSUME NEW n \in 1..Len(file.bytes), OnCopyData(n)
      PROVE  ReadInv'
  BY <1>1, DataKeepsReadInv
<1>2. CASE OnCopyDone
  BY <1>2, DoneKeepsReadInv
<1>3. CASE OnCopyFail
  <2>1. /\ file' = file /\ sent' = sent /\ reply' = "cancelled" /\ copying' = copying
        /\ copied' = copied /\ entries' = entries
    BY <1>3 DEF OnCopyFail
  <2>2. (\E m \in 0..Len(DataLines(file)) : FirstLines(m))'
    BY <2>1 DEF ReadInv, FirstLines
  <2> QED
    BY <2>1, <2>2 DEF ReadInv
<1>4. CASE UNCHANGED copyVars
  <2>1. /\ file' = file /\ sent' = sent /\ reply' = reply /\ copying' = copying
        /\ copied' = copied /\ entries' = entries
    BY <1>4 DEF copyVars
  <2>2. Server' = Server
    BY <2>1 DEF Server
  <2>3. (\E m \in 0..Len(DataLines(file)) : FirstLines(m))'
    BY <2>1 DEF ReadInv, FirstLines
  <2>4. ASSUME reply' = "open" PROVE (\E h, d : Reached(h, d))'
    <3>1. PICK h, d : Reached(h, d)
      BY <2>1, <2>4 DEF ReadInv
    <3>2. Reached(h, d)'
      BY <2>1, <2>2, <3>1 DEF Reached
    <3> QED
      BY <3>2
  <2> QED
    BY <2>1, <2>3, <2>4 DEF ReadInv
<1> QED
  BY <1>1, <1>2, <1>3, <1>4 DEF CopyNext

\* The store as the lines name it.
LEMMA ReadAsNamed ==
  ASSUME ReadInv
  PROVE  CopyStoresFirstLines
<1> DEFINE lines == DataLines(file)
           store == [rows |-> copied, index |-> entries]
<1>1. IsFile(file)
  BY DEF ReadInv
<1>2. Len(lines) \in Nat
  BY <1>1, DataLinesTyped
<1>3. PICK n \in 0..Len(lines) : FirstLines(n)
  BY DEF ReadInv
<1>4. /\ \A i \in 1..n : WellFormed(file, lines[i])
      /\ store = AfterLines(file, lines, n)
      /\ reply = "done" => n = Len(lines) /\ copying.inserted = n
  BY <1>3 DEF FirstLines, Holds
<1>5. store.rows = copied /\ store.index = entries
  OBVIOUS
<1> HIDE DEF lines, store
<1>6. ASSUME NEW key
      PROVE  StoredAsNamed(file, lines, n, key)
  <2>1. Named(file, lines, store, n, key)
    BY <1>2, <1>4, LinesName
  <2>2. KeyEntries(store, key) = EntriesFor(key)
    BY <1>5 DEF KeyEntries, EntriesFor
  <2>3. Unnamed(file, store, key) =>
          IF key \in DOMAIN file.before
            THEN HasRow(key, file.before[key]) /\ EntriesFor(key) = {<<file.before[key], key>>}
            ELSE key \notin DOMAIN copied /\ EntriesFor(key) = {}
    BY <1>5, <2>2 DEF Unnamed, HasRow
  <2>4. \A i : NamedBy(file, store, key, lines[i]) =>
          /\ HasRow(key, SplitFields(file, lines[i])[2])
          /\ EntriesFor(key) = {<<SplitFields(file, lines[i])[2], key>>}
    BY <1>5, <2>2 DEF NamedBy, HasRow
  <2> QED
    BY <2>1, <2>3, <2>4 DEF Named, StoredAsNamed
<1> QED
  BY <1>3, <1>4, <1>6 DEF CopyStoresFirstLines, lines

\* At any moment the store holds the rows of some first lines of the file, each with its
\* entry, and when the COPY is done those of all lines, as many as it reports: for any
\* file, wherever it is cut into messages (in a field, in a quote, in a line end, before
\* a last line without one), for batches of any size, and also when a line is refused,
\* although its row joins the batch before the index is asked, when the store refuses a
\* batch, or when the client cancels.  Keys that are named twice or stored before are
\* left out.  The table's rows had different values of the unique column before.
THEOREM CopiesAreFirstLines ==
  ASSUME NEW CONSTANT files,
         \A f \in files :
           /\ f.bytes \in Seq(STRING) /\ f.header \in BOOLEAN
           /\ f.before = [k \in DOMAIN f.before |-> f.before[k]]
           /\ \A a, b \in DOMAIN f.before :
                f.before[a] = f.before[b] /\ f.before[a] # NullField => a = b
  PROVE  CopySpec(files) => []CopyStoresFirstLines
<1>1. (\E f \in files : CopyInit(f)) => CopyInv /\ ReadInv
  <2> SUFFICES ASSUME NEW f \in files, CopyInit(f)
               PROVE  CopyInv /\ ReadInv
    OBVIOUS
  <2>1. CopyInv
    BY CopyInvStarts
  <2>2. IsFile(f)
    BY DEF IsFile
  <2>3. ReadInv
    BY <2>2, ReadInvStarts
  <2> QED
    BY <2>1, <2>3
<1>2. CopyInv /\ ReadInv /\ [CopyNext]_copyVars => CopyInv' /\ ReadInv'
  <2> SUFFICES ASSUME CopyInv, ReadInv, [CopyNext]_copyVars
               PROVE  CopyInv' /\ ReadInv'
    OBVIOUS
  <2>1. CopyInv'
    BY CopyInvStep
  <2>2. ReadInv'
    BY ReadInvStep
  <2> QED
    BY <2>1, <2>2
<1>3. ReadInv => CopyStoresFirstLines
  BY ReadAsNamed
<1> QED
  BY <1>1, <1>2, <1>3, PTL DEF CopySpec
=============================================================================
