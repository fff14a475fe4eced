---------------------------- MODULE GatewayProofs ---------------------------
(***************************************************************************)
(* Proofs about TxnStore and about GatewaySession, which extends it: for   *)
(* any keys, values, transactions, savepoint names, sessions, queries and  *)
(* bounds, for both stores, both modes and all isolation levels.  The      *)
(* first part is about the store, the second about the sessions over it.   *)
(* The first uses no assumption of GatewaySession, only TxnStore's own, so *)
(* it holds of the store under any other client too.                       *)
(***************************************************************************)
EXTENDS GatewaySession, FiniteSetTheorems, SequenceTheorems, TLAPS

-----------------------------------------------------------------------------
(***************************************************************************)
(* The store.                                                              *)
(*                                                                         *)
(* The buffer of a transaction is compared with its log entry by entry, by *)
(* the relation Replays, so no induction over logs is needed: appending a  *)
(* write, cutting a log at a savepoint and joining two logs each have a    *)
(* lemma.  BuffersReplayTheLog is inductive together with the types and    *)
(* with the order of the savepoints along the log (InOrderMarks), without  *)
(* which a rollback could leave an older savepoint beyond the end of it.   *)
(***************************************************************************)

\* The parts of a transaction that belong together: buffer p, savepoint stack
\* sp, log l and marks m.
Stacks == Seq([name : Names, pending : Buffer])
Marks  == Seq([name : Names, at : Nat])

CopyOK(sp, l, m, i) ==
  /\ sp[i].name = Lower[m[i].name]
  /\ m[i].at <= Len(l)
  /\ \A k \in Keys : Replays(l, m[i].at, k, sp[i].pending[k], Untouched)

InOrderMarks(m) == \A i, j \in 1..Len(m) : i <= j => m[i].at <= m[j].at

TxnOK(p, sp, l, m) ==
  /\ \A k \in Keys : Replays(l, Len(l), k, p[k], Untouched)
  /\ Len(sp) = Len(m)
  /\ \A i \in 1..Len(m) : CopyOK(sp, l, m, i)
  /\ InOrderMarks(m)

TxnsOK == \A t \in Txns : TxnOK(pending[t], savepoints[t], log[t], marks[t])

-----------------------------------------------------------------------------
(***************************************************************************)
(* Replaying logs.                                                         *)
(***************************************************************************)

\* A write appended to a log decides its own key and no other: what put and
\* delete do to the pending map.
LEMMA ReplayAppend ==
  ASSUME NEW l \in Seq(Write), NEW w \in Write, NEW k \in Keys,
         NEW v, NEW none, Replays(l, Len(l), k, v, none)
  PROVE  Replays(Append(l, w), Len(l) + 1, k, IF k = w.key THEN w.value ELSE v, none)
<1> DEFINE m == Append(l, w)
<1>1. /\ m \in Seq(Write) /\ Len(m) = Len(l) + 1
      /\ \A i \in 1..Len(l) : m[i] = l[i]
      /\ m[Len(l) + 1] = w
      /\ Len(l) \in Nat
  OBVIOUS
<1> HIDE DEF m
<1>2. CASE k = w.key
  <2>1. /\ Len(l) + 1 \in 1..(Len(l) + 1)
        /\ m[Len(l) + 1].key = k /\ m[Len(l) + 1].value = w.value
        /\ \A j \in ((Len(l) + 1) + 1)..(Len(l) + 1) : m[j].key # k
    BY <1>1, <1>2
  <2> QED  BY <1>2, <2>1 DEF Replays, m
<1>3. CASE k # w.key
  <2>1. CASE v = none /\ \A i \in 1..Len(l) : l[i].key # k
    <3>1. \A i \in 1..(Len(l) + 1) : m[i].key # k
      BY <1>1, <1>3, <2>1
    <3> QED  BY <1>3, <2>1, <3>1 DEF Replays, m
  <2>2. CASE \E i \in 1..Len(l) : /\ l[i].key = k /\ l[i].value = v
                                  /\ \A j \in (i + 1)..Len(l) : l[j].key # k
    <3>1. PICK i \in 1..Len(l) : /\ l[i].key = k /\ l[i].value = v
                                 /\ \A j \in (i + 1)..Len(l) : l[j].key # k
      BY <2>2
    <3>2. /\ i \in 1..(Len(l) + 1) /\ m[i].key = k /\ m[i].value = v
          /\ \A j \in (i + 1)..(Len(l) + 1) : m[j].key # k
      BY <1>1, <1>3, <3>1
    <3> QED  BY <1>3, <3>2 DEF Replays, m
  <2> QED  BY <2>1, <2>2 DEF Replays
<1> QED  BY <1>2, <1>3

\* Replaying the first n entries reads only those: a savepoint's copy stays
\* right when the log grows, or is cut no shorter than n.
LEMMA ReplayPrefix ==
  ASSUME NEW l, NEW m, NEW n \in Nat, NEW k, NEW v, NEW none,
         Replays(l, n, k, v, none), \A i \in 1..n : m[i] = l[i]
  PROVE  Replays(m, n, k, v, none)
BY DEF Replays

\* Replaying one log after another: the second decides every key it writes.
LEMMA ReplayConcat ==
  ASSUME NEW l \in Seq(Write), NEW m \in Seq(Write), NEW k \in Keys,
         NEW v, NEW u, NEW none,
         Replays(l, Len(l), k, v, none), Replays(m, Len(m), k, u, Untouched)
  PROVE  Replays(l \o m, Len(l \o m), k, IF u # Untouched THEN u ELSE v, none)
<1> DEFINE c == l \o m
<1>1. /\ c \in Seq(Write) /\ Len(c) = Len(l) + Len(m)
      /\ \A i \in 1..Len(l) : c[i] = l[i]
      /\ \A i \in 1..Len(m) : c[Len(l) + i] = m[i]
      /\ Len(l) \in Nat /\ Len(m) \in Nat
  BY ConcatProperties, LenProperties
<1> HIDE DEF c
<1>2. CASE u = Untouched /\ \A i \in 1..Len(m) : m[i].key # k
  <2>0. \A j \in (Len(l) + 1)..Len(c) : c[j].key # k
    <3>1. SUFFICES ASSUME NEW j \in (Len(l) + 1)..Len(c) PROVE c[j].key # k
      OBVIOUS
    <3>2. j - Len(l) \in 1..Len(m) /\ Len(l) + (j - Len(l)) = j
      BY <1>1
    <3> QED  BY <1>1, <1>2, <3>2
  <2>1. CASE v = none /\ \A i \in 1..Len(l) : l[i].key # k
    <3>1. \A i \in 1..Len(c) : c[i].key # k
      BY <1>1, <2>0, <2>1, SMTT(30)
    <3> QED  BY <1>2, <2>1, <3>1 DEF Replays, c
  <2>2. CASE \E i \in 1..Len(l) : /\ l[i].key = k /\ l[i].value = v
                                  /\ \A j \in (i + 1)..Len(l) : l[j].key # k
    <3>1. PICK i \in 1..Len(l) : /\ l[i].key = k /\ l[i].value = v
                                 /\ \A j \in (i + 1)..Len(l) : l[j].key # k
      BY <2>2
    <3>2. i \in 1..Len(c) /\ c[i].key = k /\ c[i].value = v
      BY <1>1, <3>1
    <3>3. \A j \in (i + 1)..Len(c) : c[j].key # k
      <4>1. SUFFICES ASSUME NEW j \in (i + 1)..Len(c) PROVE c[j].key # k
        OBVIOUS
      <4>2. CASE j <= Len(l)
        BY <1>1, <3>1, <4>2
      <4>3. CASE j > Len(l)
        BY <1>1, <2>0, <4>3
      <4> QED  BY <1>1, <4>2, <4>3
    <3> QED  BY <1>2, <3>2, <3>3 DEF Replays, c
  <2> QED  BY <2>1, <2>2 DEF Replays
<1>3. CASE \E i \in 1..Len(m) : /\ m[i].key = k /\ m[i].value = u
                                /\ \A j \in (i + 1)..Len(m) : m[j].key # k
  <2>1. PICK i \in 1..Len(m) : /\ m[i].key = k /\ m[i].value = u
                               /\ \A j \in (i + 1)..Len(m) : m[j].key # k
    BY <1>3
  <2>2. u # Untouched
    <3>1. m[i] \in Write
      OBVIOUS
    <3>2. m[i].value \in Options
      BY <3>1 DEF Write
    <3> QED  BY <2>1, <3>2, OptionAssumption DEF Options
  <2>3. /\ Len(l) + i \in 1..Len(c)
        /\ c[Len(l) + i].key = k /\ c[Len(l) + i].value = u
    BY <1>1, <2>1
  <2>4. \A j \in ((Len(l) + i) + 1)..Len(c) : c[j].key # k
    <3>1. SUFFICES ASSUME NEW j \in ((Len(l) + i) + 1)..Len(c) PROVE c[j].key # k
      OBVIOUS
    <3>2. /\ j - Len(l) \in (i + 1)..Len(m) /\ j - Len(l) \in 1..Len(m)
          /\ Len(l) + (j - Len(l)) = j
      BY <1>1
    <3> QED  BY <1>1, <2>1, <3>2
  <2> QED  BY <2>2, <2>3, <2>4 DEF Replays, c
<1> QED  BY <1>2, <1>3 DEF Replays

-----------------------------------------------------------------------------
(***************************************************************************)
(* Types.                                                                  *)
(***************************************************************************)

\* The overlay of a buffer on a map is a map: no "no entry" marker leaks into
\* the committed data.
LEMMA OverlayType ==
  ASSUME NEW b \in Buffer, NEW m \in Map
  PROVE  Overlay(b, m) \in Map
BY DEF Overlay, Buffer, Map

LEMMA TypeInit == Init => TypeOK
BY DEF Init, TypeOK, Map, Buffer, Options, NoWrites

\* Cutting a sequence, as Vec::truncate does.
LEMMA Truncate ==
  ASSUME NEW S, NEW s \in Seq(S), NEW n \in 0..Len(s)
  PROVE  /\ SubSeq(s, 1, n) \in Seq(S) /\ Len(SubSeq(s, 1, n)) = n
         /\ \A i \in 1..n : SubSeq(s, 1, n)[i] = s[i]
<1>1. \A i \in 1..n : s[i] \in S
  BY ElementOfSeq
<1>2. n \in Int /\ n >= 0
  OBVIOUS
<1> QED  BY <1>1, <1>2, SubSeqProperties

\* Every step keeps the types.
LEMMA TypeStep ==
  ASSUME TypeOK, BuffersReplayTheLog, [Next]_vars
  PROVE  TypeOK'
<1> USE DEF TypeOK
<1>1. ASSUME NEW k \in Keys, NEW v \in Options, StoreWrite(k, v) PROVE TypeOK'
  <2>1. [key |-> k, value |-> v] \in Write
    BY DEF Write
  <2>2. inner' \in Map
    BY <1>1 DEF StoreWrite, Map
  <2>3. history' \in Seq(Write)
    BY <1>1, <2>1, AppendProperties DEF StoreWrite
  <2> QED  BY <1>1, <2>2, <2>3 DEF StoreWrite
<1>2. ASSUME NEW k \in Keys, NEW j \in Keys, NEW v \in Values, NEW w \in Values,
             StoreWriteBatch(k, v, j, w)
      PROVE  TypeOK'
  <2>1. /\ [key |-> k, value |-> v] \in Write
        /\ [key |-> j, value |-> w] \in Write
    BY DEF Write, Options
  <2>2. <<[key |-> k, value |-> v], [key |-> j, value |-> w]>> \in Seq(Write)
    BY <2>1
  <2>3. inner' \in Map
    BY <1>2 DEF StoreWriteBatch, Map, Options
  <2>4. history' \in Seq(Write)
    BY <1>2, <2>2, ConcatProperties DEF StoreWriteBatch
  <2> QED  BY <1>2, <2>3, <2>4 DEF StoreWriteBatch
<1>3. ASSUME NEW t \in Txns, Begin(t) PROVE TypeOK'
  BY <1>3 DEF Begin
<1>4. ASSUME NEW t \in Txns, NEW k \in Keys, NEW v \in Options, TxnWrite(t, k, v)
      PROVE  TypeOK'
  <2>1. [key |-> k, value |-> v] \in Write
    BY DEF Write
  <2>2. pending' \in [Txns -> Buffer]
    BY <1>4 DEF TxnWrite, Buffer
  <2>3. log[t] \in Seq(Write)
    OBVIOUS
  <2>4. Append(log[t], [key |-> k, value |-> v]) \in Seq(Write)
    BY <2>1, <2>3, AppendProperties
  <2>5. log' \in [Txns -> Seq(Write)]
    BY <1>4, <2>4 DEF TxnWrite
  <2> QED  BY <1>4, <2>2, <2>5 DEF TxnWrite
<1>5. ASSUME NEW t \in Txns, Forget(t), inner' \in Map, history' \in Seq(Write)
      PROVE  TypeOK'
  <2>1. NoWrites \in Buffer
    BY DEF NoWrites, Buffer
  <2>2. [k \in Keys |-> Absent] \in Map
    BY DEF Map, Options
  <2>3. /\ pending' \in [Txns -> Buffer] /\ snapshot' \in [Txns -> Map]
        /\ active' \subseteq Txns
    BY <1>5, <2>1, <2>2 DEF Forget
  <2>4. <<>> \in Seq([name : Names, pending : Buffer])
    BY EmptySeq
  <2>5. savepoints' \in [Txns -> Seq([name : Names, pending : Buffer])]
    BY <1>5, <2>4 DEF Forget
  <2>6. log' \in [Txns -> Seq(Write)]
    BY <1>5, EmptySeq DEF Forget
  <2>7. marks' \in [Txns -> Seq([name : Names, at : Nat])]
    BY <1>5, EmptySeq DEF Forget
  <2> QED  BY <1>5, <2>3, <2>5, <2>6, <2>7
<1>6. ASSUME NEW t \in Txns, Commit(t) PROVE TypeOK'
  <2>1. inner' \in Map
    BY <1>6, OverlayType DEF Commit
  <2>2. history' \in Seq(Write)
    BY <1>6, ConcatProperties DEF Commit
  <2>3. Forget(t)
    BY <1>6 DEF Commit
  <2> QED  BY <1>5, <2>1, <2>2, <2>3
<1>7. ASSUME NEW t \in Txns, CommitFails(t) \/ Rollback(t) PROVE TypeOK'
  BY <1>5, <1>7 DEF CommitFails, Rollback
<1>8. ASSUME NEW t \in Txns, NEW n \in Names, Savepoint(t, n) PROVE TypeOK'
  <2>1. [name |-> Lower[n], pending |-> pending[t]] \in [name : Names, pending : Buffer]
    BY LowerAssumption
  <2>2. [name |-> n, at |-> Len(log[t])] \in [name : Names, at : Nat]
    OBVIOUS
  <2>3. /\ savepoints[t] \in Seq([name : Names, pending : Buffer])
        /\ marks[t] \in Seq([name : Names, at : Nat])
    OBVIOUS
  <2>4. Append(savepoints[t], [name |-> Lower[n], pending |-> pending[t]])
          \in Seq([name : Names, pending : Buffer])
    BY <2>1, <2>3, AppendProperties
  <2>5. Append(marks[t], [name |-> n, at |-> Len(log[t])]) \in Seq([name : Names, at : Nat])
    BY <2>2, <2>3, AppendProperties
  <2>6. savepoints' \in [Txns -> Seq([name : Names, pending : Buffer])]
    BY <1>8, <2>4 DEF Savepoint
  <2>7. marks' \in [Txns -> Seq([name : Names, at : Nat])]
    BY <1>8, <2>5 DEF Savepoint
  <2> QED  BY <1>8, <2>6, <2>7 DEF Savepoint
<1>9. ASSUME NEW t \in Txns, NEW n \in Names, RollbackToSavepoint(t, n) PROVE TypeOK'
  <2>1. PICK pos \in 1..Len(savepoints[t]) :
          /\ pending' = [pending EXCEPT ![t] = savepoints[t][pos].pending]
          /\ savepoints' = [savepoints EXCEPT ![t] = SubSeq(@, 1, pos)]
    BY <1>9 DEF RollbackToSavepoint
  <2>2. PICK i \in 1..Len(marks[t]) :
          /\ log' = [log EXCEPT ![t] = SubSeq(@, 1, marks[t][i].at)]
          /\ marks' = [marks EXCEPT ![t] = SubSeq(@, 1, i)]
    BY <1>9 DEF RollbackToSavepoint
  <2>3. /\ savepoints[t] \in Seq([name : Names, pending : Buffer])
        /\ marks[t] \in Seq([name : Names, at : Nat])
        /\ log[t] \in Seq(Write)
    OBVIOUS
  <2>4. savepoints[t][pos].pending \in Buffer /\ marks[t][i].at \in Nat
    <3>1. /\ savepoints[t][pos] \in [name : Names, pending : Buffer]
          /\ marks[t][i] \in [name : Names, at : Nat]
      BY <2>3, ElementOfSeq
    <3> QED  BY <3>1
  <2> pos \in 0..Len(savepoints[t]) /\ i \in 0..Len(marks[t])
    BY <2>3
  <2>5. SubSeq(savepoints[t], 1, pos) \in Seq([name : Names, pending : Buffer])
    BY <2>3, Truncate
  <2>6. SubSeq(marks[t], 1, i) \in Seq([name : Names, at : Nat])
    BY <2>3, Truncate
  <2>7. SubSeq(log[t], 1, marks[t][i].at) \in Seq(Write)
    <3>1. marks[t][i].at \in 0..Len(log[t])
      BY <2>3, <2>4 DEF BuffersReplayTheLog
    <3> QED  BY <2>3, <3>1, Truncate
  <2>8. pending' \in [Txns -> Buffer]
    BY <2>1, <2>4
  <2>9. savepoints' \in [Txns -> Seq([name : Names, pending : Buffer])]
    BY <2>1, <2>5
  <2>10. marks' \in [Txns -> Seq([name : Names, at : Nat])]
    BY <2>2, <2>6
  <2>11. log' \in [Txns -> Seq(Write)]
    BY <2>2, <2>7
  <2> QED  BY <1>9, <2>8, <2>9, <2>10, <2>11 DEF RollbackToSavepoint
<1>10. ASSUME NEW t \in Txns, NEW n \in Names, ReleaseSavepoint(t, n) PROVE TypeOK'
  <2>1. PICK pos \in 1..Len(savepoints[t]) :
          savepoints' = [savepoints EXCEPT ![t] = SubSeq(@, 1, pos - 1)]
    BY <1>10 DEF ReleaseSavepoint
  <2>2. PICK i \in 1..Len(marks[t]) : marks' = [marks EXCEPT ![t] = SubSeq(@, 1, i - 1)]
    BY <1>10 DEF ReleaseSavepoint
  <2>3. /\ savepoints[t] \in Seq([name : Names, pending : Buffer])
        /\ marks[t] \in Seq([name : Names, at : Nat])
    OBVIOUS
  <2>4. pos - 1 \in 0..Len(savepoints[t]) /\ i - 1 \in 0..Len(marks[t])
    BY <2>3
  <2>5. SubSeq(savepoints[t], 1, pos - 1) \in Seq([name : Names, pending : Buffer])
    BY <2>3, <2>4, Truncate
  <2>6. SubSeq(marks[t], 1, i - 1) \in Seq([name : Names, at : Nat])
    BY <2>3, <2>4, Truncate
  <2>7. savepoints' \in [Txns -> Seq([name : Names, pending : Buffer])]
    BY <2>1, <2>5
  <2>8. marks' \in [Txns -> Seq([name : Names, at : Nat])]
    BY <2>2, <2>6
  <2> QED  BY <1>10, <2>7, <2>8 DEF ReleaseSavepoint
<1>11. CASE UNCHANGED vars
  BY <1>11 DEF vars
<1> QED  BY <1>1, <1>2, <1>3, <1>4, <1>6, <1>7, <1>8, <1>9, <1>10, <1>11 DEF Next

-----------------------------------------------------------------------------
(***************************************************************************)
(* A transaction's buffer and savepoints follow its log.                   *)
(***************************************************************************)

\* A new transaction.
LEMMA TxnOKBegin == TxnOK(NoWrites, <<>>, <<>>, <<>>)
BY DEF TxnOK, InOrderMarks, Replays, NoWrites

\* put and delete.
LEMMA TxnOKWrite ==
  ASSUME NEW p \in Buffer, NEW sp \in Stacks, NEW l \in Seq(Write), NEW m \in Marks,
         TxnOK(p, sp, l, m), NEW j \in Keys, NEW v \in Options
  PROVE  TxnOK([p EXCEPT ![j] = v], sp, Append(l, [key |-> j, value |-> v]), m)
<1> DEFINE w == [key |-> j, value |-> v]
           q == [p EXCEPT ![j] = v]
           n == Append(l, w)
<1>1. w \in Write /\ w.key = j /\ w.value = v
  BY DEF Write
<1>2. Len(n) = Len(l) + 1 /\ Len(l) \in Nat /\ \A i \in 1..Len(l) : n[i] = l[i]
  BY <1>1
<1>3. \A k \in Keys : Replays(n, Len(n), k, q[k], Untouched)
  <2>1. SUFFICES ASSUME NEW k \in Keys PROVE Replays(n, Len(n), k, q[k], Untouched)
    OBVIOUS
  <2>2. Replays(l, Len(l), k, p[k], Untouched)
    BY DEF TxnOK
  <2>3. Replays(n, Len(l) + 1, k, IF k = w.key THEN w.value ELSE p[k], Untouched)
    BY <1>1, <2>2, ReplayAppend
  <2>4. q[k] = IF k = w.key THEN w.value ELSE p[k]
    BY <1>1 DEF Buffer
  <2> QED  BY <1>2, <2>3, <2>4
<1>4. \A i \in 1..Len(m) : CopyOK(sp, n, m, i)
  <2>1. SUFFICES ASSUME NEW i \in 1..Len(m) PROVE CopyOK(sp, n, m, i)
    OBVIOUS
  <2>2. CopyOK(sp, l, m, i)
    BY DEF TxnOK
  <2>3. m[i].at \in Nat
    <3>1. m[i] \in [name : Names, at : Nat]
      BY ElementOfSeq DEF Marks
    <3> QED  BY <3>1
  <2>4. \A x \in 1..m[i].at : n[x] = l[x]
    BY <1>2, <2>2, <2>3 DEF CopyOK
  <2> HIDE DEF n
  <2>5. \A k \in Keys : Replays(n, m[i].at, k, sp[i].pending[k], Untouched)
    BY <2>2, <2>3, <2>4, ReplayPrefix DEF CopyOK
  <2> QED  BY <1>2, <2>2, <2>3, <2>5 DEF CopyOK
<1> QED  BY <1>3, <1>4 DEF TxnOK

\* SAVEPOINT pushes a copy of the buffer.
LEMMA TxnOKSavepoint ==
  ASSUME NEW p \in Buffer, NEW sp \in Stacks, NEW l \in Seq(Write), NEW m \in Marks,
         TxnOK(p, sp, l, m), NEW name \in Names
  PROVE  TxnOK(p, Append(sp, [name |-> Lower[name], pending |-> p]), l,
               Append(m, [name |-> name, at |-> Len(l)]))
<1> DEFINE x == [name |-> Lower[name], pending |-> p]
           y == [name |-> name, at |-> Len(l)]
           sq == Append(sp, x)
           mq == Append(m, y)
<1>0. /\ x \in [name : Names, pending : Buffer] /\ x.name = Lower[name] /\ x.pending = p
      /\ y \in [name : Names, at : Nat] /\ y.name = name /\ y.at = Len(l)
      /\ Len(l) \in Nat
  BY LowerAssumption
<1>1. /\ Len(sq) = Len(sp) + 1 /\ Len(mq) = Len(m) + 1 /\ Len(sp) = Len(m)
      /\ \A i \in 1..Len(m) : sq[i] = sp[i] /\ mq[i] = m[i]
      /\ sq[Len(m) + 1] = x /\ mq[Len(m) + 1] = y
      /\ Len(m) \in Nat
  BY <1>0, AppendProperties, LenProperties DEF Stacks, Marks, TxnOK
<1>2. \A i \in 1..Len(m) : m[i].at \in Nat
  <2>1. \A i \in 1..Len(m) : m[i] \in [name : Names, at : Nat]
    BY ElementOfSeq DEF Marks
  <2> QED  BY <2>1
<1> HIDE DEF x, y, sq, mq
<1>3. \A i \in 1..Len(mq) : CopyOK(sq, l, mq, i)
  <2>1. SUFFICES ASSUME NEW i \in 1..Len(mq) PROVE CopyOK(sq, l, mq, i)
    OBVIOUS
  <2>2. CASE i \in 1..Len(m)
    BY <1>1, <2>2 DEF TxnOK, CopyOK
  <2>3. CASE i = Len(m) + 1
    BY <1>0, <1>1, <2>3 DEF TxnOK, CopyOK
  <2> QED  BY <1>1, <2>2, <2>3
<1>4. InOrderMarks(mq)
  <2>1. SUFFICES ASSUME NEW i \in 1..Len(mq), NEW j \in 1..Len(mq), i <= j
                 PROVE  mq[i].at <= mq[j].at
    BY DEF InOrderMarks
  <2>2. CASE j \in 1..Len(m)
    <3>1. i \in 1..Len(m)
      BY <1>1, <2>1, <2>2
    <3> QED  BY <1>1, <2>1, <2>2, <3>1 DEF TxnOK, InOrderMarks
  <2>3. CASE j = Len(m) + 1 /\ i \in 1..Len(m)
    BY <1>0, <1>1, <1>2, <2>3 DEF TxnOK, CopyOK
  <2>4. CASE j = Len(m) + 1 /\ i = j
    BY <1>0, <1>1, <2>4
  <2> QED  BY <1>1, <2>1, <2>2, <2>3, <2>4
<1> QED  BY <1>1, <1>3, <1>4 DEF TxnOK, x, y, sq, mq

\* rposition on the stack of copies finds the most recent savepoint of the
\* name, however often it was reused.
LEMMA SamePosition ==
  ASSUME TypeOK, NEW t \in Txns, NEW n \in Names,
         TxnOK(pending[t], savepoints[t], log[t], marks[t]),
         NEW pos \in 1..Len(savepoints[t]), Rposition(t, n, pos),
         NEW i \in 1..Len(marks[t]), IsMark(t, n, i)
  PROVE  pos = i
<1>1. /\ Len(savepoints[t]) = Len(marks[t]) /\ Len(marks[t]) \in Nat
      /\ \A j \in 1..Len(marks[t]) : savepoints[t][j].name = Lower[marks[t][j].name]
  BY DEF TypeOK, TxnOK, CopyOK
<1>2. ~(pos < i)
  BY <1>1 DEF Rposition, IsMark, SameName
<1>3. ~(i < pos)
  BY <1>1 DEF Rposition, IsMark, SameName
<1> QED  BY <1>1, <1>2, <1>3

\* Cutting stack and marks at the same place keeps them together, with the log
\* as it is (RELEASE) or cut at a mark that survives (ROLLBACK TO).
LEMMA TxnOKRelease ==
  ASSUME NEW p \in Buffer, NEW sp \in Stacks, NEW l \in Seq(Write), NEW m \in Marks,
         TxnOK(p, sp, l, m), NEW n \in 0..Len(m)
  PROVE  TxnOK(p, SubSeq(sp, 1, n), l, SubSeq(m, 1, n))
<1> DEFINE sq == SubSeq(sp, 1, n)
           mq == SubSeq(m, 1, n)
<1>1. /\ Len(sq) = n /\ Len(mq) = n /\ Len(m) \in Nat
      /\ \A i \in 1..n : sq[i] = sp[i] /\ mq[i] = m[i]
  BY Truncate DEF TxnOK, Stacks, Marks
<1> HIDE DEF sq, mq
<1>2. \A i \in 1..n : i \in 1..Len(m)
  BY <1>1
<1>3. \A i \in 1..Len(mq) : CopyOK(sq, l, mq, i)
  BY <1>1, <1>2 DEF TxnOK, CopyOK
<1>4. InOrderMarks(mq)
  BY <1>1, <1>2 DEF TxnOK, InOrderMarks
<1> QED  BY <1>1, <1>3, <1>4 DEF TxnOK, sq, mq

LEMMA TxnOKRollback ==
  ASSUME NEW p \in Buffer, NEW sp \in Stacks, NEW l \in Seq(Write), NEW m \in Marks,
         TxnOK(p, sp, l, m), NEW n \in 1..Len(m)
  PROVE  TxnOK(sp[n].pending, SubSeq(sp, 1, n), SubSeq(l, 1, m[n].at), SubSeq(m, 1, n))
<1> DEFINE sq == SubSeq(sp, 1, n)
           mq == SubSeq(m, 1, n)
           lq == SubSeq(l, 1, m[n].at)
<1>0. n \in 0..Len(m) /\ n \in Nat /\ Len(m) \in Nat
  BY DEF Marks
<1>1. /\ Len(sq) = n /\ Len(mq) = n
      /\ \A i \in 1..n : sq[i] = sp[i] /\ mq[i] = m[i]
  BY <1>0, Truncate DEF TxnOK, Stacks, Marks
<1>2. \A i \in 1..n : m[i].at \in Nat
  <2>1. \A i \in 1..Len(m) : m[i] \in [name : Names, at : Nat]
    BY ElementOfSeq DEF Marks
  <2> QED  BY <1>0, <2>1
<1>3. m[n].at \in 0..Len(l)
  BY <1>0, <1>2 DEF TxnOK, CopyOK
<1>4. Len(lq) = m[n].at /\ \A x \in 1..m[n].at : lq[x] = l[x]
  BY <1>3, Truncate
<1> HIDE DEF sq, mq, lq
<1>5. \A i \in 1..n : m[i].at <= m[n].at
  BY <1>0 DEF TxnOK, InOrderMarks
<1>6. \A i \in 1..n : CopyOK(sq, lq, mq, i)
  <2>1. SUFFICES ASSUME NEW i \in 1..n PROVE CopyOK(sq, lq, mq, i)
    OBVIOUS
  <2>2. CopyOK(sp, l, m, i)
    BY <1>0 DEF TxnOK
  <2>3. m[i].at \in Nat /\ m[n].at \in Nat /\ m[i].at <= m[n].at
    BY <1>0, <1>2, <1>5
  <2>4. \A x \in 1..m[i].at : lq[x] = l[x]
    BY <1>4, <2>3
  <2>5. \A k \in Keys : Replays(lq, m[i].at, k, sp[i].pending[k], Untouched)
    BY <2>2, <2>3, <2>4, ReplayPrefix DEF CopyOK
  <2> QED  BY <1>1, <1>4, <2>2, <2>3, <2>5 DEF CopyOK
<1>7. InOrderMarks(mq)
  BY <1>0, <1>1 DEF TxnOK, InOrderMarks
<1>8. \A k \in Keys : Replays(lq, Len(lq), k, sp[n].pending[k], Untouched)
  BY <1>0, <1>1, <1>4, <1>6 DEF CopyOK
<1> QED  BY <1>1, <1>6, <1>7, <1>8 DEF TxnOK, sq, mq, lq

-----------------------------------------------------------------------------
(***************************************************************************)
(* The inductive step.                                                     *)
(***************************************************************************)

\* TxnsOK is the property the runs check, and the order of the marks.
LEMMA TxnsOKImplies == TxnsOK => BuffersReplayTheLog
BY DEF TxnsOK, TxnOK, CopyOK, BuffersReplayTheLog

LEMMA BuffersStep ==
  ASSUME TypeOK, TxnsOK, [Next]_vars
  PROVE  TxnsOK'
<1> USE DEF TxnsOK
<1>0. \A t \in Txns : /\ pending[t] \in Buffer /\ savepoints[t] \in Stacks
                      /\ log[t] \in Seq(Write) /\ marks[t] \in Marks
  BY DEF TypeOK, Stacks, Marks
<1>1. ASSUME UNCHANGED <<pending, savepoints, log, marks>> PROVE TxnsOK'
  BY <1>1
<1>2. ASSUME NEW t \in Txns, NEW k \in Keys, NEW v \in Options, TxnWrite(t, k, v)
      PROVE  TxnsOK'
  <2>1. TxnOK([pending[t] EXCEPT ![k] = v], savepoints[t],
              Append(log[t], [key |-> k, value |-> v]), marks[t])
    BY <1>0, TxnOKWrite
  <2>2. /\ pending'[t] = [pending[t] EXCEPT ![k] = v] /\ savepoints' = savepoints
        /\ log'[t] = Append(log[t], [key |-> k, value |-> v]) /\ marks' = marks
        /\ \A u \in Txns \ {t} : pending'[u] = pending[u] /\ log'[u] = log[u]
    BY <1>2 DEF TxnWrite, TypeOK
  <2>3. ASSUME NEW u \in Txns
        PROVE  TxnOK(pending'[u], savepoints'[u], log'[u], marks'[u])
    BY <2>1, <2>2
  <2> QED  BY <2>3
<1>3. ASSUME NEW t \in Txns, Forget(t) PROVE TxnsOK'
  <2>1. /\ pending'[t] = NoWrites /\ savepoints'[t] = <<>>
        /\ log'[t] = <<>> /\ marks'[t] = <<>>
        /\ \A u \in Txns \ {t} : /\ pending'[u] = pending[u] /\ log'[u] = log[u]
                                 /\ savepoints'[u] = savepoints[u] /\ marks'[u] = marks[u]
    BY <1>3 DEF Forget, TypeOK
  <2>2. ASSUME NEW u \in Txns
        PROVE  TxnOK(pending'[u], savepoints'[u], log'[u], marks'[u])
    BY <2>1, TxnOKBegin
  <2> QED  BY <2>2
<1>4. ASSUME NEW t \in Txns, NEW n \in Names, Savepoint(t, n) PROVE TxnsOK'
  <2>1. TxnOK(pending[t], Append(savepoints[t], [name |-> Lower[n], pending |-> pending[t]]),
              log[t], Append(marks[t], [name |-> n, at |-> Len(log[t])]))
    BY <1>0, TxnOKSavepoint
  <2>2. /\ savepoints'[t] = Append(savepoints[t], [name |-> Lower[n], pending |-> pending[t]])
        /\ marks'[t] = Append(marks[t], [name |-> n, at |-> Len(log[t])])
        /\ pending' = pending /\ log' = log
        /\ \A u \in Txns \ {t} : savepoints'[u] = savepoints[u] /\ marks'[u] = marks[u]
    BY <1>4 DEF Savepoint, TypeOK
  <2>3. ASSUME NEW u \in Txns
        PROVE  TxnOK(pending'[u], savepoints'[u], log'[u], marks'[u])
    BY <2>1, <2>2
  <2> QED  BY <2>3
<1>5. ASSUME NEW t \in Txns, NEW n \in Names, RollbackToSavepoint(t, n) PROVE TxnsOK'
  <2>1. PICK pos \in 1..Len(savepoints[t]) :
          /\ Rposition(t, n, pos)
          /\ pending' = [pending EXCEPT ![t] = savepoints[t][pos].pending]
          /\ savepoints' = [savepoints EXCEPT ![t] = SubSeq(@, 1, pos)]
    BY <1>5 DEF RollbackToSavepoint
  <2>2. PICK i \in 1..Len(marks[t]) :
          /\ IsMark(t, n, i)
          /\ log' = [log EXCEPT ![t] = SubSeq(@, 1, marks[t][i].at)]
          /\ marks' = [marks EXCEPT ![t] = SubSeq(@, 1, i)]
    BY <1>5 DEF RollbackToSavepoint
  <2>3. pos = i
    BY <2>1, <2>2, SamePosition
  <2>4. TxnOK(savepoints[t][i].pending, SubSeq(savepoints[t], 1, i),
              SubSeq(log[t], 1, marks[t][i].at), SubSeq(marks[t], 1, i))
    BY <1>0, TxnOKRollback
  <2>5. /\ pending'[t] = savepoints[t][i].pending
        /\ savepoints'[t] = SubSeq(savepoints[t], 1, i)
        /\ log'[t] = SubSeq(log[t], 1, marks[t][i].at)
        /\ marks'[t] = SubSeq(marks[t], 1, i)
        /\ \A u \in Txns \ {t} : /\ pending'[u] = pending[u] /\ log'[u] = log[u]
                                 /\ savepoints'[u] = savepoints[u] /\ marks'[u] = marks[u]
    BY <2>1, <2>2, <2>3 DEF TypeOK
  <2>6. ASSUME NEW u \in Txns
        PROVE  TxnOK(pending'[u], savepoints'[u], log'[u], marks'[u])
    BY <2>4, <2>5
  <2> QED  BY <2>6
<1>6. ASSUME NEW t \in Txns, NEW n \in Names, ReleaseSavepoint(t, n) PROVE TxnsOK'
  <2>1. PICK pos \in 1..Len(savepoints[t]) :
          /\ Rposition(t, n, pos)
          /\ savepoints' = [savepoints EXCEPT ![t] = SubSeq(@, 1, pos - 1)]
    BY <1>6 DEF ReleaseSavepoint
  <2>2. PICK i \in 1..Len(marks[t]) :
          IsMark(t, n, i) /\ marks' = [marks EXCEPT ![t] = SubSeq(@, 1, i - 1)]
    BY <1>6 DEF ReleaseSavepoint
  <2>3. pos = i
    BY <2>1, <2>2, SamePosition
  <2>4. i - 1 \in 0..Len(marks[t])
    BY <1>0 DEF Marks
  <2>5. TxnOK(pending[t], SubSeq(savepoints[t], 1, i - 1), log[t], SubSeq(marks[t], 1, i - 1))
    BY <1>0, <2>4, TxnOKRelease
  <2>6. /\ savepoints'[t] = SubSeq(savepoints[t], 1, i - 1)
        /\ marks'[t] = SubSeq(marks[t], 1, i - 1)
        /\ pending' = pending /\ log' = log
        /\ \A u \in Txns \ {t} : savepoints'[u] = savepoints[u] /\ marks'[u] = marks[u]
    BY <1>6, <2>1, <2>2, <2>3 DEF TypeOK, ReleaseSavepoint
  <2>7. ASSUME NEW u \in Txns
        PROVE  TxnOK(pending'[u], savepoints'[u], log'[u], marks'[u])
    BY <2>5, <2>6
  <2> QED  BY <2>7
<1>7. ASSUME \/ \E k \in Keys, v \in Options : StoreWrite(k, v)
             \/ \E k \in Keys, j \in Keys : \E v \in Values, w \in Values :
                   j # k /\ StoreWriteBatch(k, v, j, w)
             \/ \E t \in Txns : Begin(t)
             \/ UNCHANGED vars
      PROVE  TxnsOK'
  BY <1>1, <1>7 DEF StoreWrite, StoreWriteBatch, Begin, vars
<1>8. ASSUME NEW t \in Txns, Commit(t) \/ CommitFails(t) \/ Rollback(t) PROVE TxnsOK'
  BY <1>3, <1>8 DEF Commit, CommitFails, Rollback
<1> QED  BY <1>2, <1>4, <1>5, <1>6, <1>7, <1>8 DEF Next

\* The committed map follows the log of the commits.
LEMMA CommitsStep ==
  ASSUME TypeOK, TxnsOK, StoreReplaysCommits, [Next]_vars
  PROVE  StoreReplaysCommits'
<1> USE DEF StoreReplaysCommits
<1>0. history \in Seq(Write) /\ inner \in Map
  BY DEF TypeOK
<1>1. ASSUME UNCHANGED <<inner, history>> PROVE StoreReplaysCommits'
  BY <1>1
<1>2. ASSUME NEW h \in Seq(Write), NEW j \in Keys, NEW v \in Options, NEW m \in Map,
             \A k \in Keys : Replays(h, Len(h), k, m[k], Absent)
      PROVE  LET g == Append(h, [key |-> j, value |-> v])
                 q == [m EXCEPT ![j] = v]
             IN  /\ g \in Seq(Write) /\ q \in Map
                 /\ \A k \in Keys : Replays(g, Len(g), k, q[k], Absent)
  <2> DEFINE w == [key |-> j, value |-> v]
             g == Append(h, w)
             q == [m EXCEPT ![j] = v]
  <2>1. w \in Write /\ w.key = j /\ w.value = v
    BY DEF Write
  <2>2. g \in Seq(Write) /\ Len(g) = Len(h) + 1
    BY <2>1
  <2>3. q \in Map /\ \A k \in Keys : q[k] = IF k = w.key THEN w.value ELSE m[k]
    BY <2>1 DEF Map
  <2>4. \A k \in Keys : Replays(g, Len(h) + 1, k, IF k = w.key THEN w.value ELSE m[k], Absent)
    BY <1>2, <2>1, ReplayAppend
  <2>5. \A k \in Keys : Replays(g, Len(g), k, q[k], Absent)
    BY <2>2, <2>3, <2>4
  <2> QED  BY <2>2, <2>3, <2>5
<1>3. ASSUME NEW k \in Keys, NEW v \in Options, StoreWrite(k, v)
      PROVE  StoreReplaysCommits'
  BY <1>0, <1>2, <1>3 DEF StoreWrite
<1>4. ASSUME NEW k \in Keys, NEW j \in Keys, NEW v \in Values, NEW w \in Values,
             StoreWriteBatch(k, v, j, w)
      PROVE  StoreReplaysCommits'
  <2> DEFINE a == [key |-> k, value |-> v]
             b == [key |-> j, value |-> w]
             h == Append(history, a)
             m == [inner EXCEPT ![k] = v]
  <2>0. v \in Options /\ w \in Options /\ a \in Write /\ b \in Write
    BY DEF Options, Write
  <2>1. h \in Seq(Write) /\ m \in Map /\ \A i \in Keys : Replays(h, Len(h), i, m[i], Absent)
    BY <1>0, <1>2, <2>0
  <2>2. history' = Append(h, b)
    <3>1. history \o <<a, b>> = Append(Append(history, a), b)
      BY <1>0, <2>0
    <3> QED  BY <1>4, <3>1 DEF StoreWriteBatch
  <2>3. inner' = [m EXCEPT ![j] = w]
    BY <1>4 DEF StoreWriteBatch
  <2> HIDE DEF h, m
  <2> QED  BY <1>2, <2>0, <2>1, <2>2, <2>3
<1>5. ASSUME NEW t \in Txns, Commit(t) PROVE StoreReplaysCommits'
  <2>1. /\ history' = history \o log[t] /\ log[t] \in Seq(Write)
        /\ inner' = Overlay(pending[t], inner)
    BY <1>5 DEF Commit, TypeOK
  <2>2. SUFFICES ASSUME NEW k \in Keys
                 PROVE  Replays(history', Len(history'), k, inner'[k], Absent)
    OBVIOUS
  <2>3. Replays(log[t], Len(log[t]), k, pending[t][k], Untouched)
    BY DEF TxnsOK, TxnOK
  <2>4. Replays(history', Len(history'), k,
                IF pending[t][k] # Untouched THEN pending[t][k] ELSE inner[k], Absent)
    BY <1>0, <2>1, <2>3, ReplayConcat
  <2>5. inner'[k] = IF pending[t][k] # Untouched THEN pending[t][k] ELSE inner[k]
    BY <2>1 DEF Overlay
  <2> QED  BY <2>4, <2>5
<1>6. ASSUME \/ \E t \in Txns :
                  \/ Begin(t) \/ CommitFails(t) \/ Rollback(t)
                  \/ \E k \in Keys, v \in Options : TxnWrite(t, k, v)
                  \/ \E n \in Names :
                        Savepoint(t, n) \/ RollbackToSavepoint(t, n) \/ ReleaseSavepoint(t, n)
             \/ UNCHANGED vars
      PROVE  StoreReplaysCommits'
  BY <1>1, <1>6 DEF Begin, CommitFails, Rollback, TxnWrite, Savepoint,
                    RollbackToSavepoint, ReleaseSavepoint, vars
<1> QED  BY <1>3, <1>4, <1>5, <1>6 DEF Next

\* The inductive invariant.
StoreInv == TypeOK /\ TxnsOK /\ StoreReplaysCommits

LEMMA StoreInvHolds == Spec => []StoreInv
<1>1. Init => StoreInv
  <2>1. Init => TxnsOK
    BY TxnOKBegin DEF Init, TxnsOK
  <2>2. Init => StoreReplaysCommits
    BY DEF Init, StoreReplaysCommits, Replays
  <2> QED  BY <2>1, <2>2, TypeInit DEF StoreInv
<1>2. StoreInv /\ [Next]_vars => StoreInv'
  BY TxnsOKImplies, TypeStep, BuffersStep, CommitsStep DEF StoreInv
<1> QED  BY <1>1, <1>2, PTL DEF Spec

\* The store, its transactions and the history keep their types: in
\* particular no "no entry" marker ends up among the committed values.
THEOREM StoreTypes == Spec => []TypeOK
BY StoreInvHolds, PTL DEF StoreInv

\* For any number of transactions, writes and savepoints, any reuse of names:
\* the pending map and the copies on the savepoint stack of MemoryTransaction
\* are what the surviving writes amount to.
THEOREM SavepointsAreExact == Spec => []BuffersReplayTheLog
BY StoreInvHolds, TxnsOKImplies, PTL DEF StoreInv

\* Committing the buffers, whatever the interleaving of transactions and
\* autocommit writes, amounts to running their surviving writes one transaction
\* after the other in commit order; a rolled back write never shows.
THEOREM CommitsAreAtomic == Spec => []StoreReplaysCommits
BY StoreInvHolds, PTL DEF StoreInv

\* In the memory store a consistent read is repeatable: snapshot_get of an
\* open transaction changes only by the transaction's own writes.
THEOREM MemoryReadsRepeat ==
  ASSUME ~Engine
  PROVE  Spec => RepeatableReads
<1>1. ASSUME StoreInv, [Next]_vars PROVE ReadsStay
  <2>1. SUFFICES ASSUME NEW t \in active, t \in active' PROVE snapshot'[t] = snapshot[t]
    BY DEF ReadsStay, SnapshotGet, Overlay
  <2>2. t \in Txns /\ snapshot \in [Txns -> Map]
    BY <1>1 DEF StoreInv, TypeOK
  <2>3. ASSUME NEW u \in Txns, Begin(u) PROVE snapshot'[t] = snapshot[t]
    <3>1. u # t
      BY <2>3 DEF Begin
    <3> QED  BY <2>2, <2>3, <3>1 DEF Begin
  <2>4. ASSUME NEW u \in Txns, Forget(u) PROVE snapshot'[t] = snapshot[t]
    <3>1. u # t
      BY <2>1, <2>4 DEF Forget
    <3> QED  BY <2>2, <2>4, <3>1 DEF Forget
  <2>5. ASSUME UNCHANGED snapshot PROVE snapshot'[t] = snapshot[t]
    BY <2>5
  <2>6. CASE \E u \in Txns : Begin(u) \/ Commit(u) \/ CommitFails(u) \/ Rollback(u)
    BY <2>3, <2>4, <2>6 DEF Commit, CommitFails, Rollback
  <2>7. CASE \E u \in Txns :
               \/ \E k \in Keys, v \in Options : TxnWrite(u, k, v)
               \/ \E n \in Names :
                     Savepoint(u, n) \/ RollbackToSavepoint(u, n) \/ ReleaseSavepoint(u, n)
    BY <2>5, <2>7 DEF TxnWrite, Savepoint, RollbackToSavepoint, ReleaseSavepoint
  <2>8. CASE \/ \E k \in Keys, v \in Options : StoreWrite(k, v)
             \/ \E k \in Keys, j \in Keys : \E v \in Values, w \in Values :
                   j # k /\ StoreWriteBatch(k, v, j, w)
             \/ UNCHANGED vars
    BY <2>5, <2>8 DEF StoreWrite, StoreWriteBatch, vars
  <2> QED  BY <1>1, <2>6, <2>7, <2>8 DEF Next
<1>2. StoreInv /\ [Next]_vars => [ReadsStay]_vars
  BY <1>1
<1> QED  BY <1>2, StoreInvHolds, PTL DEF Spec, RepeatableReads

-----------------------------------------------------------------------------
(***************************************************************************)
(* Scans.                                                                  *)
(***************************************************************************)
\* Scan order: j is k or comes before it, and the place of k among the keys of S.
UpTo(j, k, reverse) == IF reverse THEN j >= k ELSE j <= k
Place(S, k, reverse) == Cardinality({j \in S : UpTo(j, k, reverse)})

\* A key has a place from 1 on, after the places of the keys before it.
LEMMA PlacesCount ==
  ASSUME NEW S, IsFiniteSet(S), S \subseteq Int, NEW reverse \in BOOLEAN
  PROVE  /\ \A k \in S : Place(S, k, reverse) \in 1..Cardinality(S)
         /\ \A j, k \in S : Precedes(j, k, reverse) =>
                              Place(S, j, reverse) < Place(S, k, reverse)
<1> DEFINE B(k) == {j \in S : UpTo(j, k, reverse)}
<1>1. ASSUME NEW k \in S
      PROVE  /\ B(k) \in SUBSET S /\ k \in B(k) /\ IsFiniteSet(B(k))
             /\ Cardinality(B(k)) \in Nat /\ Cardinality(B(k)) # 0
             /\ Cardinality(B(k)) <= Cardinality(S) /\ Cardinality(S) \in Nat
  <2>1. B(k) \in SUBSET S /\ k \in B(k)
    <3>1. k <= k /\ k >= k
      OBVIOUS
    <3> QED
      BY <3>1 DEF UpTo
  <2> HIDE DEF B
  <2>2. IsFiniteSet(B(k)) /\ Cardinality(B(k)) <= Cardinality(S)
    BY <2>1, FS_Subset
  <2>3. Cardinality(B(k)) \in Nat /\ Cardinality(S) \in Nat
    BY <2>2, FS_CardinalityType
  <2>4. Cardinality(B(k)) # 0
    BY <2>1, <2>2, FS_EmptySet
  <2> QED
    BY <2>1, <2>2, <2>3, <2>4
<1>2. ASSUME NEW j \in S, NEW k \in S, Precedes(j, k, reverse)
      PROVE  Cardinality(B(j)) < Cardinality(B(k))
  <2>1. B(j) \in SUBSET B(k) /\ k \notin B(j)
    <3>1. j \in Int /\ k \in Int
      OBVIOUS
    <3>2. ASSUME NEW i \in S, UpTo(i, j, reverse) PROVE UpTo(i, k, reverse)
      <4>1. i \in Int
        OBVIOUS
      <4> QED
        BY <1>2, <3>1, <3>2, <4>1 DEF Precedes, UpTo
    <3>3. ~UpTo(k, j, reverse)
      BY <1>2, <3>1 DEF Precedes, UpTo
    <3> QED
      BY <3>2, <3>3
  <2>2. /\ k \in B(k) /\ IsFiniteSet(B(k))
        /\ Cardinality(B(j)) \in Nat /\ Cardinality(B(k)) \in Nat
    BY <1>1
  <2> HIDE DEF B
  <2>3. Cardinality(B(j)) <= Cardinality(B(k)) /\ Cardinality(B(k)) # Cardinality(B(j))
    BY <2>1, <2>2, FS_Subset
  <2> QED
    BY <2>2, <2>3
<1>3. ASSUME NEW k \in S PROVE Cardinality(B(k)) \in 1..Cardinality(S)
  <2> HIDE DEF B
  <2> QED
    BY <1>1
<1> QED
  BY <1>2, <1>3 DEF Place

\* Places are as the keys are.
LEMMA PlacesOrder ==
  ASSUME NEW S, IsFiniteSet(S), S \subseteq Int, NEW reverse \in BOOLEAN
  PROVE  /\ \A j, k \in S : Place(S, j, reverse) < Place(S, k, reverse) =>
                              Precedes(j, k, reverse)
         /\ \A j, k \in S : Place(S, j, reverse) = Place(S, k, reverse) => j = k
<1>1. ASSUME NEW j \in S, NEW k \in S
      PROVE  j = k \/ Precedes(j, k, reverse) \/ Precedes(k, j, reverse)
  <2>1. j \in Int /\ k \in Int
    OBVIOUS
  <2> QED
    BY <2>1 DEF Precedes
<1>2. Cardinality(S) \in Nat
  BY FS_CardinalityType
<1>3. \A k \in S : Place(S, k, reverse) \in Nat
  <2>1. \A k \in S : Place(S, k, reverse) \in 1..Cardinality(S)
    BY PlacesCount
  <2> QED
    BY <1>2, <2>1
<1>4. ASSUME NEW j \in S, NEW k \in S, Place(S, j, reverse) < Place(S, k, reverse)
      PROVE  Precedes(j, k, reverse)
  <2>1. ~(Place(S, k, reverse) < Place(S, j, reverse)) /\ j # k
    BY <1>3, <1>4
  <2> QED
    BY <1>1, <2>1, PlacesCount
<1>5. ASSUME NEW j \in S, NEW k \in S, Place(S, j, reverse) = Place(S, k, reverse)
      PROVE  j = k
  <2>1. /\ ~(Place(S, k, reverse) < Place(S, j, reverse))
        /\ ~(Place(S, j, reverse) < Place(S, k, reverse))
    BY <1>3, <1>5
  <2> QED
    BY <1>1, <2>1, PlacesCount
<1> QED
  BY <1>4, <1>5

\* Every place is taken: an injection into as many numbers is onto.
LEMMA PlacesTaken ==
  ASSUME NEW S, IsFiniteSet(S), S \subseteq Int, NEW reverse \in BOOLEAN,
         NEW i \in 1..Cardinality(S)
  PROVE  \E k \in S : Place(S, k, reverse) = i
<1> DEFINE N == 1..Cardinality(S)
           f == [k \in S |-> Place(S, k, reverse)]
<1>1. Cardinality(S) \in Nat
  BY FS_CardinalityType
<1>2. IsFiniteSet(N) /\ Cardinality(N) = Cardinality(S)
  BY <1>1, FS_Interval
<1>3. f \in [S -> N]
  BY PlacesCount
<1>4. \A j, k \in S : f[j] = f[k] => j = k
  BY PlacesOrder
<1> HIDE DEF f, N
<1>5. f \in Injection(S, N)
  BY <1>3, <1>4 DEF Injection, IsInjective
<1>6. f \in Surjection(S, N)
  BY <1>2, <1>5, FS_Injection
<1>7. \E k \in S : f[k] = i
  BY <1>6 DEF Surjection, N
<1> QED
  BY <1>7 DEF f

\* InOrder puts every key in its place.
LEMMA InOrderFacts ==
  ASSUME NEW S, IsFiniteSet(S), S \subseteq Int, NEW reverse \in BOOLEAN
  PROVE  LET s == InOrder(S, reverse)
         IN  /\ Cardinality(S) \in Nat
             /\ s \in Seq(S) /\ Len(s) = Cardinality(S)
             /\ \A i \in 1..Len(s) : s[i] \in S /\ Place(S, s[i], reverse) = i
             /\ \A k \in S : s[Place(S, k, reverse)] = k
<1> DEFINE s == InOrder(S, reverse)
           n == Cardinality(S)
<1>1. n \in Nat
  BY FS_CardinalityType
<1>2. s = [i \in 1..n |-> CHOOSE k \in S : Place(S, k, reverse) = i]
  BY DEF InOrder, Place, UpTo
<1> HIDE DEF s, n
<1>3. \A i \in 1..n : s[i] \in S /\ Place(S, s[i], reverse) = i
  BY <1>2, PlacesTaken DEF n
<1>4. s \in [1..n -> S]
  BY <1>2, <1>3
<1>5. s \in Seq(S) /\ Len(s) = n
  BY <1>1, <1>4
<1>6. ASSUME NEW k \in S PROVE s[Place(S, k, reverse)] = k
  <2>1. Place(S, k, reverse) \in 1..n
    BY PlacesCount DEF n
  <2>2. s[Place(S, k, reverse)] \in S
        /\ Place(S, s[Place(S, k, reverse)], reverse) = Place(S, k, reverse)
    BY <1>3, <2>1
  <2> QED
    BY <2>2, PlacesOrder
<1> QED
  BY <1>1, <1>3, <1>5, <1>6 DEF s, n

\* A limited scan of a map: in order, live, and nothing before the last key left out.
LEMMA FirstFacts ==
  ASSUME NEW map, NEW range \in SUBSET Keys, NEW limit \in Nat, NEW reverse \in BOOLEAN
  PROVE  LET rows == First(map, range, limit, reverse)
             got == {rows[i] : i \in 1..Len(rows)}
             live == Live(map, range)
         IN  /\ \A i, j \in 1..Len(rows) : i < j => Precedes(rows[i], rows[j], reverse)
             /\ got \subseteq live
             /\ \A k \in live \ got :
                  Len(rows) = limit /\ \A j \in got : Precedes(j, k, reverse)
<1> DEFINE S == Live(map, range)
           s == InOrder(S, reverse)
           m == IF limit < Len(s) THEN limit ELSE Len(s)
           rows == First(map, range, limit, reverse)
           got == {rows[i] : i \in 1..Len(rows)}
<1>1. IsFiniteSet(S) /\ S \subseteq Int
  <2>1. S \in SUBSET Keys
    BY DEF Live
  <2> HIDE DEF S
  <2> QED
    BY <2>1, KeyAssumption, FS_Subset
<1>2. rows = SubSeq(s, 1, m)
  BY DEF First, Take
<1> HIDE DEF S, rows
<1>3. /\ s \in Seq(S) /\ Len(s) \in Nat
      /\ \A i \in 1..Len(s) : s[i] \in S /\ Place(S, s[i], reverse) = i
      /\ \A k \in S : /\ s[Place(S, k, reverse)] = k
                      /\ Place(S, k, reverse) \in 1..Len(s)
  <2>1. /\ s \in Seq(S) /\ Len(s) = Cardinality(S) /\ Cardinality(S) \in Nat
        /\ \A i \in 1..Len(s) : s[i] \in S /\ Place(S, s[i], reverse) = i
        /\ \A k \in S : s[Place(S, k, reverse)] = k
    BY <1>1, InOrderFacts
  <2>2. \A k \in S : Place(S, k, reverse) \in 1..Cardinality(S)
    BY <1>1, PlacesCount
  <2> HIDE DEF s
  <2> QED
    BY <2>1, <2>2
<1> HIDE DEF s
<1>4. m \in Nat /\ m <= limit /\ m <= Len(s) /\ (m # limit => m = Len(s))
  BY <1>3
<1> HIDE DEF m
<1>5. Len(rows) = m /\ \A i \in 1..m : rows[i] = s[i]
  BY <1>2, <1>3, <1>4
<1>6. \A i \in 1..m : i \in 1..Len(s) /\ rows[i] \in S /\ Place(S, rows[i], reverse) = i
  <2>1. \A i \in 1..m : i \in 1..Len(s)
    BY <1>3, <1>4
  <2> QED
    BY <1>3, <1>5, <2>1
<1>7. \A i, j \in 1..Len(rows) : i < j => Precedes(rows[i], rows[j], reverse)
  <2> SUFFICES ASSUME NEW i \in 1..m, NEW j \in 1..m, i < j
               PROVE  Precedes(rows[i], rows[j], reverse)
    BY <1>5
  <2>1. /\ rows[i] \in S /\ rows[j] \in S
        /\ Place(S, rows[i], reverse) < Place(S, rows[j], reverse)
    BY <1>6
  <2> QED
    BY <1>1, <2>1, PlacesOrder
<1>8. got \subseteq S
  BY <1>5, <1>6
<1>9. ASSUME NEW k \in S \ got
      PROVE  Len(rows) = limit /\ \A j \in got : Precedes(j, k, reverse)
  <2> DEFINE p == Place(S, k, reverse)
  <2>1. p \in 1..Len(s) /\ s[p] = k
    BY <1>3
  <2> HIDE DEF p
  <2>2. p \notin 1..m
    BY <1>5, <1>9, <2>1
  <2>3. m < p /\ p <= Len(s)
    BY <1>3, <1>4, <2>1, <2>2
  <2>4. m = limit
    BY <1>3, <1>4, <2>1, <2>3
  <2>5. ASSUME NEW i \in 1..m PROVE Precedes(rows[i], k, reverse)
    <3>1. i < p
      BY <1>3, <1>4, <2>1, <2>3
    <3>2. Place(S, rows[i], reverse) < Place(S, k, reverse)
      BY <1>6, <3>1 DEF p
    <3> QED
      BY <1>1, <1>6, <3>2, PlacesOrder
  <2> QED
    BY <1>5, <2>4, <2>5
<1> QED
  BY <1>7, <1>8, <1>9 DEF S, rows

\* collect_range over materialize_range, forwards and backwards: in every state of the
\* memory store a limited scan returns the first live keys of the transaction's view,
\* deletions and insertions of its own buffer included.  (The engine's scan_range cuts
\* before it merges, and does not.)
THEOREM ScansAreExact ==
  ASSUME ~Engine
  PROVE  Spec => []ScansMergePending
<1>1. ScansMergePending
  <2> SUFFICES ASSUME NEW t \in active, NEW start \in Keys, NEW end \in {k + 1 : k \in Keys},
                      NEW limit \in 1..Cardinality(Keys), NEW reverse \in BOOLEAN
               PROVE  LET rows == ScanRange(t, start, end, limit, reverse)
                          got  == {rows[i] : i \in 1..Len(rows)}
                          live == {k \in Keys : start <= k /\ k < end /\ Get(t, k) # Absent}
                      IN  /\ \A i, j \in 1..Len(rows) :
                               i < j => Precedes(rows[i], rows[j], reverse)
                          /\ got \subseteq live
                          /\ \A k \in live \ got :
                               Len(rows) = limit /\ \A j \in got : Precedes(j, k, reverse)
    BY DEF ScansMergePending
  <2> DEFINE map == Overlay(pending[t], inner)
             range == InRange(start, end)
  <2>1. ScanRange(t, start, end, limit, reverse) = First(map, range, limit, reverse)
    BY DEF ScanRange, MergeThenLimit
  <2>2. range \in SUBSET Keys /\ limit \in Nat
    BY KeyAssumption, FS_CardinalityType DEF InRange
  <2>3. {k \in Keys : start <= k /\ k < end /\ Get(t, k) # Absent} = Live(map, range)
    <3>1. \A k \in Keys : k >= start <=> start <= k
      BY KeyAssumption
    <3> QED
      BY <3>1 DEF Live, InRange, Get
  <2> HIDE DEF map, range
  <2> QED
    BY <2>1, <2>2, <2>3, FirstFacts
<1> QED
  BY <1>1, PTL

-----------------------------------------------------------------------------
(***************************************************************************)
(* The sessions.                                                           *)
(*                                                                         *)
(* The invariant is built in layers.  Control says where a session's task  *)
(* can be and what is left of its query there.  Transactions ties the map  *)
(* of active transactions to the status the client is told.  Buffers and   *)
(* Locks follow the uncommitted writes and the row locks of a session from *)
(* one control point to the next; Locks holds when nobody issues KILL,     *)
(* whose second half releases locks of a task that goes on running.        *)
(* Counters says that what is read and written is a number, for the types. *)
(***************************************************************************)

\* The control points of a query, and those of a commit or rollback.
InQuery == {"plan", "lock", "read", "stale", "write", "finish", "next"}
InTail  == {"release", "apply"}

\* Types of what the gateway itself keeps, whatever the rows hold.
ControlTypes ==
  /\ held \in [Sessions -> SUBSET Keys]
  /\ attached \subseteq Sessions /\ readonly \subseteq Sessions
  /\ current \subseteq Sessions /\ manual \subseteq Sessions
  /\ iso \in [Sessions -> Isolations \cup {"none"}]
  /\ level \in [Sessions -> Isolations]
  /\ status \in [Sessions -> {"Idle", "Transaction", "Error"}]
  /\ pc \in [Sessions -> Points]
  /\ implicit \in [Sessions -> BOOLEAN] /\ hold \in [Sessions -> BOOLEAN]
  /\ failed \in [Sessions -> BOOLEAN]
  /\ after \in [Sessions -> {"end", "begin", "ddl"}]
  /\ target \in [Sessions -> Sessions]
  /\ work \in [Sessions -> Seq(Keys \cup {DDL})]
  /\ updates \in 0..MaxUpdates

\* What is left of the query of a session whose task is at a point: a DDL is a
\* query of its own, a commit on behalf of a DDL comes back to it, and a batch
\* with an implicit transaction is made of UPDATEs.
WorkShape(point, w, for, batch) ==
  /\ w = <<DDL>> \/ w \in Seq(Keys)
  /\ point \in InQuery => w # <<>>
  /\ point \notin InTail => for = "end"
  /\ for = "ddl" => w = <<DDL>>
  /\ batch => w \in Seq(Keys)
  /\ point \in {"stale", "write"} => Head(w) # DDL

WorkOK(s) == WorkShape(pc[s], work[s], after[s], implicit[s])

Control == ControlTypes /\ \A s \in Sessions : WorkOK(s)

\* A query seen as a sequence of statements.
LEMMA WiderSeq ==
  ASSUME NEW S, NEW T, S \subseteq T, NEW q \in Seq(S)
  PROVE  q \in Seq(T)
<1>1. q \in [1..Len(q) -> S] /\ Len(q) \in Nat
  BY LenProperties
<1>2. q \in [1..Len(q) -> T]
  BY <1>1
<1> QED BY <1>1, <1>2, SeqDef

\* The statement at the head of a query, and what follows it.
LEMMA HeadOfWork ==
  ASSUME NEW w, w = <<DDL>> \/ w \in Seq(Keys), w # <<>>
  PROVE  /\ Head(w) \in Keys \cup {DDL}
         /\ RowsOf(Head(w)) \subseteq Keys
         /\ Head(w) = DDL => w = <<DDL>>
         /\ Len(w) > 1 => w \in Seq(Keys) /\ Tail(w) \in Seq(Keys) /\ Tail(w) # <<>>
         /\ w \in Seq(Keys \cup {DDL}) /\ Tail(w) \in Seq(Keys \cup {DDL})
         /\ Len(w) \in Nat
<1>1. CASE w = <<DDL>>
  BY <1>1 DEF RowsOf
<1>2. CASE w \in Seq(Keys)
  <2>1. Head(w) \in Keys /\ Head(w) # DDL /\ Len(w) \in Nat /\ Tail(w) \in Seq(Keys)
    BY <1>2, ModeAssumption
  <2>2. Len(Tail(w)) = Len(w) - 1
    BY <1>2, HeadTailProperties
  <2>4. Len(w) > 1 => Tail(w) # <<>>
    <3>1. Len(<<>>) = 0
      OBVIOUS
    <3>2. Tail(w) = <<>> => Len(Tail(w)) = Len(<<>>)
      BY Zenon
    <3> QED  BY <2>1, <2>2, <3>1, <3>2
  <2>3. w \in Seq(Keys \cup {DDL}) /\ Tail(w) \in Seq(Keys \cup {DDL})
    BY <1>2, <2>1, WiderSeq
  <2> QED BY <1>2, <2>1, <2>3, <2>4 DEF RowsOf
<1> QED BY <1>1, <1>2

\* A DDL is not an UPDATE.
LEMMA NotBoth == <<DDL>> \notin Seq(Keys)
BY ModeAssumption

\* Nothing is left to run between two queries.
LEMMA NoWork ==
  ASSUME NEW point, point \notin InQuery \cup InTail
  PROVE  WorkShape(point, <<>>, "end", FALSE)
BY DEF WorkShape, InQuery, InTail

\* Coming back to a DDL after the commit it caused.
LEMMA DdlWork == WorkShape("plan", <<DDL>>, "end", FALSE)
BY DEF WorkShape, InQuery, InTail

\* Every handler leaves its task at a point where its locals make sense.
LEMMA ControlStep == Control /\ [GNext]_gvars => Control'
<1> SUFFICES ASSUME Control, [GNext]_gvars PROVE Control'
  OBVIOUS
<1> USE DEF Control, ControlTypes, Goto, Points, InQuery, InTail,
            txnMaps, client, locals, Sessions, WorkOK
<1>1. ASSUME NEW s \in Sessions, CommitTxn(s) PROVE Control'
  <2>1. ControlTypes'
    BY <1>1 DEF CommitTxn, DetachToCommit, Detach
  <2>2. ASSUME NEW t \in Sessions PROVE WorkOK(t)'
    BY <1>1 DEF CommitTxn, DetachToCommit, Detach, WorkShape
  <2> QED  BY <2>1, <2>2
<1>2. ASSUME NEW s \in Sessions, BeginAgain(s) PROVE Control'
  <2>1. ControlTypes'
    BY <1>2 DEF BeginAgain, DetachToCommit, Detach
  <2>2. ASSUME NEW t \in Sessions PROVE WorkOK(t)'
    BY <1>2 DEF BeginAgain, DetachToCommit, Detach, WorkShape
  <2> QED  BY <2>1, <2>2
<1>3. ASSUME NEW s \in Sessions, BeginReadOnlyAgain(s) PROVE Control'
  <2>1. ControlTypes'
    BY <1>3 DEF BeginReadOnlyAgain
  <2>2. ASSUME NEW t \in Sessions PROVE WorkOK(t)'
    BY <1>3 DEF BeginReadOnlyAgain, WorkShape
  <2> QED  BY <2>1, <2>2
<1>4. ASSUME NEW s \in Sessions, RollbackTxn(s) PROVE Control'
  <2>1. ControlTypes'
    BY <1>4 DEF RollbackTxn, Detach
  <2>2. ASSUME NEW t \in Sessions PROVE WorkOK(t)'
    BY <1>4 DEF RollbackTxn, Detach, WorkShape
  <2> QED  BY <2>1, <2>2
<1>5. ASSUME NEW s \in Sessions, NEW lvl \in Isolations, NEW ro \in BOOLEAN,
             BeginTxn(s, lvl, ro)
      PROVE  Control'
  <2>1. ControlTypes'
    BY <1>5 DEF BeginTxn, OpenTxn
  <2>2. ASSUME NEW t \in Sessions PROVE WorkOK(t)'
    BY <1>5 DEF BeginTxn, OpenTxn, WorkShape
  <2> QED  BY <2>1, <2>2
<1>6. ASSUME NEW s \in Sessions, NEW lvl \in Isolations,
             SetIsolation(s, lvl)
      PROVE  Control'
  <2>1. ControlTypes'
    BY <1>6 DEF SetIsolation
  <2>2. ASSUME NEW t \in Sessions PROVE WorkOK(t)'
    BY <1>6 DEF SetIsolation, WorkShape
  <2> QED  BY <2>1, <2>2
<1>7. ASSUME NEW s \in Sessions, AutocommitOff(s) PROVE Control'
  <2>1. ControlTypes'
    BY <1>7 DEF AutocommitOff
  <2>2. ASSUME NEW t \in Sessions PROVE WorkOK(t)'
    BY <1>7 DEF AutocommitOff, WorkShape
  <2> QED  BY <2>1, <2>2
<1>8. ASSUME NEW s \in Sessions, AutocommitOn(s) PROVE Control'
  <2>1. ControlTypes'
    BY <1>8 DEF AutocommitOn, Detach
  <2>2. ASSUME NEW t \in Sessions PROVE WorkOK(t)'
    BY <1>8 DEF AutocommitOn, Detach, WorkShape
  <2> QED  BY <2>1, <2>2
<1>9. ASSUME NEW s \in Sessions, ReleaseLocks(s) PROVE Control'
  <2>1. ControlTypes'
    BY <1>9 DEF ReleaseLocks, Table!Release
  <2>2. ASSUME NEW t \in Sessions PROVE WorkOK(t)'
    BY <1>9 DEF ReleaseLocks, Table!Release, WorkShape
  <2> QED  BY <2>1, <2>2
<1>10. ASSUME NEW s \in Sessions, Apply(s) PROVE Control'
  <2>1. ControlTypes'
    <3>1. Continue(s) \in Points
      BY DEF Continue
    <3>2. work[s] \in Seq(Keys \cup {DDL}) /\ <<>> \in Seq(Keys \cup {DDL})
      OBVIOUS
    <3> QED  BY <1>10, <3>1, <3>2 DEF Apply, EndOfTail
  <2>2. ASSUME NEW t \in Sessions PROVE WorkOK(t)'
    <3>1. \/ after[s] # "ddl" /\ Continue(s) \notin InQuery \cup InTail
          \/ after[s] = "ddl" /\ Continue(s) = "plan"
      BY DEF Continue
    <3>2. pc'[s] = Continue(s) /\ after'[s] = "end" /\ implicit'[s] = FALSE
          /\ work'[s] = IF after[s] = "ddl" THEN work[s] ELSE <<>>
      BY <1>10 DEF Apply, EndOfTail
    <3>3. t # s => pc'[t] = pc[t] /\ after'[t] = after[t] /\ implicit'[t] = implicit[t]
          /\ work'[t] = work[t]
      BY <1>10 DEF Apply, EndOfTail
    <3>4. after[s] = "ddl" => work[s] = <<DDL>>
      BY DEF WorkShape
    <3>5. CASE t = s /\ after[s] = "ddl"
      BY <3>1, <3>2, <3>4, <3>5, DdlWork
    <3>6. CASE t = s /\ after[s] # "ddl"
      BY <3>1, <3>2, <3>6, NoWork
    <3> QED  BY <3>3, <3>5, <3>6
  <2> QED  BY <2>1, <2>2
<1>11. ASSUME NEW s \in Sessions, ApplyFails(s) PROVE Control'
  <2>1. ControlTypes'
    <3>1. Continue(s) \in Points
      BY DEF Continue
    <3>2. <<>> \in Seq(Keys \cup {DDL})
      OBVIOUS
    <3> QED  BY <1>11, <3>1, <3>2 DEF ApplyFails, EndOfTail
  <2>2. ASSUME NEW t \in Sessions PROVE WorkOK(t)'
    <3>1. after[s] # "ddl" => Continue(s) \notin InQuery \cup InTail
      BY DEF Continue
    <3>2. implicit[s] => after[s] # "ddl"
      <4>1. WorkOK(s)
        OBVIOUS
      <4> QED  BY <4>1, NotBoth, Zenon DEF WorkShape
    <3>3. pc'[s] \notin InQuery \cup InTail /\ after'[s] = "end" /\ implicit'[s] = FALSE
          /\ work'[s] = <<>>
      BY <1>11, <3>1, <3>2 DEF ApplyFails, EndOfTail
    <3>4. t # s => pc'[t] = pc[t] /\ after'[t] = after[t] /\ implicit'[t] = implicit[t]
          /\ work'[t] = work[t]
      BY <1>11 DEF ApplyFails, EndOfTail
    <3> QED  BY <3>3, <3>4, NoWork
  <2> QED  BY <2>1, <2>2
<1>12. ASSUME NEW s \in Sessions, Restart(s) PROVE Control'
  <2>1. ControlTypes'
    BY <1>12 DEF Restart, OpenTxn
  <2>2. ASSUME NEW t \in Sessions PROVE WorkOK(t)'
    BY <1>12 DEF Restart, OpenTxn, WorkShape
  <2> QED  BY <2>1, <2>2
<1>13. ASSUME NEW s \in Sessions, DdlCommits(s) PROVE Control'
  <2>1. ControlTypes'
    BY <1>13 DEF DdlCommits, DetachToCommit, Detach
  <2>2. ASSUME NEW t \in Sessions PROVE WorkOK(t)'
    <3>1. work[s] = <<DDL>>
      BY <1>13, HeadOfWork DEF DdlCommits, WorkShape
    <3> QED  BY <1>13, <3>1 DEF DdlCommits, DetachToCommit, Detach, WorkShape
  <2> QED  BY <2>1, <2>2
<1>14. ASSUME NEW s \in Sessions, PlanFails(s) PROVE Control'
  <2>1. ControlTypes'
    BY <1>14 DEF PlanFails, Planning, ReturnError
  <2>2. ASSUME NEW t \in Sessions PROVE WorkOK(t)'
    BY <1>14 DEF PlanFails, Planning, ReturnError, WorkShape
  <2> QED  BY <2>1, <2>2
<1>15. ASSUME NEW s \in Sessions, PlanFailsInBatch(s) PROVE Control'
  <2>1. ControlTypes'
    BY <1>15 DEF PlanFailsInBatch, Detach, Planning
  <2>2. ASSUME NEW t \in Sessions PROVE WorkOK(t)'
    BY <1>15 DEF PlanFailsInBatch, Detach, Planning, WorkShape
  <2> QED  BY <2>1, <2>2
<1>16. ASSUME NEW s \in Sessions, RefuseReadOnly(s) PROVE Control'
  <2>1. ControlTypes'
    BY <1>16 DEF RefuseReadOnly, Planning, ReturnError
  <2>2. ASSUME NEW t \in Sessions PROVE WorkOK(t)'
    BY <1>16 DEF RefuseReadOnly, Planning, ReturnError, WorkShape
  <2> QED  BY <2>1, <2>2
<1>17. ASSUME NEW s \in Sessions, Planned(s) PROVE Control'
  <2>1. ControlTypes'
    BY <1>17 DEF Planned, Planning
  <2>2. ASSUME NEW t \in Sessions PROVE WorkOK(t)'
    BY <1>17 DEF Planned, Planning, WorkShape
  <2> QED  BY <2>1, <2>2
<1>18. ASSUME NEW s \in Sessions, Lock(s) PROVE Control'
  <2>1. ControlTypes'
    <3>1. RowsOf(Head(work[s])) \subseteq Keys
      BY <1>18, HeadOfWork DEF Lock, WorkShape
    <3> QED  BY <1>18, <3>1 DEF Lock, Table!Acquire
  <2>2. ASSUME NEW t \in Sessions PROVE WorkOK(t)'
    BY <1>18 DEF Lock, Table!Acquire, WorkShape
  <2> QED  BY <2>1, <2>2
<1>19. ASSUME NEW s \in Sessions, LockFails(s) PROVE Control'
  <2>1. ControlTypes'
    BY <1>19 DEF LockFails, ReturnError
  <2>2. ASSUME NEW t \in Sessions PROVE WorkOK(t)'
    BY <1>19 DEF LockFails, ReturnError, WorkShape
  <2> QED  BY <2>1, <2>2
<1>20. ASSUME NEW s \in Sessions, Read(s) PROVE Control'
  <2>1. ControlTypes'
    BY <1>20 DEF Read
  <2>2. ASSUME NEW t \in Sessions PROVE WorkOK(t)'
    BY <1>20 DEF Read, WorkShape
  <2> QED  BY <2>1, <2>2
<1>21. ASSUME NEW s \in Sessions, CheckStale(s) PROVE Control'
  <2>1. ControlTypes'
    BY <1>21 DEF CheckStale
  <2>2. ASSUME NEW t \in Sessions PROVE WorkOK(t)'
    BY <1>21 DEF CheckStale, WorkShape
  <2> QED  BY <2>1, <2>2
<1>22. ASSUME NEW s \in Sessions, Invalid(s) PROVE Control'
  <2>1. ControlTypes'
    BY <1>22 DEF Invalid
  <2>2. ASSUME NEW t \in Sessions PROVE WorkOK(t)'
    BY <1>22 DEF Invalid, WorkShape
  <2> QED  BY <2>1, <2>2
<1>23. ASSUME NEW s \in Sessions, WriteRow(s) PROVE Control'
  <2>1. ControlTypes'
    BY <1>23 DEF WriteRow
  <2>2. ASSUME NEW t \in Sessions PROVE WorkOK(t)'
    BY <1>23 DEF WriteRow, WorkShape
  <2> QED  BY <2>1, <2>2
<1>24. ASSUME NEW s \in Sessions, Finish(s) PROVE Control'
  <2>1. ControlTypes'
    BY <1>24 DEF Finish, Table!Release
  <2>2. ASSUME NEW t \in Sessions PROVE WorkOK(t)'
    BY <1>24 DEF Finish, Table!Release, WorkShape
  <2> QED  BY <2>1, <2>2
<1>25. ASSUME NEW s \in Sessions, NextStatement(s) PROVE Control'
  <2>1. ControlTypes'
    <3>1. Tail(work[s]) \in Seq(Keys \cup {DDL})
      BY <1>25, HeadOfWork DEF NextStatement, WorkShape
    <3> QED  BY <1>25, <3>1 DEF NextStatement
  <2>2. ASSUME NEW t \in Sessions PROVE WorkOK(t)'
    <3>1. Tail(work[s]) \in Seq(Keys) /\ Tail(work[s]) # <<>>
      BY <1>25, HeadOfWork DEF NextStatement, WorkShape
    <3>2. CASE t # s
      BY <1>25, <3>2 DEF NextStatement, WorkShape
    <3>3. CASE t = s
      BY <1>25, <3>1, <3>3, ZenonT(30) DEF NextStatement, WorkShape
    <3> QED  BY <3>2, <3>3
  <2> QED  BY <2>1, <2>2
<1>26. ASSUME NEW s \in Sessions, StatementFails(s) PROVE Control'
  <2>1. ControlTypes'
    BY <1>26 DEF StatementFails, ReturnError
  <2>2. ASSUME NEW t \in Sessions PROVE WorkOK(t)'
    BY <1>26 DEF StatementFails, ReturnError, WorkShape
  <2> QED  BY <2>1, <2>2
<1>27. ASSUME NEW s \in Sessions, QueryCommits(s) PROVE Control'
  <2>1. ControlTypes'
    BY <1>27 DEF QueryCommits, Last, DetachToCommit, Detach
  <2>2. ASSUME NEW t \in Sessions PROVE WorkOK(t)'
    BY <1>27 DEF QueryCommits, Last, DetachToCommit, Detach, WorkShape
  <2> QED  BY <2>1, <2>2
<1>28. ASSUME NEW s \in Sessions, QueryEnds(s) PROVE Control'
  <2>1. ControlTypes'
    BY <1>28 DEF QueryEnds, Last
  <2>2. ASSUME NEW t \in Sessions PROVE WorkOK(t)'
    BY <1>28 DEF QueryEnds, Last, WorkShape
  <2> QED  BY <2>1, <2>2
<1>29. ASSUME NEW s \in Sessions, NEW w \in Works, Submit(s, w) PROVE Control'
  <2>1. ControlTypes'
    <3>1. w \in Seq(Keys \cup {DDL}) /\ Len(w) \in Nat
      BY HeadOfWork, WorkAssumption
    <3>2. updates' \in 0..MaxUpdates
      BY <1>29, <3>1 DEF Submit
    <3>3. CASE NeedsTxn(s, w)
      <4>1. OpenTxn(s, level[s], FALSE)
        BY <1>29, <3>3 DEF Submit
      <4> QED  BY <1>29, <3>1, <3>2, <4>1 DEF Submit, OpenTxn
    <3>4. CASE ~NeedsTxn(s, w)
      BY <1>29, <3>1, <3>2, <3>4 DEF Submit
    <3> QED  BY <3>3, <3>4
  <2>2. ASSUME NEW t \in Sessions PROVE WorkOK(t)'
    <3>1. w = <<DDL>> \/ (w \in Seq(Keys) /\ w # <<>>)
      BY WorkAssumption
    <3>2. w # <<>> /\ (Len(w) > 1 => w \in Seq(Keys))
      <4>1. Len(<<DDL>>) = 1 /\ <<DDL>> # <<>>
        OBVIOUS
      <4>2. w = <<DDL>> => w # <<>> /\ ~(Len(w) > 1)
        BY <4>1
      <4> QED  BY <3>1, <4>2, Zenon
    <3>3. pc'[s] = "plan" /\ after' = after /\ work'[s] = w
          /\ (implicit'[s] => Len(w) > 1)
      BY <1>29 DEF Submit
    <3>4. t # s => pc'[t] = pc[t] /\ implicit'[t] = implicit[t] /\ work'[t] = work[t]
      BY <1>29 DEF Submit
    <3>5. after[s] = "end"
      BY <1>29 DEF Submit, WorkShape
    <3> QED  BY <3>1, <3>2, <3>3, <3>4, <3>5 DEF WorkShape
  <2> QED  BY <2>1, <2>2
<1>30. ASSUME NEW s \in Sessions, NEW v \in Sessions, Kill(s, v) PROVE Control'
  <2>1. ControlTypes'
    BY <1>30 DEF Kill, Detach
  <2>2. ASSUME NEW t \in Sessions PROVE WorkOK(t)'
    BY <1>30 DEF Kill, Detach, WorkShape
  <2> QED  BY <2>1, <2>2
<1>31. ASSUME NEW s \in Sessions, KillReleases(s) PROVE Control'
  <2>1. ControlTypes'
    BY <1>31 DEF KillReleases, Table!Release
  <2>2. ASSUME NEW t \in Sessions PROVE WorkOK(t)'
    BY <1>31 DEF KillReleases, Table!Release, WorkShape
  <2> QED  BY <2>1, <2>2
<1>32. ASSUME NEW s \in Sessions, Disconnect(s) PROVE Control'
  <2>1. ControlTypes'
    <3>1. CASE status[s] = "Transaction"
      <4>1. /\ Detach(s) /\ target' = [target EXCEPT ![s] = s] /\ Goto(s, "kill")
            /\ UNCHANGED <<held, client, work, implicit, hold, seen, failed, after, updates>>
        BY <1>32, <3>1, Zenon DEF Disconnect
      <4> QED  BY <4>1 DEF Detach
    <3>2. CASE status[s] # "Transaction"
      BY <1>32, <3>2 DEF Disconnect
    <3> QED  BY <3>1, <3>2
  <2>2. ASSUME NEW t \in Sessions PROVE WorkOK(t)'
    <3>1. pc[s] = "idle" /\ UNCHANGED <<work, implicit, after>>
      BY <1>32 DEF Disconnect
    <3>2. pc' = [pc EXCEPT ![s] = "kill"] \/ pc' = [pc EXCEPT ![s] = "gone"]
      BY <1>32, Zenon DEF Disconnect
    <3>3. \/ pc'[s] = "kill" \/ pc'[s] = "gone"
      BY <3>2
    <3>4. t # s => pc'[t] = pc[t]
      BY <3>2
    <3> QED  BY <3>1, <3>3, <3>4 DEF WorkShape
  <2> QED  BY <2>1, <2>2
<1>33. CASE UNCHANGED gvars
  BY <1>33 DEF gvars, WorkShape
<1> QED
  BY <1>1, <1>2, <1>3, <1>4, <1>5, <1>6, <1>7, <1>8, <1>9, <1>10, <1>11, <1>12,
     <1>13, <1>14, <1>15, <1>16, <1>17, <1>18, <1>19, <1>20, <1>21, <1>22, <1>23,
     <1>24, <1>25, <1>26, <1>27, <1>28, <1>29, <1>30, <1>31, <1>32, <1>33
  DEF GNext, Command, Statement

-----------------------------------------------------------------------------
(***************************************************************************)
(* The transaction map and the status of the client.                       *)
(***************************************************************************)

\* The map of active transactions holds open transactions, and none of a session
\* whose status is Idle or whose transaction is being committed.
TxnShape(point, st, att, act) ==
  /\ att => act
  /\ (point \in InTail \/ st = "Idle") => ~att

Transactions ==
  /\ active \subseteq Sessions
  /\ \A s \in Sessions : TxnShape(pc[s], status[s], s \in attached, s \in active)

\* KILL included: it takes the entry and the transaction away together.
LEMMA TransactionsStep == Control /\ Transactions /\ [GNext]_gvars => Transactions'
<1> SUFFICES ASSUME Control, Transactions, [GNext]_gvars PROVE Transactions'
  OBVIOUS
<1> USE DEF Control, ControlTypes, Transactions, TxnShape, Goto, InTail,
            txnMaps, client, locals, storeVars, Sessions
<1>1. ASSUME NEW s \in Sessions, CommitTxn(s) PROVE Transactions'
  BY <1>1 DEF CommitTxn, DetachToCommit, Detach
<1>2. ASSUME NEW s \in Sessions, BeginAgain(s) PROVE Transactions'
  BY <1>2 DEF BeginAgain, DetachToCommit, Detach
<1>3. ASSUME NEW s \in Sessions, BeginReadOnlyAgain(s) PROVE Transactions'
  BY <1>3 DEF BeginReadOnlyAgain
<1>4. ASSUME NEW s \in Sessions, RollbackTxn(s) PROVE Transactions'
  BY <1>4 DEF RollbackTxn, Detach, DropTxn, Rollback, Forget
<1>5. ASSUME NEW s \in Sessions, NEW lvl \in Isolations, NEW ro \in BOOLEAN,
             BeginTxn(s, lvl, ro)
      PROVE  Transactions'
  BY <1>5 DEF BeginTxn, OpenTxn, Begin
<1>6. ASSUME NEW s \in Sessions, NEW lvl \in Isolations,
             SetIsolation(s, lvl)
      PROVE  Transactions'
  BY <1>6 DEF SetIsolation
<1>7. ASSUME NEW s \in Sessions, AutocommitOff(s) PROVE Transactions'
  BY <1>7 DEF AutocommitOff
<1>8. ASSUME NEW s \in Sessions, AutocommitOn(s) PROVE Transactions'
  BY <1>8 DEF AutocommitOn, Detach
<1>9. ASSUME NEW s \in Sessions, ReleaseLocks(s) PROVE Transactions'
  BY <1>9 DEF ReleaseLocks
<1>10. ASSUME NEW s \in Sessions, Apply(s) PROVE Transactions'
  BY <1>10 DEF Apply, EndOfTail, Commit, Forget
<1>11. ASSUME NEW s \in Sessions, ApplyFails(s) PROVE Transactions'
  BY <1>11 DEF ApplyFails, EndOfTail, CommitFails, Forget
<1>12. ASSUME NEW s \in Sessions, Restart(s) PROVE Transactions'
  BY <1>12 DEF Restart, OpenTxn, Begin
<1>13. ASSUME NEW s \in Sessions, DdlCommits(s) PROVE Transactions'
  BY <1>13 DEF DdlCommits, DetachToCommit, Detach
<1>14. ASSUME NEW s \in Sessions, PlanFails(s) PROVE Transactions'
  BY <1>14 DEF PlanFails, Planning, ReturnError
<1>15. ASSUME NEW s \in Sessions, PlanFailsInBatch(s) PROVE Transactions'
  BY <1>15 DEF PlanFailsInBatch, Detach, Planning, DropTxn, Rollback, Forget
<1>16. ASSUME NEW s \in Sessions, RefuseReadOnly(s) PROVE Transactions'
  BY <1>16 DEF RefuseReadOnly, Planning, ReturnError
<1>17. ASSUME NEW s \in Sessions, Planned(s) PROVE Transactions'
  BY <1>17 DEF Planned, Planning
<1>18. ASSUME NEW s \in Sessions, Lock(s) PROVE Transactions'
  BY <1>18 DEF Lock
<1>19. ASSUME NEW s \in Sessions, LockFails(s) PROVE Transactions'
  BY <1>19 DEF LockFails, ReturnError
<1>20. ASSUME NEW s \in Sessions, Read(s) PROVE Transactions'
  BY <1>20 DEF Read
<1>21. ASSUME NEW s \in Sessions, CheckStale(s) PROVE Transactions'
  BY <1>21 DEF CheckStale
<1>22. ASSUME NEW s \in Sessions, Invalid(s) PROVE Transactions'
  BY <1>22 DEF Invalid
<1>23. ASSUME NEW s \in Sessions, WriteRow(s) PROVE Transactions'
  BY <1>23 DEF WriteRow, TxnWrite, StoreWrite
<1>24. ASSUME NEW s \in Sessions, Finish(s) PROVE Transactions'
  BY <1>24 DEF Finish
<1>25. ASSUME NEW s \in Sessions, NextStatement(s) PROVE Transactions'
  BY <1>25 DEF NextStatement
<1>26. ASSUME NEW s \in Sessions, StatementFails(s) PROVE Transactions'
  BY <1>26 DEF StatementFails, ReturnError
<1>27. ASSUME NEW s \in Sessions, QueryCommits(s) PROVE Transactions'
  BY <1>27 DEF QueryCommits, Last, DetachToCommit, Detach
<1>28. ASSUME NEW s \in Sessions, QueryEnds(s) PROVE Transactions'
  BY <1>28 DEF QueryEnds, Last
<1>29. ASSUME NEW s \in Sessions, NEW w \in Works, Submit(s, w) PROVE Transactions'
  BY <1>29 DEF Submit, OpenTxn, Begin
<1>30. ASSUME NEW s \in Sessions, NEW v \in Sessions, Kill(s, v) PROVE Transactions'
  BY <1>30 DEF Kill, Detach, DropTxn, Rollback, Forget
<1>31. ASSUME NEW s \in Sessions, KillReleases(s) PROVE Transactions'
  BY <1>31 DEF KillReleases
<1>32. ASSUME NEW s \in Sessions, Disconnect(s) PROVE Transactions'
  BY <1>32 DEF Disconnect, Detach, DropTxn, Rollback, Forget
<1>33. CASE UNCHANGED gvars
  BY <1>33 DEF gvars
<1> QED
  BY <1>1, <1>2, <1>3, <1>4, <1>5, <1>6, <1>7, <1>8, <1>9, <1>10, <1>11, <1>12,
     <1>13, <1>14, <1>15, <1>16, <1>17, <1>18, <1>19, <1>20, <1>21, <1>22, <1>23,
     <1>24, <1>25, <1>26, <1>27, <1>28, <1>29, <1>30, <1>31, <1>32, <1>33
  DEF GNext, Command, Statement
-----------------------------------------------------------------------------
(***************************************************************************)
(* Buffers and row locks.                                                  *)
(***************************************************************************)

\* Only open transactions have buffered writes.
Buffers ==
  /\ DOMAIN pending = Txns
  /\ \A t \in Txns : DOMAIN pending[t] = Keys
  /\ \A t \in Txns \ active : pending[t] = NoWrites

\* From the moment its locks are taken a statement knows whether to keep them
\* (hold), has the lock of the row it works on, and locks are found outside a
\* statement only with an open transaction or on the way to their release.
LocksKept(s) ==
  /\ pc[s] \in {"lock", "read", "stale", "write", "finish"} => (hold[s] <=> s \in attached)
  /\ pc[s] = "kill" => target[s] = s /\ s \notin attached
  /\ MySql /\ pc[s] \in {"read", "stale", "write"} /\ Head(work[s]) # DDL
       => Head(work[s]) \in held[s]
  /\ s \notin attached /\ pc[s] \notin {"read", "stale", "write", "finish", "release", "kill"}
       => held[s] = {}
  /\ ~MySql => held[s] = {} /\ pc[s] # "lock"
  /\ MySql /\ s \in attached => \A k \in Keys : pending[s][k] # Untouched => k \in held[s]

Locks == \A s \in Sessions : LocksKept(s)

\* Without KILL no handler loses a lock of a buffered write, or keeps one that
\* nothing would release.
LEMMA LocksStep ==
  ASSUME Killers = {}, Control, Transactions, Buffers, Locks, [GNext]_gvars
  PROVE  Locks'
<1> USE DEF Control, ControlTypes, Transactions, TxnShape, Buffers, Locks, LocksKept,
            Goto, InTail, txnMaps, client, locals, storeVars, Sessions
<1>1. ASSUME NEW s \in Sessions, CommitTxn(s) PROVE Locks'
  BY <1>1 DEF CommitTxn, DetachToCommit, Detach
<1>2. ASSUME NEW s \in Sessions, BeginAgain(s) PROVE Locks'
  BY <1>2 DEF BeginAgain, DetachToCommit, Detach
<1>3. ASSUME NEW s \in Sessions, BeginReadOnlyAgain(s) PROVE Locks'
  BY <1>3 DEF BeginReadOnlyAgain
<1>4. ASSUME NEW s \in Sessions, RollbackTxn(s) PROVE Locks'
  BY <1>4 DEF RollbackTxn, Detach, DropTxn, Rollback, Forget
<1>5. ASSUME NEW s \in Sessions, NEW lvl \in Isolations, NEW ro \in BOOLEAN,
             BeginTxn(s, lvl, ro)
      PROVE  Locks'
  <2>1. ASSUME NEW t \in Sessions, t # s PROVE LocksKept(t)'
    BY <1>5, <2>1 DEF BeginTxn, OpenTxn, Begin
  <2>2. LocksKept(s)'
    BY <1>5 DEF BeginTxn, OpenTxn, Begin, NoWrites
  <2> QED  BY <2>1, <2>2
<1>6. ASSUME NEW s \in Sessions, NEW lvl \in Isolations, SetIsolation(s, lvl) PROVE Locks'
  BY <1>6 DEF SetIsolation
<1>7. ASSUME NEW s \in Sessions, AutocommitOff(s) PROVE Locks'
  BY <1>7 DEF AutocommitOff
<1>8. ASSUME NEW s \in Sessions, AutocommitOn(s) PROVE Locks'
  <2>1. ASSUME NEW t \in Sessions, t # s PROVE LocksKept(t)'
    BY <1>8, <2>1 DEF AutocommitOn, Detach
  <2>2. LocksKept(s)'
    BY <1>8 DEF AutocommitOn, Detach
  <2> QED  BY <2>1, <2>2
<1>9. ASSUME NEW s \in Sessions, ReleaseLocks(s) PROVE Locks'
  BY <1>9 DEF ReleaseLocks, Table!Release
<1>10. ASSUME NEW s \in Sessions, Apply(s) PROVE Locks'
  <2>1. ASSUME NEW t \in Sessions, t # s PROVE LocksKept(t)'
    BY <1>10, <2>1 DEF Apply, EndOfTail, Commit, Forget
  <2>2. LocksKept(s)'
    BY <1>10 DEF Apply, EndOfTail, Commit, Forget, Continue
  <2> QED  BY <2>1, <2>2
<1>11. ASSUME NEW s \in Sessions, ApplyFails(s) PROVE Locks'
  <2>1. ASSUME NEW t \in Sessions, t # s PROVE LocksKept(t)'
    BY <1>11, <2>1 DEF ApplyFails, EndOfTail, CommitFails, Forget
  <2>2. LocksKept(s)'
    BY <1>11 DEF ApplyFails, EndOfTail, CommitFails, Forget, Continue
  <2> QED  BY <2>1, <2>2
<1>12. ASSUME NEW s \in Sessions, Restart(s) PROVE Locks'
  <2>1. ASSUME NEW t \in Sessions, t # s PROVE LocksKept(t)'
    BY <1>12, <2>1 DEF Restart, OpenTxn, Begin
  <2>2. LocksKept(s)'
    BY <1>12 DEF Restart, OpenTxn, Begin, NoWrites
  <2> QED  BY <2>1, <2>2
<1>13. ASSUME NEW s \in Sessions, DdlCommits(s) PROVE Locks'
  BY <1>13 DEF DdlCommits, DetachToCommit, Detach
<1>14. ASSUME NEW s \in Sessions, PlanFails(s) PROVE Locks'
  BY <1>14 DEF PlanFails, Planning, ReturnError
<1>15. ASSUME NEW s \in Sessions, PlanFailsInBatch(s) PROVE Locks'
  BY <1>15 DEF PlanFailsInBatch, Detach, Planning, DropTxn, Rollback, Forget
<1>16. ASSUME NEW s \in Sessions, RefuseReadOnly(s) PROVE Locks'
  BY <1>16 DEF RefuseReadOnly, Planning, ReturnError
<1>17. ASSUME NEW s \in Sessions, Planned(s) PROVE Locks'
  <2>1. ASSUME NEW t \in Sessions, t # s PROVE LocksKept(t)'
    BY <1>17, <2>1 DEF Planned, Planning
  <2>2. LocksKept(s)'
    BY <1>17, ModeAssumption DEF Planned, Planning
  <2> QED  BY <2>1, <2>2
<1>18. ASSUME NEW s \in Sessions, Lock(s) PROVE Locks'
  <2>1. ASSUME NEW t \in Sessions, t # s PROVE LocksKept(t)'
    BY <1>18, <2>1 DEF Lock, Table!Acquire
  <2>2. LocksKept(s)'
    BY <1>18 DEF Lock, Table!Acquire, RowsOf
  <2> QED  BY <2>1, <2>2
<1>19. ASSUME NEW s \in Sessions, LockFails(s) PROVE Locks'
  BY <1>19 DEF LockFails, ReturnError
<1>20. ASSUME NEW s \in Sessions, Read(s) PROVE Locks'
  BY <1>20 DEF Read
<1>21. ASSUME NEW s \in Sessions, CheckStale(s) PROVE Locks'
  BY <1>21 DEF CheckStale
<1>22. ASSUME NEW s \in Sessions, Invalid(s) PROVE Locks'
  BY <1>22 DEF Invalid
<1>23. ASSUME NEW s \in Sessions, WriteRow(s) PROVE Locks'
  <2>1. ASSUME NEW t \in Sessions, t # s PROVE LocksKept(t)'
    BY <1>23, <2>1 DEF WriteRow, TxnWrite, StoreWrite
  <2>2. LocksKept(s)'
    BY <1>23 DEF WriteRow, TxnWrite, StoreWrite, WorkOK, WorkShape
  <2> QED  BY <2>1, <2>2
<1>24. ASSUME NEW s \in Sessions, Finish(s) PROVE Locks'
  <2>1. ASSUME NEW t \in Sessions, t # s PROVE LocksKept(t)'
    BY <1>24, <2>1 DEF Finish, Table!Release
  <2>2. LocksKept(s)'
    BY <1>24, ModeAssumption DEF Finish, Table!Release, ReleasedAtEnd
  <2> QED  BY <2>1, <2>2
<1>25. ASSUME NEW s \in Sessions, NextStatement(s) PROVE Locks'
  BY <1>25 DEF NextStatement
<1>26. ASSUME NEW s \in Sessions, StatementFails(s) PROVE Locks'
  BY <1>26 DEF StatementFails, ReturnError
<1>27. ASSUME NEW s \in Sessions, QueryCommits(s) PROVE Locks'
  BY <1>27 DEF QueryCommits, Last, DetachToCommit, Detach
<1>28. ASSUME NEW s \in Sessions, QueryEnds(s) PROVE Locks'
  BY <1>28 DEF QueryEnds, Last
<1>29. ASSUME NEW s \in Sessions, NEW w \in Works, Submit(s, w) PROVE Locks'
  <2>1. ASSUME NEW t \in Sessions, t # s PROVE LocksKept(t)'
    BY <1>29, <2>1 DEF Submit, OpenTxn, Begin
  <2>2. CASE NeedsTxn(s, w)
    <3>1. OpenTxn(s, level[s], FALSE)
      BY <1>29, <2>2 DEF Submit
    <3>2. LocksKept(s)'
      BY <1>29, <3>1 DEF Submit, OpenTxn, Begin, NoWrites
    <3> QED  BY <2>1, <3>2
  <2>3. CASE ~NeedsTxn(s, w)
    <3>1. UNCHANGED <<storeVars, txnMaps, client>>
      BY <1>29, <2>3 DEF Submit
    <3>2. LocksKept(s)'
      BY <1>29, <3>1 DEF Submit
    <3> QED  BY <2>1, <3>2
  <2> QED  BY <2>2, <2>3
<1>30. ASSUME NEW s \in Sessions, NEW v \in Sessions, Kill(s, v) PROVE Locks'
  BY <1>30 DEF Kill, Detach, DropTxn, Rollback, Forget
<1>31. ASSUME NEW s \in Sessions, KillReleases(s) PROVE Locks'
  BY <1>31 DEF KillReleases, Table!Release
<1>32. ASSUME NEW s \in Sessions, Disconnect(s) PROVE Locks'
  BY <1>32 DEF Disconnect, Detach, DropTxn, Rollback, Forget
<1>33. CASE UNCHANGED gvars
  BY <1>33 DEF gvars
<1> QED
  BY <1>1, <1>2, <1>3, <1>4, <1>5, <1>6, <1>7, <1>8, <1>9, <1>10, <1>11, <1>12,
     <1>13, <1>14, <1>15, <1>16, <1>17, <1>18, <1>19, <1>20, <1>21, <1>22, <1>23,
     <1>24, <1>25, <1>26, <1>27, <1>28, <1>29, <1>30, <1>31, <1>32, <1>33
  DEF GNext, Command, Statement

-----------------------------------------------------------------------------
(***************************************************************************)
(* What a step does to the store.                                          *)
(***************************************************************************)

\* The store and its transactions.
StoreMove ==
  \/ UNCHANGED storeVars
  \/ \E s \in Sessions : Begin(s) \/ Commit(s) \/ CommitFails(s) \/ Rollback(s)
  \/ \E s \in Sessions :
       /\ pc[s] = "write"
       /\ \/ TxnWrite(s, Head(work[s]), seen[s] + 1)
          \/ StoreWrite(Head(work[s]), seen[s] + 1)

\* The row a session has read.
SeenMove ==
  \/ UNCHANGED seen
  \/ \E s \in Sessions : seen' = [seen EXCEPT ![s] = 0]
  \/ \E s \in Sessions : /\ pc[s] = "read" /\ Head(work[s]) # DDL
                         /\ seen' = [seen EXCEPT ![s] = Visible(s, Head(work[s]))]

\* Whatever the gateway does, the store sees one operation of one transaction.
LEMMA StepMoves == [GNext]_gvars => StoreMove /\ SeenMove
<1> SUFFICES ASSUME [GNext]_gvars PROVE StoreMove /\ SeenMove
  OBVIOUS
<1>1. ASSUME NEW s \in Sessions, DropTxn(s) PROVE StoreMove
  BY <1>1, Zenon DEF DropTxn, StoreMove
<1>2. ASSUME NEW s \in Sessions, NEW lvl, NEW ro, OpenTxn(s, lvl, ro) PROVE StoreMove
  BY <1>2, Zenon DEF OpenTxn, StoreMove
<1>3. ASSUME NEW s \in Sessions, NEW for, DetachToCommit(s, for)
      PROVE  UNCHANGED storeVars /\ UNCHANGED seen
  BY <1>3 DEF DetachToCommit
<1>4. ASSUME NEW s \in Sessions, Command(s) PROVE StoreMove /\ SeenMove
  <2>1. CASE CommitTxn(s) \/ BeginAgain(s)
    BY <1>3, <2>1, Zenon DEF CommitTxn, BeginAgain, StoreMove, SeenMove
  <2>2. CASE BeginReadOnlyAgain(s)
    BY <2>2 DEF BeginReadOnlyAgain, StoreMove, SeenMove, locals
  <2>3. CASE RollbackTxn(s)
    BY <1>1, <2>3 DEF RollbackTxn, SeenMove
  <2>4. ASSUME NEW lvl \in Isolations, NEW ro \in BOOLEAN, BeginTxn(s, lvl, ro)
        PROVE  StoreMove /\ SeenMove
    BY <1>2, <2>4 DEF BeginTxn, SeenMove, locals
  <2>5. ASSUME NEW lvl \in Isolations, SetIsolation(s, lvl) PROVE StoreMove /\ SeenMove
    BY <2>5 DEF SetIsolation, StoreMove, SeenMove, locals
  <2>6. CASE AutocommitOff(s) \/ AutocommitOn(s) \/ ReleaseLocks(s)
    BY <2>6 DEF AutocommitOff, AutocommitOn, ReleaseLocks, StoreMove, SeenMove, locals
  <2>7. CASE Apply(s)
    <3>1. StoreMove
      BY <2>7, Zenon DEF Apply, StoreMove
    <3> QED  BY <2>7, <3>1 DEF Apply, SeenMove
  <2>8. CASE ApplyFails(s)
    <3>1. StoreMove
      BY <2>8, Zenon DEF ApplyFails, StoreMove
    <3> QED  BY <2>8, <3>1 DEF ApplyFails, SeenMove
  <2>9. CASE Restart(s)
    BY <1>2, <2>9 DEF Restart, SeenMove, locals
  <2> QED  BY <1>4, <2>1, <2>2, <2>3, <2>4, <2>5, <2>6, <2>7, <2>8, <2>9 DEF Command
<1>5. ASSUME NEW s \in Sessions, Statement(s) PROVE StoreMove /\ SeenMove
  <2>1. CASE DdlCommits(s) \/ QueryCommits(s)
    BY <1>3, <2>1, Zenon DEF DdlCommits, QueryCommits, StoreMove, SeenMove
  <2>2. CASE PlanFails(s) \/ RefuseReadOnly(s) \/ Planned(s) \/ LockFails(s)
             \/ CheckStale(s) \/ Invalid(s)
    BY <2>2 DEF PlanFails, RefuseReadOnly, Planned, LockFails, CheckStale, Invalid,
                StoreMove, SeenMove
  <2>3. CASE Lock(s)
    BY <2>3 DEF Lock, StoreMove, SeenMove, locals
  <2>4. CASE PlanFailsInBatch(s)
    BY <1>1, <2>4 DEF PlanFailsInBatch, SeenMove
  <2>5. CASE Read(s)
    BY <2>5 DEF Read, StoreMove, SeenMove
  <2>6. CASE WriteRow(s)
    <3>1. StoreMove
      BY <2>6, Zenon DEF WriteRow, StoreMove
    <3> QED  BY <2>6, <3>1 DEF WriteRow, SeenMove, locals
  <2>7. CASE Finish(s)
    BY <2>7 DEF Finish, StoreMove, SeenMove
  <2>8. CASE NextStatement(s) \/ StatementFails(s) \/ QueryEnds(s)
    BY <2>8 DEF NextStatement, StatementFails, QueryEnds, StoreMove, SeenMove
  <2> QED  BY <1>5, <2>1, <2>2, <2>3, <2>4, <2>5, <2>6, <2>7, <2>8 DEF Statement
<1>6. ASSUME NEW s \in Sessions, NEW w \in Works, Submit(s, w) PROVE StoreMove /\ SeenMove
  <2>1. OpenTxn(s, level[s], FALSE) \/ UNCHANGED storeVars
    BY <1>6, Zenon DEF Submit
  <2>2. StoreMove
    BY <1>2, <2>1, Zenon DEF StoreMove
  <2> QED  BY <1>6, <2>2 DEF Submit, SeenMove
<1>7. ASSUME NEW s \in Sessions, NEW v \in Sessions,
             Kill(s, v)
      PROVE  StoreMove /\ SeenMove
  BY <1>1, <1>7 DEF Kill, SeenMove
<1>8. ASSUME NEW s \in Sessions, KillReleases(s) PROVE StoreMove /\ SeenMove
  BY <1>8 DEF KillReleases, StoreMove, SeenMove
<1>9. ASSUME NEW s \in Sessions, Disconnect(s) PROVE StoreMove /\ SeenMove
  <2>1. DropTxn(s) \/ UNCHANGED storeVars
    BY <1>9, Zenon DEF Disconnect
  <2>2. StoreMove
    BY <1>1, <2>1, Zenon DEF StoreMove
  <2> QED  BY <1>9, <2>2 DEF Disconnect, SeenMove
<1>10. CASE UNCHANGED gvars
  BY <1>10 DEF gvars, storeVars, locals, StoreMove, SeenMove
<1> QED  BY <1>4, <1>5, <1>6, <1>7, <1>8, <1>9, <1>10 DEF GNext

\* The rows hold numbers.
Counter == [Keys -> Nat]

Counters ==
  /\ inner \in Counter
  /\ pending \in [Txns -> [Keys -> Nat \cup {Untouched}]]
  /\ DOMAIN snapshot = Txns
  /\ ~Engine => \A t \in active : snapshot[t] \in Counter
  /\ seen \in [Sessions -> Nat]

\* A read of the gateway returns a number, through the buffer, the snapshot or
\* the store.
LEMMA ReadsCount ==
  ASSUME Counters, Transactions, NEW s \in Sessions, NEW k \in Keys
  PROVE  Visible(s, k) \in Nat
BY
DEF Counters, Counter, Transactions, TxnShape, Sessions, Visible, Get, SnapshotGet, Overlay

\* So does a commit leave one.
LEMMA OverlayCounts ==
  ASSUME NEW b \in [Keys -> Nat \cup {Untouched}], NEW m \in Counter
  PROVE  Overlay(b, m) \in Counter
BY DEF Counter, Overlay

\* A statement that is not a DDL names a row.
LEMMA RowInHand ==
  ASSUME Control, NEW s \in Sessions, pc[s] \in InQuery, Head(work[s]) # DDL
  PROVE  Head(work[s]) \in Keys
BY HeadOfWork DEF Control, WorkOK, WorkShape

\* The write is one of an UPDATE.
LEMMA RowToWrite ==
  ASSUME Control, NEW s \in Sessions, pc[s] = "write"
  PROVE  Head(work[s]) \in Keys
BY RowInHand DEF Control, WorkOK, WorkShape, InQuery

\* An UPDATE reads a number and writes the next one.
LEMMA CountersStep ==
  ASSUME Control, Transactions, Counters, [GNext]_gvars
  PROVE  Counters'
<1>1. seen' \in [Sessions -> Nat]
  <2>1. ASSUME NEW s \in Sessions, pc[s] = "read", Head(work[s]) # DDL
        PROVE  Visible(s, Head(work[s])) \in Nat
    <3>1. Head(work[s]) \in Keys
      BY <2>1, RowInHand DEF InQuery
    <3> QED  BY <3>1, ReadsCount
  <2> QED  BY <2>1, StepMoves DEF SeenMove, Counters
<1>2. CASE UNCHANGED storeVars
  BY <1>1, <1>2 DEF storeVars, Counters
<1>3. ASSUME NEW s \in Sessions, Begin(s) PROVE Counters'
  BY <1>1, <1>3 DEF Begin, Counters, Sessions
<1>4. ASSUME NEW s \in Sessions, Forget(s), inner' \in Counter PROVE Counters'
  BY <1>1, <1>4 DEF Forget, Counters, Sessions, NoWrites
<1>5. ASSUME NEW s \in Sessions,
             Commit(s) \/ CommitFails(s) \/ Rollback(s)
      PROVE  Counters'
  <2>1. inner' \in Counter
    BY <1>5, OverlayCounts DEF Commit, CommitFails, Rollback, Counters, Sessions
  <2> QED  BY <1>4, <1>5, <2>1 DEF Commit, CommitFails, Rollback
<1>6. ASSUME NEW s \in Sessions, pc[s] = "write", TxnWrite(s, Head(work[s]), seen[s] + 1)
      PROVE  Counters'
  <2>1. Head(work[s]) \in Keys /\ seen[s] + 1 \in Nat
    BY <1>6, RowToWrite DEF Counters
  <2> QED  BY <1>1, <1>6, <2>1 DEF TxnWrite, Counters, Sessions
<1>7. ASSUME NEW s \in Sessions, pc[s] = "write", StoreWrite(Head(work[s]), seen[s] + 1)
      PROVE  Counters'
  <2>1. Head(work[s]) \in Keys /\ seen[s] + 1 \in Nat
    BY <1>7, RowToWrite DEF Counters
  <2> QED  BY <1>1, <1>7, <2>1 DEF StoreWrite, Counters, Counter
<1> QED  BY <1>2, <1>3, <1>5, <1>6, <1>7, StepMoves DEF StoreMove

\* Under the gateway the store takes no step but those of its own specification.
LEMMA StoreSteps ==
  ASSUME Nat \subseteq Values, Control, Counters, [GNext]_gvars
  PROVE  [Next]_vars
<1>1. CASE UNCHANGED storeVars
  BY <1>1 DEF storeVars, vars
<1>2. ASSUME NEW s \in Sessions, Begin(s) \/ Commit(s) \/ CommitFails(s) \/ Rollback(s)
      PROVE  Next
  BY <1>2, Zenon DEF Next, Sessions
<1>3. ASSUME NEW s \in Sessions, pc[s] = "write",
             TxnWrite(s, Head(work[s]), seen[s] + 1) \/ StoreWrite(Head(work[s]), seen[s] + 1)
      PROVE  Next
  <2>1. Head(work[s]) \in Keys /\ seen[s] + 1 \in Options
    BY <1>3, RowToWrite DEF Counters, Options
  <2> QED  BY <1>3, <2>1, Zenon DEF Next, Sessions
<1> QED  BY <1>1, <1>2, <1>3, StepMoves DEF StoreMove

\* Buffers appear with a transaction's writes and go with the transaction.
LEMMA BuffersKept ==
  ASSUME Buffers, [GNext]_gvars
  PROVE  Buffers'
<1> USE DEF Buffers, Sessions
<1>1. CASE UNCHANGED storeVars
  BY <1>1 DEF storeVars
<1>2. ASSUME NEW s \in Sessions, Begin(s) PROVE Buffers'
  BY <1>2 DEF Begin
<1>3. ASSUME NEW s \in Sessions, Forget(s) PROVE Buffers'
  BY <1>3 DEF Forget, NoWrites
<1>4. ASSUME NEW s \in Sessions, Commit(s) \/ CommitFails(s) \/ Rollback(s) PROVE Buffers'
  BY <1>3, <1>4 DEF Commit, CommitFails, Rollback
<1>5. ASSUME NEW s \in Sessions, NEW k, NEW v, TxnWrite(s, k, v) PROVE Buffers'
  BY <1>5 DEF TxnWrite
<1>6. ASSUME NEW k, NEW v, StoreWrite(k, v) PROVE Buffers'
  BY <1>6 DEF StoreWrite
<1> QED  BY <1>1, <1>2, <1>4, <1>5, <1>6, StepMoves DEF StoreMove

\* The rows of every open memory transaction stay as they were at its begin.
LEMMA SnapshotsKept ==
  ASSUME [GNext]_gvars, Transactions, DOMAIN snapshot = Txns, NEW t \in active, t \in active'
  PROVE  snapshot'[t] = snapshot[t]
<1> USE DEF Sessions, Transactions
<1>1. CASE UNCHANGED storeVars
  BY <1>1 DEF storeVars
<1>2. ASSUME NEW s \in Sessions, Begin(s) PROVE snapshot'[t] = snapshot[t]
  BY <1>2 DEF Begin
<1>3. ASSUME NEW s \in Sessions, Forget(s) PROVE snapshot'[t] = snapshot[t]
  BY <1>3 DEF Forget
<1>4. ASSUME NEW s \in Sessions, Commit(s) \/ CommitFails(s) \/ Rollback(s)
      PROVE  snapshot'[t] = snapshot[t]
  BY <1>3, <1>4 DEF Commit, CommitFails, Rollback
<1>5. ASSUME NEW s \in Sessions, NEW k, NEW v, TxnWrite(s, k, v) \/ StoreWrite(k, v)
      PROVE  snapshot'[t] = snapshot[t]
  BY <1>5 DEF TxnWrite, StoreWrite
<1> QED  BY <1>1, <1>2, <1>4, <1>5, StepMoves DEF StoreMove

\* The invariant that holds with and without KILL.
GatewayInv == Control /\ Transactions /\ Buffers /\ DOMAIN snapshot = Txns

\* The snapshots belong to the transactions.
LEMMA SnapshotDomain ==
  ASSUME DOMAIN snapshot = Txns, [GNext]_gvars
  PROVE  DOMAIN snapshot' = Txns
BY StepMoves
DEF StoreMove, storeVars, Begin, Commit, CommitFails, Rollback, Forget, TxnWrite, StoreWrite

-----------------------------------------------------------------------------
(***************************************************************************)
(* Theorems.                                                               *)
(***************************************************************************)

\* The layers, together, are inductive.
LEMMA GatewayInvHolds == GSpec => []GatewayInv
<1>1. GInit => GatewayInv
  <2> SUFFICES ASSUME GInit PROVE GatewayInv
    OBVIOUS
  <2>1. ControlTypes
    <3>1. updates \in 0..MaxUpdates
      BY CounterAssumption DEF GInit
    <3>2. work \in [Sessions -> Seq(Keys \cup {DDL})]
      BY EmptySeq DEF GInit
    <3> QED  BY <3>1, <3>2, LevelAssumption
    DEF GInit, ControlTypes, Table!TableInit, Points
  <2>2. ASSUME NEW s \in Sessions PROVE WorkOK(s)
    <3>1. WorkShape("idle", <<>>, "end", FALSE)
      BY NoWork DEF InQuery, InTail
    <3> QED  BY <3>1 DEF GInit, WorkOK
  <2>3. Transactions /\ Buffers /\ DOMAIN snapshot = Txns
    BY DEF GInit, Transactions, TxnShape, Buffers, NoWrites
  <2> QED  BY <2>1, <2>2, <2>3 DEF GatewayInv, Control
<1>2. GatewayInv /\ [GNext]_gvars => GatewayInv'
  BY ControlStep, TransactionsStep, BuffersKept, SnapshotDomain DEF GatewayInv
<1> QED  BY <1>1, <1>2, PTL DEF GSpec

\* Whatever mix of BEGIN, COMMIT, batches, DDL, autocommit changes, errors and
\* KILLs led here: a client that is told Idle has no open transaction, so the
\* MySQL front end, which decides by that status, never opens a second one nor
\* forgets one when the connection goes.
THEOREM StatusIsTrue == GSpec => []IdleStatusIsTrue
<1>1. GatewayInv => IdleStatusIsTrue
  BY DEF GatewayInv, Transactions, TxnShape, IdleStatusIsTrue
<1> QED  BY <1>1, GatewayInvHolds, PTL

\* The lock layer, on top of the others.
LEMMA LocksHold ==
  ASSUME Killers = {}
  PROVE  GSpec => []Locks
<1>1. GInit => Locks
  BY DEF GInit, Locks, LocksKept, Table!TableInit, NoWrites
<1>2. GatewayInv /\ Locks /\ [GNext]_gvars => Locks'
  BY LocksStep DEF GatewayInv
<1> QED  BY <1>1, <1>2, GatewayInvHolds, PTL DEF GSpec

\* In MySQL mode a buffered write is covered by a row lock until its transaction
\* leaves active_transactions, for any queries of any number of sessions that do
\* not KILL each other (with KILL the lock of a running statement is released
\* under it, and the property does not hold).
THEOREM BuffersAreLocked ==
  ASSUME Killers = {}
  PROVE  GSpec => []LocksCoverBuffers
<1>1. GatewayInv /\ Locks => LocksCoverBuffers
  BY DEF GatewayInv, Control, ControlTypes, Locks, LocksKept, LocksCoverBuffers
<1> QED  BY <1>1, GatewayInvHolds, LocksHold, PTL

\* Under the same condition no query, failed or not, leaves a lock behind on a
\* session without a transaction.
THEOREM NoLockLeftBehind ==
  ASSUME Killers = {}
  PROVE  GSpec => []IdleSessionsHoldNothing
<1>1. Locks => IdleSessionsHoldNothing
  BY DEF Locks, LocksKept, IdleSessionsHoldNothing
<1> QED  BY <1>1, LocksHold, PTL

\* On the memory store, consistent reads of a repeatable-read transaction do not
\* change under it; the engine's snapshot_get is the trait's default, a plain
\* read, and repeats nothing.
THEOREM GatewayReadsRepeat ==
  ASSUME ~Engine
  PROVE  GSpec => ReadsRepeat
<1>1. ASSUME GatewayInv, GatewayInv', [GNext]_gvars
      PROVE  [\A s \in attached \cap attached' :
                ConsistentRead(s) /\ ConsistentRead(s)' /\ pending'[s] = pending[s] =>
                  \A k \in Keys : Visible(s, k)' = Visible(s, k)]_gvars
  <2> SUFFICES ASSUME NEW s \in attached \cap attached', ConsistentRead(s), ConsistentRead(s)',
                      pending'[s] = pending[s], NEW k \in Keys
               PROVE  Visible(s, k)' = Visible(s, k)
    OBVIOUS
  <2>1. s \in active /\ s \in active'
    BY <1>1 DEF GatewayInv, Control, ControlTypes, Transactions, TxnShape
  <2>2. snapshot'[s] = snapshot[s]
    BY <1>1, <2>1, SnapshotsKept DEF GatewayInv
  <2> QED  BY <2>2 DEF Visible, SnapshotGet, Overlay
<1> QED  BY <1>1, GatewayInvHolds, PTL DEF GSpec, ReadsRepeat

\* The store starts with rows that count from zero.
LEMMA TypesInit == Nat \subseteq Values /\ GInit => TypeOK /\ TxnsOK /\ Counters
<1> SUFFICES ASSUME Nat \subseteq Values, GInit PROVE TypeOK /\ TxnsOK /\ Counters
  OBVIOUS
<1>1. TypeOK
  BY EmptySeq DEF GInit, TypeOK, Map, Buffer, Options, NoWrites
<1>2. TxnsOK
  BY TxnOKBegin DEF GInit, TxnsOK
<1>3. Counters
  BY DEF GInit, Counters, Counter, NoWrites, Sessions
<1> QED  BY <1>1, <1>2, <1>3

\* With rows that can hold any number: all maps, tasks and transactions keep
\* their types, and every entry of active_transactions is an open transaction.
\* The store's own invariants carry over, since the gateway only takes steps of
\* TxnStore (StoreSteps).
THEOREM GatewayTypes ==
  ASSUME Nat \subseteq Values
  PROVE  GSpec => []GTypeOK
<1>1. GInit => TypeOK /\ TxnsOK /\ Counters
  BY TypesInit
<1>2. GatewayInv /\ TypeOK /\ TxnsOK /\ Counters /\ [GNext]_gvars
        => (TypeOK /\ TxnsOK /\ Counters)'
  <2> SUFFICES ASSUME GatewayInv, TypeOK, TxnsOK, Counters, [GNext]_gvars
               PROVE  (TypeOK /\ TxnsOK /\ Counters)'
    OBVIOUS
  <2>1. [Next]_vars
    BY StoreSteps DEF GatewayInv
  <2>2. TypeOK' /\ TxnsOK'
    BY <2>1, TypeStep, BuffersStep, TxnsOKImplies
  <2>3. Counters'
    BY CountersStep DEF GatewayInv
  <2> QED  BY <2>2, <2>3
<1>3. GatewayInv /\ TypeOK /\ Counters => GTypeOK
  <2> SUFFICES ASSUME GatewayInv, TypeOK, Counters PROVE GTypeOK
    OBVIOUS
  <2>1. attached \subseteq active
    BY DEF GatewayInv, Control, ControlTypes, Transactions, TxnShape
  <2>2. seen \in [Sessions -> Options]
    BY DEF Counters, Options
  <2> QED  BY <2>1, <2>2 DEF GatewayInv, Control, ControlTypes, GTypeOK
<1> QED  BY <1>1, <1>2, <1>3, GatewayInvHolds, PTL DEF GSpec

\* A step takes the row locks of one statement, gives up some of one session's
\* locks, or leaves the locks alone.
LEMMA LockSteps ==
  ASSUME Control, [GNext]_gvars
  PROVE  [Table!TableNext]_held
<1> USE DEF txnMaps, client, locals
<1>0. ASSUME NEW s \in Sessions, NEW dropped, dropped \subseteq held[s], Table!Release(s, dropped)
      PROVE  Table!TableNext
  BY <1>0, Zenon DEF Table!TableNext
<1>1. ASSUME NEW s \in Sessions, Command(s) PROVE [Table!TableNext]_held
  <2>1. CASE ReleaseLocks(s)
    BY <1>0, <2>1 DEF ReleaseLocks
  <2>2. ASSUME NEW lvl \in Isolations, NEW ro \in BOOLEAN,
               BeginTxn(s, lvl, ro) \/ SetIsolation(s, lvl)
        PROVE  UNCHANGED held
    BY <2>2 DEF BeginTxn, SetIsolation
  <2>3. CASE CommitTxn(s) \/ BeginAgain(s) \/ BeginReadOnlyAgain(s) \/ RollbackTxn(s)
    BY <2>3 DEF CommitTxn, BeginAgain, DetachToCommit, BeginReadOnlyAgain, RollbackTxn
  <2>4. CASE AutocommitOff(s) \/ AutocommitOn(s) \/ Apply(s) \/ ApplyFails(s) \/ Restart(s)
    BY <2>4 DEF AutocommitOff, AutocommitOn, Apply, ApplyFails, Restart
  <2> QED  BY <1>1, <2>1, <2>2, <2>3, <2>4 DEF Command
<1>2. ASSUME NEW s \in Sessions, Statement(s) PROVE [Table!TableNext]_held
  <2>1. CASE Lock(s)
    <3>1. RowsOf(Head(work[s])) \subseteq Keys
      BY <2>1, HeadOfWork DEF Lock, Control, WorkOK, WorkShape, InQuery
    <3>2. Table!Acquire(s, RowsOf(Head(work[s])))
      BY <2>1 DEF Lock
    <3> QED  BY <3>1, <3>2, Zenon DEF Table!TableNext
  <2>2. CASE Finish(s)
    <3>1. (IF MySql THEN ReleasedAtEnd(s) ELSE {}) \subseteq held[s]
      BY DEF ReleasedAtEnd
    <3> QED  BY <1>0, <2>2, <3>1 DEF Finish
  <2>3. CASE DdlCommits(s) \/ PlanFails(s) \/ PlanFailsInBatch(s) \/ RefuseReadOnly(s) \/ Planned(s)
    BY <2>3
    DEF DdlCommits, DetachToCommit, PlanFails, PlanFailsInBatch, RefuseReadOnly, Planned
  <2>4. CASE LockFails(s) \/ Read(s) \/ CheckStale(s) \/ Invalid(s) \/ WriteRow(s)
    BY <2>4 DEF LockFails, Read, CheckStale, Invalid, WriteRow
  <2>5. CASE NextStatement(s) \/ StatementFails(s) \/ QueryCommits(s) \/ QueryEnds(s)
    BY <2>5 DEF NextStatement, StatementFails, QueryCommits, DetachToCommit, QueryEnds
  <2> QED  BY <1>2, <2>1, <2>2, <2>3, <2>4, <2>5 DEF Statement
<1>3. ASSUME NEW s \in Sessions, KillReleases(s) PROVE [Table!TableNext]_held
  <2>1. target[s] \in Sessions /\ held[target[s]] \subseteq held[target[s]]
    BY DEF Control, ControlTypes
  <2> QED  BY <1>0, <1>3, <2>1 DEF KillReleases
<1>4. ASSUME NEW s \in Sessions, NEW w \in Works, Submit(s, w) PROVE UNCHANGED held
  BY <1>4 DEF Submit
<1>5. ASSUME NEW s \in Sessions, NEW v \in Sessions, Kill(s, v) \/ Disconnect(s)
      PROVE  UNCHANGED held
  BY <1>5 DEF Kill, Disconnect
<1>6. CASE UNCHANGED gvars
  BY <1>6 DEF gvars
<1> QED  BY <1>1, <1>2, <1>3, <1>4, <1>5, <1>6 DEF GNext

\* The gateway uses the row locks as LockTable promises them, and only so: what
\* LockManager implements is what the sessions are built on.
THEOREM GatewayUsesLockTable == GSpec => Table!TableSpec
<1>1. GInit => Table!TableInit
  BY DEF GInit
<1>2. GatewayInv /\ [GNext]_gvars => [Table!TableNext]_held
  BY LockSteps DEF GatewayInv
<1> QED  BY <1>1, <1>2, GatewayInvHolds, PTL DEF GSpec, Table!TableSpec

\* No row is locked by two sessions.
RowsAreExclusive ==
  \A s, t \in Sessions : s # t => held[s] \cap held[t] = {}

\* Follows from the lock table alone.
LEMMA ExclusiveRows == GSpec => []RowsAreExclusive
<1>1. GInit => RowsAreExclusive
  BY DEF GInit, Table!TableInit, RowsAreExclusive
<1>2. ASSUME GatewayInv, RowsAreExclusive, [GNext]_gvars PROVE RowsAreExclusive'
  <2>0. held \in [Sessions -> SUBSET Keys]
    BY <1>2 DEF GatewayInv, Control, ControlTypes
  <2>1. ASSUME NEW s \in Sessions, NEW req \in SUBSET Keys, Table!Acquire(s, req)
        PROVE  RowsAreExclusive'
    <3>1. \A t \in Sessions \ {s} : held[t] \cap req = {}
      BY <2>1 DEF Table!Acquire, Table!Grantable, SameRow
    <3> QED  BY <1>2, <2>0, <2>1, <3>1 DEF Table!Acquire, RowsAreExclusive
  <2>2. ASSUME NEW s \in Sessions, NEW dropped \in SUBSET held[s], Table!Release(s, dropped)
        PROVE  RowsAreExclusive'
    BY <1>2, <2>0, <2>2 DEF Table!Release, RowsAreExclusive
  <2>3. CASE UNCHANGED held
    BY <1>2, <2>3 DEF RowsAreExclusive
  <2>4. [Table!TableNext]_held
    BY <1>2, LockSteps DEF GatewayInv
  <2> QED  BY <2>1, <2>2, <2>3, <2>4 DEF Table!TableNext
<1> QED  BY <1>1, <1>2, GatewayInvHolds, PTL DEF GSpec

\* Two open transactions never have uncommitted writes of the same row.
OneWriterPerRow ==
  \A s, t \in attached, k \in Keys :
    pending[s][k] # Untouched /\ pending[t][k] # Untouched => s = t

\* No dirty writes in MySQL mode: the buffers of two transactions never meet in a
\* row, however their statements, errors and rollbacks interleave.
THEOREM OneWriter ==
  ASSUME Killers = {}, MySql
  PROVE  GSpec => []OneWriterPerRow
<1>1. GatewayInv /\ RowsAreExclusive /\ LocksCoverBuffers => OneWriterPerRow
  BY
  DEF GatewayInv, Control, ControlTypes, RowsAreExclusive, LocksCoverBuffers, OneWriterPerRow
<1> QED  BY <1>1, GatewayInvHolds, ExclusiveRows, BuffersAreLocked, PTL

=============================================================================
