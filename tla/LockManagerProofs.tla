------------------------- MODULE LockManagerProofs --------------------------
(***************************************************************************)
(* Proofs about LockManager, for any number of sessions and any lock sets. *)
(***************************************************************************)
EXTENDS LockManager, LockConflictProofs, FiniteSetTheorems, SequenceTheorems,
        WellFoundedInduction, TLAPS

-----------------------------------------------------------------------------
(***************************************************************************)
(* The wait queue.                                                         *)
(***************************************************************************)
Entries == [session : Sessions, locks : Requests]

LEMMA WithoutSessionFacts ==
  ASSUME NEW q \in Seq(Entries), NEW s
  PROVE  /\ WithoutSession(q, s) \in Seq(Entries)
         /\ (\A i, j \in 1..Len(q) : q[i].session = q[j].session => i = j) =>
              /\ \A i, j \in 1..Len(WithoutSession(q, s)) :
                   WithoutSession(q, s)[i].session = WithoutSession(q, s)[j].session => i = j
              /\ \A i \in 1..Len(WithoutSession(q, s)) :
                   /\ WithoutSession(q, s)[i].session # s
                   /\ \E j \in 1..Len(q) : WithoutSession(q, s)[i] = q[j]
<1> DEFINE w == WithoutSession(q, s)
           p == Position(q, s)
           n == Len(q) - 1
<1>1. CASE \A i \in 1..Len(q) : q[i].session # s
  BY <1>1 DEF WithoutSession
<1>2. CASE \E i \in 1..Len(q) : q[i].session = s
  <2>1. p \in 1..Len(q) /\ q[p].session = s
    BY <1>2 DEF Position
  <2>2. n \in Nat /\ Len(q) \in Nat
    BY <2>1
  <2>3. w = [i \in 1..n |-> IF i < p THEN q[i] ELSE q[i + 1]]
    BY <1>2 DEF WithoutSession
  <2>4. \A i \in 1..n : i + 1 \in 1..Len(q) /\ i \in 1..Len(q)
    BY <2>2
  <2>5. \A i \in 1..n : w[i] = (IF i < p THEN q[i] ELSE q[i + 1]) /\ w[i] \in Entries
    BY <2>3, <2>4
  <2>6. w \in Seq(Entries) /\ Len(w) = n
    BY <2>2, <2>3, <2>5
  <2> DEFINE from(i) == IF i < p THEN i ELSE i + 1
  <2>a. \A i \in 1..n : from(i) \in 1..Len(q) /\ from(i) # p
    BY <2>1, <2>2, <2>4
  <2>b. \A i, j \in 1..n : from(i) = from(j) => i = j
    BY <2>1, <2>2
  <2>c. \A i \in 1..n : w[i] = q[from(i)]
    BY <2>5
  <2> HIDE DEF w, p, n, from
  <2>7. ASSUME \A i, j \in 1..Len(q) : q[i].session = q[j].session => i = j,
               NEW i \in 1..n, NEW j \in 1..n, w[i].session = w[j].session
        PROVE  i = j
    <3>1. q[from(i)].session = q[from(j)].session
      BY <2>c, <2>7
    <3> QED
      BY <2>a, <2>b, <2>7, <3>1
  <2>8. ASSUME \A i, j \in 1..Len(q) : q[i].session = q[j].session => i = j,
               NEW i \in 1..n
        PROVE  w[i].session # s /\ \E j \in 1..Len(q) : w[i] = q[j]
    <3>1. q[from(i)].session # s
      BY <2>1, <2>a, <2>8
    <3> QED
      BY <2>a, <2>c, <3>1
  <2> QED
    BY <2>6, <2>7, <2>8 DEF w
<1> QED
  BY <1>1, <1>2

-----------------------------------------------------------------------------
(***************************************************************************)
(* Type correctness.                                                       *)
(***************************************************************************)

\* A blocker found by the check of the acquire loop is a session.
LEMMA BlockersAreSessions ==
  ASSUME TypeOK, NEW s \in Sessions
  PROVE  Blockers(s) \subseteq Sessions
<1>1. \A i \in 1..Len(queue) : queue[i] \in Entries
  BY ElementOfSeq DEF TypeOK, Entries
<1>2. \A i \in 1..Len(queue) : queue[i].session \in Sessions
  BY <1>1 DEF Entries
<1> QED
  BY <1>2 DEF Blockers, ConflictOwners, QueueBlockers, QueueBlockerPositions, Ahead

LEMMA TypeStep == TypeOK /\ [Next]_vars => TypeOK'
<1> SUFFICES ASSUME TypeOK, [Next]_vars PROVE TypeOK'
  OBVIOUS
<1> USE SessionAssumption DEF TypeOK, ControlPoints, Acquiring
<1>1. ASSUME NEW s \in Sessions, NEW req \in Requests, Request(s, req) PROVE TypeOK'
  <2>1. [session |-> s, locks |-> req] \in Entries
    BY DEF Entries
  <2>2. Append(queue, [session |-> s, locks |-> req]) \in Seq(Entries)
    BY <2>1, AppendProperties DEF Entries
  <2>3. queue' \in Seq([session : Sessions, locks : Requests])
    BY <1>1, <2>2 DEF Request, Entries
  <2> QED
    BY <1>1, <2>3 DEF Request
<1>2. ASSUME NEW s \in Sessions, Blocked(s) PROVE TypeOK'
  BY <1>2, BlockersAreSessions DEF Blocked
<1>3. ASSUME NEW s \in Sessions, Grant(s) PROVE TypeOK'
  <2>1. queue' \in Seq([session : Sessions, locks : Requests])
    BY <1>3, WithoutSessionFacts DEF Grant, Entries
  <2>2. request[s] \subseteq Locks
    BY DEF Locks
  <2>3. held' \in [Sessions -> SUBSET Locks]
    BY <1>3, <2>2 DEF Grant
  <2> QED
    BY <1>3, <2>1, <2>3 DEF Grant
<1>4. ASSUME NEW s \in Sessions, Register(s) PROVE TypeOK'
  BY <1>4 DEF Register
<1>5. ASSUME NEW s \in Sessions, Arm(s) PROVE TypeOK'
  BY <1>5 DEF Arm
<1>6. ASSUME NEW s \in Sessions, TimeOut(s) PROVE TypeOK'
  BY <1>6 DEF TimeOut
<1>7. ASSUME NEW s \in Sessions, ReleaseStatementLocks(s) PROVE TypeOK'
  BY <1>7 DEF ReleaseStatementLocks
<1>8. ASSUME NEW s \in Sessions, ReleaseAll(s) PROVE TypeOK'
  BY <1>8 DEF ReleaseAll, ReleaseLocksOf
<1>9. ASSUME NEW s \in Sessions, NEW v \in Sessions, Kill(s, v) PROVE TypeOK'
  BY <1>9 DEF Kill, ReleaseLocksOf
<1>10. ASSUME NEW s \in Sessions, Unqueue(s) PROVE TypeOK'
  <2>1. queue' \in Seq([session : Sessions, locks : Requests])
    BY <1>10, WithoutSessionFacts DEF Unqueue, Entries
  <2> QED
    BY <1>10, <2>1 DEF Unqueue
<1>11. ASSUME NEW s \in Sessions, Unwait(s) PROVE TypeOK'
  BY <1>11 DEF Unwait
<1>12. ASSUME NEW s \in Sessions, Ring(s) PROVE TypeOK'
  BY <1>12 DEF Ring
<1>13. CASE UNCHANGED vars
  BY <1>13 DEF vars
<1> QED
  BY <1>1, <1>2, <1>3, <1>4, <1>5, <1>6, <1>7, <1>8, <1>9, <1>10, <1>11, <1>12, <1>13
  DEF Next

LEMMA TypeInit == Init => TypeOK
  BY SessionAssumption DEF Init, TypeOK, ControlPoints, Acquiring, Locks

\* Every reachable state of the lock manager is well formed.
THEOREM TypeCorrect == Spec => []TypeOK
<1> QED
  BY TypeInit, TypeStep, PTL DEF Spec

-----------------------------------------------------------------------------
(***************************************************************************)
(* Mutual exclusion.  The inductive invariant is that the lock table holds *)
(* no conflicting pair of different owners; what MutualExclusion says of   *)
(* entries and objects follows from what the compatibility relation means. *)
(***************************************************************************)
LockTableOK ==
  \A s, t \in Sessions : s # t => ~SetsConflict(held[s], held[t])

\* Releases only take locks away, and a grant is checked against every other
\* owner under the lock table's mutex.
LEMMA LockTableStep == TypeOK /\ LockTableOK /\ [Next]_vars => LockTableOK'
<1> SUFFICES ASSUME TypeOK, LockTableOK, [Next]_vars PROVE LockTableOK'
  OBVIOUS
<1> USE DEF TypeOK
<1>1. ASSUME \A s \in Sessions : held'[s] \subseteq held[s] PROVE LockTableOK'
  BY <1>1 DEF LockTableOK, SetsConflict
<1>2. ASSUME NEW s \in Sessions, Grant(s) PROVE LockTableOK'
  <2>1. \A t \in Sessions : t # s => ~SetsConflict(held[t], request[s])
    BY <1>2 DEF Grant, Blockers, ConflictOwners
  <2>2. held' = [held EXCEPT ![s] = @ \cup request[s]]
    BY <1>2 DEF Grant
  <2>3. ASSUME NEW t \in Sessions, t # s
        PROVE  ~SetsConflict(held'[t], held'[s]) /\ ~SetsConflict(held'[s], held'[t])
    <3>1. held'[t] = held[t] /\ held'[s] = held[s] \cup request[s]
      BY <2>2, <2>3
    <3>2. ~SetsConflict(held[t], held[s]) /\ ~SetsConflict(held[t], request[s])
      BY <2>1, <2>3 DEF LockTableOK
    <3>3. ~SetsConflict(held'[t], held'[s])
      BY <3>1, <3>2 DEF SetsConflict
    <3> QED
      BY <3>3, ConflictSymmetric DEF SetsConflict
  <2>4. ASSUME NEW t \in Sessions, NEW u \in Sessions, t # u, t # s, u # s
        PROVE  ~SetsConflict(held'[t], held'[u])
    BY <2>2, <2>4 DEF LockTableOK
  <2> QED
    BY <2>3, <2>4 DEF LockTableOK
<1>3. ASSUME NEW s \in Sessions, \/ ReleaseStatementLocks(s)
                                \/ ReleaseAll(s)
                                \/ \E v \in Sessions : Kill(s, v)
      PROVE  LockTableOK'
  <2>1. \A t \in Sessions : held'[t] \subseteq held[t]
    BY <1>3 DEF ReleaseStatementLocks, ReleaseAll, Kill, ReleaseLocksOf
  <2> QED
    BY <1>1, <2>1
<1>4. ASSUME UNCHANGED held PROVE LockTableOK'
  BY <1>1, <1>4
<1>5. ASSUME NEW s \in Sessions,
             \/ \E req \in Requests : Request(s, req)
             \/ Blocked(s) \/ Register(s) \/ Arm(s) \/ TimeOut(s)
             \/ Unqueue(s) \/ Unwait(s) \/ Ring(s)
      PROVE  UNCHANGED held
  BY <1>5 DEF Request, Blocked, Register, Arm, TimeOut, Unqueue, Unwait, Ring
<1> QED
  BY <1>2, <1>3, <1>4, <1>5 DEF Next, vars

LEMMA LockTableExcludes == TypeOK /\ LockTableOK => MutualExclusion
<1> SUFFICES ASSUME TypeOK, LockTableOK,
                    NEW s \in Sessions, NEW t \in Sessions, s # t,
                    NEW l \in held[s], NEW m \in held[t]
             PROVE  /\ SameObject(l, m) =>
                          \A i \in Indexes, v \in Values :
                             ~(Reserves(l, i, v) /\ Reserves(m, i, v))
                    /\ l.kind.tag = "MetadataWrite" => ~Within(m, l)
  BY DEF MutualExclusion
<1>1. ~LocksConflict(l, m)
  BY DEF LockTableOK, SetsConflict
<1>2. l \in Locks /\ m \in Locks
  BY DEF TypeOK
<1>3. l.kind \in Kinds /\ m.kind \in Kinds
  BY <1>2, RequestAssumption DEF Locks
<1> QED
  BY <1>1, <1>3, CompatibleReserve, CompatibleMetadata

\* No interleaving of requests, grants, timeouts, releases and KILLs lets two
\* sessions hold the same entry, or a lock under another's metadata write.
THEOREM LocksExclude == Spec => []MutualExclusion
<1>1. Init => LockTableOK
  BY DEF Init, LockTableOK, SetsConflict
<1> QED
  BY <1>1, TypeInit, TypeStep, LockTableStep, LockTableExcludes, PTL DEF Spec

-----------------------------------------------------------------------------
(***************************************************************************)
(* No ghost waiters.  Needs to know in addition that a session works on    *)
(* another's entries only in the release tail of a KILL.                   *)
(***************************************************************************)
VictimOK ==
  \A s \in Sessions : victim[s] # s => pc[s] \in {"unqueue", "unwait", "ring"}

LEMMA GhostStep ==
  TypeOK /\ VictimOK /\ NoGhostWaiters /\ [Next]_vars => VictimOK' /\ NoGhostWaiters'
<1> SUFFICES ASSUME TypeOK, VictimOK, NoGhostWaiters, [Next]_vars
             PROVE  VictimOK' /\ NoGhostWaiters'
  OBVIOUS
<1> USE SessionAssumption DEF TypeOK, VictimOK, NoGhostWaiters, Acquiring
<1>0. queue \in Seq(Entries) /\ \A i \in 1..Len(queue) : queue[i].session \in Sessions
  <2>1. \A i \in 1..Len(queue) : queue[i] \in Entries
    BY ElementOfSeq DEF Entries
  <2> QED
    BY <2>1 DEF Entries
<1>1. ASSUME NEW s \in Sessions, NEW req \in Requests, Request(s, req)
      PROVE  VictimOK' /\ NoGhostWaiters'
  <2> DEFINE e == [session |-> s, locks |-> req]
  <2>1. ~InQueue(s)
    BY <1>0, <1>1 DEF Request, InQueue
  <2>2. queue' = Append(queue, e) /\ e \in Entries
    BY <1>1, <2>1 DEF Request, Entries
  <2>3. /\ Len(queue') = Len(queue) + 1
        /\ \A i \in 1..Len(queue) : queue'[i] = queue[i]
        /\ queue'[Len(queue) + 1] = e
    BY <1>0, <2>2, AppendProperties
  <2>4. \A i \in 1..Len(queue') : i = Len(queue) + 1 \/ i \in 1..Len(queue)
    BY <1>0, <2>3
  <2>5. pc' = [pc EXCEPT ![s] = "check"] /\ UNCHANGED <<waits, victim>>
    BY <1>1 DEF Request
  <2>6. \A i, j \in 1..Len(queue') : queue'[i].session = queue'[j].session => i = j
    BY <2>1, <2>3, <2>4 DEF InQueue
  <2>7. \A i \in 1..Len(queue') :
          \/ pc'[queue'[i].session] \in Acquiring
          \/ pc'[queue'[i].session] = "unqueue"
               /\ victim'[queue'[i].session] = queue'[i].session
    <3> SUFFICES ASSUME NEW i \in 1..Len(queue')
                 PROVE  \/ pc'[queue'[i].session] \in Acquiring
                        \/ pc'[queue'[i].session] = "unqueue"
                             /\ victim'[queue'[i].session] = queue'[i].session
      OBVIOUS
    <3>1. CASE i = Len(queue) + 1
      <4>1. queue'[i].session = s
        BY <2>3, <3>1
      <4> QED
        BY <2>5, <4>1
    <3>2. CASE i \in 1..Len(queue)
      <4>1. queue'[i] = queue[i] /\ queue[i].session \in Sessions
        BY <1>0, <2>3, <3>2
      <4>2. \/ pc[queue[i].session] \in Acquiring
            \/ pc[queue[i].session] = "unqueue" /\ victim[queue[i].session] = queue[i].session
        BY <3>2
      <4> QED
        BY <2>5, <4>1, <4>2
    <3> QED
      BY <2>4, <3>1, <3>2
  <2> QED
    BY <1>1, <2>5, <2>6, <2>7 DEF Request
<1>2. ASSUME NEW s \in Sessions, Blocked(s) PROVE VictimOK' /\ NoGhostWaiters'
  BY <1>0, <1>2 DEF Blocked
<1>3. ASSUME NEW s \in Sessions, Grant(s) PROVE VictimOK' /\ NoGhostWaiters'
  <2>1. /\ \A i, j \in 1..Len(queue') : queue'[i].session = queue'[j].session => i = j
        /\ \A i \in 1..Len(queue') :
             queue'[i].session # s /\ \E j \in 1..Len(queue) : queue'[i] = queue[j]
    BY <1>0, <1>3, WithoutSessionFacts, SMTT(60) DEF Grant
  <2> QED
    BY <1>0, <1>3, <2>1 DEF Grant
<1>4. ASSUME NEW s \in Sessions, Register(s) PROVE VictimOK' /\ NoGhostWaiters'
  BY <1>0, <1>4, SMTT(30) DEF Register
<1>5. ASSUME NEW s \in Sessions, Arm(s) PROVE VictimOK' /\ NoGhostWaiters'
  BY <1>0, <1>5 DEF Arm
<1>6. ASSUME NEW s \in Sessions, TimeOut(s) PROVE VictimOK' /\ NoGhostWaiters'
  BY <1>0, <1>6 DEF TimeOut
<1>7. ASSUME NEW s \in Sessions, ReleaseStatementLocks(s)
      PROVE  VictimOK' /\ NoGhostWaiters'
  BY <1>0, <1>7 DEF ReleaseStatementLocks
<1>8. ASSUME NEW s \in Sessions, ReleaseAll(s) PROVE VictimOK' /\ NoGhostWaiters'
  BY <1>0, <1>8 DEF ReleaseAll, ReleaseLocksOf
<1>9. ASSUME NEW s \in Sessions, NEW v \in Sessions, Kill(s, v)
      PROVE  VictimOK' /\ NoGhostWaiters'
  BY <1>0, <1>9 DEF Kill, ReleaseLocksOf
<1>10. ASSUME NEW s \in Sessions, Unqueue(s) PROVE VictimOK' /\ NoGhostWaiters'
  <2>1. /\ \A i, j \in 1..Len(queue') : queue'[i].session = queue'[j].session => i = j
        /\ \A i \in 1..Len(queue') :
             queue'[i].session # victim[s] /\ \E j \in 1..Len(queue) : queue'[i] = queue[j]
    BY <1>0, <1>10, WithoutSessionFacts DEF Unqueue
  <2> QED
    BY <1>0, <1>10, <2>1 DEF Unqueue
<1>11. ASSUME NEW s \in Sessions, Unwait(s) PROVE VictimOK' /\ NoGhostWaiters'
  BY <1>0, <1>11 DEF Unwait
<1>12. ASSUME NEW s \in Sessions, Ring(s) PROVE VictimOK' /\ NoGhostWaiters'
  BY <1>0, <1>12 DEF Ring
<1>13. CASE UNCHANGED vars
  BY <1>13 DEF vars
<1> QED
  BY <1>1, <1>2, <1>3, <1>4, <1>5, <1>6, <1>7, <1>8, <1>9, <1>10, <1>11, <1>12, <1>13
  DEF Next

\* Deadlock victims, timed-out and killed sessions leave nothing behind in the
\* queue or the wait-for map once their call has returned.
THEOREM NoGhosts == Spec => []NoGhostWaiters
<1>1. Init => VictimOK /\ NoGhostWaiters
  BY DEF Init, VictimOK, NoGhostWaiters
<1> QED
  BY <1>1, TypeInit, TypeStep, GhostStep, PTL DEF Spec

-----------------------------------------------------------------------------
(***************************************************************************)
(* Refinement.                                                             *)
(***************************************************************************)

\* A grant is one step of the abstract table.
LEMMA GrantAcquires ==
  ASSUME TypeOK, NEW s \in Sessions, Grant(s)
  PROVE  Promise!TableNext
<1>1. request[s] \in SUBSET Locks
  BY DEF TypeOK, Locks
<1>2. ConflictOwners(s) = {}
  BY DEF Grant, Blockers
<1>3. Promise!Grantable(s, request[s])
  BY <1>2 DEF Promise!Grantable, ConflictOwners, SetsConflict
<1>4. Promise!Acquire(s, request[s])
  BY <1>3 DEF Grant, Promise!Acquire
<1> QED
  BY <1>1, <1>4 DEF Promise!TableNext

\* Every way locks are let go of is a release of the abstract table.
LEMMA DropReleases ==
  ASSUME TypeOK, NEW v \in Sessions, NEW dropped \in SUBSET held[v],
         held' = [held EXCEPT ![v] = @ \ dropped]
  PROVE  Promise!TableNext
BY DEF Promise!Release, Promise!TableNext

LEMMA StepRefines ==
  ASSUME TypeOK, [Next]_vars
  PROVE  [Promise!TableNext]_held
<1>1. ASSUME NEW s \in Sessions, Grant(s) PROVE Promise!TableNext
  BY <1>1, GrantAcquires
<1>2. ASSUME NEW s \in Sessions, ReleaseStatementLocks(s) PROVE Promise!TableNext
  <2> DEFINE dropped == {l \in held[s] : l.duration = "Statement"}
  <2>1. dropped \in SUBSET held[s] /\
          {l \in held[s] : l.duration # "Statement"} = held[s] \ dropped
    OBVIOUS
  <2>2. held' = [held EXCEPT ![s] = @ \ dropped]
    BY <1>2, <2>1 DEF ReleaseStatementLocks
  <2> HIDE DEF dropped
  <2> QED
    BY <2>1, <2>2, DropReleases
<1>3. ASSUME NEW s \in Sessions, NEW v \in Sessions, ReleaseLocksOf(s, v)
      PROVE  Promise!TableNext
  <2>1. held' = [held EXCEPT ![v] = @ \ held[v]]
    BY <1>3 DEF ReleaseLocksOf
  <2> QED
    BY <2>1, DropReleases
<1>4. ASSUME NEW s \in Sessions, NEW req \in Requests, Request(s, req) PROVE UNCHANGED held
  BY <1>4 DEF Request
<1>5. ASSUME NEW s \in Sessions,
             Blocked(s) \/ Register(s) \/ Arm(s) \/ TimeOut(s)
               \/ Unqueue(s) \/ Unwait(s) \/ Ring(s)
      PROVE  UNCHANGED held
  BY <1>5 DEF Blocked, Register, Arm, TimeOut, Unqueue, Unwait, Ring
<1>6. CASE UNCHANGED vars
  BY <1>6 DEF vars
<1> QED
  BY <1>1, <1>2, <1>3, <1>4, <1>5, <1>6 DEF Next, ReleaseAll, Kill

\* The lock manager, with its queue, its wait-for map, its wake-ups, its
\* timeouts and KILL, implements the one-step lock table on which the
\* sessions of GatewaySession are built.
THEOREM ManagerImplementsTable == Spec => ImplementsLockTable
<1>1. Init => Promise!TableInit
  BY DEF Init, Promise!TableInit
<1> QED
  BY <1>1, TypeInit, TypeStep, StepRefines, PTL
  DEF Spec, ImplementsLockTable, Promise!TableSpec

-----------------------------------------------------------------------------
(***************************************************************************)
(* Numbers.  Induction is over sets, which the provers can instantiate.    *)
(***************************************************************************)
\* Every set of numbers that is not empty has a least one.
LEMMA LeastNumber ==
  ASSUME NEW T, T \subseteq Nat, T # {}
  PROVE  \E x \in T : \A y \in T : x <= y
<1> DEFINE R == {p \in Nat \X Nat : p[1] < p[2]}
<1>1. IsWellFoundedOn(R, Nat)
  BY NatLessThanWellFounded DEF OpToRel
<1>2. \E x \in T : \A y \in T : ~(<<y, x>> \in R)
  <2> HIDE DEF R
  <2> QED
    BY <1>1, WFMin
<1>3. \A x \in T, y \in T : ~(<<y, x>> \in R) => x <= y
  <2> SUFFICES ASSUME NEW x \in Nat, NEW y \in Nat, ~(<<y, x>> \in R) PROVE x <= y
    OBVIOUS
  <2>1. ~(y < x)
    OBVIOUS
  <2> QED
    BY <2>1
<1> QED
  BY <1>2, <1>3

\* Induction, for a property given as a set.
LEMMA InductionOnNat ==
  ASSUME NEW T, T \subseteq Nat, 0 \in T, \A n \in T : n + 1 \in T
  PROVE  T = Nat
<1> SUFFICES ASSUME Nat \ T # {} PROVE FALSE
  OBVIOUS
<1>1. PICK x \in Nat \ T : \A y \in Nat \ T : x <= y
  BY LeastNumber
<1>2. x # 0 /\ x - 1 \in Nat
  BY <1>1
<1>3. x - 1 \in T
  <2>1. ~(x <= x - 1)
    BY <1>1
  <2> QED
    BY <1>1, <1>2, <2>1
<1>4. (x - 1) + 1 = x
  BY <1>1
<1> QED
  BY <1>1, <1>3, <1>4

-----------------------------------------------------------------------------
(***************************************************************************)
(* The wait-for map.                                                       *)
(***************************************************************************)
\* A session or the end of a chain, and the edge that leaves it.
Ends == Sessions \cup {Nobody}
Follow(w, x) == IF x = Nobody THEN Nobody ELSE w[x]

\* g is the first n steps of the walk from a.
Follows(w, a, g, n) == g[0] = a /\ \A i \in 1..n : g[i] = Follow(w, g[i - 1])

\* There is such a walk, and only one.
LEMMA FollowsOn ==
  ASSUME NEW w \in [Sessions -> Ends], NEW a \in Ends, NEW n \in Nat
  PROVE  \E g \in [0..n -> Ends] : Follows(w, a, g, n)
<1> DEFINE T == {m \in Nat : \E g \in [0..m -> Ends] : Follows(w, a, g, m)}
<1>1. 0 \in T
  <2> DEFINE g == [i \in 0..0 |-> a]
  <2>1. g \in [0..0 -> Ends] /\ Follows(w, a, g, 0)
    BY DEF Follows
  <2> QED
    BY <2>1
<1>2. ASSUME NEW m \in T PROVE m + 1 \in T
  <2>1. PICK g \in [0..m -> Ends] : Follows(w, a, g, m)
    BY <1>2
  <2> DEFINE h == [i \in 0..(m + 1) |-> IF i = m + 1 THEN Follow(w, g[m]) ELSE g[i]]
  <2>2. m \in Nat /\ m \in 0..m /\ g[m] \in Ends
    BY <1>2, <2>1
  <2>3. Follow(w, g[m]) \in Ends
    BY <2>2 DEF Follow, Ends
  <2>4. h \in [0..(m + 1) -> Ends]
    BY <2>1, <2>2, <2>3
  <2>5. Follows(w, a, h, m + 1)
    <3>1. h[0] = a
      BY <2>1, <2>2 DEF Follows
    <3>2. ASSUME NEW i \in 1..(m + 1) PROVE h[i] = Follow(w, h[i - 1])
      <4>1. CASE i = m + 1
        <5>1. h[i] = Follow(w, g[m]) /\ h[i - 1] = g[m]
          BY <2>2, <4>1
        <5> QED
          BY <5>1
      <4>2. CASE i # m + 1
        <5>1. i \in 1..m /\ h[i] = g[i] /\ h[i - 1] = g[i - 1]
          BY <2>2, <3>2, <4>2
        <5> QED
          BY <2>1, <5>1 DEF Follows
      <4> QED
        BY <4>1, <4>2
    <3> HIDE DEF h
    <3> QED
      BY <3>1, <3>2 DEF Follows
  <2> HIDE DEF h
  <2>6. m + 1 \in Nat
    BY <2>2
  <2> QED
    BY <2>4, <2>5, <2>6
<1>3. T = Nat
  <2>1. T \subseteq Nat
    OBVIOUS
  <2> HIDE DEF T
  <2> QED
    BY <1>1, <1>2, <2>1, InductionOnNat
<1> QED
  BY <1>3

LEMMA FollowsOnce ==
  ASSUME NEW w, NEW a, NEW n \in Nat, NEW g, NEW h,
         Follows(w, a, g, n), Follows(w, a, h, n + 1)
  PROVE  g[n] = h[n]
<1> DEFINE T == {i \in Nat : i <= n => g[i] = h[i]}
<1>1. 0 \in T
  BY DEF Follows
<1>2. ASSUME NEW i \in T PROVE i + 1 \in T
  <2> SUFFICES ASSUME i + 1 <= n PROVE g[i + 1] = h[i + 1]
    BY <1>2
  <2>1. i \in Nat /\ i <= n /\ i + 1 \in 1..n /\ i + 1 \in 1..(n + 1) /\ (i + 1) - 1 = i
    BY <1>2
  <2>2. g[i] = h[i]
    BY <1>2, <2>1
  <2>3. g[i + 1] = Follow(w, g[(i + 1) - 1]) /\ h[i + 1] = Follow(w, h[(i + 1) - 1])
    BY <2>1 DEF Follows
  <2> QED
    BY <2>1, <2>2, <2>3
<1>3. T = Nat
  <2>1. T \subseteq Nat
    OBVIOUS
  <2> HIDE DEF T
  <2> QED
    BY <1>1, <1>2, <2>1, InductionOnNat
<1> QED
  BY <1>3

\* The recursive function of Chain exists: what it does, step by step.
LEMMA ChainFacts ==
  ASSUME NEW w \in [Sessions -> Ends], NEW a \in Ends
  PROVE  /\ Chain(w, a)[0] = a
         /\ \A n \in Nat : Chain(w, a)[n + 1] = Follow(w, Chain(w, a)[n])
         /\ \A n \in Nat : Chain(w, a)[n] \in Ends
<1> DEFINE G(n) == CHOOSE g \in [0..n -> Ends] : Follows(w, a, g, n)
           f == [n \in Nat |-> G(n)[n]]
           c == Chain(w, a)
<1>1. \A n \in Nat : G(n) \in [0..n -> Ends] /\ Follows(w, a, G(n), n)
  BY FollowsOn
<1> HIDE DEF G
<1>2. f[0] = a /\ \A n \in Nat : f[n + 1] = Follow(w, f[n])
  <2>1. f[0] = a
    BY <1>1 DEF Follows
  <2>2. ASSUME NEW n \in Nat PROVE f[n + 1] = Follow(w, f[n])
    <3>1. G(n)[n] = G(n + 1)[n]
      BY <1>1, FollowsOnce
    <3>2. n + 1 \in 1..(n + 1) /\ (n + 1) - 1 = n
      OBVIOUS
    <3>3. G(n + 1)[n + 1] = Follow(w, G(n + 1)[(n + 1) - 1])
      BY <1>1, <3>2 DEF Follows
    <3> QED
      BY <3>1, <3>2, <3>3
  <2> QED
    BY <2>1, <2>2
<1>3. f = [n \in Nat |-> IF n = 0 THEN a
                         ELSE IF f[n - 1] = Nobody THEN Nobody ELSE w[f[n - 1]]]
  <2> HIDE DEF f
  <2>1. \A n \in Nat \ {0} : f[n] = Follow(w, f[n - 1])
    <3> SUFFICES ASSUME NEW n \in Nat \ {0} PROVE f[n] = Follow(w, f[n - 1])
      OBVIOUS
    <3>1. n - 1 \in Nat /\ (n - 1) + 1 = n
      OBVIOUS
    <3> QED
      BY <1>2, <3>1
  <2>2. \A n \in Nat : f[n] = IF n = 0 THEN a
                              ELSE IF f[n - 1] = Nobody THEN Nobody ELSE w[f[n - 1]]
    BY <1>2, <2>1 DEF Follow
  <2>3. f = [n \in Nat |-> f[n]]
    BY DEF f
  <2> QED
    BY <2>2, <2>3
<1>4. c = [n \in Nat |-> IF n = 0 THEN a
                         ELSE IF c[n - 1] = Nobody THEN Nobody ELSE w[c[n - 1]]]
  <2> HIDE DEF f
  <2>1. \E g : g = [n \in Nat |-> IF n = 0 THEN a
                                  ELSE IF g[n - 1] = Nobody THEN Nobody ELSE w[g[n - 1]]]
    BY <1>3, Zenon
  <2> QED
    BY <2>1, Zenon DEF Chain
<1> HIDE DEF f, c
<1>5. c[0] = a
  BY <1>4
<1>6. ASSUME NEW n \in Nat PROVE c[n + 1] = Follow(w, c[n])
  <2>1. n + 1 \in Nat /\ n + 1 # 0 /\ (n + 1) - 1 = n
    OBVIOUS
  <2>2. c[n + 1] = IF c[(n + 1) - 1] = Nobody THEN Nobody ELSE w[c[(n + 1) - 1]]
    BY <1>4, <2>1
  <2> QED
    BY <2>1, <2>2 DEF Follow
<1>7. \A n \in Nat : c[n] \in Ends
  <2> DEFINE T == {n \in Nat : c[n] \in Ends}
  <2>1. 0 \in T
    BY <1>5
  <2>2. ASSUME NEW n \in T PROVE n + 1 \in T
    <3>1. n \in Nat /\ n + 1 \in Nat /\ c[n] \in Ends
      BY <2>2
    <3>2. Follow(w, c[n]) \in Ends
      BY <3>1 DEF Follow, Ends
    <3> QED
      BY <1>6, <3>1, <3>2
  <2>3. T \subseteq Nat
    OBVIOUS
  <2>4. T = Nat
    <3> HIDE DEF T
    <3> QED
      BY <2>1, <2>2, <2>3, InductionOnNat
  <2> QED
    BY <2>4
<1> QED
  BY <1>5, <1>6, <1>7 DEF c
\* Where a chain has got to is where another one begins.
LEMMA ChainShift ==
  ASSUME NEW w \in [Sessions -> Ends], NEW a \in Ends, NEW m \in Nat, NEW n \in Nat
  PROVE  Chain(w, a)[m + n] = Chain(w, Chain(w, a)[m])[n]
<1> DEFINE c == Chain(w, a)
           d == Chain(w, c[m])
           T == {k \in Nat : c[m + k] = d[k]}
<1>1. /\ c[m] \in Ends /\ d[0] = c[m]
      /\ \A k \in Nat : c[k + 1] = Follow(w, c[k]) /\ d[k + 1] = Follow(w, d[k])
  BY ChainFacts
<1> HIDE DEF c, d
<1>2. 0 \in T
  BY <1>1
<1>3. ASSUME NEW k \in T PROVE k + 1 \in T
  <2>1. k \in Nat /\ m + k \in Nat /\ m + (k + 1) = (m + k) + 1 /\ k + 1 \in Nat
    BY <1>3
  <2>2. c[m + k] = d[k]
    BY <1>3
  <2>3. c[(m + k) + 1] = d[k + 1]
    BY <1>1, <2>1, <2>2
  <2> QED
    BY <2>1, <2>3
<1>4. T = Nat
  <2>1. T \subseteq Nat
    OBVIOUS
  <2> HIDE DEF T
  <2> QED
    BY <1>2, <1>3, <2>1, InductionOnNat
<1> QED
  BY <1>4 DEF c, d

\* ChainShift, for a place on the way.
LEMMA ChainFrom ==
  ASSUME NEW w \in [Sessions -> Ends], NEW a \in Ends, NEW n \in Nat, NEW m \in Nat, m <= n,
         NEW b, Chain(w, a)[m] = b
  PROVE  n - m \in Nat /\ Chain(w, a)[n] = Chain(w, b)[n - m]
<1>1. n - m \in Nat /\ m + (n - m) = n
  OBVIOUS
<1>2. Chain(w, a)[m + (n - m)] = Chain(w, Chain(w, a)[m])[n - m]
  BY <1>1, ChainShift
<1> QED
  BY <1>1, <1>2

\* A chain that has ended does not go on.
LEMMA ChainEnded ==
  ASSUME NEW w \in [Sessions -> Ends], NEW n \in Nat
  PROVE  Chain(w, Nobody)[n] = Nobody
<1> DEFINE c == Chain(w, Nobody)
           T == {k \in Nat : c[k] = Nobody}
<1>1. c[0] = Nobody /\ \A k \in Nat : c[k + 1] = Follow(w, c[k])
  BY ChainFacts DEF Ends
<1> HIDE DEF c
<1>2. 0 \in T
  BY <1>1
<1>3. ASSUME NEW k \in T PROVE k + 1 \in T
  BY <1>1, <1>3 DEF Follow
<1>4. T = Nat
  <2>1. T \subseteq Nat
    OBVIOUS
  <2> HIDE DEF T
  <2> QED
    BY <1>2, <1>3, <2>1, InductionOnNat
<1> QED
  BY <1>4 DEF c

\* A chain that does not pass x does not depend on the edge of x.
LEMMA ChainElsewhere ==
  ASSUME NEW w \in [Sessions -> Ends], NEW v \in [Sessions -> Ends], NEW x \in Sessions,
         \A y \in Sessions \ {x} : v[y] = w[y],
         NEW a \in Ends, NEW n \in Nat, \A i \in Nat : i < n => Chain(w, a)[i] # x
  PROVE  Chain(v, a)[n] = Chain(w, a)[n]
<1> DEFINE c == Chain(w, a)
           d == Chain(v, a)
           T == {k \in Nat : k <= n => d[k] = c[k]}
<1>1. /\ c[0] = a /\ d[0] = a
      /\ \A k \in Nat : c[k + 1] = Follow(w, c[k]) /\ d[k + 1] = Follow(v, d[k])
      /\ \A k \in Nat : c[k] \in Ends
  BY ChainFacts
<1>2. \A k \in Nat : k < n => c[k] # x
  OBVIOUS
<1> HIDE DEF c, d
<1>3. 0 \in T
  BY <1>1
<1>4. ASSUME NEW k \in T PROVE k + 1 \in T
  <2> SUFFICES ASSUME k + 1 <= n PROVE d[k + 1] = c[k + 1]
    BY <1>4
  <2>1. k \in Nat /\ k <= n /\ k < n
    BY <1>4
  <2>2. d[k] = c[k] /\ c[k] # x /\ c[k] \in Ends
    BY <1>1, <1>2, <1>4, <2>1
  <2>3. Follow(v, c[k]) = Follow(w, c[k])
    BY <2>2 DEF Follow, Ends
  <2> QED
    BY <1>1, <2>1, <2>2, <2>3
<1>5. T = Nat
  <2>1. T \subseteq Nat
    OBVIOUS
  <2> HIDE DEF T
  <2> QED
    BY <1>3, <1>4, <2>1, InductionOnNat
<1> QED
  BY <1>5 DEF c, d

\* No session waits for itself, over however many others.
Acyclic(w) == \A s \in Sessions : \A n \in 1..Cardinality(Sessions) : Chain(w, s)[n] # s

\* Taking an edge back closes no circle.
LEMMA EdgeRemoved ==
  ASSUME NEW w \in [Sessions -> Ends], NEW x \in Sessions, Acyclic(w)
  PROVE  Acyclic([w EXCEPT ![x] = Nobody])
<1> DEFINE v == [w EXCEPT ![x] = Nobody]
<1>1. /\ v \in [Sessions -> Ends] /\ v[x] = Nobody
      /\ \A y \in Sessions \ {x} : w[y] = v[y]
  BY DEF Ends
<1> HIDE DEF v
<1> SUFFICES ASSUME NEW t \in Sessions, NEW n \in 1..Cardinality(Sessions), Chain(v, t)[n] = t
             PROVE  FALSE
  BY DEF Acyclic, v
<1>2. n \in Nat /\ t \in Ends /\ x # Nobody /\ t # Nobody
  BY SessionAssumption, FS_CardinalityType DEF Ends
<1>3. ASSUME NEW i \in Nat, i < n, Chain(v, t)[i] = x PROVE FALSE
  <2>1. Chain(v, t)[i + 1] = Nobody
    BY <1>1, <1>2, <1>3, ChainFacts DEF Follow
  <2>2. i + 1 \in Nat /\ i + 1 <= n
    BY <1>2, <1>3
  <2>3. n - (i + 1) \in Nat /\ Chain(v, t)[n] = Chain(v, Nobody)[n - (i + 1)]
    BY <1>1, <1>2, <2>1, <2>2, ChainFrom
  <2>4. Chain(v, Nobody)[n - (i + 1)] = Nobody
    BY <1>1, <2>3, ChainEnded
  <2> QED
    BY <1>2, <2>3, <2>4
<1>4. Chain(w, t)[n] = t
  BY <1>1, <1>2, <1>3, ChainElsewhere
<1> QED
  BY <1>4 DEF Acyclic

\* An edge whose walk does not come back closes no circle.
LEMMA EdgeAdded ==
  ASSUME NEW w \in [Sessions -> Ends], NEW s \in Sessions, NEW b \in Ends, Acyclic(w),
         ~ClosesCycle([w EXCEPT ![s] = b], s, b)
  PROVE  Acyclic([w EXCEPT ![s] = b])
<1> DEFINE v == [w EXCEPT ![s] = b]
<1>1. /\ v \in [Sessions -> Ends] /\ v[s] = b
      /\ \A y \in Sessions \ {s} : w[y] = v[y]
  OBVIOUS
<1>2. \A n \in 1..Cardinality(Sessions) : Chain(v, b)[n] # s
  BY DEF ClosesCycle
<1> HIDE DEF v
<1> SUFFICES ASSUME NEW t \in Sessions, NEW n \in 1..Cardinality(Sessions), Chain(v, t)[n] = t
             PROVE  FALSE
  BY DEF Acyclic, v
<1>3. /\ n \in Nat /\ n # 0 /\ Cardinality(Sessions) \in Nat
      /\ t \in Ends /\ s \in Ends /\ s # Nobody
  BY SessionAssumption, FS_CardinalityType DEF Ends
<1>4. CASE \A i \in Nat : i < n => Chain(v, t)[i] # s
  <2>1. Chain(w, t)[n] = t
    BY <1>1, <1>3, <1>4, ChainElsewhere
  <2> QED
    BY <2>1 DEF Acyclic
<1>5. ASSUME NEW i \in Nat, i < n, Chain(v, t)[i] = s PROVE FALSE
  <2>1. i <= n /\ n - i <= n /\ n - (n - i) = i
    BY <1>3, <1>5
  <2>2. n - i \in Nat /\ Chain(v, t)[n] = Chain(v, s)[n - i]
    BY <1>1, <1>3, <1>5, <2>1, ChainFrom
  <2>3. Chain(v, s)[n - i] = t
    BY <2>2
  <2>4. Chain(v, s)[n] = Chain(v, t)[n - (n - i)]
    <3> DEFINE k == n - i
    <3>1. k \in Nat /\ k <= n /\ Chain(v, s)[k] = t
      BY <2>1, <2>2, <2>3
    <3> HIDE DEF k
    <3>2. Chain(v, s)[n] = Chain(v, t)[n - k]
      BY <1>1, <1>3, <3>1, ChainFrom
    <3> QED
      BY <3>2 DEF k
  <2>5. Chain(v, s)[n] = s
    BY <1>5, <2>1, <2>4
  <2>6. Chain(v, s)[1] = b
    <3>1. Chain(v, s)[0] = s /\ Chain(v, s)[0 + 1] = Follow(v, Chain(v, s)[0])
      BY <1>1, <1>3, ChainFacts
    <3> QED
      BY <1>1, <1>3, <3>1 DEF Follow
  <2>7. 1 \in Nat /\ 1 <= n
    BY <1>3
  <2>8. Chain(v, s)[n] = Chain(v, b)[n - 1]
    BY <1>1, <1>3, <2>6, <2>7, ChainFrom
  <2>9. Chain(v, b)[n - 1] = s
    BY <2>5, <2>8
  <2>10. CASE n = 1
    <3>1. b = s
      BY <1>1, <2>9, <2>10, ChainFacts
    <3>2. Chain(v, b)[1] = s /\ 1 \in 1..Cardinality(Sessions)
      BY <2>6, <2>10, <3>1
    <3> QED
      BY <1>2, <3>2
  <2>11. CASE n # 1
    <3>1. n - 1 \in 1..Cardinality(Sessions)
      BY <1>3, <2>11
    <3> QED
      BY <1>2, <2>9, <3>1
  <2> QED
    BY <2>10, <2>11
<1> QED
  BY <1>4, <1>5

\* Only mysql_register_lock_wait adds an edge, and it has looked.
LEMMA AcyclicStep == TypeOK /\ Acyclic(waits) /\ [Next]_vars => Acyclic(waits)'
<1> SUFFICES ASSUME TypeOK, Acyclic(waits), [Next]_vars PROVE Acyclic(waits)'
  OBVIOUS
<1>1. waits \in [Sessions -> Ends]
  BY DEF TypeOK, Ends
<1>2. ASSUME NEW x \in Sessions, waits' = [waits EXCEPT ![x] = Nobody] PROVE Acyclic(waits)'
  <2>1. Acyclic(waits')
    BY <1>1, <1>2, EdgeRemoved
  <2> QED
    BY <2>1 DEF Acyclic
<1>3. ASSUME waits' = waits PROVE Acyclic(waits)'
  BY <1>3 DEF Acyclic
<1>4. ASSUME NEW s \in Sessions, Register(s) PROVE Acyclic(waits)'
  <2> DEFINE b == blocker[s]
             w == [waits EXCEPT ![s] = b]
  <2>1. b \in Ends
    BY DEF TypeOK, Ends
  <2>2. CASE ClosesCycle(w, s, b)
    BY <1>2, <1>4, <2>2 DEF Register
  <2>3. CASE ~ClosesCycle(w, s, b)
    <3>1. waits' = w
      BY <1>4, <2>3 DEF Register
    <3>2. Acyclic(w)
      BY <1>1, <2>1, <2>3, EdgeAdded
    <3>3. Acyclic(waits')
      BY <3>1, <3>2
    <3> QED
      BY <3>3 DEF Acyclic
  <2> QED
    BY <2>2, <2>3
<1>5. ASSUME NEW s \in Sessions, Grant(s) PROVE Acyclic(waits)'
  BY <1>2, <1>5 DEF Grant
<1>6. ASSUME NEW s \in Sessions, Unwait(s) PROVE Acyclic(waits)'
  <2>1. victim[s] \in Sessions
    BY DEF TypeOK
  <2> QED
    BY <1>2, <1>6, <2>1 DEF Unwait
<1>7. ASSUME NEW s \in Sessions, NEW req \in Requests, Request(s, req) PROVE waits' = waits
  BY <1>7 DEF Request
<1>8. ASSUME NEW s \in Sessions, NEW v \in Sessions, ReleaseLocksOf(s, v) PROVE waits' = waits
  BY <1>8 DEF ReleaseLocksOf
<1>9. ASSUME NEW s \in Sessions,
             Blocked(s) \/ Arm(s) \/ TimeOut(s) \/ ReleaseStatementLocks(s)
               \/ Unqueue(s) \/ Ring(s)
      PROVE  waits' = waits
  BY <1>9 DEF Blocked, Arm, TimeOut, ReleaseStatementLocks, Unqueue, Ring
<1>10. CASE UNCHANGED vars
  BY <1>3, <1>10 DEF vars
<1> QED
  BY <1>3, <1>4, <1>5, <1>6, <1>7, <1>8, <1>9, <1>10 DEF Next, ReleaseAll, Kill

\* mysql_register_lock_wait finds every circle it would close, of any length, although
\* it only follows one edge per session and other sessions leave the map at any time.
THEOREM WaitsNeverCircle == Spec => []WaitForMapIsAcyclic
<1>1. Init => Acyclic(waits)
  <2> SUFFICES ASSUME Init, NEW s \in Sessions, NEW n \in 1..Cardinality(Sessions)
               PROVE  Chain(waits, s)[n] # s
    BY DEF Acyclic
  <2>1. /\ waits \in [Sessions -> Ends] /\ s \in Ends /\ s # Nobody
        /\ waits[s] = Nobody
    BY SessionAssumption DEF Init, Ends
  <2>2. n \in Nat /\ 1 \in Nat /\ 1 <= n
    BY SessionAssumption, FS_CardinalityType
  <2>3. Chain(waits, s)[1] = Nobody
    <3>1. Chain(waits, s)[0] = s /\ Chain(waits, s)[0 + 1] = Follow(waits, Chain(waits, s)[0])
      BY <2>1, ChainFacts
    <3> QED
      BY <2>1, <3>1 DEF Follow
  <2>4. n - 1 \in Nat /\ Chain(waits, s)[n] = Chain(waits, Nobody)[n - 1]
    BY <2>1, <2>2, <2>3, ChainFrom
  <2>5. Chain(waits, Nobody)[n - 1] = Nobody
    BY <2>1, <2>4, ChainEnded
  <2> QED
    BY <2>1, <2>4, <2>5
<1>2. Acyclic(waits) => WaitForMapIsAcyclic
  BY DEF Acyclic, WaitForMapIsAcyclic
<1> QED
  BY <1>1, <1>2, TypeInit, TypeStep, AcyclicStep, PTL DEF Spec

-----------------------------------------------------------------------------
(***************************************************************************)
(* The order of the queue.                                                 *)
(***************************************************************************)
\* What is queued is what the session asks for.
QueuedAsAsked ==
  \A i \in 1..Len(queue) :
    pc[queue[i].session] \in Acquiring => queue[i].locks = request[queue[i].session]

\* The entry of a session that waits is never that of an earlier call.
LEMMA QueuedStep ==
  TypeOK /\ VictimOK /\ NoGhostWaiters /\ QueuedAsAsked /\ [Next]_vars => QueuedAsAsked'
<1> SUFFICES ASSUME TypeOK, VictimOK, NoGhostWaiters, QueuedAsAsked, [Next]_vars
             PROVE  QueuedAsAsked'
  OBVIOUS
<1> USE DEF QueuedAsAsked
<1>0. queue \in Seq(Entries) /\ \A i \in 1..Len(queue) : queue[i].session \in Sessions
  <2>1. queue \in Seq(Entries)
    BY DEF TypeOK, Entries
  <2>2. \A i \in 1..Len(queue) : queue[i] \in Entries
    BY <2>1, ElementOfSeq
  <2> QED
    BY <2>1, <2>2 DEF Entries
<1>1. ASSUME NEW s \in Sessions, NEW req \in Requests, Request(s, req) PROVE QueuedAsAsked'
  <2> DEFINE e == [session |-> s, locks |-> req]
  <2>1. ~InQueue(s)
    BY <1>0, <1>1 DEF Request, InQueue, NoGhostWaiters, Acquiring
  <2>2. queue' = Append(queue, e) /\ e \in Entries
    BY <1>1, <2>1 DEF Request, Entries
  <2>3. /\ Len(queue') = Len(queue) + 1
        /\ \A i \in 1..Len(queue) : queue'[i] = queue[i]
        /\ queue'[Len(queue) + 1] = e
    BY <1>0, <2>2, AppendProperties
  <2>4. \A i \in 1..Len(queue') : i = Len(queue) + 1 \/ i \in 1..Len(queue)
    BY <1>0, <2>3
  <2>5. /\ \A t \in Sessions : t # s => pc'[t] = pc[t] /\ request'[t] = request[t]
        /\ request'[s] = req
    BY <1>1 DEF Request, TypeOK
  <2> SUFFICES ASSUME NEW i \in 1..Len(queue'), pc'[queue'[i].session] \in Acquiring
               PROVE  queue'[i].locks = request'[queue'[i].session]
    BY DEF Acquiring
  <2>6. CASE i = Len(queue) + 1
    BY <2>3, <2>5, <2>6
  <2>7. CASE i \in 1..Len(queue)
    <3>1. queue'[i] = queue[i] /\ queue[i].session \in Sessions /\ queue[i].session # s
      BY <1>0, <2>1, <2>3, <2>7 DEF InQueue
    <3> QED
      BY <2>5, <2>7, <3>1
  <2> QED
    BY <2>4, <2>6, <2>7
<1>2. ASSUME NEW s \in Sessions, queue' = queue,
             \A t \in Sessions :
               pc'[t] \in Acquiring => pc[t] \in Acquiring /\ request'[t] = request[t]
      PROVE  QueuedAsAsked'
  BY <1>0, <1>2
<1>3. ASSUME NEW v \in Sessions, queue' = WithoutSession(queue, v),
             \A t \in Sessions : t # v /\ pc'[t] \in Acquiring =>
               pc[t] \in Acquiring /\ request'[t] = request[t]
      PROVE  QueuedAsAsked'
  <2>1. \A i \in 1..Len(queue') :
          queue'[i].session # v /\ \E j \in 1..Len(queue) : queue'[i] = queue[j]
    BY <1>0, <1>3, WithoutSessionFacts DEF NoGhostWaiters
  <2> QED
    BY <1>0, <1>3, <2>1
<1>4. ASSUME NEW s \in Sessions, Grant(s) PROVE QueuedAsAsked'
  <2>1. \A t \in Sessions : t # s /\ pc'[t] \in Acquiring =>
          pc[t] \in Acquiring /\ request'[t] = request[t]
    BY <1>4 DEF Grant, TypeOK
  <2> QED
    BY <1>3, <1>4, <2>1 DEF Grant
<1>5. ASSUME NEW s \in Sessions, Unqueue(s) PROVE QueuedAsAsked'
  <2>1. \A t \in Sessions : pc'[t] \in Acquiring =>
          pc[t] \in Acquiring /\ request'[t] = request[t]
    BY <1>5 DEF Unqueue, TypeOK, Acquiring
  <2>2. victim[s] \in Sessions
    BY DEF TypeOK
  <2> QED
    BY <1>3, <1>5, <2>1, <2>2 DEF Unqueue
<1>6. ASSUME NEW s \in Sessions, Blocked(s) PROVE QueuedAsAsked'
  BY <1>2, <1>6 DEF Blocked, TypeOK, Acquiring
<1>7. ASSUME NEW s \in Sessions, Register(s) PROVE QueuedAsAsked'
  <2>1. \A t \in Sessions : pc'[t] \in Acquiring =>
          pc[t] \in Acquiring /\ request'[t] = request[t]
    BY <1>7 DEF Register, TypeOK, Acquiring
  <2> QED
    BY <1>2, <1>7, <2>1 DEF Register
<1>8. ASSUME NEW s \in Sessions, Arm(s) \/ TimeOut(s) PROVE QueuedAsAsked'
  <2>1. \A t \in Sessions : pc'[t] \in Acquiring =>
          pc[t] \in Acquiring /\ request'[t] = request[t]
    BY <1>8 DEF Arm, TimeOut, TypeOK, Acquiring
  <2> QED
    BY <1>2, <1>8, <2>1 DEF Arm, TimeOut
<1>9. ASSUME NEW s \in Sessions, NEW v \in Sessions,
             ReleaseStatementLocks(s) \/ ReleaseLocksOf(s, v) \/ Unwait(s) \/ Ring(s)
      PROVE  QueuedAsAsked'
  <2>1. \A t \in Sessions : pc'[t] \in Acquiring =>
          pc[t] \in Acquiring /\ request'[t] = request[t]
    BY <1>9 DEF ReleaseStatementLocks, ReleaseLocksOf, Unwait, Ring, TypeOK, Acquiring
  <2> QED
    BY <1>2, <1>9, <2>1 DEF ReleaseStatementLocks, ReleaseLocksOf, Unwait, Ring
<1>10. CASE UNCHANGED vars
  BY <1>10 DEF vars
<1> QED
  BY <1>1, <1>4, <1>5, <1>6, <1>7, <1>8, <1>9, <1>10 DEF Next, ReleaseAll, Kill

\* When the check of the loop finds no blocker, no position in front blocks.
LEMMA NoneInFront ==
  ASSUME TypeOK, NEW s \in Sessions, Blockers(s) = {}
  PROVE  QueueBlockerPositions(s) = {}
<1> DEFINE P == QueueBlockerPositions(s)
<1>1. QueueBlockers(s) = {}
  BY DEF Blockers
<1>2. {j \in P : \A k \in P : j <= k} = {}
  BY <1>1 DEF QueueBlockers
<1>3. P \subseteq Nat
  <2>1. Len(queue) \in Nat
    BY DEF TypeOK
  <2> QED
    BY <2>1 DEF QueueBlockerPositions, Ahead
<1> HIDE DEF P
<1>4. P = {}
  BY <1>2, <1>3, LeastNumber
<1> QED
  BY <1>4 DEF P

\* Nobody in front of s waits for what s queued for.
Fair(s) ==
  \A i, j \in 1..Len(queue) :
    i < j /\ queue[j].session = s /\ Priority(queue[i].locks) >= Priority(queue[j].locks)
      => ~SetsConflict(queue[i].locks, queue[j].locks)

\* The session has one entry, so whoever is before it in the queue is Ahead of it.
LEMMA GrantIsFair ==
  ASSUME TypeOK, NoGhostWaiters, QueuedAsAsked, NEW s \in Sessions, Grant(s)
  PROVE  Fair(s)
<1> SUFFICES ASSUME NEW i \in 1..Len(queue), NEW j \in 1..Len(queue), i < j,
                    queue[j].session = s,
                    Priority(queue[i].locks) >= Priority(queue[j].locks),
                    SetsConflict(queue[i].locks, queue[j].locks)
             PROVE  FALSE
  BY DEF Fair
<1>1. Len(queue) \in Nat /\ i \in Nat /\ j \in Nat
  BY DEF TypeOK
<1>2. queue[j].locks = request[s]
  BY DEF QueuedAsAsked, Grant, Acquiring
<1>3. i \in Ahead(s)
  <2> SUFFICES ASSUME NEW k \in 1..i, queue[k].session = s PROVE FALSE
    BY DEF Ahead
  <2>1. k \in 1..Len(queue) /\ k # j
    BY <1>1
  <2> QED
    BY <2>1 DEF NoGhostWaiters
<1>4. i \in QueueBlockerPositions(s)
  BY <1>2, <1>3 DEF QueueBlockerPositions
<1>5. QueueBlockerPositions(s) = {}
  BY NoneInFront DEF Grant
<1> QED
  BY <1>4, <1>5

\* The loop is left with locks only by a grant.
LEMMA OnlyGrants ==
  ASSUME TypeOK, [Next]_vars, NEW s \in Sessions, pc[s] = "check", pc'[s] = "run"
  PROVE  Grant(s)
<1>1. ASSUME NEW t \in Sessions, Grant(t) PROVE t = s
  BY <1>1 DEF Grant, TypeOK
<1>2. ASSUME NEW t \in Sessions, NEW req \in Requests, Request(t, req) PROVE FALSE
  BY <1>2 DEF Request, TypeOK
<1>3. ASSUME NEW t \in Sessions, NEW v \in Sessions, ReleaseLocksOf(t, v) PROVE FALSE
  BY <1>3 DEF ReleaseLocksOf, TypeOK
<1>4. ASSUME NEW t \in Sessions, Blocked(t) \/ Arm(t) \/ TimeOut(t) \/ Unqueue(t) \/ Unwait(t)
      PROVE  FALSE
  BY <1>4 DEF Blocked, Arm, TimeOut, Unqueue, Unwait, TypeOK
<1>5. ASSUME NEW t \in Sessions, Register(t) \/ ReleaseStatementLocks(t) PROVE FALSE
  BY <1>5 DEF Register, ReleaseStatementLocks, TypeOK
<1>6. ASSUME NEW t \in Sessions, Ring(t) PROVE FALSE
  BY <1>6 DEF Ring, TypeOK
<1>7. CASE UNCHANGED vars
  BY <1>7 DEF vars
<1> QED
  BY <1>1, <1>2, <1>3, <1>4, <1>5, <1>6, <1>7 DEF Next, ReleaseAll, Kill

\* A grant never passes an earlier waiter of at least its priority that conflicts with
\* what is granted, whatever deadlocks, timeouts and KILLs did to the queue.
THEOREM QueueIsFair == Spec => NoOvertaking
<1>1. Init => VictimOK /\ NoGhostWaiters /\ QueuedAsAsked
  BY DEF Init, VictimOK, NoGhostWaiters, QueuedAsAsked
<1>2. TypeOK /\ NoGhostWaiters /\ QueuedAsAsked /\ [Next]_vars =>
        [\A s \in Sessions : pc[s] = "check" /\ pc'[s] = "run" =>
           \A i, j \in 1..Len(queue) :
             i < j /\ queue[j].session = s
               /\ Priority(queue[i].locks) >= Priority(queue[j].locks)
             => ~SetsConflict(queue[i].locks, queue[j].locks)]_vars
  <2> SUFFICES ASSUME TypeOK, NoGhostWaiters, QueuedAsAsked, [Next]_vars,
                      NEW s \in Sessions, pc[s] = "check", pc'[s] = "run"
               PROVE  Fair(s)
    BY DEF Fair
  <2> QED
    BY GrantIsFair, OnlyGrants
<1> QED
  BY <1>1, <1>2, TypeInit, TypeStep, GhostStep, QueuedStep, PTL DEF Spec, NoOvertaking
=============================================================================
