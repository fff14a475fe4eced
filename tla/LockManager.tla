---------------------------- MODULE LockManager -----------------------------
(***************************************************************************)
(* The lock manager of the gateway's MySQL mode: the lock table, the FIFO  *)
(* wait queue, the wait-for map and the Notify that wakes sleeping         *)
(* sessions (acquire_mysql_locks and its helpers in mysql_locks.rs, the    *)
(* two release functions and rollback_session_by_id in context_session.rs).*)
(*                                                                         *)
(* The three tables are behind three tokio mutexes.  One action is one     *)
(* stretch of code between two points where another task may run; the      *)
(* control point of a session is pc[s]:                                    *)
(*                                                                         *)
(*   "idle"     no call into the lock manager in progress                  *)
(*   "check"    at the head of the acquire loop                            *)
(*   "register" found a blocker, dropped the lock table's mutex            *)
(*   "arm"      wait edge registered, Notified not yet created             *)
(*   "sleep"    awaiting Notified                                          *)
(*   "run"      locks granted, the statement executes                      *)
(*   "unqueue", "unwait", "ring"                                           *)
(*              the tail shared by remove_mysql_lock_waiter and            *)
(*              release_session_table_locks, for the session victim[s]     *)
(***************************************************************************)
EXTENDS LockConflict, Sequences

CONSTANTS Sessions,    \* session ids
          Requests,    \* the lock sets a statement may ask for
          Killers,     \* the sessions that may issue KILL
          Nobody       \* no session

ASSUME SessionAssumption ==
  /\ Nobody \notin Sessions /\ IsFiniteSet(Sessions)
  /\ Killers \subseteq Sessions

\* Every request is a non-empty set of locks (an empty one returns at once
\* from acquire_mysql_locks and changes nothing).
ASSUME RequestAssumption ==
  \A r \in Requests : r # {} /\ \A l \in r : l.scope \in Scopes /\ l.kind \in Kinds

VARIABLES held,      \* active_mysql_locks, by owner
          queue,     \* active_mysql_lock_queue
          waits,     \* active_mysql_lock_waits: waiter -> the one owner it waits for
          pc,        \* control point of each session's task
          request,   \* the locks the session's acquire call asks for
          blocker,   \* the owner found by the last check of the loop
          victim     \* whose entries the release tail removes

\* request, blocker and victim are locals of the running call; they return to
\* {}, Nobody and the session itself when the call no longer uses them.

vars == <<held, queue, waits, pc, request, blocker, victim>>

Locks == UNION Requests

Acquiring == {"check", "register", "arm", "sleep"}

ControlPoints == Acquiring \cup {"idle", "run", "unqueue", "unwait", "ring"}

-----------------------------------------------------------------------------
(***************************************************************************)
(* Helpers.                                                                *)
(***************************************************************************)
SetsConflict(existing, requested) ==
  \E l \in existing, m \in requested : LocksConflict(l, m)

\* mysql_lock_priority: a request with a metadata write is urgent.
Priority(req) == IF \E l \in req : l.kind.tag = "MetadataWrite" THEN 1 ELSE 0

\* The sessions whose held locks conflict with what s asks for.  The program
\* takes the owner of the first one in insertion order; the lock table of the
\* model is unordered, so any of them.
ConflictOwners(s) ==
  {t \in Sessions \ {s} : SetsConflict(held[t], request[s])}

InQueue(s) == \E i \in 1..Len(queue) : queue[i].session = s

\* mysql_lock_queue_blocker stops at the session's own entry, skips entries of
\* lower priority and returns the first that conflicts.
Ahead(s) ==
  {i \in 1..Len(queue) : \A j \in 1..i : queue[j].session # s}

\* Mutant: only a more urgent waiter is respected.
QueueBlockerPositions_UrgentOnly(s) ==
  {i \in Ahead(s) :
      /\ Priority(queue[i].locks) > Priority(request[s])
      /\ SetsConflict(queue[i].locks, request[s])}

QueueBlockerPositions(s) ==
  {i \in Ahead(s) :
      /\ Priority(queue[i].locks) >= Priority(request[s])
      /\ SetsConflict(queue[i].locks, request[s])}

QueueBlockers(s) ==
  {queue[i].session :
      i \in {j \in QueueBlockerPositions(s) :
                \A k \in QueueBlockerPositions(s) : j <= k}}

\* Mutant: the queue is consulted, the lock table is not.
Blockers_QueueOnly(s) == QueueBlockers(s)

\* conflict_owner.or(queue_blocker)
Blockers(s) ==
  IF ConflictOwners(s) # {} THEN ConflictOwners(s) ELSE QueueBlockers(s)

\* queue.retain(|waiter| waiter.session_id != s).  A session joins the queue
\* only when it is not in it, so there is at most one entry to remove.
Position(q, s) == CHOOSE i \in 1..Len(q) : q[i].session = s

WithoutSession(q, s) ==
  IF \E i \in 1..Len(q) : q[i].session = s
  THEN [i \in 1..(Len(q) - 1) |-> IF i < Position(q, s) THEN q[i] ELSE q[i + 1]]
  ELSE q

\* The wait-for edges followed from session a, one after the other.
Chain(w, a) ==
  LET step[n \in Nat] ==
        IF n = 0 THEN a
        ELSE IF step[n - 1] = Nobody THEN Nobody ELSE w[step[n - 1]]
  IN  step

\* Mutant: only the direct circle of two sessions is looked for.
ClosesCycle_TwoOnly(w, waiter, owner) == Chain(w, owner)[1] = waiter

\* mysql_register_lock_wait walks the chain from the owner until it ends,
\* meets the waiter or repeats.
ClosesCycle(w, waiter, owner) ==
  \E n \in 1..Cardinality(Sessions) : Chain(w, owner)[n] = waiter

-----------------------------------------------------------------------------
Init ==
  /\ held = [s \in Sessions |-> {}]
  /\ queue = <<>>
  /\ waits = [s \in Sessions |-> Nobody]
  /\ pc = [s \in Sessions |-> "idle"]
  /\ request = [s \in Sessions |-> {}]
  /\ blocker = [s \in Sessions |-> Nobody]
  /\ victim = [s \in Sessions |-> s]

\* Entry of acquire_mysql_locks: join the queue.
Request(s, req) ==
  /\ pc[s] = "idle"
  /\ request' = [request EXCEPT ![s] = req]
  /\ queue' = IF InQueue(s) THEN queue
              ELSE Append(queue, [session |-> s, locks |-> req])
  /\ pc' = [pc EXCEPT ![s] = "check"]
  /\ UNCHANGED <<held, waits, blocker, victim>>

\* The loop head finds a blocker and drops the lock table's mutex.
Blocked(s) ==
  /\ pc[s] = "check"
  /\ \E b \in Blockers(s) : blocker' = [blocker EXCEPT ![s] = b]
  /\ pc' = [pc EXCEPT ![s] = "register"]
  /\ UNCHANGED <<held, queue, waits, request, victim>>

\* The loop head finds none: all under the lock table's mutex, the session
\* leaves the queue and the wait-for map and its locks are added.
Grant(s) ==
  /\ pc[s] = "check"
  /\ Blockers(s) = {}
  /\ queue' = WithoutSession(queue, s)
  /\ waits' = [waits EXCEPT ![s] = Nobody]
  /\ held' = [held EXCEPT ![s] = @ \cup request[s]]
  /\ request' = [request EXCEPT ![s] = {}]
  /\ pc' = [pc EXCEPT ![s] = "run"]
  /\ UNCHANGED <<blocker, victim>>

\* mysql_register_lock_wait: record the edge, or report a deadlock.
Register(s) ==
  LET w == [waits EXCEPT ![s] = blocker[s]] IN
  /\ pc[s] = "register"
  /\ IF ClosesCycle(w, s, blocker[s])
     THEN /\ waits' = [waits EXCEPT ![s] = Nobody]
          /\ request' = [request EXCEPT ![s] = {}]
          /\ pc' = [pc EXCEPT ![s] = "unqueue"]
     ELSE /\ waits' = w
          /\ pc' = [pc EXCEPT ![s] = "arm"]
          /\ UNCHANGED request
  /\ blocker' = [blocker EXCEPT ![s] = Nobody]
  /\ UNCHANGED <<held, queue, victim>>

\* mysql_lock_notify.notified() is created: only from here on does a
\* notify_waiters reach the session.
Arm(s) ==
  /\ pc[s] = "arm"
  /\ pc' = [pc EXCEPT ![s] = "sleep"]
  /\ UNCHANGED <<held, queue, waits, request, blocker, victim>>

\* Mutant: the deadline is checked before the sleep, the sleep has no timer.
TimeOut_BeforeSleepOnly(s) ==
  /\ pc[s] = "arm"
  /\ request' = [request EXCEPT ![s] = {}]
  /\ pc' = [pc EXCEPT ![s] = "unqueue"]
  /\ UNCHANGED <<held, queue, waits, blocker, victim>>

\* The lock wait timeout has run out, at the check before the sleep or
\* during it.
TimeOut(s) ==
  /\ pc[s] \in {"arm", "sleep"}
  /\ request' = [request EXCEPT ![s] = {}]
  /\ pc' = [pc EXCEPT ![s] = "unqueue"]
  /\ UNCHANGED <<held, queue, waits, blocker, victim>>

\* release_session_statement_locks at the end of a statement inside a
\* transaction.
ReleaseStatementLocks(s) ==
  /\ pc[s] = "run"
  /\ held' = [held EXCEPT ![s] = {l \in @ : l.duration # "Statement"}]
  /\ pc' = [pc EXCEPT ![s] = "ring"]
  /\ UNCHANGED <<queue, waits, request, blocker, victim>>

\* First step of release_session_table_locks for session v, executed by the
\* task of session s: at the end of an autocommit statement, at a commit or
\* rollback (v = s), or for KILL v (rollback_session_by_id).
ReleaseLocksOf(s, v) ==
  /\ held' = [held EXCEPT ![v] = {}]
  /\ pc' = [pc EXCEPT ![s] = "unqueue"]
  /\ victim' = [victim EXCEPT ![s] = v]
  /\ UNCHANGED <<queue, waits, request, blocker>>

ReleaseAll(s) == pc[s] \in {"run", "idle"} /\ ReleaseLocksOf(s, s)

\* Mutant: KILL of an id that no session has runs the release tail for it.
Kill_Unknown(s, v) ==
  s \in Killers /\ pc[s] = "idle" /\ v # s /\ ReleaseLocksOf(s, Nobody)

Kill(s, v) == s \in Killers /\ pc[s] = "idle" /\ v # s /\ ReleaseLocksOf(s, v)

\* Mutant: the release tail forgets the queue.
Unqueue_Forgotten(s) ==
  /\ pc[s] = "unqueue"
  /\ pc' = [pc EXCEPT ![s] = "unwait"]
  /\ UNCHANGED <<held, queue, waits, request, blocker, victim>>

Unqueue(s) ==
  /\ pc[s] = "unqueue"
  /\ queue' = WithoutSession(queue, victim[s])
  /\ pc' = [pc EXCEPT ![s] = "unwait"]
  /\ UNCHANGED <<held, waits, request, blocker, victim>>

Unwait(s) ==
  /\ pc[s] = "unwait"
  /\ waits' = [waits EXCEPT ![victim[s]] = Nobody]
  /\ pc' = [pc EXCEPT ![s] = "ring"]
  /\ UNCHANGED <<held, queue, request, blocker, victim>>

\* notify_waiters: every session already sleeping returns to the loop head.
Ring(s) ==
  /\ pc[s] = "ring"
  /\ pc' = [t \in Sessions |->
              IF t = s THEN "idle"
              ELSE IF pc[t] = "sleep" THEN "check" ELSE pc[t]]
  /\ victim' = [victim EXCEPT ![s] = s]
  /\ UNCHANGED <<held, queue, waits, request, blocker>>

\* The steps a session takes on its own account once a statement has begun.
Step(s) ==
  \/ Blocked(s) \/ Grant(s) \/ Register(s) \/ Arm(s)
  \/ Unqueue(s) \/ Unwait(s) \/ Ring(s)

Next ==
  \E s \in Sessions :
    \/ \E req \in Requests : Request(s, req)
    \/ Blocked(s) \/ Grant(s) \/ Register(s) \/ Arm(s) \/ TimeOut(s)
    \/ ReleaseStatementLocks(s) \/ ReleaseAll(s)
    \/ \E v \in Sessions : Kill(s, v)
    \/ Unqueue(s) \/ Unwait(s) \/ Ring(s)

Spec == Init /\ [][Next]_vars

(***************************************************************************)
(* A task that can run does run, and the timer of a lock wait fires: the   *)
(* elapsed time is measured from the start of the call, so a session that  *)
(* keeps returning to the loop meets its deadline.  Nothing makes a client *)
(* end its statement or transaction.                                       *)
(***************************************************************************)
Fairness ==
  \A s \in Sessions : WF_vars(Step(s)) /\ SF_vars(TimeOut(s))

FairSpec == Spec /\ Fairness

-----------------------------------------------------------------------------
(***************************************************************************)
(* Properties.                                                             *)
(***************************************************************************)

\* Type invariant of the three tables and the sessions' control state.
TypeOK ==
  /\ held \in [Sessions -> SUBSET Locks]
  /\ queue \in Seq([session : Sessions, locks : Requests])
  /\ waits \in [Sessions -> Sessions \cup {Nobody}]
  /\ pc \in [Sessions -> ControlPoints]
  /\ request \in [Sessions -> Requests \cup {{}}]
  /\ blocker \in [Sessions -> Sessions \cup {Nobody}]
  /\ victim \in [Sessions -> Sessions]

\* What the locks are for: no index entry is reserved for two sessions, and
\* nobody holds a lock on an object that another session has locked for a
\* metadata change (the object itself, or the schema or database it is in).
\* Grants, releases, timeouts and KILLs of any number of sessions interleave.
MutualExclusion ==
  \A s \in Sessions, t \in Sessions : s # t =>
    \A l \in held[s], m \in held[t] :
      /\ SameObject(l, m) =>
           \A i \in Indexes, v \in Values : ~(Reserves(l, i, v) /\ Reserves(m, i, v))
      /\ l.kind.tag = "MetadataWrite" => ~Within(m, l)

\* Whatever is in the queue or in the wait-for map belongs to a session that is
\* inside acquire_mysql_locks (or on its way out of it), once: an entry left
\* behind by a deadlock, a timeout or a KILL would block others for good.
NoGhostWaiters ==
  /\ \A i, j \in 1..Len(queue) : queue[i].session = queue[j].session => i = j
  /\ \A i \in 1..Len(queue) :
       LET s == queue[i].session IN
       pc[s] \in Acquiring \/ (pc[s] = "unqueue" /\ victim[s] = s)
  /\ \A s \in Sessions : waits[s] # Nobody =>
       pc[s] \in Acquiring \/ (pc[s] \in {"unqueue", "unwait"} /\ victim[s] = s)

\* The wait-for map never has a circle in it: mysql_register_lock_wait takes
\* back every edge that would close one, however many sessions are in it, so
\* the walk of the next caller terminates without meeting an old circle.
WaitForMapIsAcyclic ==
  \A s \in Sessions : \A n \in 1..Cardinality(Sessions) : Chain(waits, s)[n] # s

\* FIFO: a session gets what it queued for only when no session that queued before
\* it, with at least its priority, still waits for a lock that conflicts with that; a
\* reader that arrives later never overtakes a waiting metadata write.  (What a
\* session holds from earlier statements may well be what those in front wait for.)
NoOvertaking ==
  [][\A s \in Sessions : pc[s] = "check" /\ pc'[s] = "run" =>
       \A i, j \in 1..Len(queue) :
         i < j /\ queue[j].session = s
           /\ Priority(queue[i].locks) >= Priority(queue[j].locks)
         => ~SetsConflict(queue[i].locks, queue[j].locks)]_vars

\* The queue, the wake-ups and the three mutexes are an implementation detail:
\* the lock table changes only as LockTable says, a whole request at a time,
\* compatible with every other session's locks at the moment it is granted.
Promise == INSTANCE LockTable WITH Owners <- Sessions, Conflicts <- LocksConflict

ImplementsLockTable == Promise!TableSpec

\* acquire_mysql_locks always returns, whatever the other sessions do.
EveryRequestEnds ==
  \A s \in Sessions : pc[s] \in Acquiring ~> pc[s] \notin Acquiring
=============================================================================
