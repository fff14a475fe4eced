------------------------------ MODULE LockTable -----------------------------
(***************************************************************************)
(* What the lock manager promises, without its queue, its wait-for map and *)
(* its wake-ups: a table of locks by owner, to which a request is added in *)
(* one step when it conflicts with nobody else's locks.                    *)
(*                                                                         *)
(* LockManager implements this specification (LockManager!Promise), and    *)
(* GatewaySession is built on it.                                          *)
(***************************************************************************)
CONSTANTS Owners,           \* the sessions
          Locks,            \* what can be locked
          Conflicts(_, _)   \* existing, requested

VARIABLE held

TableInit == held = [s \in Owners |-> {}]

Grantable(s, req) ==
  \A t \in Owners \ {s} : \A l \in held[t], m \in req : ~Conflicts(l, m)

Acquire(s, req) ==
  /\ Grantable(s, req)
  /\ held' = [held EXCEPT ![s] = @ \cup req]

\* At the end of a statement, a transaction or a session.
Release(s, dropped) == held' = [held EXCEPT ![s] = @ \ dropped]

TableNext ==
  \E s \in Owners :
    \/ \E req \in SUBSET Locks : Acquire(s, req)
    \/ \E dropped \in SUBSET held[s] : Release(s, dropped)

TableSpec == TableInit /\ [][TableNext]_held
=============================================================================
