------------------------------- MODULE Locks -------------------------------
(***************************************************************************)
(* tokio::sync::RwLock as the daemon uses it: a fair lock.  `read().await` *)
(* and `write().await` put a request at the end of one queue, and a        *)
(* request is granted once it is the first, or once it and everything in   *)
(* front of it are reads.  A reader therefore waits behind a writer that   *)
(* came first, even while other readers hold the lock.  A request stays in *)
(* the queue while its guard is alive and leaves it when that is dropped.  *)
(*                                                                         *)
(* The lock is external code; the daemon only calls read(), write() and    *)
(* drops guards (lact-daemon/src/server/handler.rs).                       *)
(***************************************************************************)
EXTENDS SequencesExt

\* A request of task t for the lock in the given mode, "r" or "w".
LockRequest(t, mode) == [task |-> t, mode |-> mode]
LockRequests(Task) == [task : Task, mode : {"r", "w"}]

\* t polls read().await or write().await for the first time.
Request(q, t, mode) == Append(q, LockRequest(t, mode))

\* The i-th request of the queue has its guard.
GrantedAt(q, i) == \/ i = 1
                   \/ \A j \in 1..i : q[j].mode = "r"

RequestsOf(q, t) == {i \in DOMAIN q : q[i].task = t}

\* t has asked for the lock, and every request it made is granted.
Holds(q, t) == /\ RequestsOf(q, t) # {}
               /\ \A i \in RequestsOf(q, t) : GrantedAt(q, i)

\* t drops a guard; one that is not there is no concern of the lock.
Release(q, t) ==
  IF RequestsOf(q, t) = {} THEN q
  ELSE RemoveAt(q, CHOOSE i \in RequestsOf(q, t) : TRUE)
=============================================================================
