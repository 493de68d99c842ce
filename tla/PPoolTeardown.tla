--------------------------- MODULE PPoolTeardown ----------------------------
(***************************************************************************)
(* ppool_destroy of components/ppool/src/ppool.c, called by the owner of a *)
(* pool whose workers of module PPool are still running.  The clients have *)
(* returned from ppool_add; tasks may be queued or running, and a task may *)
(* hold PPOOL_LOCK through the macros ppool_entry and ppool_leave.         *)
(*                                                                         *)
(* No worker waits for the owner, nor the owner for a worker: workers are  *)
(* detached and only cancelled, which takes effect when they next reach a  *)
(* cancellation point.                                                     *)
(***************************************************************************)
EXTENDS PPool

VARIABLES
  cancelled,   \* workers with a pending pthread_cancel
  stray,       \* an id that no pthread_create wrote was cancelled
  entered      \* tasks between ppool_entry and ppool_leave

teardownVars == <<cancelled, stray, entered>>

TeardownInit == Init /\ cancelled = {} /\ stray = FALSE /\ entered = {}

\* ppool_queue_destroy, without the lock.
DestroyQueue ==
  /\ phase = "ready"
  /\ \A c \in Clients : apc[c] = "idle"
  /\ phase' = "cancel"
  /\ step' = 1
  /\ live' = live \ {"queue"}
  /\ queue' = <<>>
  /\ UNCHANGED <<pool_max_num, ppool_errno, lock, workerVars, addVars, teardownVars>>

\* id[] comes from malloc: an entry whose pthread_create failed holds anything.
DestroyCancel ==
  /\ phase = "cancel"
  /\ step <= pool_max_num
  /\ IF wpc[step] # "none"
     THEN cancelled' = cancelled \union {step} /\ UNCHANGED stray
     ELSE UNCHANGED cancelled /\ stray' \in {stray, TRUE}
  /\ step' = step + 1
  /\ UNCHANGED <<phase, live, pool_max_num, ppool_errno, lock, queue, workerVars, addVars, entered>>

\* What is released at the end, in this order.
TeardownOrder == <<"id", "ppool_lock", "PPOOL_LOCK", "ppool_cond", "pool">>

DestroyCancelled ==
  /\ phase = "cancel"
  /\ step > pool_max_num
  /\ phase' = "release"
  /\ step' = 1
  /\ UNCHANGED <<live, pool_max_num, ppool_errno, lock, queue, workerVars, addVars, teardownVars>>

DestroyRelease ==
  /\ phase = "release"
  /\ step <= Len(TeardownOrder)
  /\ live' = live \ {TeardownOrder[step]}
  /\ step' = step + 1
  /\ UNCHANGED <<phase, pool_max_num, ppool_errno, lock, queue, workerVars, addVars, teardownVars>>

\* A cancelled worker stops at a cancellation point of its task, or leaves
\* pthread_cond_wait, which takes the lock again before the thread ends.
Cancel(w) ==
  /\ w \in cancelled
  /\ \/ wpc[w] = "running" /\ apc[w] = "idle" /\ wpc' = [wpc EXCEPT ![w] = "dead"] /\ UNCHANGED lock
     \/ wpc[w] = "wait" /\ wpc' = [wpc EXCEPT ![w] = "dying"] /\ UNCHANGED lock
     \/ wpc[w] = "dying" /\ lock = NULL /\ lock' = w /\ wpc' = [wpc EXCEPT ![w] = "dead"]
  /\ UNCHANGED <<initVars, ppool_errno, queue, wtask, runs, addVars, teardownVars>>

ppool_entry(w) ==
  /\ wpc[w] = "running" /\ apc[w] = "idle"
  /\ entered = {}
  /\ entered' = {w}
  /\ UNCHANGED <<vars, cancelled, stray>>

ppool_leave(w) ==
  /\ wpc[w] = "running"
  /\ w \in entered
  /\ entered' = {}
  /\ UNCHANGED <<vars, cancelled, stray>>

TeardownNext ==
  \/ Next /\ UNCHANGED teardownVars
  \/ DestroyQueue \/ DestroyCancel \/ DestroyCancelled \/ DestroyRelease
  \/ \E w \in Workers : Cancel(w) \/ ppool_entry(w) \/ ppool_leave(w)

TeardownSpec == TeardownInit /\ [][TeardownNext]_<<vars, teardownVars>>

\* A pool can be destroyed while its workers wait, run tasks or look for the
\* next one: none of them goes on to use what has been released, no thread
\* that is not a worker is cancelled, and PPOOL_LOCK is not destroyed under a
\* task that holds it.
DestroyIsSafe ==
  /\ \A w \in Workers :
       /\ wpc[w] = "check" => "queue" \in live
       /\ wpc[w] \in {"lock", "wait", "woken", "unlock", "dying"} =>
            {"pool", "ppool_lock"} \subseteq live
  /\ ~stray
  /\ entered # {} => "PPOOL_LOCK" \in live

=============================================================================
