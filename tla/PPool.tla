------------------------------- MODULE PPool -------------------------------
(***************************************************************************)
(* The pthread pool of components/ppool/src/ppool.c: ppool_init with every *)
(* allocation that may fail, the worker loop ppool_run, and ppool_add,     *)
(* called by client threads and from inside running tasks.                 *)
(*                                                                         *)
(* The linked list of ppool_queue.c is a sequence here (module TaskQueue); *)
(* module PPoolQueue models its pointers and implements the sequence.      *)
(* ppool_destroy is not part of this module.                               *)
(***************************************************************************)
EXTENDS TaskQueue, FiniteSets

CONSTANTS
  MaxWorkers,    \* worker slots: bound on an accepted pool_max_num
  Clients,       \* threads of the application that call ppool_add
  PoolSizes,     \* arguments pool_max_num of ppool_init (may be <= 0)
  Priorities,    \* arguments task->priority of ppool_add (may be < 0)
  MaxAdds,       \* bound on the number of accepted ppool_add calls
  NULL           \* no thread, no node

Workers == 1..MaxWorkers
Threads == Workers \union Clients

ASSUME ConstantsAssumption ==
  /\ MaxWorkers \in Nat
  /\ MaxAdds \in Nat
  /\ PoolSizes \subseteq {n \in Int : n <= MaxWorkers}
  /\ Priorities \subseteq Int
  /\ Clients \intersect Workers = {}

\* NULL is neither a thread nor a node of the queue.
ASSUME NullAssumption ==
  /\ NULL \notin Threads
  /\ NULL \notin [priority : Nat, ticket : Nat]

VARIABLES
  phase,         \* the owner's progress through ppool_init
  step,          \* next resource to allocate, or next worker to create
  live,          \* resources of the pool that are allocated
  pool_max_num,  \* argument of the ppool_init call
  ppool_errno,   \* the global error code
  lock,          \* holder of pool->ppool_lock
  queue,         \* pool->queue, first task to serve first
  wpc,           \* program counter of each worker in ppool_run
  wtask,         \* local variable task of each worker
  apc,           \* program counter of each thread in ppool_add
  aprio,         \* priority of the node each thread is about to add
  runs           \* history: how often the k-th task added to the queue was started

\* The number of tasks added so far.
accepted == Len(runs)

initVars == <<phase, step, live, pool_max_num>>
workerVars == <<wpc, wtask, runs>>
addVars == <<apc, aprio>>
vars == <<initVars, ppool_errno, lock, queue, workerVars, addVars>>

-----------------------------------------------------------------------------
(* A node of the queue.  Its ticket is its position in the order of all    *)
(* insertions; the code does not store it.                                 *)

Node == [priority : Nat, ticket : Nat]

-----------------------------------------------------------------------------
(* ppool_init.                                                             *)

\* The order in which ppool_init acquires what the pool is made of.
ResourceOrder == <<"pool", "queue", "id", "ppool_lock", "PPOOL_LOCK", "ppool_cond">>
Resources == {ResourceOrder[i] : i \in 1..6}

\* The error code left by a failure of each acquisition.
FailErrno == <<"PE_POOL_NO_MEM", "PE_QUEUE_NO_MEM", "PE_THREAD_NO_MEM",
               "PE_THREAD_MUTEX_ERROR", "PE_THREAD_MUTEX_ERROR",
               "PE_THREAD_COND_ERROR">>

\* Mutant: the failure of the third allocation forgets the queue.
BugFailFreesLeaksQueue == <<{}, {"pool"}, {"pool"},
                            {"id", "queue", "pool"},
                            {"id", "queue", "ppool_lock", "pool"},
                            {"id", "queue", "ppool_lock", "PPOOL_LOCK", "pool"}>>

\* What the error path of each acquisition releases before it returns NULL.
FailFrees == <<{},
               {"pool"},
               {"queue", "pool"},
               {"id", "queue", "pool"},
               {"id", "queue", "ppool_lock", "pool"},
               {"id", "queue", "ppool_lock", "PPOOL_LOCK", "pool"}>>

Errnos == {"PE_OK", "PE_PRIORITY_ERROR", "PE_QUEUE_NODE_NO_MEM"}
             \union {FailErrno[i] : i \in 1..6}

Init ==
  /\ phase = "null"
  /\ step = 1
  /\ live = {}
  /\ pool_max_num = 0
  /\ ppool_errno = "PE_OK"
  /\ lock = NULL
  /\ queue = <<>>
  /\ wpc = [w \in Workers |-> "none"]
  /\ wtask = [w \in Workers |-> NULL]
  /\ apc = [t \in Threads |-> "idle"]
  /\ aprio = [t \in Threads |-> 0]
  /\ runs = <<>>

InitReject(n) ==
  /\ phase = "null"
  /\ n <= 0
  /\ ppool_errno' = "PE_PRIORITY_ERROR"
  /\ UNCHANGED <<initVars, lock, queue, workerVars, addVars>>

InitCall(n) ==
  /\ phase = "null"
  /\ n > 0
  /\ phase' = "alloc"
  /\ step' = 1
  /\ pool_max_num' = n
  /\ UNCHANGED <<live, ppool_errno, lock, queue, workerVars, addVars>>

InitAlloc ==
  /\ phase = "alloc"
  /\ live' = live \union {ResourceOrder[step]}
  /\ IF step < 6 THEN phase' = "alloc" /\ step' = step + 1
                 ELSE phase' = "create" /\ step' = 1
  /\ UNCHANGED <<pool_max_num, ppool_errno, lock, queue, workerVars, addVars>>

InitFail ==
  /\ phase = "alloc"
  /\ live' = live \ FailFrees[step]
  /\ ppool_errno' = FailErrno[step]
  /\ phase' = "null"
  /\ step' = 1
  /\ UNCHANGED <<pool_max_num, lock, queue, workerVars, addVars>>

\* One iteration of the creation loop.  A worker runs as soon as it exists;
\* a failed pthread_create is skipped and not reported.
InitCreate(created) ==
  /\ phase = "create"
  /\ step <= pool_max_num
  /\ wpc' = IF created THEN [wpc EXCEPT ![step] = "lock"] ELSE wpc
  /\ step' = step + 1
  /\ UNCHANGED <<phase, live, pool_max_num, ppool_errno, lock, queue, wtask, runs,
                 addVars>>

InitReturn ==
  /\ phase = "create"
  /\ step > pool_max_num
  /\ phase' = "ready"
  /\ UNCHANGED <<step, live, pool_max_num, ppool_errno, lock, queue, workerVars,
                 addVars>>

-----------------------------------------------------------------------------
(* ppool_run, the loop of worker w.                                        *)

\* Mutant: a woken worker goes on without waiting for the lock.
BugLockFree(w) == lock = NULL \/ wpc[w] = "woken"

\* pthread_mutex_lock, and the end of pthread_cond_wait, wait for the lock.
LockFree(w) == lock = NULL

WLock(w) ==
  /\ wpc[w] \in {"lock", "woken"}
  /\ LockFree(w)
  /\ lock' = w
  /\ wpc' = [wpc EXCEPT ![w] = "check"]
  /\ UNCHANGED <<initVars, ppool_errno, queue, wtask, runs, addVars>>

WWait(w) ==
  /\ wpc[w] = "check"
  /\ queue = <<>>
  /\ lock' = NULL                        \* pthread_cond_wait releases the lock
  /\ wpc' = [wpc EXCEPT ![w] = "wait"]
  /\ UNCHANGED <<initVars, ppool_errno, queue, wtask, runs, addVars>>

\* POSIX lets pthread_cond_wait return without a signal.
WSpurious(w) ==
  /\ wpc[w] = "wait"
  /\ wpc' = [wpc EXCEPT ![w] = "woken"]
  /\ UNCHANGED <<initVars, ppool_errno, lock, queue, wtask, runs, addVars>>

WGetTask(w) ==
  /\ wpc[w] = "check"
  /\ queue # <<>>
  /\ wtask' = [wtask EXCEPT ![w] = Head(queue)]
  /\ queue' = RemoveHead(queue)
  /\ wpc' = [wpc EXCEPT ![w] = "unlock"]
  /\ UNCHANGED <<initVars, ppool_errno, lock, runs, addVars>>

WUnlock(w) ==
  /\ wpc[w] = "unlock"
  /\ lock' = NULL
  /\ wpc' = [wpc EXCEPT ![w] = "run"]
  /\ UNCHANGED <<initVars, ppool_errno, queue, wtask, runs, addVars>>

WRun(w) ==
  /\ wpc[w] = "run"
  /\ runs' = [runs EXCEPT ![wtask[w].ticket] = @ + 1]
  /\ wpc' = [wpc EXCEPT ![w] = "running"]
  /\ UNCHANGED <<initVars, ppool_errno, lock, queue, wtask, addVars>>

\* The entry returns and the node is freed; a task inside ppool_add has not returned.
WFinish(w) ==
  /\ wpc[w] = "running"
  /\ apc[w] = "idle"
  /\ wtask' = [wtask EXCEPT ![w] = NULL]
  /\ wpc' = [wpc EXCEPT ![w] = "lock"]
  /\ UNCHANGED <<initVars, ppool_errno, lock, queue, runs, addVars>>

Worker(w) ==
  \/ WLock(w) \/ WWait(w) \/ WGetTask(w) \/ WUnlock(w) \/ WRun(w) \/ WFinish(w)

-----------------------------------------------------------------------------
(* ppool_add, called by thread t: a client once it has the pool, or a      *)
(* worker from inside the task it runs.                                    *)

MayCall(t) ==
  /\ apc[t] = "idle"
  /\ IF t \in Workers THEN wpc[t] = "running" ELSE phase = "ready"

\* Mutant: negative priorities are accepted.
BugValidPriority(p) == TRUE

ValidPriority(p) == p >= 0

\* ppool_queue_new refuses a negative priority, or has no memory.
AddReject(t, p) ==
  /\ MayCall(t)
  /\ ppool_errno' = IF ValidPriority(p) THEN "PE_QUEUE_NODE_NO_MEM"
                                         ELSE "PE_PRIORITY_ERROR"
  /\ UNCHANGED <<initVars, lock, queue, workerVars, addVars>>

AddNew(t, p) ==
  /\ MayCall(t)
  /\ ValidPriority(p)
  /\ Cardinality({u \in Threads : apc[u] \in {"lock", "insert"}}) + accepted < MaxAdds
  /\ apc' = [apc EXCEPT ![t] = "lock"]
  /\ aprio' = [aprio EXCEPT ![t] = p]
  /\ UNCHANGED <<initVars, ppool_errno, lock, queue, workerVars>>

AddLock(t) ==
  /\ apc[t] = "lock"
  /\ lock = NULL
  /\ lock' = t
  /\ apc' = [apc EXCEPT ![t] = "insert"]
  /\ UNCHANGED <<initVars, ppool_errno, queue, workerVars, aprio>>

AddInsert(t) ==
  /\ apc[t] = "insert"
  /\ runs' = Append(runs, 0)
  /\ queue' = InsertNode(queue, [priority |-> aprio[t], ticket |-> accepted + 1])
  /\ apc' = [apc EXCEPT ![t] = "broadcast"]
  /\ UNCHANGED <<initVars, ppool_errno, lock, wpc, wtask, aprio>>

Waiting == {w \in Workers : wpc[w] = "wait"}

\* Mutant: pthread_cond_signal of one waiter instead of a broadcast.
BugWokenOne == IF Waiting = {} THEN {} ELSE {CHOOSE w \in Waiting : TRUE}

\* Mutant: nobody is woken.
BugWokenNone == {}

\* pthread_cond_broadcast wakes every waiter.
Woken == Waiting

AddBroadcast(t) ==
  /\ apc[t] = "broadcast"
  /\ wpc' = [w \in Workers |-> IF w \in Woken THEN "woken" ELSE wpc[w]]
  /\ apc' = [apc EXCEPT ![t] = "unlock"]
  /\ UNCHANGED <<initVars, ppool_errno, lock, queue, wtask, runs, aprio>>

AddUnlock(t) ==
  /\ apc[t] = "unlock"
  /\ lock' = NULL
  /\ apc' = [apc EXCEPT ![t] = "idle"]
  /\ aprio' = [aprio EXCEPT ![t] = 0]
  /\ UNCHANGED <<initVars, ppool_errno, queue, workerVars>>

Adder(t) == AddLock(t) \/ AddInsert(t) \/ AddBroadcast(t) \/ AddUnlock(t)

-----------------------------------------------------------------------------

Next ==
  \/ \E n \in PoolSizes : InitReject(n) \/ InitCall(n)
  \/ InitAlloc
  \/ InitFail
  \/ \E created \in BOOLEAN : InitCreate(created)
  \/ InitReturn
  \/ \E w \in Workers : Worker(w) \/ WSpurious(w)
  \/ \E t \in Threads, p \in Priorities : AddReject(t, p) \/ AddNew(t, p)
  \/ \E t \in Threads : Adder(t)

Spec == Init /\ [][Next]_vars

\* Threads are scheduled and tasks return; nobody is obliged to call the API,
\* to wake up spuriously or to win a contended mutex.
Fairness ==
  /\ \A w \in Workers : WF_vars(Worker(w))
  /\ \A t \in Threads : WF_vars(Adder(t))

FairSpec == Spec /\ Fairness

-----------------------------------------------------------------------------

\* Every variable has a value of its type.
TypeOK ==
  /\ phase \in {"null", "alloc", "create", "ready"}
  /\ step \in 1..(MaxWorkers + 7)
  /\ phase = "alloc" => step <= 6
  /\ live \subseteq Resources
  /\ pool_max_num \in 0..MaxWorkers
  /\ ppool_errno \in Errnos
  /\ lock \in Threads \union {NULL}
  /\ queue \in Seq(Node)
  /\ wpc \in [Workers -> {"none", "lock", "check", "wait", "woken", "unlock",
                          "run", "running"}]
  /\ wtask \in [Workers -> Node \union {NULL}]
  /\ apc \in [Threads -> {"idle", "lock", "insert", "broadcast", "unlock"}]
  /\ aprio \in [Threads -> Nat]
  /\ runs \in Seq(Nat)

\* ppool_init returns NULL only after its error path has released everything
\* acquired before the failure; a pool in use has all its parts.
NoInitLeak ==
  /\ phase = "null" => live = {}
  /\ phase \in {"create", "ready"} => live = Resources

WorkerLocked(w) == wpc[w] \in {"check", "unlock"}
AdderLocked(t) == apc[t] \in {"insert", "broadcast", "unlock"}

\* ppool_lock protects the queue: a thread is between its lock and unlock in
\* ppool_run or ppool_add exactly when it holds the lock, so at most one is.
LockedByHolder ==
  /\ \A w \in Workers : WorkerLocked(w) => lock = w
  /\ \A t \in Threads : AdderLocked(t) => lock = t
  /\ \A t \in Threads : lock = t => AdderLocked(t) \/ (t \in Workers /\ WorkerLocked(t))

\* No wake-up of ppool_cond is lost: while a task is queued, and the thread
\* that queued it is past its broadcast, no worker sleeps in pthread_cond_wait.
NoLostWakeup ==
  (queue # <<>> /\ \A t \in Threads : apc[t] # "broadcast")
     => \A w \in Workers : wpc[w] # "wait"

\* ppool_queue_add keeps the queue in serving order: smaller priority number
\* first, order of insertion among equal numbers.
QueueOrdered ==
  \A i, j \in 1..Len(queue) :
    i < j => \/ queue[i].priority < queue[j].priority
             \/ /\ queue[i].priority = queue[j].priority
                /\ queue[i].ticket < queue[j].ticket

QueueNodes == {queue[i] : i \in 1..Len(queue)}
HeldBy(w) == wpc[w] \in {"unlock", "run"}

Queued(k) == \E i \in 1..Len(queue) : queue[i].ticket = k
Held(k) == \E w \in Workers : HeldBy(w) /\ wtask[w].ticket = k

\* Every accepted task is queued, or held by the one worker that will call its
\* entry, or has been started once; nothing is lost, duplicated or run twice.
Accounted ==
  /\ \A i, j \in 1..Len(queue) : queue[i].ticket = queue[j].ticket => i = j
  /\ \A v, w \in Workers :
       HeldBy(v) /\ HeldBy(w) /\ wtask[v].ticket = wtask[w].ticket => v = w
  /\ \A i \in 1..Len(queue) : queue[i].ticket \in 1..accepted /\ ~Held(queue[i].ticket)
  /\ \A w \in Workers : HeldBy(w) => wtask[w] \in Node /\ wtask[w].ticket \in 1..accepted
  /\ \A k \in 1..accepted : runs[k] = IF Queued(k) \/ Held(k) THEN 0 ELSE 1

\* No worker exists before the creation loop has reached its slot.
Startup ==
  /\ phase \in {"null", "alloc"} => \A w \in Workers : wpc[w] = "none"
  /\ phase = "create" => \A w \in Workers : w >= step => wpc[w] = "none"

\* A worker calls ppool_add from inside a task only.
CallsFromTasks ==
  \A w \in Workers : apc[w] # "idle" => wpc[w] = "running"

\* A node about to be added carries a priority its caller gave.
PendingAdds ==
  \A t \in Threads : apc[t] \in {"lock", "insert"} => aprio[t] \in Priorities

\* Allocation follows ResourceOrder.
InitProgress ==
  phase = "alloc" => live = {ResourceOrder[i] : i \in 1..(step - 1)}

\* The inductive invariant: the safety properties above are preserved together
\* with the facts about start-up and about the calls of ppool_add under way.
PoolInvariant ==
  /\ TypeOK
  /\ Startup
  /\ CallsFromTasks
  /\ PendingAdds
  /\ InitProgress
  /\ NoInitLeak
  /\ LockedByHolder
  /\ NoLostWakeup
  /\ QueueOrdered
  /\ Accounted

\* Once the pool has a worker, every accepted task is started, whatever its
\* priority and however adds, wake-ups and workers interleave.
EveryTaskRuns ==
  \A k \in 1..MaxAdds :
    (k <= accepted /\ \E w \in Workers : wpc[w] # "none")
      ~> (k <= accepted /\ runs[k] > 0)

-----------------------------------------------------------------------------
(* The pool implements the abstract dispatcher.                            *)

AssignedNodes == {wtask[w] : w \in {v \in Workers : HeldBy(v)}}
StartedTickets == {k \in 1..accepted : runs[k] > 0}

PD == INSTANCE PriorityDispatch WITH
        pending <- QueueNodes,
        assigned <- AssignedNodes,
        executed <- StartedTickets

\* Whatever the threads do, tasks are accepted, handed out in serving order and
\* executed once, as module PriorityDispatch says.
DispatchesByPriority == PD!Spec

=============================================================================
