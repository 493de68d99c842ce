---------------------------- MODULE PPoolProofs ----------------------------
(***************************************************************************)
(* Proofs about the thread pool for any number of workers, clients and     *)
(* tasks: type correctness, the lock discipline, that no wake-up is lost,  *)
(* that the queue stays in serving order, and that every accepted task is  *)
(* accounted for.                                                          *)
(***************************************************************************)
EXTENDS PPool, SequenceTheorems, WellFoundedInduction, TLAPS

-----------------------------------------------------------------------------
(* The queue operators.                                                    *)

\* The insertion position of ppool_queue_get_insert_pos exists.
LEMMA InsertPosExists ==
  ASSUME NEW q \in Seq(Node), NEW p \in Int
  PROVE  /\ InsertPos(q, p) \in 0..Len(q)
         /\ \A i \in 1..InsertPos(q, p) : q[i].priority <= p
         /\ InsertPos(q, p) < Len(q) => q[InsertPos(q, p) + 1].priority > p
<1> DEFINE T == {k \in 0..Len(q) : k < Len(q) => q[k + 1].priority > p}
<1>0. Len(q) \in Nat /\ \A i \in 1..Len(q) : q[i] \in Node /\ q[i].priority \in Int
  <2>1. Len(q) \in Nat /\ \A i \in 1..Len(q) : q[i] \in Node
    BY LenProperties, ElementOfSeq
  <2>2. \A n \in Node : n.priority \in Int
    BY DEF Node
  <2> QED BY <2>1, <2>2
<1>1. T \subseteq Nat /\ Len(q) \in T
  BY <1>0
<1>2. PICK k \in T : \A j \in T : ~(<<j, k>> \in OpToRel(<, Nat))
  BY <1>1, NatLessThanWellFounded, WFMin
<1>3. \A j \in 0..(k - 1) : j \notin T
  <2> SUFFICES ASSUME NEW j \in 0..(k - 1), j \in T PROVE FALSE
    OBVIOUS
  <2>1. j \in Nat /\ k \in Nat /\ j < k
    BY <1>0
  <2>2. <<j, k>> \in OpToRel(<, Nat)
    BY <2>1 DEF OpToRel
  <2> QED BY <2>2, <1>2
<1>4. \A i \in 1..k : q[i].priority <= p
  <2> SUFFICES ASSUME NEW i \in 1..k PROVE q[i].priority <= p
    OBVIOUS
  <2>1. i - 1 \in 0..(k - 1) /\ i - 1 \in 0..Len(q) /\ (i - 1) + 1 = i /\ i \in 1..Len(q)
    BY <1>0
  <2>2. i - 1 \notin T
    BY <2>1, <1>3
  <2>3. ~(q[(i - 1) + 1].priority > p)
    BY <2>1, <2>2
  <2> QED BY <2>1, <2>3, <1>0
<1>5. k \in 0..Len(q) /\ (k < Len(q) => q[k + 1].priority > p)
  OBVIOUS
<1> HIDE DEF T
<1> QED BY <1>4, <1>5 DEF InsertPos

\* What ppool_queue_add makes of a queue: the nodes before and after the
\* insertion position, and the new node between them.
LEMMA InsertNodeFacts ==
  ASSUME NEW q \in Seq(Node), NEW n \in Node
  PROVE  LET k == InsertPos(q, n.priority)
             r == InsertNode(q, n)
         IN  /\ r \in Seq(Node)
             /\ Len(r) = Len(q) + 1
             /\ \A i \in 1..k : r[i] = q[i]
             /\ r[k + 1] = n
             /\ \A i \in (k + 2)..(Len(q) + 1) : r[i] = q[i - 1]
<1> DEFINE k == InsertPos(q, n.priority)
           r == InsertNode(q, n)
<1>1. k \in 0..Len(q)
  BY InsertPosExists DEF Node
<1>2. Len(q) \in Nat /\ \A i \in 1..Len(q) : q[i] \in Node
  BY LenProperties, ElementOfSeq
<1>3. r = [i \in 1..(Len(q) + 1) |-> IF i <= k THEN q[i]
                                     ELSE IF i = k + 1 THEN n
                                     ELSE q[i - 1]]
  BY DEF InsertNode
<1> HIDE DEF k, r
<1>4. \A i \in 1..(Len(q) + 1) : r[i] \in Node
  <2> SUFFICES ASSUME NEW i \in 1..(Len(q) + 1) PROVE r[i] \in Node
    OBVIOUS
  <2>1. CASE i <= k
    BY <2>1, <1>1, <1>2, <1>3
  <2>2. CASE i = k + 1
    BY <2>2, <1>1, <1>2, <1>3
  <2>3. CASE i > k + 1
    <3>1. i - 1 \in 1..Len(q)
      BY <2>3, <1>1, <1>2
    <3> QED BY <3>1, <2>3, <1>1, <1>2, <1>3
  <2> QED BY <2>1, <2>2, <2>3, <1>1, <1>2
<1>5. r \in Seq(Node) /\ Len(r) = Len(q) + 1
  <2>1. r \in [1..(Len(q) + 1) -> Node]
    BY <1>3, <1>4
  <2> QED BY <2>1, <1>2
<1>6. /\ \A i \in 1..k : r[i] = q[i]
      /\ r[k + 1] = n
      /\ \A i \in (k + 2)..(Len(q) + 1) : r[i] = q[i - 1]
  BY <1>1, <1>2, <1>3
<1> QED BY <1>5, <1>6 DEF k, r

-----------------------------------------------------------------------------
(* Type correctness.                                                       *)

\* The initial state of the pool satisfies the inductive invariant.
LEMMA InitInvariant == Init => PoolInvariant
<1> SUFFICES ASSUME Init PROVE PoolInvariant
  OBVIOUS
<1> USE ConstantsAssumption, NullAssumption DEF Init
<1>1. TypeOK
  BY DEF TypeOK, Errnos, Resources
<1>2. Startup /\ CallsFromTasks /\ InitProgress /\ NoInitLeak
  BY DEF Startup, CallsFromTasks, InitProgress, NoInitLeak, Threads
<1>6. PendingAdds
  BY DEF PendingAdds
<1>3. LockedByHolder /\ NoLostWakeup
  BY DEF LockedByHolder, NoLostWakeup, WorkerLocked, AdderLocked
<1>4. QueueOrdered
  BY DEF QueueOrdered
<1>5. Accounted
  BY DEF Accounted, Queued, Held, HeldBy, accepted
<1> QED BY <1>1, <1>2, <1>3, <1>4, <1>5, <1>6 DEF PoolInvariant

\* No step of a thread leads out of the types.
LEMMA TypeStep == PoolInvariant /\ [Next]_vars => TypeOK'
<1> SUFFICES ASSUME PoolInvariant, [Next]_vars PROVE TypeOK'
  OBVIOUS
<1>0. TypeOK
  BY DEF PoolInvariant
<1> USE <1>0, ConstantsAssumption, NullAssumption
<1>1. ASSUME NEW n \in PoolSizes, InitReject(n) PROVE TypeOK'
  BY <1>1 DEF InitReject, TypeOK, initVars, workerVars, addVars, Errnos
<1>2. ASSUME NEW n \in PoolSizes, InitCall(n) PROVE TypeOK'
  BY <1>2 DEF InitCall, TypeOK, workerVars, addVars
<1>3. CASE InitAlloc
  <2>0. phase = "alloc"
    BY <1>3 DEF InitAlloc
  <2>1. step \in 1..6
    BY <2>0 DEF TypeOK
  <2>2. ResourceOrder[step] \in Resources
    BY <2>1 DEF Resources
  <2>3. live' \subseteq Resources
    BY <1>3, <2>2 DEF InitAlloc, TypeOK
  <2> QED BY <1>3, <2>1, <2>3 DEF InitAlloc, TypeOK, workerVars, addVars
<1>4. CASE InitFail
  <2>1. step \in 1..6
    BY <1>4, SMTT(30) DEF InitFail, TypeOK
  <2>2. ppool_errno' \in Errnos
    BY <1>4, <2>1 DEF InitFail, Errnos
  <2>3. live' \subseteq Resources
    BY <1>4 DEF InitFail, TypeOK
  <2> QED BY <1>4, <2>2, <2>3 DEF InitFail, TypeOK, workerVars, addVars
<1>5. ASSUME NEW created \in BOOLEAN, InitCreate(created) PROVE TypeOK'
  <2>1. step \in Workers
    BY <1>5 DEF InitCreate, TypeOK, Workers
  <2>2. wpc' \in [Workers -> {"none", "lock", "check", "wait", "woken", "unlock",
                              "run", "running"}]
    BY <1>5, <2>1 DEF InitCreate, TypeOK
  <2>3. step' \in 1..(MaxWorkers + 7)
    BY <1>5 DEF InitCreate, TypeOK
  <2> QED BY <1>5, <2>2, <2>3 DEF InitCreate, TypeOK, addVars
<1>6. CASE InitReturn
  BY <1>6 DEF InitReturn, TypeOK, workerVars, addVars
<1>7. ASSUME NEW w \in Workers, WLock(w) \/ WWait(w) \/ WSpurious(w) \/ WUnlock(w) \/ WFinish(w)
      PROVE  TypeOK'
  BY <1>7 DEF WLock, LockFree, WWait, WSpurious, WUnlock, WFinish, TypeOK, initVars, addVars, Threads
<1>8. ASSUME NEW w \in Workers, WGetTask(w) PROVE TypeOK'
  <2>1. Head(queue) \in Node /\ Tail(queue) \in Seq(Node)
    BY <1>8, HeadTailProperties DEF WGetTask, RemoveHead, TypeOK
  <2> QED BY <1>8, <2>1 DEF WGetTask, RemoveHead, TypeOK, initVars, addVars
<1>9. ASSUME NEW w \in Workers, WRun(w) PROVE TypeOK'
  <2>1. wtask[w].ticket \in 1..Len(runs)
    BY <1>9 DEF PoolInvariant, Accounted, HeldBy, WRun, accepted
  <2>2. runs[wtask[w].ticket] + 1 \in Nat
    BY <2>1, ElementOfSeq, SMTT(30) DEF TypeOK
  <2>3. runs' \in Seq(Nat)
    BY <1>9, <2>1, <2>2, ExceptSeq DEF WRun, TypeOK
  <2> QED BY <1>9, <2>3 DEF WRun, TypeOK, initVars, addVars
<1>10. ASSUME NEW t \in Threads, NEW p \in Priorities, AddReject(t, p) \/ AddNew(t, p)
       PROVE  TypeOK'
  <2>1. CASE AddReject(t, p)
    BY <2>1 DEF AddReject, ValidPriority, TypeOK, initVars, workerVars, addVars, Errnos
  <2>2. CASE AddNew(t, p)
    <3>1. p \in Nat
      BY <2>2 DEF AddNew, ValidPriority
    <3> QED BY <2>2, <3>1 DEF AddNew, TypeOK, initVars, workerVars
  <2> QED BY <1>10, <2>1, <2>2
<1>11. ASSUME NEW t \in Threads, AddLock(t) \/ AddBroadcast(t) \/ AddUnlock(t) PROVE TypeOK'
  <2>1. CASE AddLock(t)
    BY <2>1 DEF AddLock, TypeOK, initVars, workerVars
  <2>2. CASE AddBroadcast(t)
    BY <2>2 DEF AddBroadcast, Woken, Waiting, TypeOK, initVars
  <2>3. CASE AddUnlock(t)
    BY <2>3 DEF AddUnlock, TypeOK, initVars, workerVars
  <2> QED BY <1>11, <2>1, <2>2, <2>3
<1>12. ASSUME NEW t \in Threads, AddInsert(t) PROVE TypeOK'
  <2>1. [priority |-> aprio[t], ticket |-> accepted + 1] \in Node
    BY LenProperties DEF TypeOK, Node, accepted
  <2>2. queue' \in Seq(Node)
    BY <1>12, <2>1, InsertNodeFacts DEF AddInsert, TypeOK
  <2>3. runs' \in Seq(Nat)
    BY <1>12 DEF AddInsert, TypeOK
  <2> QED BY <1>12, <2>2, <2>3 DEF AddInsert, TypeOK, initVars
<1>13. CASE UNCHANGED vars
  BY <1>13 DEF vars, initVars, workerVars, addVars, TypeOK
<1> QED
  BY <1>1, <1>2, <1>3, <1>4, <1>5, <1>6, <1>7, <1>8, <1>9, <1>10, <1>11, <1>12, <1>13
  DEF Next, Worker, Adder

-----------------------------------------------------------------------------
(* Start-up.                                                               *)

\* Workers appear one by one, and only they call ppool_add from a task.
LEMMA StartupStep ==
  PoolInvariant /\ [Next]_vars => Startup' /\ CallsFromTasks'
<1> SUFFICES ASSUME PoolInvariant, [Next]_vars PROVE Startup' /\ CallsFromTasks'
  OBVIOUS
<1>0. TypeOK /\ Startup /\ CallsFromTasks
  BY DEF PoolInvariant
<1> USE <1>0, ConstantsAssumption DEF TypeOK, Startup, CallsFromTasks, Threads
<1>1. ASSUME NEW n \in PoolSizes, InitReject(n) \/ InitCall(n) PROVE Startup' /\ CallsFromTasks'
  BY <1>1 DEF InitReject, InitCall, initVars, workerVars, addVars
<1>2. CASE InitAlloc \/ InitFail \/ InitReturn
  <2>1. CASE InitAlloc
    BY <2>1 DEF InitAlloc, workerVars, addVars
  <2>2. CASE InitFail
    BY <2>2 DEF InitFail, workerVars, addVars
  <2>3. CASE InitReturn
    BY <2>3 DEF InitReturn, workerVars, addVars
  <2> QED BY <1>2, <2>1, <2>2, <2>3
<1>3. ASSUME NEW created \in BOOLEAN, InitCreate(created) PROVE Startup' /\ CallsFromTasks'
  <2>1. step \in Workers /\ wpc[step] = "none" /\ apc[step] = "idle"
    BY <1>3 DEF InitCreate, Workers
  <2> QED BY <1>3, <2>1 DEF InitCreate, addVars, Workers
<1>4. ASSUME NEW w \in Workers, Worker(w) \/ WSpurious(w) PROVE Startup' /\ CallsFromTasks'
  <2>1. wpc[w] # "none" /\ phase' = phase /\ step' = step /\ apc' = apc
    BY <1>4 DEF Worker, WLock, LockFree, WWait, WSpurious, WGetTask, RemoveHead, WUnlock, WRun, WFinish,
                initVars, addVars
  <2>2. \A v \in Workers \ {w} : wpc'[v] = wpc[v]
    BY <1>4 DEF Worker, WLock, LockFree, WWait, WSpurious, WGetTask, RemoveHead, WUnlock, WRun, WFinish
  <2>3. apc[w] # "idle" => FALSE
    BY <1>4 DEF Worker, WLock, LockFree, WWait, WSpurious, WGetTask, RemoveHead, WUnlock, WRun, WFinish
  <2> QED BY <2>1, <2>2, <2>3 DEF Workers
<1>5. ASSUME NEW t \in Threads, NEW p \in Priorities, AddReject(t, p) \/ AddNew(t, p)
      PROVE  Startup' /\ CallsFromTasks'
  BY <1>5 DEF AddReject, AddNew, ValidPriority, MayCall, initVars, workerVars, addVars
<1>6. ASSUME NEW t \in Threads, Adder(t) PROVE Startup' /\ CallsFromTasks'
  <2>1. CASE AddLock(t) \/ AddInsert(t) \/ AddUnlock(t)
    BY <2>1 DEF AddLock, AddInsert, AddUnlock, initVars, workerVars
  <2>2. CASE AddBroadcast(t)
    BY <2>2 DEF AddBroadcast, Woken, Waiting, initVars
  <2> QED BY <1>6, <2>1, <2>2 DEF Adder
<1>7. CASE UNCHANGED vars
  BY <1>7 DEF vars, initVars, workerVars, addVars
<1> QED BY <1>1, <1>2, <1>3, <1>4, <1>5, <1>6, <1>7 DEF Next

\* ppool_queue_new stores the caller's priority and nobody changes it.
LEMMA PendingStep == PoolInvariant /\ [Next]_vars => PendingAdds'
<1> SUFFICES ASSUME PoolInvariant, [Next]_vars PROVE PendingAdds'
  OBVIOUS
<1>0. TypeOK /\ PendingAdds
  BY DEF PoolInvariant
<1> USE <1>0 DEF TypeOK, PendingAdds
<1>1. CASE UNCHANGED addVars
  BY <1>1 DEF addVars
<1>2. ASSUME NEW n \in PoolSizes, InitReject(n) \/ InitCall(n) PROVE UNCHANGED addVars
  BY <1>2 DEF InitReject, InitCall
<1>3. ASSUME NEW created \in BOOLEAN,
             InitAlloc \/ InitFail \/ InitReturn \/ InitCreate(created)
      PROVE  UNCHANGED addVars
  BY <1>3 DEF InitAlloc, InitFail, InitReturn, InitCreate
<1>4. ASSUME NEW w \in Workers, Worker(w) \/ WSpurious(w) PROVE UNCHANGED addVars
  BY <1>4 DEF Worker, WLock, LockFree, WWait, WSpurious, WGetTask, RemoveHead, WUnlock, WRun, WFinish
<1>5. ASSUME NEW t \in Threads, NEW p \in Priorities, AddReject(t, p) \/ AddNew(t, p)
      PROVE  PendingAdds'
  BY <1>5 DEF AddReject, AddNew, ValidPriority, addVars
<1>6. ASSUME NEW t \in Threads, Adder(t) PROVE PendingAdds'
  BY <1>6 DEF Adder, AddLock, AddInsert, AddBroadcast, Woken, Waiting, AddUnlock
<1>7. CASE UNCHANGED vars
  BY <1>7, <1>1 DEF vars
<1> QED BY <1>1, <1>2, <1>3, <1>4, <1>5, <1>6, <1>7 DEF Next

\* The allocations of ppool_init and its error paths.
LEMMA InitLeakStep ==
  PoolInvariant /\ [Next]_vars => NoInitLeak' /\ InitProgress'
<1> SUFFICES ASSUME PoolInvariant, [Next]_vars PROVE NoInitLeak' /\ InitProgress'
  OBVIOUS
<1>0. TypeOK /\ NoInitLeak /\ InitProgress
  BY DEF PoolInvariant
<1> USE <1>0 DEF NoInitLeak, InitProgress
<1>1. CASE InitAlloc
  <2>1. step \in 1..6
    BY <1>1 DEF InitAlloc, TypeOK
  <2>2. live = {ResourceOrder[i] : i \in 1..(step - 1)}
    BY <1>1 DEF InitAlloc
  <2>3. live' = {ResourceOrder[i] : i \in 1..step}
    BY <1>1, <2>1, <2>2 DEF InitAlloc
  <2> QED BY <1>1, <2>1, <2>3 DEF InitAlloc, Resources
<1>2. CASE InitFail
  <2>1. step \in 1..6
    BY <1>2 DEF InitFail, TypeOK
  <2>2. live = {ResourceOrder[i] : i \in 1..(step - 1)}
    BY <1>2 DEF InitFail
  <2>3. \A i \in 1..(step - 1) : ResourceOrder[i] \in FailFrees[step]
    BY <2>1 DEF ResourceOrder, FailFrees
  <2> QED BY <1>2, <2>2, <2>3 DEF InitFail
<1>3. ASSUME NEW n \in PoolSizes, InitReject(n) \/ InitCall(n)
      PROVE  NoInitLeak' /\ InitProgress'
  BY <1>3 DEF InitReject, InitCall, initVars
<1>4. ASSUME NEW created \in BOOLEAN, InitCreate(created) \/ InitReturn
      PROVE  NoInitLeak' /\ InitProgress'
  BY <1>4 DEF InitCreate, InitReturn
<1>5. CASE UNCHANGED initVars
  BY <1>5 DEF initVars
<1>6. ASSUME NEW w \in Workers, Worker(w) \/ WSpurious(w) PROVE UNCHANGED initVars
  BY <1>6 DEF Worker, WLock, LockFree, WWait, WSpurious, WGetTask, RemoveHead, WUnlock, WRun, WFinish
<1>7. ASSUME NEW t \in Threads, NEW p \in Priorities, AddReject(t, p) \/ AddNew(t, p)
      PROVE  UNCHANGED initVars
  BY <1>7 DEF AddReject, AddNew
<1>8. ASSUME NEW t \in Threads, Adder(t) PROVE UNCHANGED initVars
  BY <1>8 DEF Adder, AddLock, AddInsert, AddBroadcast, Woken, Waiting, AddUnlock
<1>9. CASE UNCHANGED vars
  BY <1>9, <1>5 DEF vars
<1> QED BY <1>1, <1>2, <1>3, <1>4, <1>5, <1>6, <1>7, <1>8, <1>9 DEF Next

-----------------------------------------------------------------------------
(* The lock and the condition variable.                                    *)

\* The lock is taken when free and released by its holder.
LEMMA LockStep == PoolInvariant /\ [Next]_vars => LockedByHolder'
<1> SUFFICES ASSUME PoolInvariant, [Next]_vars PROVE LockedByHolder'
  OBVIOUS
<1>0. TypeOK /\ Startup /\ CallsFromTasks /\ LockedByHolder
  BY DEF PoolInvariant
<1> USE <1>0, ConstantsAssumption, NullAssumption
    DEF TypeOK, LockedByHolder, WorkerLocked, AdderLocked, Threads, CallsFromTasks
<1>1. ASSUME NEW n \in PoolSizes, InitReject(n) \/ InitCall(n) PROVE LockedByHolder'
  BY <1>1 DEF InitReject, InitCall, initVars, workerVars, addVars
<1>2. CASE InitAlloc \/ InitFail \/ InitReturn
  BY <1>2 DEF InitAlloc, InitFail, InitReturn, workerVars, addVars
<1>3. ASSUME NEW created \in BOOLEAN, InitCreate(created) PROVE LockedByHolder'
  <2>1. step \in Workers /\ wpc[step] = "none"
    BY <1>3 DEF InitCreate, Workers, Startup
  <2> QED BY <1>3, <2>1 DEF InitCreate, addVars
<1>4. ASSUME NEW w \in Workers, WLock(w) PROVE LockedByHolder'
  BY <1>4 DEF WLock, LockFree, addVars
<1>5. ASSUME NEW w \in Workers, WWait(w) \/ WUnlock(w) PROVE LockedByHolder'
  BY <1>5, ZenonT(30) DEF WWait, WUnlock, addVars
<1>6. ASSUME NEW w \in Workers, WSpurious(w) \/ WGetTask(w) \/ WRun(w) \/ WFinish(w)
      PROVE  LockedByHolder'
  BY <1>6 DEF WSpurious, WGetTask, RemoveHead, WRun, WFinish, addVars
<1>7. ASSUME NEW t \in Threads, NEW p \in Priorities, AddReject(t, p) \/ AddNew(t, p)
      PROVE  LockedByHolder'
  BY <1>7 DEF AddReject, AddNew, ValidPriority, MayCall, workerVars, addVars
<1>8. ASSUME NEW t \in Threads, AddLock(t) PROVE LockedByHolder'
  BY <1>8 DEF AddLock, workerVars
<1>9. ASSUME NEW t \in Threads, AddInsert(t) \/ AddBroadcast(t) PROVE LockedByHolder'
  <2>1. CASE AddInsert(t)
    BY <2>1 DEF AddInsert
  <2>2. CASE AddBroadcast(t)
    BY <2>2 DEF AddBroadcast, Woken, Waiting
  <2> QED BY <1>9, <2>1, <2>2
<1>10. ASSUME NEW t \in Threads, AddUnlock(t) PROVE LockedByHolder'
  BY <1>10 DEF AddUnlock, workerVars
<1>11. CASE UNCHANGED vars
  BY <1>11 DEF vars, initVars, workerVars, addVars
<1> QED
  BY <1>1, <1>2, <1>3, <1>4, <1>5, <1>6, <1>7, <1>8, <1>9, <1>10, <1>11
  DEF Next, Worker, Adder

\* A worker starts to wait only when it sees an empty queue under the lock, and
\* whoever makes the queue non-empty broadcasts before it lets go of the lock.
LEMMA WakeupStep == PoolInvariant /\ [Next]_vars => NoLostWakeup'
<1> SUFFICES ASSUME PoolInvariant, [Next]_vars PROVE NoLostWakeup'
  OBVIOUS
<1>0. TypeOK /\ Startup /\ LockedByHolder /\ NoLostWakeup
  BY DEF PoolInvariant
<1> USE <1>0, ConstantsAssumption DEF TypeOK, NoLostWakeup
<1>1. ASSUME NEW n \in PoolSizes, InitReject(n) \/ InitCall(n) PROVE NoLostWakeup'
  BY <1>1 DEF InitReject, InitCall, initVars, workerVars, addVars
<1>2. CASE InitAlloc \/ InitFail \/ InitReturn
  BY <1>2 DEF InitAlloc, InitFail, InitReturn, workerVars, addVars
<1>3. ASSUME NEW created \in BOOLEAN, InitCreate(created) PROVE NoLostWakeup'
  <2>1. step \in Workers
    BY <1>3 DEF InitCreate, Workers
  <2> QED BY <1>3, <2>1 DEF InitCreate, addVars
<1>4. ASSUME NEW w \in Workers, WWait(w) PROVE NoLostWakeup'
  BY <1>4 DEF WWait
<1>5. ASSUME NEW w \in Workers, WLock(w) \/ WSpurious(w) \/ WUnlock(w) \/ WRun(w) \/ WFinish(w)
      PROVE  NoLostWakeup'
  BY <1>5 DEF WLock, LockFree, WSpurious, WUnlock, WRun, WFinish, addVars
<1>6. ASSUME NEW w \in Workers, WGetTask(w) PROVE NoLostWakeup'
  BY <1>6 DEF WGetTask, RemoveHead, addVars
<1>7. ASSUME NEW t \in Threads, NEW p \in Priorities, AddReject(t, p) \/ AddNew(t, p)
      PROVE  NoLostWakeup'
  BY <1>7 DEF AddReject, AddNew, ValidPriority, MayCall, workerVars, addVars
<1>8. ASSUME NEW t \in Threads, AddLock(t) \/ AddUnlock(t) PROVE NoLostWakeup'
  BY <1>8 DEF AddLock, AddUnlock, workerVars
<1>9. ASSUME NEW t \in Threads, AddInsert(t) PROVE NoLostWakeup'
  BY <1>9 DEF AddInsert
<1>10. ASSUME NEW t \in Threads, AddBroadcast(t) PROVE NoLostWakeup'
  BY <1>10 DEF AddBroadcast, Woken, Waiting
<1>11. CASE UNCHANGED vars
  BY <1>11 DEF vars, workerVars, addVars
<1> QED
  BY <1>1, <1>2, <1>3, <1>4, <1>5, <1>6, <1>7, <1>8, <1>9, <1>10, <1>11
  DEF Next, Worker, Adder

-----------------------------------------------------------------------------
(* The queue and the tasks.                                                *)

\* A step either inserts a new task, takes the first one, starts a task a
\* worker holds, or leaves queue, holders and history alone.
LEMMA TaskSteps ==
  ASSUME PoolInvariant, [Next]_vars
  PROVE  \/ \E t \in Threads : AddInsert(t)
         \/ \E w \in Workers : WGetTask(w)
         \/ \E w \in Workers : WRun(w)
         \/ /\ queue' = queue
            /\ runs' = runs
            /\ \A w \in Workers : HeldBy(w)' = HeldBy(w)
            /\ \A w \in Workers : HeldBy(w) => wtask'[w] = wtask[w]
<1>0. TypeOK /\ Startup
  BY DEF PoolInvariant
<1> USE <1>0, ConstantsAssumption DEF TypeOK, HeldBy
<1> DEFINE Same == /\ queue' = queue
                   /\ runs' = runs
                   /\ \A w \in Workers : HeldBy(w)' = HeldBy(w)
                   /\ \A w \in Workers : HeldBy(w) => wtask'[w] = wtask[w]
<1>1. ASSUME NEW n \in PoolSizes, InitReject(n) \/ InitCall(n) PROVE Same
  BY <1>1 DEF InitReject, InitCall, initVars, workerVars, addVars
<1>2. CASE InitAlloc \/ InitFail \/ InitReturn
  <2>1. Same
    BY <1>2 DEF InitAlloc, InitFail, InitReturn, workerVars, addVars
  <2> QED BY <2>1
<1>3. ASSUME NEW created \in BOOLEAN, InitCreate(created) PROVE Same
  <2>1. step \in Workers /\ wpc[step] = "none"
    BY <1>3 DEF InitCreate, Workers, Startup
  <2> QED BY <1>3, <2>1 DEF InitCreate
<1>4. ASSUME NEW w \in Workers, WLock(w) \/ WWait(w) \/ WSpurious(w) \/ WUnlock(w) \/ WFinish(w)
      PROVE  Same
  BY <1>4 DEF WLock, LockFree, WWait, WSpurious, WUnlock, WFinish
<1>5. ASSUME NEW t \in Threads, NEW p \in Priorities, AddReject(t, p) \/ AddNew(t, p) PROVE Same
  BY <1>5 DEF AddReject, AddNew, ValidPriority, workerVars, addVars
<1>6. ASSUME NEW t \in Threads, AddLock(t) \/ AddBroadcast(t) \/ AddUnlock(t) PROVE Same
  <2>1. CASE AddLock(t) \/ AddUnlock(t)
    BY <2>1 DEF AddLock, AddUnlock, workerVars
  <2>2. CASE AddBroadcast(t)
    BY <2>2 DEF AddBroadcast, Woken, Waiting
  <2> QED BY <1>6, <2>1, <2>2
<1>7. CASE UNCHANGED vars
  <2>1. Same
    BY <1>7 DEF vars, workerVars, addVars
  <2> QED BY <2>1
<1> QED BY <1>1, <1>2, <1>3, <1>4, <1>5, <1>6, <1>7 DEF Next, Worker, Adder

\* Insertion after the nodes of smaller or equal number, with the latest ticket,
\* and removal of the first node both preserve the serving order.
LEMMA OrderedStep == PoolInvariant /\ [Next]_vars => QueueOrdered'
<1> SUFFICES ASSUME PoolInvariant, [Next]_vars PROVE QueueOrdered'
  OBVIOUS
<1>0. TypeOK /\ QueueOrdered /\ Accounted
  BY DEF PoolInvariant
<1>a. /\ Len(queue) \in Nat
      /\ \A i \in 1..Len(queue) : queue[i].priority \in Nat /\ queue[i].ticket \in Nat
  <2>1. Len(queue) \in Nat /\ \A i \in 1..Len(queue) : queue[i] \in Node
    BY <1>0, LenProperties, ElementOfSeq DEF TypeOK
  <2>2. \A n \in Node : n.priority \in Nat /\ n.ticket \in Nat
    BY DEF Node
  <2> QED BY <2>1, <2>2
<1>1. ASSUME NEW t \in Threads, AddInsert(t) PROVE QueueOrdered'
  <2> DEFINE n == [priority |-> aprio[t], ticket |-> accepted + 1]
             k == InsertPos(queue, n.priority)
             L == Len(queue)
  <2>1. n \in Node /\ accepted \in Nat
    BY <1>0, LenProperties DEF TypeOK, Node, accepted
  <2>2. n.priority \in Nat /\ n.ticket \in Nat /\ n.ticket = accepted + 1
    BY <2>1 DEF Node
  <2>3. /\ k \in 0..L
        /\ \A i \in 1..k : queue[i].priority <= n.priority
        /\ k < L => queue[k + 1].priority > n.priority
    <3>1. queue \in Seq(Node) /\ n.priority \in Int
      BY <1>0, <2>2 DEF TypeOK
    <3> HIDE DEF n
    <3> QED BY <3>1, InsertPosExists
  <2>4. /\ Len(queue') = L + 1
        /\ \A i \in 1..k : queue'[i] = queue[i]
        /\ queue'[k + 1] = n
        /\ \A i \in (k + 2)..(L + 1) : queue'[i] = queue[i - 1]
    <3>1. queue \in Seq(Node) /\ queue' = InsertNode(queue, n)
      BY <1>0, <1>1 DEF TypeOK, AddInsert
    <3> HIDE DEF n
    <3> QED BY <3>1, <2>1, InsertNodeFacts
  <2>5. \A i \in 1..L : queue[i].ticket < n.ticket
    BY <1>0, <1>a, <2>1, <2>2 DEF Accounted
  <2>6. \A i \in (k + 1)..L : queue[i].priority > n.priority
    <3> SUFFICES ASSUME NEW i \in (k + 1)..L PROVE queue[i].priority > n.priority
      OBVIOUS
    <3>1. i = k + 1 \/ queue[k + 1].priority <= queue[i].priority
      BY <1>0, <1>a, <2>3, SMTT(30) DEF QueueOrdered
    <3> HIDE DEF n, k
    <3> QED BY <3>1, <1>a, <2>2, <2>3
  <2> HIDE DEF n, k, L
  <2> SUFFICES ASSUME NEW i \in 1..Len(queue'), NEW j \in 1..Len(queue'), i < j
               PROVE  \/ queue'[i].priority < queue'[j].priority
                      \/ /\ queue'[i].priority = queue'[j].priority
                         /\ queue'[i].ticket < queue'[j].ticket
    BY DEF QueueOrdered
  <2>7. L \in Nat /\ k \in Nat
    BY <1>a, <2>3 DEF L
  <2>8. CASE j <= k
    <3>1. i \in 1..L /\ j \in 1..L /\ queue'[i] = queue[i] /\ queue'[j] = queue[j]
      BY <2>3, <2>4, <2>7, <2>8
    <3> QED BY <3>1, <1>0 DEF QueueOrdered, L
  <2>9. CASE j = k + 1
    <3>1. i \in 1..k /\ i \in 1..L /\ queue'[i] = queue[i] /\ queue'[j] = n
      BY <2>3, <2>4, <2>7, <2>9
    <3> QED BY <3>1, <1>a, <2>2, <2>3, <2>5 DEF L
  <2>10. CASE j > k + 1
    <3>1. j - 1 \in (k + 1)..L /\ j - 1 \in 1..L /\ queue'[j] = queue[j - 1]
      BY <2>3, <2>4, <2>7, <2>10
    <3>2. CASE i = k + 1
      BY <3>1, <3>2, <1>a, <2>2, <2>4, <2>6 DEF L
    <3>3. CASE i <= k
      <4>1. i \in 1..L /\ queue'[i] = queue[i] /\ i < j - 1
        BY <2>3, <2>4, <2>7, <2>10, <3>3
      <4> QED BY <3>1, <4>1, <1>0 DEF QueueOrdered, L
    <3>4. CASE i > k + 1
      <4>1. i - 1 \in 1..L /\ queue'[i] = queue[i - 1] /\ i - 1 < j - 1
        BY <2>3, <2>4, <2>7, <2>10, <3>4
      <4> QED BY <3>1, <4>1, <1>0 DEF QueueOrdered, L
    <3> QED BY <3>2, <3>3, <3>4, <2>7
  <2> QED BY <2>7, <2>8, <2>9, <2>10, <2>4
<1>2. ASSUME NEW w \in Workers, WGetTask(w) PROVE QueueOrdered'
  <2>1. /\ Len(queue') = Len(queue) - 1
        /\ \A i \in 1..Len(queue') : queue'[i] = queue[i + 1]
    BY <1>0, <1>2, HeadTailProperties DEF WGetTask, RemoveHead, TypeOK
  <2>2. \A i \in 1..Len(queue') : i + 1 \in 1..Len(queue)
    BY <1>a, <2>1
  <2> SUFFICES ASSUME NEW i \in 1..Len(queue'), NEW j \in 1..Len(queue'), i < j
               PROVE  \/ queue'[i].priority < queue'[j].priority
                      \/ /\ queue'[i].priority = queue'[j].priority
                         /\ queue'[i].ticket < queue'[j].ticket
    BY DEF QueueOrdered
  <2>3. i + 1 \in 1..Len(queue) /\ j + 1 \in 1..Len(queue) /\ i + 1 < j + 1
    BY <1>a, <2>1, <2>2
  <2> QED BY <1>0, <2>1, <2>3 DEF QueueOrdered
<1>3. CASE queue' = queue
  BY <1>0, <1>3 DEF QueueOrdered
<1>4. ASSUME NEW w \in Workers, WRun(w) PROVE queue' = queue
  BY <1>4 DEF WRun
<1> QED BY <1>1, <1>2, <1>3, <1>4, TaskSteps

\* A task moves from the queue to a worker to the set of started tasks, one
\* place at a time.
LEMMA AccountedStep == PoolInvariant /\ [Next]_vars => Accounted'
<1> SUFFICES ASSUME PoolInvariant, [Next]_vars PROVE Accounted'
  OBVIOUS
<1>0. TypeOK /\ Accounted
  BY DEF PoolInvariant
<1>a. /\ Len(queue) \in Nat /\ queue \in Seq(Node)
      /\ accepted \in Nat
      /\ \A i \in 1..Len(queue) : queue[i] \in Node
      /\ \A k \in 1..accepted : runs[k] \in Nat
      /\ \A n \in Node : n.ticket \in Nat
  BY <1>0, LenProperties, ElementOfSeq DEF TypeOK, accepted, Node
<1>1. ASSUME NEW t \in Threads, AddInsert(t) PROVE Accounted'
  <2> DEFINE n == [priority |-> aprio[t], ticket |-> accepted + 1]
             p == InsertPos(queue, n.priority)
             L == Len(queue)
  <2>1. n \in Node /\ n.priority \in Int /\ n.ticket = accepted + 1
    BY <1>0, <1>a DEF TypeOK, Node
  <2>2. p \in 0..L
    <3> HIDE DEF n
    <3> QED BY <1>a, <2>1, InsertPosExists
  <2>3. /\ Len(queue') = L + 1
        /\ \A i \in 1..p : queue'[i] = queue[i]
        /\ queue'[p + 1] = n
        /\ \A i \in (p + 2)..(L + 1) : queue'[i] = queue[i - 1]
    BY <1>0, <1>1, <2>1, InsertNodeFacts, ZenonT(30) DEF TypeOK, AddInsert
  <2>4. /\ accepted' = accepted + 1
        /\ \A k \in 1..accepted : runs'[k] = runs[k]
        /\ runs'[accepted + 1] = 0
    BY <1>0, <1>1, <1>a DEF AddInsert, TypeOK, accepted
  <2>5. wpc' = wpc /\ wtask' = wtask
    BY <1>1 DEF AddInsert
  <2> HIDE DEF n, p, L
  <2>6. L \in Nat /\ p \in Nat /\ p <= L /\ L = Len(queue)
    BY <1>a, <2>2 DEF L
  <2> DEFINE src(i) == IF i <= p THEN i ELSE i - 1
  <2>7. \A i \in 1..(L + 1) : i # p + 1 => src(i) \in 1..L /\ queue'[i] = queue[src(i)]
    BY <2>3, <2>6
  <2>8. \A i, j \in 1..(L + 1) : i # p + 1 /\ j # p + 1 /\ src(i) = src(j) => i = j
    BY <2>6
  <2>9. \A k : Held(k)' <=> Held(k)
    BY <2>5 DEF Held, HeldBy
  <2>10. \A i \in 1..L : \E j \in 1..(L + 1) : queue'[j] = queue[i]
    <3> SUFFICES ASSUME NEW i \in 1..L PROVE \E j \in 1..(L + 1) : queue'[j] = queue[i]
      OBVIOUS
    <3>1. CASE i <= p
      BY <3>1, <2>3, <2>6
    <3>2. CASE i > p
      <4>1. i + 1 \in (p + 2)..(L + 1) /\ i + 1 \in 1..(L + 1) /\ (i + 1) - 1 = i
        BY <3>2, <2>6
      <4> QED BY <4>1, <2>3
    <3> QED BY <3>1, <3>2, <2>6
  <2>11. \A k \in 1..accepted : Queued(k)' <=> Queued(k)
    <3> SUFFICES ASSUME NEW k \in 1..accepted PROVE Queued(k)' <=> Queued(k)
      OBVIOUS
    <3>1. Queued(k) => Queued(k)'
      BY <2>3, <2>6, <2>10 DEF Queued
    <3>2. ASSUME NEW i \in 1..(L + 1), queue'[i].ticket = k PROVE Queued(k)
      <4>1. i # p + 1
        BY <3>2, <2>1, <2>3, <1>a
      <4> QED BY <3>2, <4>1, <2>6, <2>7 DEF Queued
    <3> QED BY <3>1, <3>2, <2>3, <2>6 DEF Queued
  <2>12. \A k : k = accepted + 1 => Queued(k)'
    BY <2>1, <2>3, <2>6 DEF Queued
  <2>13. \A i \in 1..L : queue[i].ticket \in 1..accepted /\ ~Held(queue[i].ticket)
    BY <1>0, <2>6 DEF Accounted
  <2>14. ~Held(accepted + 1)
    BY <1>0, <1>a DEF Accounted, Held
  <2>15. ASSUME NEW i \in 1..(L + 1), NEW j \in 1..(L + 1),
                queue'[i].ticket = queue'[j].ticket
         PROVE  i = j
    <3>1. CASE i = p + 1 /\ j # p + 1
      BY <3>1, <2>15, <2>1, <2>3, <2>7, <2>13, <1>a
    <3>2. CASE i # p + 1 /\ j = p + 1
      BY <3>2, <2>15, <2>1, <2>3, <2>7, <2>13, <1>a
    <3>3. CASE i # p + 1 /\ j # p + 1
      <4>1. /\ src(i) \in 1..L /\ src(j) \in 1..L
            /\ queue[src(i)].ticket = queue[src(j)].ticket
        BY <3>3, <2>15, <2>7
      <4> HIDE DEF src
      <4>2. src(i) = src(j)
        BY <4>1, <2>6, <1>0 DEF Accounted
      <4> QED BY <4>2, <3>3, <2>8
    <3> QED BY <3>1, <3>2, <3>3
  <2>16. \A i \in 1..(L + 1) : queue'[i].ticket \in 1..(accepted + 1) /\ ~Held(queue'[i].ticket)
    <3> SUFFICES ASSUME NEW i \in 1..(L + 1)
                 PROVE  queue'[i].ticket \in 1..(accepted + 1) /\ ~Held(queue'[i].ticket)
      OBVIOUS
    <3>1. CASE i = p + 1
      BY <3>1, <2>1, <2>3, <2>14, <1>a
    <3>2. CASE i # p + 1
      <4>1. src(i) \in 1..L /\ queue'[i] = queue[src(i)]
        BY <3>2, <2>7
      <4> HIDE DEF src
      <4> QED BY <4>1, <2>13, <1>a
    <3> QED BY <3>1, <3>2
  <2>17. ASSUME NEW k \in 1..(accepted + 1)
         PROVE  runs'[k] = IF Queued(k)' \/ Held(k)' THEN 0 ELSE 1
    <3>1. CASE k = accepted + 1
      BY <3>1, <2>4, <2>12
    <3>2. CASE k \in 1..accepted
      BY <3>2, <2>4, <2>9, <2>11, <1>0 DEF Accounted
    <3> QED BY <3>1, <3>2, <1>a
  <2>18. /\ \A v, w \in Workers : HeldBy(v)' /\ HeldBy(w)' /\ wtask'[v].ticket = wtask'[w].ticket
                                    => v = w
         /\ \A w \in Workers : HeldBy(w)' => wtask'[w] \in Node
                                             /\ wtask'[w].ticket \in 1..(accepted + 1)
    BY <1>0, <1>a, <2>5 DEF Accounted, HeldBy
  <2> QED BY <2>3, <2>4, <2>6, <2>9, <2>15, <2>16, <2>17, <2>18 DEF Accounted
<1>2. ASSUME NEW w \in Workers, WGetTask(w) PROVE Accounted'
  <2> DEFINE h == Head(queue)
             L == Len(queue)
  <2>1. /\ h = queue[1] /\ L \in Nat /\ L > 0 /\ h \in Node
        /\ Len(queue') = L - 1
        /\ \A i \in 1..(L - 1) : queue'[i] = queue[i + 1]
    BY <1>2, <1>a, HeadTailProperties, EmptySeq DEF WGetTask, RemoveHead
  <2>2. /\ ~HeldBy(w) /\ HeldBy(w)' /\ wtask'[w] = h
        /\ \A v \in Workers \ {w} : /\ HeldBy(v)' <=> HeldBy(v)
                                    /\ wtask'[v] = wtask[v]
    BY <1>0, <1>2 DEF WGetTask, RemoveHead, HeldBy, TypeOK
  <2>3. runs' = runs /\ accepted' = accepted
    BY <1>2 DEF WGetTask, RemoveHead, accepted
  <2> HIDE DEF h, L
  <2>a. L = Len(queue)
    BY DEF L
  <2>4. h.ticket \in 1..accepted /\ ~Held(h.ticket)
    <3>1. 1 \in 1..L
      BY <2>1
    <3> QED BY <3>1, <2>a, <1>0, <2>1 DEF Accounted
  <2>5. \A i \in 1..(L - 1) : i + 1 \in 1..L /\ queue'[i] = queue[i + 1]
                              /\ queue[i + 1].ticket # h.ticket
    <3> SUFFICES ASSUME NEW i \in 1..(L - 1)
                 PROVE  i + 1 \in 1..L /\ queue'[i] = queue[i + 1]
                        /\ queue[i + 1].ticket # h.ticket
      OBVIOUS
    <3>1. i + 1 \in 1..L /\ 1 \in 1..L /\ i + 1 # 1
      BY <2>1
    <3> QED BY <3>1, <2>1, <2>a, <1>0 DEF Accounted
  <2>6. \A k : Held(k)' <=> (Held(k) \/ k = h.ticket)
    BY <2>2 DEF Held
  <2>7. \A k : Queued(k) <=> (Queued(k)' \/ k = h.ticket)
    <3> SUFFICES ASSUME NEW k PROVE Queued(k) <=> (Queued(k)' \/ k = h.ticket)
      OBVIOUS
    <3>1. ASSUME NEW i \in 1..L, queue[i].ticket = k, i # 1 PROVE Queued(k)'
      <4>1. i - 1 \in 1..(L - 1) /\ (i - 1) + 1 = i
        BY <3>1, <2>1
      <4> QED BY <3>1, <4>1, <2>1 DEF Queued
    <3>2. Queued(k)' => Queued(k)
      BY <2>1, <2>5, <2>a DEF Queued
    <3>3. k = h.ticket => Queued(k)
      BY <2>1, <2>a DEF Queued
    <3> QED BY <3>1, <3>2, <3>3, <2>1, <2>a DEF Queued
  <2>8. ASSUME NEW i \in 1..(L - 1), NEW j \in 1..(L - 1),
               queue'[i].ticket = queue'[j].ticket
        PROVE  i = j
    <3>1. i + 1 \in 1..L /\ j + 1 \in 1..L /\ queue[i + 1].ticket = queue[j + 1].ticket
      BY <2>8, <2>5
    <3>2. i + 1 = j + 1
      BY <3>1, <2>a, <1>0 DEF Accounted
    <3> QED BY <3>2
  <2>9. ASSUME NEW u \in Workers, NEW v \in Workers,
               HeldBy(u)', HeldBy(v)', wtask'[u].ticket = wtask'[v].ticket
        PROVE  u = v
    <3>1. CASE u # w /\ v # w
      BY <3>1, <2>9, <2>2, <1>0 DEF Accounted
    <3>2. \A x \in Workers \ {w} : HeldBy(x)' => wtask'[x].ticket # h.ticket
      BY <2>2, <2>4 DEF Held
    <3> QED BY <3>1, <3>2, <2>9, <2>2
  <2>10. \A i \in 1..(L - 1) :
           /\ queue'[i].ticket \in 1..accepted
           /\ \A k : k = queue'[i].ticket => ~Held(k)'
    <3> SUFFICES ASSUME NEW i \in 1..(L - 1), NEW k, k = queue'[i].ticket
                 PROVE  k \in 1..accepted /\ ~Held(k)'
      OBVIOUS
    <3>1. i + 1 \in 1..Len(queue) /\ k = queue[i + 1].ticket /\ k # h.ticket
      BY <2>5, <2>a
    <3>2. k \in 1..accepted /\ ~Held(k)
      BY <3>1, <1>0 DEF Accounted
    <3> QED BY <3>1, <3>2, <2>6
  <2>11. \A v \in Workers : HeldBy(v)' => wtask'[v] \in Node /\ wtask'[v].ticket \in 1..accepted
    BY <2>1, <2>2, <2>4, <1>0 DEF Accounted
  <2>12. \A k \in 1..accepted : runs'[k] = IF Queued(k)' \/ Held(k)' THEN 0 ELSE 1
    BY <2>3, <2>6, <2>7, <1>0 DEF Accounted
  <2> QED BY <2>1, <2>3, <2>8, <2>9, <2>10, <2>11, <2>12 DEF Accounted, Held
<1>3. ASSUME NEW w \in Workers, WRun(w) PROVE Accounted'
  <2> DEFINE x == wtask[w].ticket
  <2>1. HeldBy(w) /\ x \in 1..accepted
    BY <1>0, <1>3 DEF WRun, HeldBy, Accounted
  <2>2. /\ queue' = queue /\ accepted' = accepted
        /\ runs'[x] = runs[x] + 1
        /\ \A k \in 1..accepted : k # x => runs'[k] = runs[k]
    BY <1>0, <1>3, <1>a, <2>1, LenProperties, ExceptSeq DEF WRun, accepted, TypeOK
  <2>3. /\ ~HeldBy(w)' /\ wtask' = wtask
        /\ \A v \in Workers \ {w} : HeldBy(v)' <=> HeldBy(v)
    BY <1>0, <1>3 DEF WRun, HeldBy, TypeOK
  <2>4. \A k : Queued(k)' <=> Queued(k)
    BY <2>2 DEF Queued
  <2>5. \A k : Held(k)' <=> (Held(k) /\ k # x)
    BY <1>0, <2>1, <2>3 DEF Held, Accounted
  <2>6. Held(x) /\ ~Queued(x)
    BY <1>0, <2>1 DEF Held, Queued, Accounted
  <2> HIDE DEF x
  <2>7. \A k \in 1..accepted : runs'[k] = IF Queued(k)' \/ Held(k)' THEN 0 ELSE 1
    <3> SUFFICES ASSUME NEW k \in 1..accepted
                 PROVE  runs'[k] = IF Queued(k)' \/ Held(k)' THEN 0 ELSE 1
      OBVIOUS
    <3>1. runs[k] = IF Queued(k) \/ Held(k) THEN 0 ELSE 1
      BY <1>0 DEF Accounted
    <3>2. CASE k = x
      BY <3>1, <3>2, <2>2, <2>4, <2>5, <2>6
    <3>3. CASE k # x
      BY <3>1, <3>3, <2>2, <2>4, <2>5
    <3> QED BY <3>2, <3>3
  <2>8. \A i \in 1..Len(queue) : \A k : k = queue[i].ticket => ~Held(k)'
    BY <1>0, <2>5 DEF Accounted
  <2>9. /\ \A u, v \in Workers : HeldBy(u)' /\ HeldBy(v)' /\ wtask'[u].ticket = wtask'[v].ticket
                                   => u = v
        /\ \A v \in Workers : HeldBy(v)' => wtask'[v] \in Node /\ wtask'[v].ticket \in 1..accepted
    BY <1>0, <2>3 DEF Accounted
  <2>10. \A i \in 1..Len(queue') : queue'[i].ticket \in 1..accepted'
    BY <1>0, <2>2 DEF Accounted
  <2>11. \A i, j \in 1..Len(queue') : queue'[i].ticket = queue'[j].ticket => i = j
    BY <1>0, <2>2 DEF Accounted
  <2> QED BY <2>2, <2>7, <2>8, <2>9, <2>10, <2>11 DEF Accounted, Held
<1>4. CASE /\ queue' = queue
           /\ runs' = runs
           /\ \A w \in Workers : HeldBy(w)' = HeldBy(w)
           /\ \A w \in Workers : HeldBy(w) => wtask'[w] = wtask[w]
  <2>1. accepted' = accepted /\ \A k : (Queued(k)' <=> Queued(k)) /\ (Held(k)' <=> Held(k))
    BY <1>4 DEF accepted, Queued, Held
  <2> QED BY <1>0, <1>4, <2>1 DEF Accounted
<1> QED BY <1>1, <1>2, <1>3, <1>4, TaskSteps

-----------------------------------------------------------------------------
(* The invariants of the pool.                                             *)

\* The inductive invariant of ppool_init, ppool_run and ppool_add together.
THEOREM PoolInvariantHolds == Spec => []PoolInvariant
<1>1. Init => PoolInvariant
  BY InitInvariant
<1>2. PoolInvariant /\ [Next]_vars => PoolInvariant'
  BY TypeStep, StartupStep, PendingStep, InitLeakStep, LockStep, WakeupStep, OrderedStep, AccountedStep
  DEF PoolInvariant
<1> QED BY <1>1, <1>2, PTL DEF Spec

\* Every variable of the pool keeps a value of its type.
THEOREM TypeCorrect == Spec => []TypeOK
<1>1. PoolInvariant => TypeOK
  BY DEF PoolInvariant
<1> QED BY <1>1, PoolInvariantHolds, PTL

\* ppool_init leaks nothing, whichever of its allocations fails.
THEOREM InitLeaksNothing == Spec => []NoInitLeak
<1>1. PoolInvariant => NoInitLeak
  BY DEF PoolInvariant
<1> QED BY <1>1, PoolInvariantHolds, PTL

\* The sections of ppool_run and ppool_add between lock and unlock exclude
\* each other.
THEOREM LockExcludes == Spec => []LockedByHolder
<1>1. PoolInvariant => LockedByHolder
  BY DEF PoolInvariant
<1> QED BY <1>1, PoolInvariantHolds, PTL

\* No worker of ppool_run sleeps on a queue that has a task.
THEOREM WakeupsAreNotLost == Spec => []NoLostWakeup
<1>1. PoolInvariant => NoLostWakeup
  BY DEF PoolInvariant
<1> QED BY <1>1, PoolInvariantHolds, PTL

\* The queue is in serving order between any two steps.
THEOREM QueueStaysOrdered == Spec => []QueueOrdered
<1>1. PoolInvariant => QueueOrdered
  BY DEF PoolInvariant
<1> QED BY <1>1, PoolInvariantHolds, PTL

\* No accepted task is lost, duplicated or started twice.
THEOREM TasksAreAccounted == Spec => []Accounted
<1>1. PoolInvariant => Accounted
  BY DEF PoolInvariant
<1> QED BY <1>1, PoolInvariantHolds, PTL

-----------------------------------------------------------------------------
(* The pool implements PriorityDispatch.                                   *)

\* Each step of the pool accepts, hands out or executes a task as the abstract
\* dispatcher may, or changes nothing it can see.
LEMMA DispatchStep ==
  ASSUME PoolInvariant, [Next]_vars
  PROVE  [PD!Next]_(PD!vars)
<1>0. TypeOK /\ QueueOrdered /\ Accounted /\ PendingAdds
  BY DEF PoolInvariant
<1>a. /\ Len(queue) \in Nat /\ queue \in Seq(Node)
      /\ accepted \in Nat
      /\ \A i \in 1..Len(queue) : queue[i] \in Node
      /\ \A k \in 1..accepted : runs[k] \in Nat
      /\ \A n \in Node : n.ticket \in Nat /\ n.priority \in Nat
  BY <1>0, LenProperties, ElementOfSeq DEF TypeOK, accepted, Node
<1>1. ASSUME NEW t \in Threads, AddInsert(t) PROVE PD!Next
  <2> DEFINE n == [priority |-> aprio[t], ticket |-> accepted + 1]
             p == InsertPos(queue, n.priority)
             L == Len(queue)
  <2>1. n \in Node /\ n.priority \in Int /\ aprio[t] \in Nat /\ aprio[t] \in Priorities
    BY <1>0, <1>1, <1>a DEF TypeOK, Node, PendingAdds, AddInsert
  <2>2. p \in 0..L
    <3> HIDE DEF n
    <3> QED BY <1>a, <2>1, InsertPosExists
  <2>3. /\ Len(queue') = L + 1
        /\ \A i \in 1..p : queue'[i] = queue[i]
        /\ queue'[p + 1] = n
        /\ \A i \in (p + 2)..(L + 1) : queue'[i] = queue[i - 1]
    <3>1. queue' = InsertNode(queue, n)
      BY <1>1 DEF AddInsert
    <3> HIDE DEF n
    <3> QED BY <3>1, <1>a, <2>1, InsertNodeFacts
  <2>4. /\ accepted' = accepted + 1
        /\ \A k \in 1..accepted : runs'[k] = runs[k]
        /\ runs'[accepted + 1] = 0
    BY <1>0, <1>1, <1>a DEF AddInsert, TypeOK, accepted
  <2>5. AssignedNodes' = AssignedNodes
    BY <1>1 DEF AddInsert, HeldBy, AssignedNodes
  <2>6. StartedTickets' = StartedTickets
    BY <2>4, <1>a DEF StartedTickets
  <2>7. QueueNodes' = QueueNodes \union {n}
    <3> HIDE DEF n, p
    <3>1. \A i \in 1..(L + 1) : queue'[i] \in QueueNodes \union {n}
      <4> SUFFICES ASSUME NEW i \in 1..(L + 1) PROVE queue'[i] \in QueueNodes \union {n}
        OBVIOUS
      <4>1. CASE i <= p
        BY <4>1, <2>2, <2>3, <1>a DEF QueueNodes
      <4>2. CASE i > p + 1
        <5>1. i - 1 \in 1..L /\ queue'[i] = queue[i - 1]
          BY <4>2, <2>2, <2>3, <1>a
        <5> QED BY <5>1 DEF QueueNodes
      <4> QED BY <4>1, <4>2, <2>2, <2>3, <1>a
    <3>2. \A i \in 1..L : \E j \in 1..(L + 1) : queue'[j] = queue[i]
      <4> SUFFICES ASSUME NEW i \in 1..L PROVE \E j \in 1..(L + 1) : queue'[j] = queue[i]
        OBVIOUS
      <4>1. CASE i <= p
        BY <4>1, <2>2, <2>3, <1>a
      <4>2. CASE i > p
        <5>1. i + 1 \in (p + 2)..(L + 1) /\ i + 1 \in 1..(L + 1) /\ (i + 1) - 1 = i
          BY <4>2, <2>2, <1>a
        <5> QED BY <5>1, <2>3
      <4> QED BY <4>1, <4>2, <2>2, <1>a
    <3>3. \E j \in 1..(L + 1) : queue'[j] = n
      BY <2>2, <2>3, <1>a
    <3>4. QueueNodes' = {queue'[j] : j \in 1..(L + 1)}
      BY <2>3 DEF QueueNodes
    <3>5. QueueNodes' \subseteq QueueNodes \union {n}
      BY <3>1, <3>4
    <3>6. QueueNodes \subseteq QueueNodes'
      BY <3>2, <3>4 DEF QueueNodes
    <3>7. n \in QueueNodes'
      BY <3>3, <3>4
    <3> QED BY <3>5, <3>6, <3>7
  <2>8. PD!Accept(aprio[t])
    <3>1. aprio[t] >= 0
      BY <2>1
    <3>2. accepted' = accepted + 1 /\ UNCHANGED <<AssignedNodes, StartedTickets>>
      BY <2>4, <2>5, <2>6
    <3> QED BY <3>1, <3>2, <2>7 DEF PD!Accept
  <2> QED BY <2>1, <2>8 DEF PD!Next
<1>2. ASSUME NEW w \in Workers, WGetTask(w) PROVE PD!Next
  <2> DEFINE h == Head(queue)
             L == Len(queue)
  <2>1. /\ h = queue[1] /\ L \in Nat /\ L > 0 /\ h \in Node
        /\ Len(queue') = L - 1
        /\ \A i \in 1..(L - 1) : queue'[i] = queue[i + 1]
    BY <1>2, <1>a, HeadTailProperties, EmptySeq DEF WGetTask, RemoveHead
  <2>2. /\ ~HeldBy(w) /\ HeldBy(w)' /\ wtask'[w] = h
        /\ \A v \in Workers \ {w} : /\ HeldBy(v)' <=> HeldBy(v)
                                    /\ wtask'[v] = wtask[v]
    BY <1>0, <1>2 DEF WGetTask, RemoveHead, HeldBy, TypeOK
  <2>3. accepted' = accepted /\ StartedTickets' = StartedTickets
    BY <1>2 DEF WGetTask, RemoveHead, accepted, StartedTickets
  <2> HIDE DEF h
  <2>4. AssignedNodes' = AssignedNodes \union {h}
    BY <2>2 DEF AssignedNodes
  <2>5. h \in QueueNodes
    BY <2>1 DEF QueueNodes
  <2>6. \A m \in QueueNodes \ {h} : PD!Before(h, m)
    <3> SUFFICES ASSUME NEW m \in QueueNodes \ {h} PROVE PD!Before(h, m)
      OBVIOUS
    <3>1. PICK i \in 1..L : m = queue[i]
      BY DEF QueueNodes
    <3>2. i # 1 /\ 1 \in 1..L /\ 1 < i
      BY <3>1, <2>1
    <3> QED BY <3>1, <3>2, <2>1, <1>0 DEF QueueOrdered, PD!Before
  <2>7. QueueNodes' = QueueNodes \ {h}
    <3>1. \A i \in 1..(L - 1) : i + 1 \in 1..L /\ queue[i + 1] # h
      <4> SUFFICES ASSUME NEW i \in 1..(L - 1) PROVE i + 1 \in 1..L /\ queue[i + 1] # h
        OBVIOUS
      <4>1. i + 1 \in 1..L /\ 1 \in 1..L /\ i + 1 # 1
        BY <2>1
      <4> QED BY <4>1, <2>1, <1>0 DEF Accounted
    <3>2. \A i \in 1..L : i # 1 => i - 1 \in 1..(L - 1) /\ queue'[i - 1] = queue[i]
      <4> SUFFICES ASSUME NEW i \in 1..L, i # 1
                   PROVE  i - 1 \in 1..(L - 1) /\ queue'[i - 1] = queue[i]
        OBVIOUS
      <4>1. i - 1 \in 1..(L - 1) /\ (i - 1) + 1 = i
        BY <2>1
      <4> QED BY <4>1, <2>1
    <3>3. QueueNodes' \subseteq QueueNodes \ {h}
      BY <3>1, <2>1 DEF QueueNodes
    <3>4. QueueNodes \ {h} \subseteq QueueNodes'
      BY <3>2, <2>1 DEF QueueNodes
    <3> QED BY <3>3, <3>4
  <2>8. PD!Assign(h)
    BY <2>3, <2>4, <2>5, <2>6, <2>7 DEF PD!Assign
  <2> QED BY <2>5, <2>8 DEF PD!Next
<1>3. ASSUME NEW w \in Workers, WRun(w) PROVE PD!Next
  <2> DEFINE n == wtask[w]
  <2>1. HeldBy(w) /\ n \in Node /\ n.ticket \in 1..accepted
    BY <1>0, <1>3 DEF WRun, HeldBy, Accounted
  <2>2. /\ queue' = queue /\ accepted' = accepted
        /\ runs'[n.ticket] = runs[n.ticket] + 1
        /\ \A k \in 1..accepted : k # n.ticket => runs'[k] = runs[k]
    BY <1>0, <1>3, <1>a, <2>1, LenProperties, ExceptSeq DEF WRun, accepted, TypeOK
  <2>3. /\ ~HeldBy(w)' /\ wtask' = wtask
        /\ \A v \in Workers \ {w} : HeldBy(v)' <=> HeldBy(v)
    BY <1>0, <1>3 DEF WRun, HeldBy, TypeOK
  <2>4. runs[n.ticket] = 0
    BY <1>0, <2>1 DEF Accounted, Held
  <2>5. \A v \in Workers \ {w} : HeldBy(v) => wtask[v] # n
    BY <1>0, <2>1 DEF Accounted
  <2>6. n \in AssignedNodes /\ AssignedNodes' = AssignedNodes \ {n}
    BY <2>1, <2>3, <2>5 DEF AssignedNodes
  <2>7. n.ticket \notin StartedTickets /\ StartedTickets' = StartedTickets \union {n.ticket}
    BY <2>1, <2>2, <2>4, <1>a DEF StartedTickets
  <2>8. QueueNodes' = QueueNodes
    BY <2>2 DEF QueueNodes
  <2>9. PD!Execute(n)
    BY <2>2, <2>6, <2>7, <2>8 DEF PD!Execute
  <2> QED BY <2>6, <2>9 DEF PD!Next
<1>4. CASE /\ queue' = queue
           /\ runs' = runs
           /\ \A w \in Workers : HeldBy(w)' = HeldBy(w)
           /\ \A w \in Workers : HeldBy(w) => wtask'[w] = wtask[w]
  <2>1. accepted' = accepted /\ QueueNodes' = QueueNodes /\ StartedTickets' = StartedTickets
    BY <1>4 DEF accepted, QueueNodes, StartedTickets
  <2>2. AssignedNodes' = AssignedNodes
    BY <1>4 DEF AssignedNodes
  <2> QED BY <2>1, <2>2 DEF PD!vars
<1> QED BY <1>1, <1>2, <1>3, <1>4, TaskSteps

\* ppool_add and the workers dispatch tasks as module PriorityDispatch
\* specifies, for any number of threads.
THEOREM PoolImplementsDispatch == Spec => DispatchesByPriority
<1>1. Init => PD!Init
  BY DEF Init, PD!Init, QueueNodes, AssignedNodes, StartedTickets, HeldBy, accepted
<1>2. PoolInvariant /\ [Next]_vars => [PD!Next]_(PD!vars)
  BY DispatchStep
<1> QED BY <1>1, <1>2, PoolInvariantHolds, PTL DEF Spec, DispatchesByPriority, PD!Spec

=============================================================================
