----------------------------- MODULE PPoolQueue -----------------------------
(***************************************************************************)
(* The linked list of components/ppool/src/ppool_queue.c, pointer by       *)
(* pointer: nodes in allocated memory, the head and the stored length.     *)
(* The calls are made one at a time, under ppool_lock; module PPool has    *)
(* the threads.  A node is added once, as ppool_add does, and freed by the *)
(* worker that took it.                                                    *)
(***************************************************************************)
EXTENDS TaskQueue, FiniteSets

CONSTANTS NodeAddrs,       \* the addresses malloc may return for a node
          Priorities,  \* priorities given to ppool_queue_new (may be < 0)
          NULL

ASSUME NodeAddrsAssumption ==
  /\ IsFiniteSet(NodeAddrs)
  /\ NULL \notin NodeAddrs
  /\ Priorities \subseteq Int

VARIABLES queue,       \* TRUE while the pool_queue is allocated
          len,         \* queue->len
          head,        \* queue->head
          fresh,       \* nodes from ppool_queue_new not added yet
          taken,       \* nodes returned by ppool_queue_get_task not freed yet
          priority,    \* the fields of each address
          next

queueVars == <<queue, len, head, fresh, taken, priority, next>>
fields == <<priority, next>>

\* The node reached from h after k links, NULL past the end.
Walk(h) ==
  LET nth[k \in 0..Cardinality(NodeAddrs)] ==
        IF k = 0 THEN h
        ELSE IF nth[k - 1] = NULL THEN NULL ELSE next[nth[k - 1]]
  IN  nth

\* The nodes linked from head, and the queue they spell.
Linked == {Walk(head)[k] : k \in 0..Cardinality(NodeAddrs)} \ {NULL}
NodeAt(a) == [priority |-> priority[a], addr |-> a]
List == [i \in 1..Cardinality(Linked) |-> NodeAt(Walk(head)[i - 1])]

Allocated == fresh \union taken \union Linked

-----------------------------------------------------------------------------

QueueInit ==
  /\ queue = FALSE
  /\ len = 0
  /\ head = NULL
  /\ fresh = {}
  /\ taken = {}
  /\ priority = [a \in NodeAddrs |-> 0]
  /\ next = [a \in NodeAddrs |-> NULL]

\* A failed malloc of the pool_queue leaves everything as it is.
ppool_queue_init ==
  /\ ~queue
  /\ queue' = TRUE
  /\ len' = 0
  /\ head' = NULL
  /\ UNCHANGED <<fresh, taken, fields>>

ValidPriority(p) == p >= 0

\* A negative priority or a failed malloc only sets ppool_errno (see PPool).
ppool_queue_new(a, p) ==
  /\ queue
  /\ ValidPriority(p)
  /\ a \in NodeAddrs \ Allocated
  /\ fresh' = fresh \union {a}
  /\ priority' = [priority EXCEPT ![a] = p]
  /\ next' = [next EXCEPT ![a] = NULL]
  /\ UNCHANGED <<queue, len, head, taken>>

\* Mutant: the walk stops before the nodes of equal priority.
BugInsertPosBeforeEqual(h, p) ==
  IF h = NULL THEN -1
  ELSE CHOOSE k \in 0..Cardinality(NodeAddrs) :
         /\ \A i \in 0..(k - 1) : Walk(h)[i] # NULL /\ priority[Walk(h)[i]] < p
         /\ Walk(h)[k] = NULL \/ priority[Walk(h)[k]] >= p

\* The loop stops at the end or at the first node of a larger priority number.
ppool_queue_get_insert_pos(h, p) ==
  IF h = NULL THEN -1
  ELSE CHOOSE k \in 0..Cardinality(NodeAddrs) :
         /\ \A i \in 0..(k - 1) : Walk(h)[i] # NULL /\ priority[Walk(h)[i]] <= p
         /\ Walk(h)[k] = NULL \/ priority[Walk(h)[k]] > p

ppool_queue_add(a) ==
  LET pos == ppool_queue_get_insert_pos(head, priority[a])
      prev == Walk(head)[pos - 1]
  IN  /\ queue
      /\ a \in fresh
      /\ fresh' = fresh \ {a}
      /\ len' = len + 1
      /\ \/ pos = -1 /\ head' = a /\ next' = next
         \/ pos = 0 /\ head' = a /\ next' = [next EXCEPT ![a] = head]
         \/ pos > 0 /\ head' = head
            /\ next' = [next EXCEPT ![a] = next[prev], ![prev] = a]
      /\ UNCHANGED <<queue, taken, priority>>

\* Mutant: the last node stays linked.
BugSuccessor(h) == IF next[h] = NULL THEN h ELSE next[h]

\* The new head once h is taken.
Successor(h) == next[h]

\* An empty queue returns NULL and nothing changes.  The node taken keeps its
\* link to the node that is now the head.
ppool_queue_get_task ==
  /\ queue
  /\ head # NULL
  /\ taken' = taken \union {head}
  /\ head' = Successor(head)
  /\ len' = len - 1
  /\ UNCHANGED <<queue, fresh, fields>>

\* free(task) at the end of the loop of ppool_run.
FreeTask(a) ==
  /\ a \in taken
  /\ taken' = taken \ {a}
  /\ UNCHANGED <<queue, len, head, fresh, fields>>

\* Mutant: the length survives the cleanup.
BugCleanLen == len

CleanLen == 0

\* Frees the linked nodes and leaves an empty queue.
ppool_queue_cleanup ==
  /\ queue
  /\ len' = CleanLen
  /\ head' = NULL
  /\ UNCHANGED <<queue, fresh, taken, fields>>

\* Frees the linked nodes and the queue; its fields are gone with it.
ppool_queue_destroy ==
  /\ queue
  /\ queue' = FALSE
  /\ len' = 0
  /\ head' = NULL
  /\ UNCHANGED <<fresh, taken, fields>>

QueueNext ==
  \/ ppool_queue_init
  \/ \E a \in NodeAddrs, p \in Priorities : ppool_queue_new(a, p)
  \/ \E a \in NodeAddrs : ppool_queue_add(a) \/ FreeTask(a)
  \/ ppool_queue_get_task
  \/ ppool_queue_cleanup
  \/ ppool_queue_destroy

QueueSpec == QueueInit /\ [][QueueNext]_queueVars

-----------------------------------------------------------------------------

\* The list ends in NULL after exactly len nodes, none met twice: the length
\* that ppool_run tests and the nodes ppool_queue_get_task finds agree.
LengthIsListLength ==
  /\ Walk(head)[Cardinality(NodeAddrs)] = NULL
  /\ Cardinality(Linked) = len

\* A node belongs to the list, to the caller that allocated it or to the worker
\* that took it, never to two of them: no node is freed while it is linked.
OneOwner ==
  /\ fresh \intersect Linked = {}
  /\ taken \intersect Linked = {}
  /\ fresh \intersect taken = {}

\* Every call changes the list as module TaskQueue says: insertion in serving
\* order, removal of the first node, or removal of all of them.
ListIsTaskQueue ==
  [][ \/ \E a \in fresh \ fresh' : List' = InsertNode(List, NodeAt(a))
      \/ taken' \ taken = {head} /\ List # <<>> /\ List' = Tail(List)
      \/ UNCHANGED <<fresh, taken>> /\ List' = <<>>
    ]_List

=============================================================================
