----------------------------- MODULE TaskQueue -----------------------------
(***************************************************************************)
(* The task queue of components/ppool/src/ppool_queue.c as a sequence of   *)
(* nodes, the next one to serve first.  A node is a record with a field    *)
(* priority; a smaller number is served earlier.                           *)
(***************************************************************************)
EXTENDS Integers, Sequences

\* Mutant: a new node overtakes the queued ones of its own priority.
BugInsertPosStrict(q, p) ==
  CHOOSE k \in 0..Len(q) :
    /\ \A i \in 1..k : q[i].priority < p
    /\ k < Len(q) => q[k + 1].priority >= p

\* Mutant: the priority is ignored.
BugInsertPosEnd(q, p) == Len(q)

\* ppool_queue_get_insert_pos: how many nodes at the front have a priority
\* number not above the new one (0 for the empty queue, where the code says -1).
InsertPos(q, p) ==
  CHOOSE k \in 0..Len(q) :
    /\ \A i \in 1..k : q[i].priority <= p
    /\ k < Len(q) => q[k + 1].priority > p

\* ppool_queue_add: link the node after the first InsertPos nodes.
InsertNode(q, n) ==
  LET k == InsertPos(q, n.priority)
  IN  [i \in 1..(Len(q) + 1) |-> IF i <= k THEN q[i]
                                 ELSE IF i = k + 1 THEN n
                                 ELSE q[i - 1]]

\* Mutant: the last node stays in the queue.
BugRemoveHead(q) == IF Len(q) = 1 THEN q ELSE Tail(q)

\* ppool_queue_get_task of a non-empty queue leaves the rest.
RemoveHead(q) == Tail(q)

=============================================================================
