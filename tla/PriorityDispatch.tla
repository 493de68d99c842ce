-------------------------- MODULE PriorityDispatch --------------------------
(***************************************************************************)
(* What the thread pool of components/ppool promises its users: a task     *)
(* that was accepted is handed out once, always the one of smallest        *)
(* priority number, in order of acceptance among equal priorities, and     *)
(* then executed once.  No threads, no lock, no queue.                     *)
(***************************************************************************)
EXTENDS Integers

CONSTANT Priorities    \* priority numbers a caller may give; negative ones are refused

VARIABLES accepted,    \* number of tasks accepted so far; ticket of the last
          pending,     \* accepted, not yet handed to a worker
          assigned,    \* handed to a worker, entry not called yet
          executed     \* tickets of the tasks whose entry was called

vars == <<accepted, pending, assigned, executed>>

\* m is to be served before n.
Before(m, n) ==
  \/ m.priority < n.priority
  \/ m.priority = n.priority /\ m.ticket < n.ticket

Init ==
  /\ accepted = 0
  /\ pending = {}
  /\ assigned = {}
  /\ executed = {}

Accept(p) ==
  /\ p >= 0
  /\ accepted' = accepted + 1
  /\ pending' = pending \union {[priority |-> p, ticket |-> accepted + 1]}
  /\ UNCHANGED <<assigned, executed>>

Assign(n) ==
  /\ n \in pending
  /\ \A m \in pending \ {n} : Before(n, m)
  /\ pending' = pending \ {n}
  /\ assigned' = assigned \union {n}
  /\ UNCHANGED <<accepted, executed>>

Execute(n) ==
  /\ n \in assigned
  /\ n.ticket \notin executed
  /\ assigned' = assigned \ {n}
  /\ executed' = executed \union {n.ticket}
  /\ UNCHANGED <<accepted, pending>>

Next ==
  \/ \E p \in Priorities : Accept(p)
  \/ \E n \in pending : Assign(n)
  \/ \E n \in assigned : Execute(n)

Spec == Init /\ [][Next]_vars

=============================================================================
