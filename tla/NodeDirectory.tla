--------------------------- MODULE NodeDirectory ---------------------------
(***************************************************************************)
(* What the node registry promises: a directory of at most capacity nodes, *)
(* at most one per name, and what each call answers.  No array, no         *)
(* positions, no pointers.                                                 *)
(***************************************************************************)
EXTENDS Naturals, FiniteSets

CONSTANTS Names, BadName, States, Times, StorageSize

VARIABLES capacity,    \* 0 before the registry is initialised
          dir,         \* from the registered names to [state, heartbeat]
          call,        \* the last call that answers with a code, and its name argument
          result       \* its answer

vars == <<capacity, dir, call, result>>

Init ==
  /\ capacity = 0
  /\ dir = <<>>
  /\ call = <<"none", BadName>>
  /\ result = "OK"

Answer(op, n, code) ==
  /\ call' = <<op, n>>
  /\ result' = code
  /\ UNCHANGED capacity

Setup(cap) ==
  /\ call' = <<"init", BadName>>
  /\ IF cap = 0 THEN result' = "EINVAL" /\ UNCHANGED <<capacity, dir>>
                ELSE result' = "OK" /\ capacity' = cap /\ dir' = <<>>

Clear == UNCHANGED <<capacity, call, result>> /\ dir' = <<>>

Register(n) ==
  \/ /\ Answer("register", n, "EINVAL")
     /\ n = BadName \/ capacity = 0
     /\ UNCHANGED dir
  \/ /\ Answer("register", n, "ENOSPC")
     /\ n # BadName /\ capacity > 0
     /\ Cardinality(DOMAIN dir) = capacity
     /\ UNCHANGED dir
  \/ /\ Answer("register", n, "EDUP")
     /\ Cardinality(DOMAIN dir) < capacity
     /\ n \in DOMAIN dir
     /\ UNCHANGED dir
  \/ /\ Answer("register", n, "OK")
     /\ Cardinality(DOMAIN dir) < capacity
     /\ n \notin DOMAIN dir \union {BadName}
     /\ \E s \in States, t \in Times :
          dir' = [m \in DOMAIN dir \union {n} |->
                    IF m = n THEN [state |-> s, heartbeat |-> t] ELSE dir[m]]

Unregister(n) ==
  \/ /\ Answer("unregister", n, "EINVAL")
     /\ n = BadName \/ capacity = 0
     /\ UNCHANGED dir
  \/ /\ Answer("unregister", n, "ENOTFOUND")
     /\ n # BadName /\ capacity > 0
     /\ n \notin DOMAIN dir
     /\ UNCHANGED dir
  \/ /\ Answer("unregister", n, "OK")
     /\ n \in DOMAIN dir
     /\ dir' = [m \in DOMAIN dir \ {n} |-> dir[m]]

Update(op, n, e) ==
  \/ Answer(op, n, "ENOTFOUND") /\ n \notin DOMAIN dir /\ UNCHANGED dir
  \/ Answer(op, n, "OK") /\ n \in DOMAIN dir /\ dir' = [dir EXCEPT ![n] = e]

SetState(n, s) ==
  Update("update_state", n, IF n \in DOMAIN dir THEN [dir[n] EXCEPT !.state = s] ELSE <<>>)

Heartbeat(n, t) ==
  Update("heartbeat", n, IF n \in DOMAIN dir THEN [dir[n] EXCEPT !.heartbeat = t] ELSE <<>>)

Next ==
  \/ \E cap \in 0..StorageSize : Setup(cap)
  \/ Clear
  \/ \E n \in Names \union {BadName} :
       \/ Register(n)
       \/ Unregister(n)
       \/ \E s \in States : SetState(n, s)
       \/ \E t \in Times : Heartbeat(n, t)

Spec == Init /\ [][Next]_vars

=============================================================================
