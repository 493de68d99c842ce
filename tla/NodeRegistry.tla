---------------------------- MODULE NodeRegistry ----------------------------
(***************************************************************************)
(* The fixed-capacity node registry of core/runtime/src/node_registry.c:   *)
(* an array of records given by the caller, filled from index 0 and kept   *)
(* compact by unregister, and the pointers into it that find and at return.*)
(* The registry has no lock and is used by one thread (docs/runtime.md).   *)
(*                                                                         *)
(* A record is its name, state and last_heartbeat_ms; node_id, kind and    *)
(* user_data are copied and cleared with them.  BadName stands for every   *)
(* name that node_name_valid refuses: NULL, empty or too long.             *)
(***************************************************************************)
EXTENDS Integers, FiniteSets

CONSTANTS Names,       \* names node_name_valid accepts
          BadName,
          NoName,      \* the name of a zeroed record
          States,      \* ember_node_state_t values
          NoState,     \* EMBER_NODE_STATE_UNKNOWN, a zeroed state
          Times,       \* values of now_ms and last_heartbeat_ms
          StorageSize  \* records in the storage handed to init

ASSUME RegistryAssumption ==
  /\ StorageSize \in Nat
  /\ BadName \notin Names
  /\ NoName \notin Names \union {BadName}
  /\ NoState \in States
  /\ 0 \in Times
  /\ Times \subseteq Nat

VARIABLES
  records,   \* the caller's storage
  capacity,  \* registry->capacity; 0 while registry->records is NULL
  count,     \* registry->count
  call,      \* history: the last call that returns a code, and its name argument
  result,    \* the code it returned
  ptr        \* a record pointer the caller keeps: its index and the name it was
             \* obtained for; valid until that record may have moved (history)

vars == <<records, capacity, count, call, result, ptr>>

Slots == 0..(StorageSize - 1)
Record == [name : Names \union {NoName}, state : States, heartbeat : Times]
ZeroRecord == [name |-> NoName, state |-> NoState, heartbeat |-> 0]
Used == 0..(count - 1)
NoPtr == [index |-> 0, name |-> NoName, valid |-> FALSE]

Init ==
  /\ records = [i \in Slots |-> ZeroRecord]
  /\ capacity = 0
  /\ count = 0
  /\ call = <<"none", BadName>>
  /\ result = "OK"
  /\ ptr = NoPtr

node_name_valid(n) == n # BadName

\* The search of ember_node_registry_find: the first record of that name.
Matches(n) == {i \in Used : node_name_valid(n) /\ records[i].name = n}

\* Mutant: the search returns the last record searched.
BugFind(n) == count - 1

Find(n) == CHOOSE i \in Matches(n) : \A j \in Matches(n) : i <= j

-----------------------------------------------------------------------------

Cleared(cap) == [i \in Slots |-> IF i < cap THEN ZeroRecord ELSE records[i]]

Return(op, n, code) == call' = <<op, n>> /\ result' = code

ember_node_registry_init(cap) ==
  \/ /\ cap = 0
     /\ Return("init", BadName, "EINVAL")
     /\ UNCHANGED <<records, capacity, count, ptr>>
  \/ /\ cap > 0
     /\ Return("init", BadName, "OK")
     /\ records' = Cleared(cap)
     /\ capacity' = cap
     /\ count' = 0
     /\ ptr' = NoPtr

ember_node_registry_clear ==
  /\ capacity > 0
  /\ records' = Cleared(capacity)
  /\ count' = 0
  /\ ptr' = NoPtr
  /\ UNCHANGED <<capacity, call, result>>

\* Mutant: one record too many is accepted.
BugFull == count > capacity

Full == count >= capacity

Duplicate(n) == Matches(n) # {}

RegisterResult(r) ==
  IF capacity = 0 \/ ~node_name_valid(r.name) THEN "EINVAL"
  ELSE IF Full THEN "ENOSPC"
  ELSE IF Duplicate(r.name) THEN "EDUP" ELSE "OK"

\* Mutant: new records go to the front.
BugAppended(r) ==
  [i \in Slots |-> IF i = 0 THEN r ELSE IF i <= count THEN records[i - 1] ELSE records[i]]

Appended(r) == [records EXCEPT ![count] = r]

ember_node_registry_register(r) ==
  /\ Return("register", r.name, RegisterResult(r))
  /\ IF RegisterResult(r) = "OK"
     THEN records' = Appended(r) /\ count' = count + 1
     ELSE UNCHANGED <<records, count>>
  /\ UNCHANGED <<capacity, ptr>>

\* Mutant: the last record fills the gap.
BugRemoved(k) ==
  [i \in Slots |-> IF i = count - 1 THEN ZeroRecord
                   ELSE IF i = k THEN records[count - 1]
                   ELSE records[i]]

\* Mutant: the slot behind the last record is not cleared.
BugRemovedKeepsTail(k) ==
  [i \in Slots |-> IF k <= i /\ i < count - 1 THEN records[i + 1] ELSE records[i]]

\* The records behind k move down by one and the last slot is cleared.
Removed(k) ==
  [i \in Slots |-> IF i = count - 1 THEN ZeroRecord
                   ELSE IF k <= i /\ i < count - 1 THEN records[i + 1]
                   ELSE records[i]]

\* A kept pointer is lost when its record, or one in front of it, goes.
ember_node_registry_unregister(n) ==
  \/ /\ capacity = 0 \/ ~node_name_valid(n)
     /\ Return("unregister", n, "EINVAL")
     /\ UNCHANGED <<records, capacity, count, ptr>>
  \/ /\ capacity > 0 /\ node_name_valid(n) /\ Matches(n) = {}
     /\ Return("unregister", n, "ENOTFOUND")
     /\ UNCHANGED <<records, capacity, count, ptr>>
  \/ /\ Matches(n) # {}
     /\ Return("unregister", n, "OK")
     /\ records' = Removed(Find(n))
     /\ count' = count - 1
     /\ ptr' = IF ptr.valid /\ ptr.index < Find(n) THEN ptr ELSE NoPtr
     /\ UNCHANGED capacity

\* update_state and heartbeat change one field of the record they find; an
\* invalid name is not found.
SetField(op, n, field, value) ==
  /\ \/ /\ Matches(n) = {}
        /\ Return(op, n, "ENOTFOUND")
        /\ UNCHANGED records
     \/ /\ Matches(n) # {}
        /\ Return(op, n, "OK")
        /\ records' = [records EXCEPT ![Find(n)][field] = value]
  /\ UNCHANGED <<capacity, count, ptr>>

ember_node_registry_update_state(n, s) == SetField("update_state", n, "state", s)

ember_node_registry_heartbeat(n, now_ms) == SetField("heartbeat", n, "heartbeat", now_ms)

\* The caller keeps the pointer that find returned, or at for that index.
ember_node_registry_find(n) ==
  /\ Matches(n) # {}
  /\ ptr' = [index |-> Find(n), name |-> n, valid |-> TRUE]
  /\ UNCHANGED <<records, capacity, count, call, result>>

ember_node_registry_at(i) ==
  /\ i < count
  /\ ptr' = [index |-> i, name |-> records[i].name, valid |-> TRUE]
  /\ UNCHANGED <<records, capacity, count, call, result>>

\* The caller's record, copied whole: any state, any last heartbeat.
NewRecord(n, s, t) == [name |-> n, state |-> s, heartbeat |-> t]

Next ==
  \/ \E cap \in 0..StorageSize : ember_node_registry_init(cap)
  \/ ember_node_registry_clear
  \/ \E n \in Names \union {BadName} :
       \/ \E s \in States, t \in Times : ember_node_registry_register(NewRecord(n, s, t))
       \/ \E s \in States : ember_node_registry_update_state(n, s)
       \/ ember_node_registry_unregister(n)
       \/ \E t \in Times : ember_node_registry_heartbeat(n, t)
       \/ ember_node_registry_find(n)
  \/ \E i \in Slots : ember_node_registry_at(i)

Spec == Init /\ [][Next]_vars

-----------------------------------------------------------------------------

\* Every variable has a value of its type.
TypeOK ==
  /\ records \in [Slots -> Record]
  /\ capacity \in 0..StorageSize
  /\ count \in 0..capacity
  /\ call[2] \in Names \union {BadName}
  /\ result \in {"OK", "EINVAL", "ENOSPC", "EDUP", "ENOTFOUND"}
  /\ ptr \in [index : Nat, name : Names \union {NoName}, valid : BOOLEAN]

\* The first count slots hold named records, no name twice; the other slots of
\* the registry are zeroed, so no trace of a removed node is left in them.
Compact ==
  /\ \A i \in Used : records[i].name # NoName
  /\ \A i, j \in Used : records[i].name = records[j].name => i = j
  /\ \A i \in Slots : count <= i /\ i < capacity => records[i] = ZeroRecord

\* A record pointer obtained from find or at goes on denoting the node it was
\* obtained for until that node or an earlier one is unregistered, or the
\* registry is cleared: register, update and heartbeat move nothing.
PointerDenotesNode ==
  ptr.valid => ptr.index < count /\ records[ptr.index].name = ptr.name

\* No call changes the order in which at() enumerates the nodes that stay.
EnumerationOrderKept ==
  [][\A i \in Used, k \in Used' :
       records[i].name = records'[k].name =>
         \A j \in Used, l \in Used' : (i < j /\ records[j].name = records'[l].name) => k < l]_vars

Directory ==
  [n \in {records[i].name : i \in Used} |->
     LET i == CHOOSE i \in Used : records[i].name = n
     IN  [state |-> records[i].state, heartbeat |-> records[i].heartbeat]]

ND == INSTANCE NodeDirectory WITH dir <- Directory

\* The array behaves as the directory of module NodeDirectory, and every call
\* answers with the code that directory gives.
ImplementsDirectory == ND!Spec

=============================================================================
