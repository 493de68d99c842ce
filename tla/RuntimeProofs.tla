---------------------------- MODULE RuntimeProofs ---------------------------
(***************************************************************************)
(* Proofs about the two libraries of core/runtime.                         *)
(*                                                                         *)
(* The node registry, for any storage, names, states and times: type       *)
(* correctness, that the array stays compact and free of duplicates, that  *)
(* kept pointers denote their node, that no call reorders the nodes, and   *)
(* that the array implements the directory of NodeDirectory.               *)
(*                                                                         *)
(* The state machine, for any table, any number of states and events and   *)
(* any depth of nested dispatches: only states the table leads to are      *)
(* entered, and the outermost transition decides where it ends.            *)
(***************************************************************************)
EXTENDS NodeRegistry, Fsm, FiniteSetTheorems, SequenceTheorems, TLAPS

-----------------------------------------------------------------------------
(* The node registry.                                                      *)

RegistryInvariant == TypeOK /\ Compact /\ PointerDenotesNode

-----------------------------------------------------------------------------
(* The searches.                                                           *)

\* The slots in use are slots of the storage.
LEMMA UsedFacts ==
  ASSUME TypeOK
  PROVE  /\ StorageSize \in Nat /\ capacity \in Nat /\ count \in Nat
         /\ count <= capacity /\ capacity <= StorageSize
         /\ Used \subseteq Slots
         /\ \A i \in Slots : i \in Int /\ 0 <= i /\ i < StorageSize /\ records[i] \in Record
         /\ \A i \in Slots : i \in Used <=> i < count
BY RegistryAssumption DEF TypeOK, Used, Slots

\* In a compact array the search of ember_node_registry_find has one answer.
LEMMA FindFacts ==
  ASSUME RegistryInvariant, NEW m, Matches(m) # {}
  PROVE  /\ Find(m) \in Used /\ Find(m) \in Slots
         /\ records[Find(m)].name = m
         /\ m \in Names /\ m # BadName
         /\ \A i \in Used : records[i].name = m => i = Find(m)
<1>0. TypeOK /\ Compact
  BY DEF RegistryInvariant
<1>1. PICK k \in Used : node_name_valid(m) /\ records[k].name = m
  BY DEF Matches
<1>2. \A i \in Used : records[i].name = m => i = k
  BY <1>0, <1>1 DEF Compact
<1>3. Matches(m) = {k}
  BY <1>1, <1>2 DEF Matches
<1>4. k \in Slots /\ k \in Int
  BY <1>0, UsedFacts
<1>5. Find(m) = k
  BY <1>3, <1>4 DEF Find
<1>6. m \in Names \union {NoName} /\ m # NoName
  BY <1>0, <1>1, <1>4, UsedFacts DEF Compact, Record
<1>7. m # BadName
  BY <1>1 DEF node_name_valid
<1> QED BY <1>1, <1>2, <1>4, <1>5, <1>6, <1>7

\* A search that finds nothing: no record in use has a valid name's value.
LEMMA NoMatch ==
  ASSUME NEW m, m # BadName, Matches(m) = {}
  PROVE  \A i \in Used : records[i].name # m
BY DEF Matches, node_name_valid

-----------------------------------------------------------------------------
(* The invariant, call by call.                                            *)

\* The zeroed registry satisfies the invariant.
LEMMA InitInvariant == Init => RegistryInvariant
<1> SUFFICES ASSUME Init PROVE RegistryInvariant
  OBVIOUS
<1> USE RegistryAssumption DEF Init
<1>1. TypeOK
  BY DEF TypeOK, Record, ZeroRecord, NoPtr, Slots
<1>2. Compact
  BY DEF Compact, Used, Slots
<1>3. PointerDenotesNode
  BY DEF PointerDenotesNode, NoPtr
<1> QED BY <1>1, <1>2, <1>3 DEF RegistryInvariant

\* init and clear zero the records of the registry.
LEMMA ClearStep ==
  ASSUME RegistryInvariant, NEW cap \in 0..StorageSize, cap > 0,
         records' = Cleared(cap), capacity' = cap, count' = 0, ptr' = NoPtr,
         call'[2] \in Names \union {BadName},
         result' \in {"OK", "EINVAL", "ENOSPC", "EDUP", "ENOTFOUND"}
  PROVE  RegistryInvariant'
<1>0. TypeOK
  BY DEF RegistryInvariant
<1> USE <1>0, RegistryAssumption
<1>1. ZeroRecord \in Record
  BY DEF ZeroRecord, Record
<1>2. records' \in [Slots -> Record]
  BY <1>1, UsedFacts DEF Cleared
<1>3. TypeOK'
  BY <1>2 DEF TypeOK, NoPtr
<1>4. Compact'
  BY <1>3, UsedFacts DEF Compact, Used, Slots, Cleared
<1>5. PointerDenotesNode'
  BY DEF PointerDenotesNode, NoPtr
<1> QED BY <1>3, <1>4, <1>5 DEF RegistryInvariant

\* register writes only the first free slot, and only a name not in use.
LEMMA RegisterStep ==
  ASSUME RegistryInvariant, NEW m \in Names \union {BadName}, NEW s \in States, NEW t \in Times,
         ember_node_registry_register(NewRecord(m, s, t))
  PROVE  RegistryInvariant'
<1> DEFINE r == NewRecord(m, s, t)
<1>0. TypeOK /\ Compact /\ PointerDenotesNode
  BY DEF RegistryInvariant
<1> USE <1>0, RegistryAssumption
<1>1. r.name = m
  BY DEF NewRecord
<1>2. /\ call' = <<"register", m>> /\ result' = RegisterResult(r)
      /\ UNCHANGED <<capacity, ptr>>
  BY <1>1 DEF ember_node_registry_register, Return
<1>3. result' \in {"OK", "EINVAL", "ENOSPC", "EDUP", "ENOTFOUND"} /\ call'[2] = m
  BY <1>2 DEF RegisterResult
<1>4. CASE RegisterResult(r) # "OK"
  <2>1. UNCHANGED <<records, count>>
    BY <1>4 DEF ember_node_registry_register
  <2> QED BY <2>1, <1>2, <1>3 DEF RegistryInvariant, TypeOK, Compact, PointerDenotesNode, Used
<1>5. CASE RegisterResult(r) = "OK"
  <2>1. capacity # 0 /\ m # BadName /\ count < capacity /\ Matches(m) = {}
    BY <1>1, <1>5, UsedFacts DEF RegisterResult, node_name_valid, Full, Duplicate
  <2>2. records' = Appended(r) /\ count' = count + 1
    BY <1>5 DEF ember_node_registry_register
  <2>3. count \in Slots /\ count \notin Used /\ r \in Record /\ m \in Names /\ m # NoName
    BY <2>1, UsedFacts DEF Slots, Used, NewRecord, Record
  <2>4. /\ records' \in [Slots -> Record]
        /\ records'[count] = r
        /\ \A i \in Slots : i # count => records'[i] = records[i]
    BY <2>2, <2>3 DEF Appended, TypeOK
  <2>5. TypeOK'
    BY <2>1, <2>2, <2>4, <1>2, <1>3, UsedFacts DEF TypeOK
  <2>6. \A i \in Used' : i \in Slots /\ (i = count \/ i \in Used)
    BY <2>1, <2>2, UsedFacts DEF Used, Slots
  <2>7. \A i \in Used : i \in Slots /\ i # count /\ records'[i] = records[i]
    BY <2>3, <2>4, UsedFacts
  <2>8. \A i \in Used : records[i].name # m
    BY <2>1, NoMatch
  <2>9. Compact'
    <3>1. \A i \in Used' : records'[i].name # NoName
      BY <2>3, <2>4, <2>6, <2>7, <1>1 DEF Compact
    <3>2. \A i, j \in Used' : records'[i].name = records'[j].name => i = j
      BY <2>4, <2>6, <2>7, <2>8, <1>1 DEF Compact
    <3>3. \A i \in Slots : count' <= i /\ i < capacity' => records'[i] = ZeroRecord
      BY <2>2, <2>4, <1>2, UsedFacts DEF Compact
    <3> QED BY <3>1, <3>2, <3>3 DEF Compact
  <2>10. PointerDenotesNode'
    <3> SUFFICES ASSUME ptr'.valid
                 PROVE  ptr'.index < count' /\ records'[ptr'.index].name = ptr'.name
      BY DEF PointerDenotesNode
    <3>1. ptr' = ptr /\ ptr.valid /\ ptr.index < count /\ ptr.index \in Nat
          /\ records[ptr.index].name = ptr.name
      BY <1>2 DEF PointerDenotesNode, TypeOK
    <3>2. ptr.index \in Used
      BY <3>1, UsedFacts DEF Used
    <3> QED BY <3>1, <3>2, <2>2, <2>7, UsedFacts
  <2> QED BY <2>5, <2>9, <2>10 DEF RegistryInvariant
<1> QED BY <1>4, <1>5

\* What unregister leaves in the array: the records in front of k stay, those
\* behind it move down by one, and the last slot is zeroed.
LEMMA RemovedFacts ==
  ASSUME TypeOK, NEW k \in Used
  PROVE  /\ Removed(k) \in [Slots -> Record]
         /\ \A i \in Slots : i < k => Removed(k)[i] = records[i]
         /\ \A i \in Slots : k <= i /\ i < count - 1 => i + 1 \in Used /\ Removed(k)[i] = records[i + 1]
         /\ count - 1 \in Slots /\ Removed(k)[count - 1] = ZeroRecord
         /\ \A i \in Slots : count <= i => Removed(k)[i] = records[i]
<1>1. ZeroRecord \in Record
  BY RegistryAssumption DEF ZeroRecord, Record
<1>2. k \in Int /\ 0 <= k /\ k < count /\ count - 1 \in Slots
  BY UsedFacts DEF Used, Slots
<1>3. \A i \in Slots : k <= i /\ i < count - 1 => i + 1 \in Used /\ i + 1 \in Slots
  BY <1>2, UsedFacts DEF Used, Slots
<1>4. Removed(k) \in [Slots -> Record]
  <2> SUFFICES ASSUME NEW i \in Slots
               PROVE  (IF i = count - 1 THEN ZeroRecord
                       ELSE IF k <= i /\ i < count - 1 THEN records[i + 1]
                       ELSE records[i]) \in Record
    BY DEF Removed
  <2> QED BY <1>1, <1>3, UsedFacts
<1>5. \A i \in Slots : i < k => Removed(k)[i] = records[i]
  BY <1>2, UsedFacts DEF Removed
<1>6. \A i \in Slots : k <= i /\ i < count - 1 => Removed(k)[i] = records[i + 1]
  BY <1>2, UsedFacts DEF Removed
<1>7. Removed(k)[count - 1] = ZeroRecord
  BY <1>2 DEF Removed
<1>8. \A i \in Slots : count <= i => Removed(k)[i] = records[i]
  BY <1>2, UsedFacts DEF Removed
<1> QED BY <1>2, <1>3, <1>4, <1>5, <1>6, <1>7, <1>8

\* Where a slot of the array without record k got its record from.
Origin(k, i) == IF i < k THEN i ELSE i + 1

\* Origin maps the slots left in use to those that were, in order, and misses k.
LEMMA OriginFacts ==
  ASSUME TypeOK, NEW k \in Used
  PROVE  /\ \A i \in 0..(count - 2) : /\ i \in Slots
                                      /\ Origin(k, i) \in Used
                                      /\ Origin(k, i) # k
                                      /\ Removed(k)[i] = records[Origin(k, i)]
         /\ \A i, j \in 0..(count - 2) : i < j <=> Origin(k, i) < Origin(k, j)
         /\ \A i \in Used : i # k => \E j \in 0..(count - 2) : Origin(k, j) = i
<1>1. k \in Int /\ 0 <= k /\ k < count /\ count \in Nat /\ count <= StorageSize /\ StorageSize \in Nat
  BY UsedFacts DEF Used
<1>2. ASSUME NEW i \in 0..(count - 2)
      PROVE  /\ i \in Slots /\ Origin(k, i) \in Used /\ Origin(k, i) # k
             /\ Removed(k)[i] = records[Origin(k, i)]
  <2>1. i \in Slots /\ i < count - 1
    BY <1>1 DEF Slots
  <2>2. CASE i < k
    BY <1>1, <2>1, <2>2, RemovedFacts DEF Origin, Used
  <2>3. CASE k <= i
    BY <1>1, <2>1, <2>3, RemovedFacts DEF Origin, Used
  <2> QED BY <1>1, <2>2, <2>3
<1>3. \A i, j \in 0..(count - 2) : i < j <=> Origin(k, i) < Origin(k, j)
  BY <1>1 DEF Origin
<1>4. ASSUME NEW i \in Used, i # k
      PROVE  \E j \in 0..(count - 2) : Origin(k, j) = i
  <2>1. CASE i < k
    BY <1>1, <2>1 DEF Origin, Used
  <2>2. CASE i > k
    <3>1. i - 1 \in 0..(count - 2) /\ Origin(k, i - 1) = i
      BY <1>1, <2>2 DEF Origin, Used
    <3> QED BY <3>1
  <2> QED BY <1>1, <1>4, <2>1, <2>2 DEF Used
<1> QED BY <1>2, <1>3, <1>4

\* unregister keeps the array compact; a pointer stays valid only when it is in
\* front of the record that goes.
LEMMA UnregisterStep ==
  ASSUME RegistryInvariant, NEW m \in Names \union {BadName},
         ember_node_registry_unregister(m)
  PROVE  RegistryInvariant'
<1>0. TypeOK /\ Compact /\ PointerDenotesNode
  BY DEF RegistryInvariant
<1> USE <1>0, RegistryAssumption
<1>1. CASE UNCHANGED <<records, capacity, count, ptr>> /\ call' = <<"unregister", m>>
           /\ result' \in {"EINVAL", "ENOTFOUND"}
  BY <1>1 DEF RegistryInvariant, TypeOK, Compact, PointerDenotesNode, Used
<1>2. CASE /\ Matches(m) # {}
           /\ call' = <<"unregister", m>> /\ result' = "OK"
           /\ records' = Removed(Find(m))
           /\ count' = count - 1
           /\ ptr' = IF ptr.valid /\ ptr.index < Find(m) THEN ptr ELSE NoPtr
           /\ capacity' = capacity
  <2> DEFINE k == Find(m)
  <2>1. k \in Used /\ k \in Slots
    BY <1>2, FindFacts
  <2>2. k \in Int /\ 0 <= k /\ k < count /\ count \in Nat
    BY <2>1, UsedFacts DEF Used
  <2>3. Used' = 0..(count - 2)
    BY <1>2, <2>2 DEF Used
  <2> HIDE DEF k
  <2>4. records' = Removed(k)
    BY <1>2 DEF k
  <2>5. TypeOK'
    <3>1. records' \in [Slots -> Record]
      BY <2>1, <2>4, RemovedFacts
    <3>2. ptr' \in [index : Nat, name : Names \union {NoName}, valid : BOOLEAN]
      BY <1>2 DEF TypeOK, NoPtr
    <3>3. count' \in 0..capacity'
      BY <1>2, <2>2, UsedFacts
    <3> QED BY <3>1, <3>2, <3>3, <1>2 DEF TypeOK
  <2>6. Compact'
    <3>1. \A i \in Used' : Origin(k, i) \in Used /\ records'[i] = records[Origin(k, i)]
      BY <2>1, <2>3, <2>4, OriginFacts
    <3>2. \A i \in Used' : records'[i].name # NoName
      BY <3>1 DEF Compact
    <3>3. \A i, j \in Used' : records'[i].name = records'[j].name => i = j
      <4> SUFFICES ASSUME NEW i \in Used', NEW j \in Used', records'[i].name = records'[j].name
                   PROVE  i = j
        OBVIOUS
      <4>1. Origin(k, i) = Origin(k, j)
        BY <3>1 DEF Compact
      <4> QED BY <4>1, <2>2, <2>3 DEF Origin
    <3>4. \A i \in Slots : count' <= i /\ i < capacity' => records'[i] = ZeroRecord
      <4> SUFFICES ASSUME NEW i \in Slots, count' <= i, i < capacity'
                   PROVE  records'[i] = ZeroRecord
        OBVIOUS
      <4>1. i = count - 1 \/ count <= i
        BY <1>2, UsedFacts
      <4> QED BY <4>1, <1>2, <2>1, <2>4, RemovedFacts DEF Compact
    <3> QED BY <3>2, <3>3, <3>4 DEF Compact
  <2>7. PointerDenotesNode'
    <3> SUFFICES ASSUME ptr'.valid
                 PROVE  ptr'.index < count' /\ records'[ptr'.index].name = ptr'.name
      BY DEF PointerDenotesNode
    <3>1. /\ ptr.valid /\ ptr.index < k
          /\ ptr'.index = ptr.index /\ ptr'.name = ptr.name /\ ptr.index \in Nat
      BY <1>2 DEF TypeOK, NoPtr, k
    <3>2. ptr.index \in Slots /\ records[ptr.index].name = ptr.name
      BY <3>1, <2>2, UsedFacts DEF PointerDenotesNode, Slots
    <3>3. records'[ptr.index] = records[ptr.index]
      BY <3>1, <3>2, <2>1, <2>4, RemovedFacts
    <3> QED BY <3>1, <3>2, <3>3, <1>2, <2>2
  <2> QED BY <2>5, <2>6, <2>7 DEF RegistryInvariant
<1> QED BY <1>1, <1>2 DEF ember_node_registry_unregister, Return

\* update_state and heartbeat leave every name where it is.
LEMMA SetFieldStep ==
  ASSUME RegistryInvariant, NEW m \in Names \union {BadName}, NEW op, NEW field, NEW v,
         \/ field = "state" /\ v \in States
         \/ field = "heartbeat" /\ v \in Times,
         SetField(op, m, field, v)
  PROVE  /\ RegistryInvariant'
         /\ \A i \in Slots : records'[i].name = records[i].name
         /\ count' = count /\ capacity' = capacity
<1>0. TypeOK /\ Compact /\ PointerDenotesNode
  BY DEF RegistryInvariant
<1> USE <1>0, RegistryAssumption
<1>1. UNCHANGED <<capacity, count, ptr>> /\ call' = <<op, m>> /\ result' \in {"OK", "ENOTFOUND"}
  BY DEF SetField, Return
<1>2. CASE UNCHANGED records
  BY <1>1, <1>2 DEF RegistryInvariant, TypeOK, Compact, PointerDenotesNode, Used
<1>3. CASE Matches(m) # {} /\ records' = [records EXCEPT ![Find(m)][field] = v]
  <2> DEFINE k == Find(m)
  <2>1. k \in Used /\ k \in Slots
    BY <1>3, FindFacts
  <2> HIDE DEF k
  <2>2. /\ \A i \in Slots : i # k => records'[i] = records[i]
        /\ records'[k] = [records[k] EXCEPT ![field] = v]
        /\ DOMAIN records' = Slots
    BY <1>3, <2>1 DEF TypeOK, k
  <2>3. records[k] \in Record
    BY <2>1, UsedFacts
  <2>4. records'[k] \in Record /\ records'[k].name = records[k].name
    <3>1. CASE field = "state"
      BY <2>2, <2>3, <3>1 DEF Record
    <3>2. CASE field = "heartbeat"
      BY <2>2, <2>3, <3>2 DEF Record
    <3> QED BY <3>1, <3>2
  <2>5. \A i \in Slots : records'[i] \in Record /\ records'[i].name = records[i].name
    BY <2>2, <2>4, UsedFacts
  <2>6. records' \in [Slots -> Record]
    BY <2>5, <1>3 DEF TypeOK
  <2>7. TypeOK'
    BY <2>6, <1>1 DEF TypeOK
  <2>8. Compact'
    BY <2>1, <2>2, <2>5, <1>1, UsedFacts DEF Compact, Used
  <2>9. PointerDenotesNode'
    <3>1. ptr.valid => ptr.index \in Slots
      BY UsedFacts DEF PointerDenotesNode, TypeOK, Slots
    <3> QED BY <3>1, <2>5, <1>1 DEF PointerDenotesNode
  <2> QED BY <2>5, <2>7, <2>8, <2>9, <1>1 DEF RegistryInvariant
<1> QED BY <1>2, <1>3 DEF SetField

\* find and at only hand out a pointer.
LEMMA PointerStep ==
  ASSUME RegistryInvariant,
         \/ \E m \in Names \union {BadName} : ember_node_registry_find(m)
         \/ \E i \in Slots : ember_node_registry_at(i)
  PROVE  RegistryInvariant' /\ UNCHANGED <<records, capacity, count, call, result>>
<1>0. TypeOK /\ Compact
  BY DEF RegistryInvariant
<1> USE <1>0, RegistryAssumption
<1>1. ASSUME NEW m \in Names \union {BadName}, ember_node_registry_find(m)
      PROVE  RegistryInvariant' /\ UNCHANGED <<records, capacity, count, call, result>>
  <2>1. Find(m) \in Nat /\ Find(m) < count /\ records[Find(m)].name = m /\ m \in Names
    BY <1>1, FindFacts, UsedFacts DEF ember_node_registry_find, Used
  <2> QED BY <1>1, <2>1 DEF ember_node_registry_find, RegistryInvariant, TypeOK, Compact,
                            PointerDenotesNode, Used
<1>2. ASSUME NEW i \in Slots, ember_node_registry_at(i)
      PROVE  RegistryInvariant' /\ UNCHANGED <<records, capacity, count, call, result>>
  <2>1. i \in Nat /\ records[i].name \in Names \union {NoName}
    BY UsedFacts DEF Record
  <2> QED BY <1>2, <2>1 DEF ember_node_registry_at, RegistryInvariant, TypeOK, Compact,
                            PointerDenotesNode, Used
<1> QED BY <1>1, <1>2

\* Every call of the registry keeps the invariant.
LEMMA InvariantStep == RegistryInvariant /\ [Next]_vars => RegistryInvariant'
<1> SUFFICES ASSUME RegistryInvariant, [Next]_vars PROVE RegistryInvariant'
  OBVIOUS
<1>0. TypeOK
  BY DEF RegistryInvariant
<1>1. ASSUME NEW cap \in 0..StorageSize, ember_node_registry_init(cap)
      PROVE  RegistryInvariant'
  <2>1. CASE cap = 0
    BY <1>1, <2>1 DEF ember_node_registry_init, Return, RegistryInvariant, TypeOK, Compact,
                      PointerDenotesNode, Used
  <2>2. CASE cap > 0
    <3>1. /\ records' = Cleared(cap) /\ capacity' = cap /\ count' = 0 /\ ptr' = NoPtr
          /\ call' = <<"init", BadName>> /\ result' = "OK"
      BY <1>1, <2>2 DEF ember_node_registry_init, Return
    <3> QED BY <2>2, <3>1, ClearStep
  <2> QED BY <1>1, <2>1, <2>2 DEF ember_node_registry_init
<1>2. CASE ember_node_registry_clear
  <2>1. capacity \in 0..StorageSize /\ capacity > 0
    BY <1>0, <1>2 DEF ember_node_registry_clear, TypeOK
  <2>2. /\ records' = Cleared(capacity) /\ capacity' = capacity /\ count' = 0 /\ ptr' = NoPtr
        /\ call'[2] \in Names \union {BadName}
        /\ result' \in {"OK", "EINVAL", "ENOSPC", "EDUP", "ENOTFOUND"}
    BY <1>0, <1>2 DEF ember_node_registry_clear, TypeOK
  <2> QED BY <2>1, <2>2, ClearStep
<1>3. ASSUME NEW m \in Names \union {BadName}, NEW s \in States, NEW t \in Times,
             ember_node_registry_register(NewRecord(m, s, t))
      PROVE  RegistryInvariant'
  BY <1>3, RegisterStep
<1>4. ASSUME NEW m \in Names \union {BadName}, NEW s \in States,
             ember_node_registry_update_state(m, s)
      PROVE  RegistryInvariant'
  BY <1>4, SetFieldStep DEF ember_node_registry_update_state
<1>5. ASSUME NEW m \in Names \union {BadName}, NEW t \in Times,
             ember_node_registry_heartbeat(m, t)
      PROVE  RegistryInvariant'
  BY <1>5, SetFieldStep DEF ember_node_registry_heartbeat
<1>6. ASSUME NEW m \in Names \union {BadName}, ember_node_registry_unregister(m)
      PROVE  RegistryInvariant'
  BY <1>6, UnregisterStep
<1>7. CASE \/ \E m \in Names \union {BadName} : ember_node_registry_find(m)
           \/ \E i \in Slots : ember_node_registry_at(i)
  BY <1>7, PointerStep
<1>8. CASE UNCHANGED vars
  BY <1>8 DEF vars, RegistryInvariant, TypeOK, Compact, PointerDenotesNode, Used
<1> QED BY <1>1, <1>2, <1>3, <1>4, <1>5, <1>6, <1>7, <1>8 DEF Next

-----------------------------------------------------------------------------
(* The order in which at() enumerates the nodes.                           *)

\* What EnumerationOrderKept asks of a step.
OrderKept ==
  \A i \in Used, k \in Used' :
    records[i].name = records'[k].name =>
      \A j \in Used, l \in Used' : (i < j /\ records[j].name = records'[l].name) => k < l

\* A step that leaves the nodes in use where they are keeps their order, since
\* no name occurs twice.
LEMMA OrderKeptInPlace ==
  ASSUME RegistryInvariant', \A i \in Used : i \in Used' /\ records'[i].name = records[i].name
  PROVE  OrderKept
<1>1. Compact'
  BY DEF RegistryInvariant
<1> QED BY <1>1 DEF OrderKept, Compact

\* No call of the registry reorders the nodes that stay.
LEMMA OrderStep == RegistryInvariant /\ [Next]_vars => OrderKept
<1> SUFFICES ASSUME RegistryInvariant, [Next]_vars PROVE OrderKept
  OBVIOUS
<1>0. TypeOK /\ RegistryInvariant'
  BY InvariantStep DEF RegistryInvariant
<1> USE <1>0
<1>1. CASE count' = 0
  <2>1. Used' = {}
    BY <1>1 DEF Used
  <2> QED BY <2>1 DEF OrderKept
<1>2. CASE UNCHANGED <<records, count>>
  BY <1>2, OrderKeptInPlace DEF Used
<1>3. ASSUME NEW m \in Names \union {BadName}, NEW s \in States, NEW t \in Times,
             ember_node_registry_register(NewRecord(m, s, t))
      PROVE  OrderKept
  <2>1. CASE UNCHANGED <<records, count>>
    BY <1>2, <2>1
  <2>2. CASE records' = Appended(NewRecord(m, s, t)) /\ count' = count + 1
    <3>1. \A i \in Used : i \in Used' /\ i \in Slots /\ i # count
      BY <2>2, UsedFacts DEF Used
    <3>2. \A i \in Used : records'[i] = records[i]
      BY <2>2, <3>1 DEF Appended, TypeOK
    <3> QED BY <3>1, <3>2, OrderKeptInPlace
  <2> QED BY <1>3, <2>1, <2>2 DEF ember_node_registry_register
<1>4. ASSUME NEW m \in Names \union {BadName}, NEW op, NEW field, NEW v,
             \/ field = "state" /\ v \in States
             \/ field = "heartbeat" /\ v \in Times,
             SetField(op, m, field, v)
      PROVE  OrderKept
  <2>1. count' = count /\ \A i \in Slots : records'[i].name = records[i].name
    BY <1>4, SetFieldStep
  <2> QED BY <2>1, UsedFacts, OrderKeptInPlace DEF Used
<1>5. ASSUME NEW m \in Names \union {BadName}, Matches(m) # {},
             records' = Removed(Find(m)), count' = count - 1
      PROVE  OrderKept
  <2>1. Find(m) \in Used
    BY <1>5, FindFacts
  <2>2. Used' = 0..(count - 2) /\ Compact
    BY <1>5, UsedFacts DEF Used, RegistryInvariant
  <2>3. \A k \in Used' : Origin(Find(m), k) \in Used
                         /\ records'[k] = records[Origin(Find(m), k)]
    BY <1>5, <2>1, <2>2, OriginFacts
  <2> SUFFICES ASSUME NEW i \in Used, NEW j \in Used, NEW k \in Used', NEW l \in Used', i < j,
                      records[i].name = records'[k].name, records[j].name = records'[l].name
               PROVE  k < l
    BY DEF OrderKept
  <2>4. i = Origin(Find(m), k) /\ j = Origin(Find(m), l)
    BY <2>2, <2>3 DEF Compact
  <2> QED BY <2>1, <2>2, <2>4, OriginFacts
<1>6. CASE \E cap \in 0..StorageSize : ember_node_registry_init(cap)
  BY <1>1, <1>2, <1>6 DEF ember_node_registry_init
<1>7. CASE ember_node_registry_clear
  BY <1>1, <1>7 DEF ember_node_registry_clear
<1>8. ASSUME NEW m \in Names \union {BadName}, ember_node_registry_unregister(m)
      PROVE  OrderKept
  BY <1>2, <1>5, <1>8 DEF ember_node_registry_unregister
<1>9. CASE \/ \E m \in Names \union {BadName} : ember_node_registry_find(m)
           \/ \E i \in Slots : ember_node_registry_at(i)
  BY <1>2, <1>9 DEF ember_node_registry_find, ember_node_registry_at
<1>10. CASE UNCHANGED vars
  BY <1>2, <1>10 DEF vars
<1>11. ASSUME NEW m \in Names \union {BadName}, NEW s \in States,
              ember_node_registry_update_state(m, s)
       PROVE  OrderKept
  BY <1>4, <1>11 DEF ember_node_registry_update_state
<1>12. ASSUME NEW m \in Names \union {BadName}, NEW t \in Times,
              ember_node_registry_heartbeat(m, t)
       PROVE  OrderKept
  BY <1>4, <1>12 DEF ember_node_registry_heartbeat
<1> QED BY <1>3, <1>6, <1>7, <1>8, <1>9, <1>10, <1>11, <1>12 DEF Next

-----------------------------------------------------------------------------
(* The refinement of NodeDirectory.                                        *)

\* What the directory keeps of the record in slot i.
Entry(i) == [state |-> records[i].state, heartbeat |-> records[i].heartbeat]

\* The directory that the array stands for.
DirectoryShape ==
  /\ DOMAIN Directory = {records[i].name : i \in Used}
  /\ Directory = [x \in DOMAIN Directory |-> Directory[x]]
  /\ \A i \in Used : Directory[records[i].name] = Entry(i)
  /\ Cardinality(DOMAIN Directory) = count
  /\ BadName \notin DOMAIN Directory

\* In a compact array the names in use are in bijection with the slots in use.
LEMMA NamesCounted ==
  ASSUME RegistryInvariant
  PROVE  Cardinality({records[i].name : i \in Used}) = count
<1> DEFINE T == {records[i].name : i \in Used}
           f == [j \in 1..count |-> records[j - 1].name]
<1>0. TypeOK /\ Compact
  BY DEF RegistryInvariant
<1>1. count \in Nat
  BY <1>0, UsedFacts
<1>2. \A j \in 1..count : j - 1 \in Used
  BY <1>1 DEF Used
<1>3. \A i \in Used : i + 1 \in 1..count /\ (i + 1) - 1 = i
  BY <1>1 DEF Used
<1>4. f \in [1..count -> T]
  BY <1>2
<1>5. ASSUME NEW a \in 1..count, NEW b \in 1..count, f[a] = f[b]
      PROVE  a = b
  <2>1. records[a - 1].name = records[b - 1].name
    BY <1>5
  <2>2. a - 1 = b - 1
    BY <2>1, <1>0, <1>2 DEF Compact
  <2> QED BY <2>2
<1>6. ASSUME NEW t \in T
      PROVE  \E j \in 1..count : f[j] = t
  <2>1. PICK i \in Used : t = records[i].name
    OBVIOUS
  <2>2. f[i + 1] = t
    BY <2>1, <1>3
  <2> QED BY <2>2, <1>3
<1>7. f \in Bijection(1..count, T)
  <2> HIDE DEF f, T
  <2> QED BY <1>4, <1>5, <1>6 DEF Bijection, Injection, Surjection, IsInjective
<1>8. ExistsBijection(1..count, T)
  BY <1>7 DEF ExistsBijection
<1> QED BY <1>1, <1>8, FS_CountingElements

\* The refinement mapping in terms of the slots in use.
LEMMA DirectoryFacts == RegistryInvariant => DirectoryShape
<1> SUFFICES ASSUME RegistryInvariant PROVE DirectoryShape
  OBVIOUS
<1>0. TypeOK /\ Compact
  BY DEF RegistryInvariant
<1>1. DOMAIN Directory = {records[i].name : i \in Used}
  BY DEF Directory
<1>2. Directory = [x \in DOMAIN Directory |-> Directory[x]]
  BY DEF Directory
<1>3. ASSUME NEW i \in Used
      PROVE  Directory[records[i].name] = Entry(i)
  <2>1. (CHOOSE j \in Used : records[j].name = records[i].name) = i
    BY <1>0 DEF Compact
  <2> QED BY <2>1 DEF Directory, Entry
<1>4. Cardinality(DOMAIN Directory) = count
  BY <1>1, NamesCounted
<1>5. BadName \notin DOMAIN Directory
  BY <1>0, <1>1, UsedFacts, RegistryAssumption DEF Record
<1> QED BY <1>1, <1>2, <1>3, <1>4, <1>5 DEF DirectoryShape

\* NodeDirectory counts with the same operator.
LEMMA SameCardinality == \A S : ND!Cardinality(S) = Cardinality(S)
BY DEF Cardinality, ND!Cardinality, IsFiniteSet, ND!IsFiniteSet

\* An array with no slot in use stands for the empty directory.
LEMMA EmptyDirectory == count = 0 => Directory = <<>>
<1> SUFFICES ASSUME count = 0 PROVE Directory = <<>>
  OBVIOUS
<1>1. Used = {}
  BY DEF Used
<1>2. Directory = [x \in {} |-> Directory[x]]
  BY <1>1 DEF Directory
<1> QED BY <1>2

\* A search succeeds exactly for the names of the directory.
LEMMA MatchesDirectory ==
  ASSUME RegistryInvariant, NEW m \in Names \union {BadName}
  PROVE  Matches(m) # {} <=> m \in DOMAIN Directory
<1>1. DOMAIN Directory = {records[i].name : i \in Used} /\ BadName \notin DOMAIN Directory
  BY DirectoryFacts DEF DirectoryShape
<1> QED BY <1>1 DEF Matches, node_name_valid

\* A step that changes neither the names in use nor their entries.
LEMMA SameDirectory == UNCHANGED <<records, count>> => Directory' = Directory
BY DEF Directory, Used

\* register answers and changes the directory as NodeDirectory says.
LEMMA RegisterRefines ==
  ASSUME RegistryInvariant, RegistryInvariant', NEW m \in Names \union {BadName}, NEW s \in States, NEW t \in Times,
         ember_node_registry_register(NewRecord(m, s, t))
  PROVE  ND!Register(m)
<1> DEFINE r == NewRecord(m, s, t)
<1>0. DirectoryShape /\ DirectoryShape' /\ TypeOK
  BY DirectoryFacts, PTL DEF RegistryInvariant
<1>1. r.name = m /\ r.state = s /\ r.heartbeat = t
  BY DEF NewRecord
<1>2. call' = <<"register", m>> /\ result' = RegisterResult(r) /\ capacity' = capacity
  BY <1>1 DEF ember_node_registry_register, Return
<1>3. /\ count \in Nat /\ capacity \in Nat /\ count <= capacity
      /\ ND!Cardinality(DOMAIN Directory) = count
  BY <1>0, UsedFacts, SameCardinality DEF DirectoryShape
<1>4. CASE RegisterResult(r) # "OK"
  <2>1. Directory' = Directory
    BY <1>4, SameDirectory DEF ember_node_registry_register
  <2>2. CASE capacity = 0 \/ m = BadName
    <3>1. result' = "EINVAL"
      BY <1>1, <1>2, <2>2 DEF RegisterResult, node_name_valid
    <3> QED BY <3>1, <2>1, <2>2, <1>2 DEF ND!Register, ND!Answer
  <2>3. CASE capacity # 0 /\ m # BadName /\ count >= capacity
    <3>1. result' = "ENOSPC"
      BY <1>1, <1>2, <2>3 DEF RegisterResult, node_name_valid, Full
    <3> QED BY <3>1, <2>1, <2>3, <1>2, <1>3 DEF ND!Register, ND!Answer
  <2>4. CASE capacity # 0 /\ m # BadName /\ count < capacity
    <3>1. result' = "EDUP" /\ Matches(m) # {}
      BY <1>1, <1>2, <1>3, <1>4, <2>4 DEF RegisterResult, node_name_valid, Full, Duplicate
    <3>2. m \in DOMAIN Directory
      BY <3>1, MatchesDirectory
    <3> QED BY <3>1, <3>2, <2>1, <2>4, <1>2, <1>3 DEF ND!Register, ND!Answer
  <2> QED BY <2>2, <2>3, <2>4, <1>3
<1>5. CASE RegisterResult(r) = "OK"
  <2>1. m # BadName /\ count < capacity /\ Matches(m) = {}
    BY <1>1, <1>3, <1>5 DEF RegisterResult, node_name_valid, Full, Duplicate
  <2>2. records' = Appended(r) /\ count' = count + 1
    BY <1>5 DEF ember_node_registry_register
  <2>3. count \in Slots /\ count \in Used' /\ Used' = Used \union {count} /\ count \notin Used
    BY <2>1, <2>2, <1>0, UsedFacts DEF Slots, Used
  <2>4. records'[count] = r /\ \A i \in Used : records'[i] = records[i]
    BY <2>2, <2>3, <1>0, UsedFacts DEF Appended, TypeOK
  <2>5. m \notin DOMAIN Directory
    BY <2>1, MatchesDirectory
  <2> DEFINE g == [x \in DOMAIN Directory \union {m} |->
                     IF x = m THEN [state |-> s, heartbeat |-> t] ELSE Directory[x]]
  <2>6. DOMAIN Directory' = DOMAIN Directory \union {m}
    <3>1. DOMAIN Directory' = {records'[i].name : i \in Used'}
      BY <1>0 DEF DirectoryShape
    <3>2. DOMAIN Directory = {records[i].name : i \in Used}
      BY <1>0 DEF DirectoryShape
    <3> QED BY <3>1, <3>2, <2>3, <2>4, <1>1
  <2>7. ASSUME NEW x \in DOMAIN Directory'
        PROVE  Directory'[x] = g[x]
    <3>1. PICK i \in Used' : x = records'[i].name
      BY <1>0 DEF DirectoryShape
    <3>2. Directory'[x] = [state |-> records'[i].state, heartbeat |-> records'[i].heartbeat]
      BY <1>0, <3>1 DEF DirectoryShape, Entry
    <3>3. CASE i = count
      BY <3>1, <3>2, <3>3, <2>4, <2>6, <1>1
    <3>4. CASE i \in Used
      <4>1. records'[i] = records[i] /\ x = records[i].name /\ x # m /\ x \in DOMAIN Directory
        BY <3>1, <3>4, <2>4, <2>5, <1>0 DEF DirectoryShape
      <4>2. Directory[x] = [state |-> records[i].state, heartbeat |-> records[i].heartbeat]
        BY <4>1, <3>4, <1>0 DEF DirectoryShape, Entry
      <4> QED BY <4>1, <4>2, <3>2
    <3> QED BY <3>3, <3>4, <2>3
  <2>8. Directory' = g
    <3>1. Directory' = [x \in DOMAIN Directory' |-> Directory'[x]]
      BY <1>0 DEF DirectoryShape
    <3> QED BY <3>1, <2>6, <2>7
  <2> QED BY <2>1, <2>5, <2>8, <1>2, <1>3, <1>5 DEF ND!Register, ND!Answer
<1> QED BY <1>4, <1>5

\* unregister takes one name out of the directory, or answers why not.
LEMMA UnregisterRefines ==
  ASSUME RegistryInvariant, RegistryInvariant', NEW m \in Names \union {BadName},
         ember_node_registry_unregister(m)
  PROVE  ND!Unregister(m)
<1>0. DirectoryShape /\ DirectoryShape' /\ TypeOK
  BY DirectoryFacts, PTL DEF RegistryInvariant
<1>1. capacity \in Nat
  BY <1>0, UsedFacts
<1>2. CASE /\ capacity = 0 \/ ~node_name_valid(m)
           /\ call' = <<"unregister", m>> /\ result' = "EINVAL"
           /\ UNCHANGED <<records, capacity, count, ptr>>
  BY <1>2, SameDirectory DEF ND!Unregister, ND!Answer, node_name_valid
<1>3. CASE /\ capacity > 0 /\ node_name_valid(m) /\ Matches(m) = {}
           /\ call' = <<"unregister", m>> /\ result' = "ENOTFOUND"
           /\ UNCHANGED <<records, capacity, count, ptr>>
  BY <1>3, SameDirectory, MatchesDirectory DEF ND!Unregister, ND!Answer, node_name_valid
<1>4. CASE /\ Matches(m) # {}
           /\ call' = <<"unregister", m>> /\ result' = "OK"
           /\ records' = Removed(Find(m)) /\ count' = count - 1 /\ capacity' = capacity
  <2> DEFINE k == Find(m)
             g == [x \in DOMAIN Directory \ {m} |-> Directory[x]]
  <2>1. k \in Used /\ records[k].name = m /\ m \in DOMAIN Directory
    BY <1>4, FindFacts, MatchesDirectory
  <2>2. \A i \in Used : records[i].name = m => i = k
    BY <1>4, FindFacts
  <2> HIDE DEF k
  <2>3. Used' = 0..(count - 2)
    BY <1>0, <1>4, UsedFacts DEF Used
  <2>4. \A i \in Used' : /\ Origin(k, i) \in Used /\ Origin(k, i) # k
                         /\ records'[i] = records[Origin(k, i)]
    BY <1>0, <1>4, <2>1, <2>3, OriginFacts DEF k
  <2>5. \A i \in Used : i # k => \E j \in Used' : Origin(k, j) = i
    BY <1>0, <2>1, <2>3, OriginFacts
  <2>6. DOMAIN Directory' = DOMAIN Directory \ {m}
    <3>1. DOMAIN Directory' = {records'[i].name : i \in Used'}
      BY <1>0 DEF DirectoryShape
    <3>2. DOMAIN Directory = {records[i].name : i \in Used}
      BY <1>0 DEF DirectoryShape
    <3>3. ASSUME NEW x \in DOMAIN Directory' PROVE x \in DOMAIN Directory \ {m}
      BY <3>1, <3>2, <3>3, <2>2, <2>4
    <3>4. ASSUME NEW x \in DOMAIN Directory \ {m} PROVE x \in DOMAIN Directory'
      <4>1. PICK i \in Used : x = records[i].name
        BY <3>2
      <4>2. i # k
        BY <4>1, <2>1
      <4>3. PICK j \in Used' : Origin(k, j) = i
        BY <4>2, <2>5
      <4>4. x = records'[j].name
        BY <4>1, <4>3, <2>4
      <4> QED BY <4>4, <3>1
    <3> QED BY <3>3, <3>4
  <2>7. ASSUME NEW x \in DOMAIN Directory'
        PROVE  Directory'[x] = Directory[x]
    <3>1. PICK i \in Used' : x = records'[i].name
      BY <1>0 DEF DirectoryShape
    <3>2. Directory'[x] = [state |-> records'[i].state, heartbeat |-> records'[i].heartbeat]
      BY <1>0, <3>1 DEF DirectoryShape, Entry
    <3>3. Origin(k, i) \in Used /\ records'[i] = records[Origin(k, i)]
      BY <2>4
    <3>4. Directory[records[Origin(k, i)].name] = Entry(Origin(k, i))
      BY <3>3, <1>0 DEF DirectoryShape
    <3> QED BY <3>1, <3>2, <3>3, <3>4 DEF Entry
  <2>8. Directory' = g
    <3>1. Directory' = [x \in DOMAIN Directory' |-> Directory'[x]]
      BY <1>0 DEF DirectoryShape
    <3> QED BY <3>1, <2>6, <2>7
  <2> QED BY <1>4, <2>1, <2>8 DEF ND!Unregister, ND!Answer
<1> QED BY <1>2, <1>3, <1>4 DEF ember_node_registry_unregister, Return

\* update_state and heartbeat replace the entry of one name.
LEMMA SetFieldRefines ==
  ASSUME RegistryInvariant, NEW m \in Names \union {BadName}, NEW op, NEW field, NEW v, NEW e,
         \/ field = "state" /\ v \in States
         \/ field = "heartbeat" /\ v \in Times,
         SetField(op, m, field, v),
         m \in DOMAIN Directory => e = [Directory[m] EXCEPT ![field] = v]
  PROVE  ND!Update(op, m, e)
<1>0. DirectoryShape /\ TypeOK
  BY DirectoryFacts DEF RegistryInvariant
<1>1. RegistryInvariant' /\ count' = count /\ \A i \in Slots : records'[i].name = records[i].name
  BY SetFieldStep
<1>2. DirectoryShape'
  BY <1>1, DirectoryFacts, PTL
<1>3. call' = <<op, m>> /\ capacity' = capacity
  BY DEF SetField, Return
<1>4. CASE Matches(m) = {} /\ result' = "ENOTFOUND" /\ UNCHANGED records
  BY <1>1, <1>3, <1>4, SameDirectory, MatchesDirectory DEF ND!Update, ND!Answer
<1>5. CASE /\ Matches(m) # {} /\ result' = "OK"
           /\ records' = [records EXCEPT ![Find(m)][field] = v]
  <2> DEFINE k == Find(m)
  <2>1. /\ k \in Used /\ k \in Slots /\ records[k].name = m /\ m \in DOMAIN Directory
        /\ \A i \in Used : records[i].name = m => i = k
    BY <1>5, FindFacts, MatchesDirectory
  <2>2. /\ \A i \in Slots : i # k => records'[i] = records[i]
        /\ records'[k] = [records[k] EXCEPT ![field] = v]
    BY <1>0, <1>5, <2>1 DEF TypeOK
  <2> HIDE DEF k
  <2>3. Used' = Used /\ Used \subseteq Slots
    BY <1>0, <1>1, UsedFacts DEF Used
  <2>4. [state |-> records'[k].state, heartbeat |-> records'[k].heartbeat]
          = [Entry(k) EXCEPT ![field] = v]
    <3>1. records[k] \in Record
      BY <2>1, <1>0, UsedFacts
    <3>2. CASE field = "state"
      BY <3>1, <3>2, <2>2 DEF Entry, Record
    <3>3. CASE field = "heartbeat"
      BY <3>1, <3>3, <2>2 DEF Entry, Record
    <3> QED BY <3>2, <3>3
  <2>5. DOMAIN Directory' = DOMAIN Directory
    <3>1. DOMAIN Directory' = {records'[i].name : i \in Used'}
      BY <1>2 DEF DirectoryShape
    <3>2. DOMAIN Directory = {records[i].name : i \in Used}
      BY <1>0 DEF DirectoryShape
    <3> QED BY <3>1, <3>2, <2>3, <1>1
  <2>6. Directory'[m] = e
    <3>1. Directory[m] = Entry(k)
      BY <2>1, <1>0 DEF DirectoryShape
    <3>2. Directory'[m] = [state |-> records'[k].state, heartbeat |-> records'[k].heartbeat]
      BY <2>1, <2>3, <1>1, <1>2 DEF DirectoryShape, Entry
    <3> QED BY <3>1, <3>2, <2>1, <2>4
  <2>7. ASSUME NEW x \in DOMAIN Directory, x # m
        PROVE  Directory'[x] = Directory[x]
    <3>1. PICK i \in Used : x = records[i].name
      BY <1>0 DEF DirectoryShape
    <3>2. i # k /\ records'[i] = records[i]
      BY <3>1, <2>1, <2>2, <2>3, <2>7
    <3>3. Directory[x] = [state |-> records[i].state, heartbeat |-> records[i].heartbeat]
      BY <3>1, <1>0 DEF DirectoryShape, Entry
    <3>4. x = records'[i].name /\ i \in Used'
      BY <3>1, <3>2, <2>3
    <3>5. Directory'[x] = [state |-> records'[i].state, heartbeat |-> records'[i].heartbeat]
      BY <3>4, <1>2 DEF DirectoryShape, Entry
    <3> QED BY <3>2, <3>3, <3>5
  <2>8. Directory' = [Directory EXCEPT ![m] = e]
    <3>1. Directory' = [x \in DOMAIN Directory' |-> Directory'[x]]
      BY <1>2 DEF DirectoryShape
    <3>2. Directory' = [x \in DOMAIN Directory |-> IF x = m THEN e ELSE Directory[x]]
      BY <3>1, <2>5, <2>6, <2>7
    <3> QED BY <3>2
  <2> QED BY <1>3, <1>5, <2>1, <2>8 DEF ND!Update, ND!Answer
<1> QED BY <1>4, <1>5 DEF SetField, Return

\* Every step of the array is a step of the directory or leaves it alone.
LEMMA RefinementStep ==
  RegistryInvariant /\ [Next]_vars => [ND!Next]_(ND!vars)
<1> SUFFICES ASSUME RegistryInvariant, [Next]_vars PROVE [ND!Next]_(ND!vars)
  OBVIOUS
<1>0. RegistryInvariant' /\ (count' = 0 => Directory' = <<>>)
  <2>1. RegistryInvariant'
    BY InvariantStep
  <2>2. (count = 0 => Directory = <<>>)'
    BY EmptyDirectory, PTL
  <2> QED BY <2>1, <2>2
<1>1. ASSUME NEW cap \in 0..StorageSize, ember_node_registry_init(cap)
      PROVE  ND!Next
  <2>1. ND!Setup(cap)
    <3>1. CASE cap = 0
      BY <1>1, <3>1, SameDirectory DEF ember_node_registry_init, Return, ND!Setup
    <3>2. CASE cap > 0
      <4>1. Directory' = <<>>
        BY <1>0, <1>1, <3>2 DEF ember_node_registry_init
      <4> QED BY <1>1, <3>2, <4>1 DEF ember_node_registry_init, Return, ND!Setup
    <3> QED BY <1>1, <3>1, <3>2 DEF ember_node_registry_init
  <2> QED BY <2>1 DEF ND!Next
<1>2. CASE ember_node_registry_clear
  <2>1. Directory' = <<>>
    BY <1>0, <1>2 DEF ember_node_registry_clear
  <2>2. ND!Clear
    BY <1>2, <2>1 DEF ember_node_registry_clear, ND!Clear
  <2> QED BY <2>2 DEF ND!Next
<1>3. ASSUME NEW m \in Names \union {BadName}, NEW s \in States, NEW t \in Times,
             ember_node_registry_register(NewRecord(m, s, t))
      PROVE  ND!Next
  BY <1>0, <1>3, RegisterRefines DEF ND!Next
<1>4. ASSUME NEW m \in Names \union {BadName}, NEW s \in States,
             ember_node_registry_update_state(m, s)
      PROVE  ND!Next
  <2>1. ND!SetState(m, s)
    BY <1>4, SetFieldRefines DEF ember_node_registry_update_state, ND!SetState
  <2> QED BY <2>1 DEF ND!Next
<1>5. ASSUME NEW m \in Names \union {BadName}, NEW t \in Times,
             ember_node_registry_heartbeat(m, t)
      PROVE  ND!Next
  <2>1. ND!Heartbeat(m, t)
    BY <1>5, SetFieldRefines DEF ember_node_registry_heartbeat, ND!Heartbeat
  <2> QED BY <2>1 DEF ND!Next
<1>6. ASSUME NEW m \in Names \union {BadName}, ember_node_registry_unregister(m)
      PROVE  ND!Next
  BY <1>0, <1>6, UnregisterRefines DEF ND!Next
<1>7. CASE \/ \E m \in Names \union {BadName} : ember_node_registry_find(m)
           \/ \E i \in Slots : ember_node_registry_at(i)
  BY <1>7, PointerStep, SameDirectory DEF ND!vars
<1>8. CASE UNCHANGED vars
  BY <1>8, SameDirectory DEF vars, ND!vars
<1> QED BY <1>1, <1>2, <1>3, <1>4, <1>5, <1>6, <1>7, <1>8 DEF Next

-----------------------------------------------------------------------------
(* The theorems.                                                           *)

\* Types, compactness and the meaning of kept pointers are inductive together.
THEOREM RegistryInvariance == Spec => []RegistryInvariant
BY InitInvariant, InvariantStep, PTL DEF Spec

\* Every variable of the registry keeps its type; count never exceeds capacity.
THEOREM RegistryTypeCorrect == Spec => []TypeOK
<1>1. RegistryInvariant => TypeOK
  BY DEF RegistryInvariant
<1> QED BY RegistryInvariance, <1>1, PTL

\* register and unregister keep the first count records named, no name twice,
\* and the slots behind them zeroed.
THEOREM RegistryStaysCompact == Spec => []Compact
<1>1. RegistryInvariant => Compact
  BY DEF RegistryInvariant
<1> QED BY RegistryInvariance, <1>1, PTL

\* A pointer from find or at denotes its node until that node or an earlier one
\* is unregistered, or the registry is cleared.
THEOREM PointersDenoteNodes == Spec => []PointerDenotesNode
<1>1. RegistryInvariant => PointerDenotesNode
  BY DEF RegistryInvariant
<1> QED BY RegistryInvariance, <1>1, PTL

\* No call changes the order in which at() enumerates the nodes that stay.
THEOREM OrderNeverChanges == Spec => EnumerationOrderKept
<1>1. RegistryInvariant /\ [Next]_vars => OrderKept
  BY OrderStep
<1> QED BY RegistryInvariance, <1>1, PTL DEF Spec, EnumerationOrderKept, OrderKept

\* The array, its searches and its shifts implement the directory: each call
\* changes and answers exactly what NodeDirectory allows.
THEOREM RegistryImplementsDirectory == Spec => ImplementsDirectory
<1>1. Init => ND!Init
  <2> SUFFICES ASSUME Init PROVE ND!Init
    OBVIOUS
  <2> QED BY EmptyDirectory DEF Init, ND!Init
<1> QED BY RegistryInvariance, <1>1, RefinementStep, PTL DEF Spec, ImplementsDirectory, ND!Spec

-----------------------------------------------------------------------------
(* The state machine.                                                      *)

\* The machine has a state, and the dispatches that wait for their action hold
\* transitions of the table.
FsmTypes ==
  /\ transitions \in Tables
  /\ initial_state \in FsmStates
  /\ current_state \in FsmStates
  /\ frames \in Seq(Transition)
  /\ \A k \in DOMAIN frames : \E i \in DOMAIN transitions : frames[k] = transitions[i]

FsmInvariant == FsmTypes /\ OnlyReachableStates /\ OuterTransitionWins

-----------------------------------------------------------------------------

\* The reachable states contain the initial one and are closed under the
\* transitions of the table.
LEMMA ReachableClosed ==
  ASSUME FsmTypes
  PROVE  /\ Reachable \subseteq FsmStates
         /\ initial_state \in Reachable
         /\ \A i \in DOMAIN transitions :
              /\ transitions[i] \in Transition
              /\ transitions[i].from \in Reachable => transitions[i].to \in Reachable
<1>1. \A i \in DOMAIN transitions : transitions[i] \in Transition
  BY FsmAssumption DEF FsmTypes
<1>2. \A i \in DOMAIN transitions : transitions[i].to \in FsmStates
  BY <1>1 DEF Transition
<1>3. Reachable \subseteq FsmStates /\ initial_state \in Reachable
  BY DEF FsmTypes, Reachable
<1>4. ASSUME NEW i \in DOMAIN transitions, transitions[i].from \in Reachable
      PROVE  transitions[i].to \in Reachable
  BY <1>2, <1>4 DEF Reachable
<1> QED BY <1>1, <1>3, <1>4

\* What is reachable depends only on the table and the initial state, which no
\* call changes.
LEMMA ReachableConstant == [FsmNext]_fsmVars => Reachable' = Reachable
<1>1. [FsmNext]_fsmVars => UNCHANGED <<transitions, initial_state>>
  BY DEF FsmNext, ember_fsm_dispatch, ActionReturns, ember_fsm_reset, fsmVars
<1> QED BY <1>1 DEF Reachable

\* The stack of waiting dispatches: its top and what is below it.
LEMMA StackFacts ==
  ASSUME NEW S, NEW fs \in Seq(S)
  PROVE  /\ \A x \in S : /\ Append(fs, x) \in Seq(S)
                         /\ Append(fs, x) # <<>>
                         /\ \A k \in DOMAIN Append(fs, x) :
                              Append(fs, x)[k] = x \/ \E j \in DOMAIN fs : Append(fs, x)[k] = fs[j]
         /\ fs # <<>> =>
              /\ Len(fs) \in DOMAIN fs
              /\ SubSeq(fs, 1, Len(fs) - 1) \in Seq(S)
              /\ \A k \in DOMAIN SubSeq(fs, 1, Len(fs) - 1) :
                   k \in DOMAIN fs /\ SubSeq(fs, 1, Len(fs) - 1)[k] = fs[k]
<1>1. ASSUME NEW x \in S
      PROVE  /\ Append(fs, x) \in Seq(S)
             /\ Append(fs, x) # <<>>
             /\ \A k \in DOMAIN Append(fs, x) :
                  Append(fs, x)[k] = x \/ \E j \in DOMAIN fs : Append(fs, x)[k] = fs[j]
  BY AppendProperties
<1>2. ASSUME fs # <<>>
      PROVE  /\ Len(fs) \in DOMAIN fs
             /\ SubSeq(fs, 1, Len(fs) - 1) \in Seq(S)
             /\ \A k \in DOMAIN SubSeq(fs, 1, Len(fs) - 1) :
                  k \in DOMAIN fs /\ SubSeq(fs, 1, Len(fs) - 1)[k] = fs[k]
  BY <1>2
<1> QED BY <1>1, <1>2

-----------------------------------------------------------------------------

\* ember_fsm_init leaves the machine in its initial state, outside any dispatch.
LEMMA FsmInitInvariant == FsmInit => FsmInvariant
<1> SUFFICES ASSUME FsmInit PROVE FsmInvariant
  OBVIOUS
<1>1. FsmTypes
  BY DEF FsmInit, FsmTypes
<1>2. OnlyReachableStates
  BY <1>1, ReachableClosed DEF FsmInit, OnlyReachableStates
<1>3. OuterTransitionWins
  BY DEF FsmInit, OuterTransitionWins, NoReturn
<1> QED BY <1>1, <1>2, <1>3 DEF FsmInvariant

\* A dispatch takes a transition from the current state, and waits in its stack
\* when that transition has an action.
LEMMA DispatchStep ==
  ASSUME FsmInvariant, NEW e \in Events, ember_fsm_dispatch(e), Reachable' = Reachable
  PROVE  FsmInvariant'
<1> USE DEF FsmInvariant
<1>1. CASE Matching(current_state, e) = {} /\ UNCHANGED <<current_state, frames>>
           /\ Outermost("ENOTFOUND", current_state, current_state)
  BY <1>1 DEF ember_fsm_dispatch, FsmTypes, OnlyReachableStates, OuterTransitionWins, Outermost
<1>2. ASSUME NEW i \in Matching(current_state, e), transitions[i].action,
             frames' = Append(frames, transitions[i]), UNCHANGED <<current_state, returned>>
      PROVE  FsmInvariant'
  <2>1. i \in DOMAIN transitions /\ transitions[i].from = current_state
    BY DEF Matching
  <2>2. transitions[i] \in Transition /\ frames \in Seq(Transition)
    BY <2>1, ReachableClosed DEF FsmTypes
  <2>3. /\ frames' \in Seq(Transition) /\ frames' # <<>>
        /\ \A k \in DOMAIN frames' :
             frames'[k] = transitions[i] \/ \E j \in DOMAIN frames : frames'[k] = frames[j]
    BY <1>2, <2>2, StackFacts
  <2>4. FsmTypes'
    BY <1>2, <2>1, <2>3 DEF ember_fsm_dispatch, FsmTypes
  <2>5. OnlyReachableStates'
    BY <1>2, <2>1, <2>3 DEF OnlyReachableStates
  <2>6. OuterTransitionWins'
    BY <2>3 DEF OuterTransitionWins
  <2> QED BY <2>4, <2>5, <2>6
<1>3. ASSUME NEW i \in Matching(current_state, e), current_state' = transitions[i].to,
             Outermost("OK", current_state, current_state'), UNCHANGED frames
      PROVE  FsmInvariant'
  <2>1. i \in DOMAIN transitions /\ transitions[i].from = current_state
    BY DEF Matching
  <2>2. current_state' \in Reachable /\ current_state' \in FsmStates
    BY <1>3, <2>1, ReachableClosed DEF OnlyReachableStates
  <2>3. FsmTypes' /\ OnlyReachableStates'
    BY <1>3, <2>2 DEF ember_fsm_dispatch, FsmTypes, OnlyReachableStates
  <2>4. OuterTransitionWins'
    BY <1>3 DEF OuterTransitionWins, Outermost
  <2> QED BY <2>3, <2>4
<1> QED BY <1>1, <1>2, <1>3 DEF ember_fsm_dispatch

\* The action of the innermost dispatch returns: its transition is committed
\* whatever the nested calls have left in current_state.
LEMMA ActionReturnsStep ==
  ASSUME FsmInvariant, NEW ok \in BOOLEAN, ActionReturns(ok), Reachable' = Reachable
  PROVE  FsmInvariant'
<1> USE DEF FsmInvariant
<1>1. /\ frames \in Seq(Transition) /\ frames # <<>>
      /\ Len(frames) \in DOMAIN frames
      /\ Below \in Seq(Transition)
      /\ \A k \in DOMAIN Below : k \in DOMAIN frames /\ Below[k] = frames[k]
  BY StackFacts DEF FsmTypes, ActionReturns, Below
<1>2. PICK i \in DOMAIN transitions : Top = transitions[i]
  BY <1>1 DEF FsmTypes, Top
<1>3. Top.to \in Reachable /\ Top.to \in FsmStates
  BY <1>1, <1>2, ReachableClosed DEF OnlyReachableStates, Top
<1>4. FsmTypes'
  BY <1>1, <1>3 DEF ActionReturns, FsmTypes, Committed
<1>5. OnlyReachableStates'
  BY <1>1, <1>3 DEF ActionReturns, OnlyReachableStates, Committed
<1>6. OuterTransitionWins'
  BY DEF ActionReturns, OuterTransitionWins, Committed
<1> QED BY <1>4, <1>5, <1>6

\* Every step of the machine keeps the invariant.
LEMMA FsmStep == FsmInvariant /\ [FsmNext]_fsmVars => FsmInvariant'
<1> SUFFICES ASSUME FsmInvariant, [FsmNext]_fsmVars PROVE FsmInvariant'
  OBVIOUS
<1>0. Reachable' = Reachable
  BY ReachableConstant
<1>1. ASSUME NEW e \in Events, ember_fsm_dispatch(e) PROVE FsmInvariant'
  BY <1>0, <1>1, DispatchStep
<1>2. ASSUME NEW ok \in BOOLEAN, ActionReturns(ok) PROVE FsmInvariant'
  BY <1>0, <1>2, ActionReturnsStep
<1>3. CASE ember_fsm_reset
  <2>1. initial_state \in Reachable
    BY ReachableClosed DEF FsmInvariant
  <2> QED BY <1>0, <1>3, <2>1 DEF ember_fsm_reset, FsmInvariant, FsmTypes, OnlyReachableStates,
                                  OuterTransitionWins, NoReturn
<1>4. CASE UNCHANGED fsmVars
  BY <1>0, <1>4 DEF fsmVars, FsmInvariant, FsmTypes, OnlyReachableStates, OuterTransitionWins
<1> QED BY <1>1, <1>2, <1>3, <1>4 DEF FsmNext

-----------------------------------------------------------------------------
(* The theorems.                                                           *)

\* The typing of the stack and the two properties are inductive together.
THEOREM FsmInvariance == FsmSpec => []FsmInvariant
BY FsmInitInvariant, FsmStep, PTL DEF FsmSpec

\* However dispatches and resets nest, current_state is one that the table
\* leads to from the initial state.
THEOREM ReachableOnly == FsmSpec => []OnlyReachableStates
<1>1. FsmInvariant => OnlyReachableStates
  BY DEF FsmInvariant
<1> QED BY FsmInvariance, <1>1, PTL

\* When the outermost ember_fsm_dispatch has returned EMBER_FSM_OK the machine is
\* in the target of its transition, at any depth of nesting.
THEOREM OutermostWins == FsmSpec => []OuterTransitionWins
<1>1. FsmInvariant => OuterTransitionWins
  BY DEF FsmInvariant
<1> QED BY FsmInvariance, <1>1, PTL

=============================================================================
