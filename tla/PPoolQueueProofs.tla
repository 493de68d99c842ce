-------------------------- MODULE PPoolQueueProofs --------------------------
(***************************************************************************)
(* Proofs about the linked list of the task queue, for any addresses and   *)
(* priorities: the list is what its pointers spell, its stored length is   *)
(* right, a node has one owner, and every operation does to the list what  *)
(* module TaskQueue says.                                                  *)
(***************************************************************************)
EXTENDS PPoolQueue, SequenceTheorems, FiniteSetTheorems, WellFoundedInduction, TLAPS

-----------------------------------------------------------------------------
(* Lists.                                                                  *)

N == Cardinality(NodeAddrs)

\* The nodes of sequence s are linked in its order from h on, by links nx.
Spells(s, h, nx) ==
  /\ s \in Seq(NodeAddrs)
  /\ \A i, j \in 1 .. Len(s) : s[i] = s[j] => i = j
  /\ h = IF Len(s) = 0 THEN NULL ELSE s[1]
  /\ \A i \in 1 .. Len(s) : nx[s[i]] = IF i = Len(s) THEN NULL ELSE s[i + 1]

Elems(s) == {s[i] : i \in 1 .. Len(s)}

\* The node k links from the first.
Nth(s, k) == IF k < Len(s) THEN s[k + 1] ELSE NULL

\* The queue of nodes with these addresses and priorities pr.
Nodes(s, pr) == [i \in 1 .. Len(s) |-> [priority |-> pr[s[i]], addr |-> s[i]]]

\* A list has at most as many nodes as there are addresses.
LEMMA ListFits ==
  ASSUME NEW s, NEW h, NEW nx, Spells(s, h, nx)
  PROVE  /\ Len(s) \in Nat /\ N \in Nat /\ Len(s) <= N
         /\ Cardinality(Elems(s)) = Len(s) /\ NULL \notin Elems(s)
<1>1. /\ s \in Seq(NodeAddrs) /\ Len(s) \in Nat /\ \A i \in 1 .. Len(s) : s[i] \in NodeAddrs
      /\ \A i, j \in 1 .. Len(s) : s[i] = s[j] => i = j
  BY DEF Spells
<1>2. N \in Nat /\ IsFiniteSet(NodeAddrs) /\ NULL \notin NodeAddrs
  BY NodeAddrsAssumption, FS_CardinalityType DEF N
<1> DEFINE f == [i \in 1 .. Len(s) |-> s[i]]
<1>3. f \in Injection(1 .. Len(s), NodeAddrs)
  BY <1>1 DEF Injection, IsInjective
<1>4. Cardinality(1 .. Len(s)) <= N
  BY <1>2, <1>3, FS_Injection DEF N
<1>5. Cardinality(1 .. Len(s)) = Len(s)
  <2>1. \A n \in Nat : Cardinality(1 .. n) = IF 1 > n THEN 0 ELSE n - 1 + 1
    BY FS_Interval
  <2>2. \A n \in Nat : (IF 1 > n THEN 0 ELSE n - 1 + 1) = n
    OBVIOUS
  <2> QED
    BY <1>1, <2>1, <2>2
<1>6. f \in Bijection(1 .. Len(s), Elems(s))
  BY <1>1 DEF Bijection, Injection, IsInjective, Surjection, Elems
<1>7. Cardinality(Elems(s)) = Len(s)
  BY <1>1, <1>6, FS_CountingElements DEF ExistsBijection
<1> QED
  BY <1>1, <1>2, <1>4, <1>5, <1>7 DEF Elems

\* The equation that defines the walk from h.
Walks(w, h, nx) ==
  w = [k \in 0 .. N |-> IF k = 0 THEN h ELSE IF w[k - 1] = NULL THEN NULL ELSE nx[w[k - 1]]]

\* It has a solution, which goes through the list and then stays at its end.
LEMMA WalkExists ==
  ASSUME NEW s, NEW h, NEW nx, Spells(s, h, nx)
  PROVE  Walks([k \in 0 .. N |-> Nth(s, k)], h, nx)
<1> DEFINE w == [k \in 0 .. N |-> Nth(s, k)]
<1>1. /\ Len(s) \in Nat /\ N \in Nat /\ Len(s) <= N /\ NULL \notin Elems(s)
  BY ListFits
<1>2. ASSUME NEW k \in 0 .. N
      PROVE  w[k] = IF k = 0 THEN h ELSE IF w[k - 1] = NULL THEN NULL ELSE nx[w[k - 1]]
  <2>1. CASE k = 0
    BY <1>1, <2>1 DEF Spells, Nth
  <2>2. CASE k # 0
    <3>1. k - 1 \in 0 .. N /\ (k - 1) + 1 = k /\ k \in Nat
      BY <1>1, <2>2
    <3>2. w[k] = Nth(s, k) /\ w[k - 1] = Nth(s, k - 1)
      BY <3>1
    <3>3. CASE k - 1 < Len(s)
      <4>1. k \in 1 .. Len(s) /\ w[k - 1] = s[k]
        BY <1>1, <2>2, <3>1, <3>2, <3>3 DEF Nth
      <4>2. w[k - 1] # NULL
        BY <1>1, <4>1 DEF Elems
      <4>3. nx[s[k]] = IF k = Len(s) THEN NULL ELSE s[k + 1]
        BY <4>1 DEF Spells
      <4>4. Nth(s, k) = IF k = Len(s) THEN NULL ELSE s[k + 1]
        BY <1>1, <4>1 DEF Nth
      <4> QED
        BY <2>2, <3>2, <4>1, <4>2, <4>3, <4>4
    <3>4. CASE ~(k - 1 < Len(s))
      <4>1. w[k - 1] = NULL /\ w[k] = NULL
        BY <1>1, <3>1, <3>2, <3>4 DEF Nth
      <4> QED
        BY <2>2, <4>1
    <3> QED
      BY <3>3, <3>4
  <2> QED
    BY <2>1, <2>2
<1>3. w = [k \in 0 .. N |-> IF k = 0 THEN h ELSE IF w[k - 1] = NULL THEN NULL ELSE nx[w[k - 1]]]
  BY <1>2
<1> QED
  BY <1>3 DEF Walks

\* And no other one.
LEMMA WalkUnique ==
  ASSUME NEW v, NEW w, NEW h, NEW nx, Walks(v, h, nx), Walks(w, h, nx), N \in Nat
  PROVE  v = w
<1>1. \A k \in 0 .. N : v[k] = IF k = 0 THEN h ELSE IF v[k - 1] = NULL THEN NULL ELSE nx[v[k - 1]]
  BY DEF Walks
<1>2. \A k \in 0 .. N : w[k] = IF k = 0 THEN h ELSE IF w[k - 1] = NULL THEN NULL ELSE nx[w[k - 1]]
  BY DEF Walks
<1> DEFINE T == {k \in 0 .. N : v[k] # w[k]}
<1>3. T = {}
  <2> SUFFICES ASSUME T # {} PROVE FALSE
    OBVIOUS
  <2>1. T \subseteq Nat
    OBVIOUS
  <2>2. PICK k \in T : \A j \in T : ~(<<j, k>> \in OpToRel(<, Nat))
    BY <2>1, NatLessThanWellFounded, WFMin
  <2>3. k \in 0 .. N /\ v[k] # w[k]
    OBVIOUS
  <2>4. k # 0
    BY <1>1, <1>2, <2>3
  <2>5. k - 1 \in 0 .. N /\ k - 1 < k /\ k - 1 \in Nat /\ k \in Nat
    BY <2>3, <2>4
  <2>6. <<k - 1, k>> \in OpToRel(<, Nat)
    BY <2>5 DEF OpToRel
  <2>7. v[k - 1] = w[k - 1]
    BY <2>2, <2>5, <2>6
  <2> QED
    BY <1>1, <1>2, <2>3, <2>4, <2>7
<1>4. \A k \in 0 .. N : v[k] = w[k]
  BY <1>3
<1>5. /\ v = [k \in 0 .. N |-> v[k]]
      /\ w = [k \in 0 .. N |-> w[k]]
  <2>1. /\ \E f : v = [k \in 0 .. N |-> f[k]]
        /\ \E f : w = [k \in 0 .. N |-> f[k]]
    <3> DEFINE fv == [k \in 0 .. N |-> IF k = 0 THEN h ELSE IF v[k - 1] = NULL THEN NULL ELSE nx[v[k - 1]]]
               fw == [k \in 0 .. N |-> IF k = 0 THEN h ELSE IF w[k - 1] = NULL THEN NULL ELSE nx[w[k - 1]]]
    <3>1. v = fv /\ w = fw
      BY DEF Walks
    <3>2. fv = [k \in 0 .. N |-> fv[k]] /\ fw = [k \in 0 .. N |-> fw[k]]
      OBVIOUS
    <3> HIDE DEF fv, fw
    <3> QED
      BY <3>1, <3>2
  <2> QED
    BY <2>1
<1> QED
  BY <1>4, <1>5

\* What a walk over a list finds.
LEMMA WalkFinds ==
  ASSUME NEW s, NEW h, NEW nx, Spells(s, h, nx), NEW w, Walks(w, h, nx)
  PROVE  /\ \A k \in 0 .. N : w[k] = Nth(s, k)
         /\ w[N] = NULL
         /\ {w[k] : k \in 0 .. N} \ {NULL} = Elems(s)
         /\ \A i \in 1 .. Len(s) : w[i - 1] = s[i]
<1>1. /\ Len(s) \in Nat /\ N \in Nat /\ Len(s) <= N /\ NULL \notin Elems(s)
  BY ListFits
<1> DEFINE v == [k \in 0 .. N |-> Nth(s, k)]
<1>2. w = v
  <2>1. Walks(v, h, nx)
    BY WalkExists
  <2> HIDE DEF v
  <2> QED
    BY <1>1, <2>1, WalkUnique
<1>3. \A k \in 0 .. N : w[k] = Nth(s, k)
  BY <1>2
<1> HIDE DEF v
<1>4. w[N] = NULL
  BY <1>1, <1>3 DEF Nth
<1>5. \A i \in 1 .. Len(s) : i - 1 \in 0 .. N /\ i - 1 < Len(s) /\ (i - 1) + 1 = i
  BY <1>1
<1>6. \A i \in 1 .. Len(s) : w[i - 1] = s[i]
  BY <1>3, <1>5 DEF Nth
<1>7. {w[k] : k \in 0 .. N} \ {NULL} = Elems(s)
  <2>1. ASSUME NEW k \in 0 .. N, w[k] # NULL
        PROVE  w[k] \in Elems(s)
    <3>1. k < Len(s) /\ w[k] = s[k + 1]
      BY <1>3, <2>1 DEF Nth
    <3>2. k + 1 \in 1 .. Len(s)
      BY <1>1, <3>1
    <3> QED
      BY <3>1, <3>2 DEF Elems
  <2>2. ASSUME NEW i \in 1 .. Len(s)
        PROVE  s[i] \in {w[k] : k \in 0 .. N} \ {NULL}
    <3>1. i - 1 \in 0 .. N /\ w[i - 1] = s[i]
      BY <1>5, <1>6
    <3>2. s[i] # NULL
      BY <1>1 DEF Elems
    <3> QED
      BY <3>1, <3>2
  <2> QED
    BY <2>1, <2>2 DEF Elems
<1> QED
  BY <1>3, <1>4, <1>6, <1>7

\* The walk of the program, before and after a step.
LEMMA WalkOfList ==
  ASSUME NEW s, Spells(s, head, next)
  PROVE  Walks(Walk(head), head, next)
<1>1. \E w : Walks(w, head, next)
  BY WalkExists
<1> QED
  BY <1>1 DEF Walk, Walks, N

\* The same after a step.
LEMMA WalkOfNewList ==
  ASSUME NEW s, Spells(s, head', next')
  PROVE  Walks(Walk(head)', head', next')
<1>1. \E w : Walks(w, head', next')
  BY WalkExists
<1> QED
  BY <1>1 DEF Walk, Walks, N

\* What the definitions by pointers are for a sequence that the pointers spell.
LEMMA ListSpelled ==
  ASSUME NEW s, Spells(s, head, next)
  PROVE  /\ \A k \in 0 .. N : Walk(head)[k] = Nth(s, k)
         /\ Walk(head)[N] = NULL /\ Linked = Elems(s) /\ Cardinality(Linked) = Len(s)
         /\ List = Nodes(s, priority)
<1>1. /\ \A k \in 0 .. N : Walk(head)[k] = Nth(s, k)
      /\ Walk(head)[N] = NULL
      /\ {Walk(head)[k] : k \in 0 .. N} \ {NULL} = Elems(s)
      /\ \A i \in 1 .. Len(s) : Walk(head)[i - 1] = s[i]
  BY WalkOfList, WalkFinds
<1>2. Linked = Elems(s)
  BY <1>1 DEF Linked, N
<1>3. Cardinality(Linked) = Len(s)
  BY <1>2, ListFits
<1>4. List = Nodes(s, priority)
  BY <1>1, <1>3 DEF List, Nodes, NodeAt
<1> QED
  BY <1>1, <1>2, <1>3, <1>4

\* The same for the list after a step.
LEMMA NewListSpelled ==
  ASSUME NEW s, Spells(s, head', next')
  PROVE  List' = Nodes(s, priority')
<1>1. /\ {Walk(head)'[k] : k \in 0 .. N} \ {NULL} = Elems(s)
      /\ \A i \in 1 .. Len(s) : Walk(head)'[i - 1] = s[i]
  BY WalkOfNewList, WalkFinds
<1>2. Linked' = Elems(s)
  BY <1>1 DEF Linked, N
<1>3. Cardinality(Linked)' = Len(s)
  BY <1>2, ListFits
<1> QED
  BY <1>1, <1>3 DEF List, Nodes, NodeAt

-----------------------------------------------------------------------------
(* The insertion position.                                                 *)

\* The first k nodes are served before a new one of priority p.
After(s, pr, p, k) ==
  /\ k \in 0 .. Len(s)
  /\ \A i \in 1 .. k : pr[s[i]] <= p
  /\ k < Len(s) => pr[s[k + 1]] > p

\* There is a place behind everything of no lower priority: the least such place.
LEMMA AfterExists ==
  ASSUME NEW s \in Seq(NodeAddrs), NEW pr \in [NodeAddrs -> Int], NEW p \in Int
  PROVE  \E k \in 0 .. Len(s) : After(s, pr, p, k)
<1> DEFINE T == {k \in 0 .. Len(s) : k < Len(s) => pr[s[k + 1]] > p}
<1>1. Len(s) \in Nat /\ \A i \in 1 .. Len(s) : pr[s[i]] \in Int
  OBVIOUS
<1>2. T \subseteq Nat /\ Len(s) \in T
  BY <1>1
<1>3. PICK k \in T : \A j \in T : ~(<<j, k>> \in OpToRel(<, Nat))
  BY <1>2, NatLessThanWellFounded, WFMin
<1>4. k \in 0 .. Len(s) /\ (k < Len(s) => pr[s[k + 1]] > p)
  OBVIOUS
<1>5. ASSUME NEW i \in 1 .. k
      PROVE  pr[s[i]] <= p
  <2>1. /\ i - 1 \in 0 .. Len(s) /\ i - 1 \in Nat /\ k \in Nat /\ i - 1 < k /\ (i - 1) + 1 = i
        /\ i - 1 < Len(s) /\ i \in 1 .. Len(s)
    BY <1>1, <1>4
  <2>2. <<i - 1, k>> \in OpToRel(<, Nat)
    BY <2>1 DEF OpToRel
  <2>3. i - 1 \notin T
    BY <1>3, <2>2
  <2>4. ~(pr[s[(i - 1) + 1]] > p)
    BY <2>1, <2>3
  <2> QED
    BY <1>1, <2>1, <2>4
<1> QED
  BY <1>4, <1>5 DEF After

\* There is only one.
LEMMA AfterUnique ==
  ASSUME NEW s \in Seq(NodeAddrs), NEW pr \in [NodeAddrs -> Int], NEW p \in Int,
         NEW j, After(s, pr, p, j), NEW k, After(s, pr, p, k)
  PROVE  j = k
<1>1. Len(s) \in Nat /\ \A i \in 1 .. Len(s) : pr[s[i]] \in Int
  OBVIOUS
<1>2. j \in 0 .. Len(s) /\ k \in 0 .. Len(s)
  BY DEF After
<1>3. ASSUME NEW m \in 0 .. Len(s), NEW n \in 0 .. Len(s), After(s, pr, p, m), After(s, pr, p, n), m < n
      PROVE  FALSE
  <2>1. m < Len(s) /\ m + 1 \in 1 .. n /\ m + 1 \in 1 .. Len(s)
    BY <1>1, <1>3
  <2>2. pr[s[m + 1]] > p /\ pr[s[m + 1]] <= p
    BY <1>3, <2>1 DEF After
  <2> QED
    BY <1>1, <2>1, <2>2
<1>4. ~(j < k) /\ ~(k < j)
  BY <1>2, <1>3
<1> QED
  BY <1>1, <1>2, <1>4

\* The position as module TaskQueue has it.
LEMMA InsertPosOfNodes ==
  ASSUME NEW s \in Seq(NodeAddrs), NEW pr \in [NodeAddrs -> Int], NEW p \in Int
  PROVE  After(s, pr, p, InsertPos(Nodes(s, pr), p))
<1> DEFINE q == Nodes(s, pr)
<1>1. Len(q) = Len(s) /\ \A i \in 1 .. Len(s) : q[i].priority = pr[s[i]]
  BY DEF Nodes
<1> HIDE DEF q
<1>2. \A k \in 0 .. Len(s) :
        (/\ \A i \in 1 .. k : q[i].priority <= p
         /\ k < Len(q) => q[k + 1].priority > p) <=> After(s, pr, p, k)
  <2>1. ASSUME NEW k \in 0 .. Len(s)
        PROVE  /\ \A i \in 1 .. k : q[i].priority = pr[s[i]]
               /\ k < Len(s) => q[k + 1].priority = pr[s[k + 1]]
    <3>1. Len(s) \in Nat /\ k \in Nat
      OBVIOUS
    <3>2. \A i \in 1 .. k : i \in 1 .. Len(s)
      BY <3>1
    <3>3. k < Len(s) => k + 1 \in 1 .. Len(s)
      BY <3>1
    <3> QED
      BY <1>1, <3>2, <3>3
  <2> QED
    BY <1>1, <2>1 DEF After
<1>3. \E k \in 0 .. Len(q) : /\ \A i \in 1 .. k : q[i].priority <= p
                             /\ k < Len(q) => q[k + 1].priority > p
  BY <1>1, <1>2, AfterExists
<1> QED
  BY <1>1, <1>2, <1>3 DEF InsertPos, q

\* The position as the walk of ppool_queue_get_insert_pos finds it.
LEMMA InsertPosOfList ==
  ASSUME NEW s, Spells(s, head, next), s # <<>>, priority \in [NodeAddrs -> Int], NEW p \in Int
  PROVE  After(s, priority, p, ppool_queue_get_insert_pos(head, p))
<1>1. /\ Len(s) \in Nat /\ N \in Nat /\ Len(s) <= N /\ NULL \notin Elems(s) /\ s \in Seq(NodeAddrs)
      /\ Len(s) > 0
  BY ListFits DEF Spells
<1>2. \A k \in 0 .. N : Walk(head)[k] = Nth(s, k)
  BY ListSpelled
<1>3. head # NULL
  BY <1>1 DEF Spells, Elems
<1> DEFINE P(k) == /\ \A i \in 0 .. (k - 1) : Walk(head)[i] # NULL /\ priority[Walk(head)[i]] <= p
                   /\ Walk(head)[k] = NULL \/ priority[Walk(head)[k]] > p
<1>4. /\ \A i \in 0 .. N : i < Len(s) =>
           Walk(head)[i] = s[i + 1] /\ i + 1 \in 1 .. Len(s) /\ Walk(head)[i] # NULL
      /\ \A i \in 0 .. N : ~(i < Len(s)) => Walk(head)[i] = NULL
  BY <1>1, <1>2 DEF Nth, Elems
<1>5. ASSUME NEW k \in 0 .. N, P(k)
      PROVE  After(s, priority, p, k)
  <2>1. k <= Len(s)
    <3> SUFFICES ASSUME k > Len(s) PROVE FALSE
      BY <1>1
    <3>1. Len(s) \in 0 .. (k - 1) /\ Len(s) \in 0 .. N /\ ~(Len(s) < Len(s))
      BY <1>1
    <3> QED
      BY <1>4, <1>5, <3>1
  <2>2. ASSUME NEW i \in 1 .. k
        PROVE  priority[s[i]] <= p
    <3>1. i - 1 \in 0 .. (k - 1) /\ i - 1 \in 0 .. N /\ i - 1 < Len(s) /\ (i - 1) + 1 = i
      BY <1>1, <2>1
    <3>2. Walk(head)[i - 1] = s[i]
      BY <1>4, <3>1
    <3> QED
      BY <1>5, <3>1, <3>2
  <2>3. k < Len(s) => priority[s[k + 1]] > p
    BY <1>4, <1>5
  <2> QED
    BY <1>1, <2>1, <2>2, <2>3 DEF After
<1>6. ASSUME NEW k \in 0 .. Len(s), After(s, priority, p, k)
      PROVE  k \in 0 .. N /\ P(k)
  <2>1. k \in 0 .. N
    BY <1>1
  <2>2. ASSUME NEW i \in 0 .. (k - 1)
        PROVE  Walk(head)[i] # NULL /\ priority[Walk(head)[i]] <= p
    <3>1. i \in 0 .. N /\ i < Len(s) /\ i + 1 \in 1 .. k
      BY <1>1, <2>1
    <3> QED
      BY <1>4, <1>6, <3>1 DEF After
  <2>3. Walk(head)[k] = NULL \/ priority[Walk(head)[k]] > p
    BY <1>4, <1>6, <2>1 DEF After
  <2> QED
    BY <2>1, <2>2, <2>3
<1>7. \E k \in 0 .. N : P(k)
  BY <1>1, <1>6, AfterExists
<1>8. ppool_queue_get_insert_pos(head, p) = CHOOSE k \in 0 .. N : P(k)
  BY <1>3 DEF ppool_queue_get_insert_pos, N
<1> HIDE DEF P
<1>9. (CHOOSE k \in 0 .. N : P(k)) \in 0 .. N /\ P(CHOOSE k \in 0 .. N : P(k))
  BY <1>7
<1> QED
  BY <1>5, <1>8, <1>9

-----------------------------------------------------------------------------
(* Insertion and removal.                                                  *)

Inserted(s, k, a) ==
  [i \in 1 .. (Len(s) + 1) |-> IF i <= k THEN s[i] ELSE IF i = k + 1 THEN a ELSE s[i - 1]]

\* Sequence t is s with a new element a behind the first k.
IsInserted(s, k, a, t) ==
  /\ t \in Seq(NodeAddrs) /\ Len(t) = Len(s) + 1
  /\ \A i \in 1 .. (Len(s) + 1) :
       /\ i <= k => i \in 1 .. Len(s) /\ t[i] = s[i]
       /\ i = k + 1 => t[i] = a
       /\ i > k + 1 => i - 1 \in 1 .. Len(s) /\ t[i] = s[i - 1]
       /\ i <= k \/ i = k + 1 \/ i > k + 1
  /\ Elems(t) = Elems(s) \union {a}

\* An insertion into a sequence, index by index.
LEMMA InsertedFacts ==
  ASSUME NEW s \in Seq(NodeAddrs), NEW k \in 0 .. Len(s), NEW a \in NodeAddrs
  PROVE  IsInserted(s, k, a, Inserted(s, k, a))
<1> DEFINE t == Inserted(s, k, a)
<1>1. Len(s) \in Nat /\ k \in Nat /\ k <= Len(s) /\ \A i \in 1 .. Len(s) : s[i] \in NodeAddrs
  OBVIOUS
<1>2. \A i \in 1 .. (Len(s) + 1) :
        /\ i <= k => i \in 1 .. Len(s)
        /\ i > k + 1 => i - 1 \in 1 .. Len(s)
        /\ i <= k \/ i = k + 1 \/ i > k + 1
        /\ i > k + 1 => ~(i <= k) /\ i # k + 1
        /\ i = k + 1 => ~(i <= k)
  BY <1>1
<1>3. t = [i \in 1 .. (Len(s) + 1) |-> IF i <= k THEN s[i] ELSE IF i = k + 1 THEN a ELSE s[i - 1]]
  BY DEF Inserted
<1> HIDE DEF t
<1>4. \A i \in 1 .. (Len(s) + 1) :
        /\ i <= k => t[i] = s[i]
        /\ i = k + 1 => t[i] = a
        /\ i > k + 1 => t[i] = s[i - 1]
  BY <1>2, <1>3
<1>5. \A i \in 1 .. (Len(s) + 1) : t[i] \in NodeAddrs
  BY <1>1, <1>2, <1>4
<1>6. t \in Seq(NodeAddrs) /\ Len(t) = Len(s) + 1
  <2>1. t \in [1 .. (Len(s) + 1) -> NodeAddrs]
    BY <1>3, <1>5
  <2> QED
    BY <1>1, <2>1
<1>7. t[k + 1] = a /\ k + 1 \in 1 .. (Len(s) + 1)
  BY <1>1, <1>4
<1>8. Elems(t) = Elems(s) \union {a}
  <2>1. ASSUME NEW i \in 1 .. Len(t)
        PROVE  t[i] \in Elems(s) \union {a}
    BY <1>2, <1>4, <1>6, <2>1 DEF Elems
  <2>2. ASSUME NEW i \in 1 .. Len(s)
        PROVE  s[i] \in Elems(t)
    <3>1. CASE i <= k
      <4>1. i \in 1 .. Len(t) /\ t[i] = s[i]
        BY <1>1, <1>4, <1>6, <3>1
      <4> QED
        BY <4>1 DEF Elems
    <3>2. CASE ~(i <= k)
      <4>1. i + 1 \in 1 .. Len(t) /\ i + 1 > k + 1 /\ (i + 1) - 1 = i
        BY <1>1, <1>6, <3>2
      <4>2. t[i + 1] = s[i]
        BY <1>4, <1>6, <4>1
      <4> QED
        BY <4>1, <4>2 DEF Elems
    <3> QED
      BY <3>1, <3>2
  <2>3. a \in Elems(t)
    BY <1>6, <1>7 DEF Elems
  <2> QED
    BY <2>1, <2>2, <2>3 DEF Elems
<1>9. IsInserted(s, k, a, t)
  BY <1>2, <1>4, <1>6, <1>8 DEF IsInserted
<1> QED
  BY <1>9 DEF t

\* What ppool_queue_add writes to link node a behind the first k.
LinksBehind(s, k, a, h, nx, hh, nn) ==
  /\ k = 0 => hh = a /\ nn = [nx EXCEPT ![a] = h]
  /\ k > 0 => hh = h /\ nn = [nx EXCEPT ![a] = nx[s[k]], ![s[k]] = a]

\* The two links that ppool_queue_add writes spell the sequence with the node in it.
LEMMA InsertedSpells ==
  ASSUME NEW s, NEW h, NEW nx, Spells(s, h, nx), NEW k \in 0 .. Len(s), NEW a \in NodeAddrs,
         a \notin Elems(s), DOMAIN nx = NodeAddrs,
         NEW hh, NEW nn, LinksBehind(s, k, a, h, nx, hh, nn)
  PROVE  Spells(Inserted(s, k, a), hh, nn)
<1>1. s \in Seq(NodeAddrs) /\ Len(s) \in Nat /\ k \in Nat /\ k <= Len(s)
  BY DEF Spells
<1>2. \A i \in 1 .. Len(s) : s[i] \in NodeAddrs /\ s[i] # a
  BY <1>1 DEF Elems
<1>3. \A i, j \in 1 .. Len(s) : s[i] = s[j] => i = j
  BY DEF Spells
<1>4. h = IF Len(s) = 0 THEN NULL ELSE s[1]
  BY DEF Spells
<1>5. \A i \in 1 .. Len(s) : nx[s[i]] = IF i = Len(s) THEN NULL ELSE s[i + 1]
  BY DEF Spells
<1>6. PICK t : t = Inserted(s, k, a)
  OBVIOUS
<1>7. /\ t \in Seq(NodeAddrs) /\ Len(t) = Len(s) + 1
      /\ \A i \in 1 .. (Len(s) + 1) :
           /\ i <= k => i \in 1 .. Len(s) /\ t[i] = s[i]
           /\ i = k + 1 => t[i] = a
           /\ i > k + 1 => i - 1 \in 1 .. Len(s) /\ t[i] = s[i - 1]
           /\ i <= k \/ i = k + 1 \/ i > k + 1
  <2>1. IsInserted(s, k, a, t)
    BY <1>1, <1>6, InsertedFacts
  <2> QED
    BY <2>1 DEF IsInserted
<1>8. Len(t) \in Nat /\ 1 .. Len(t) = 1 .. (Len(s) + 1)
  BY <1>1, <1>7
<1>9. ASSUME NEW i \in 1 .. Len(t), NEW j \in 1 .. Len(t), t[i] = t[j], i < j
      PROVE  FALSE
  <2>1. i \in 1 .. (Len(s) + 1) /\ j \in 1 .. (Len(s) + 1) /\ i \in Nat /\ j \in Nat
    BY <1>8
  <2>2. CASE i <= k
    <3>1. t[i] = s[i] /\ i \in 1 .. Len(s)
      BY <1>7, <2>1, <2>2
    <3>2. CASE j <= k
      <4>1. t[j] = s[j] /\ j \in 1 .. Len(s)
        BY <1>7, <2>1, <3>2
      <4>2. i = j
        BY <1>3, <1>9, <3>1, <4>1
      <4> QED
        BY <1>9, <2>1, <4>2
    <3>3. CASE j = k + 1
      BY <1>2, <1>7, <1>9, <2>1, <3>1, <3>3
    <3>4. CASE j > k + 1
      <4>1. t[j] = s[j - 1] /\ j - 1 \in 1 .. Len(s)
        BY <1>7, <2>1, <3>4
      <4>2. i = j - 1
        BY <1>3, <1>9, <3>1, <4>1
      <4> QED
        BY <1>1, <2>1, <2>2, <3>4, <4>2
    <3> QED
      BY <1>1, <1>7, <2>1, <3>2, <3>3, <3>4
  <2>3. CASE i = k + 1
    <3>1. j > k + 1 /\ t[i] = a
      BY <1>1, <1>7, <1>9, <2>1, <2>3
    <3>2. t[j] = s[j - 1] /\ j - 1 \in 1 .. Len(s)
      BY <1>7, <2>1, <3>1
    <3> QED
      BY <1>2, <1>9, <3>1, <3>2
  <2>4. CASE i > k + 1
    <3>1. j > k + 1
      BY <1>1, <1>9, <2>1, <2>4
    <3>2. t[i] = s[i - 1] /\ i - 1 \in 1 .. Len(s) /\ t[j] = s[j - 1] /\ j - 1 \in 1 .. Len(s)
      BY <1>7, <2>1, <2>4, <3>1
    <3>3. i - 1 = j - 1
      BY <1>3, <1>9, <3>2
    <3> QED
      BY <1>9, <2>1, <3>3
  <2> QED
    BY <1>7, <2>1, <2>2, <2>3, <2>4
<1>10. \A i, j \in 1 .. Len(t) : t[i] = t[j] => i = j
  <2> SUFFICES ASSUME NEW i \in 1 .. Len(t), NEW j \in 1 .. Len(t), t[i] = t[j]
               PROVE  i = j
    OBVIOUS
  <2>1. ~(i < j) /\ ~(j < i)
    BY <1>9
  <2> QED
    BY <1>8, <2>1
<1> USE DEF LinksBehind
<1>11. hh = IF Len(t) = 0 THEN NULL ELSE t[1]
  <2>1. 1 \in 1 .. (Len(s) + 1) /\ Len(t) # 0
    BY <1>1, <1>7
  <2>2. CASE k = 0
    BY <1>7, <2>1, <2>2
  <2>3. CASE k > 0
    <3>1. t[1] = s[1] /\ Len(s) # 0
      BY <1>1, <1>7, <2>1, <2>3
    <3> QED
      BY <1>4, <2>1, <2>3, <3>1
  <2> QED
    BY <1>1, <2>2, <2>3
<1>12. /\ nn[a] = IF k = Len(s) THEN NULL ELSE s[k + 1]
       /\ k > 0 => nn[s[k]] = a
       /\ \A i \in 1 .. Len(s) : i # k => nn[s[i]] = nx[s[i]]
  <2>1. CASE k = 0
    <3>1. nn = [nx EXCEPT ![a] = h]
      BY <2>1
    <3>2. \A i \in 1 .. Len(s) : nn[s[i]] = nx[s[i]]
      BY <1>2, <3>1
    <3> QED
      BY <1>1, <1>4, <2>1, <3>1, <3>2
  <2>2. CASE k > 0
    <3>1. k \in 1 .. Len(s)
      BY <1>1, <2>2
    <3>2. \A i \in 1 .. Len(s) : i # k => s[i] # s[k]
      BY <1>3, <3>1
    <3>3. nn = [nx EXCEPT ![a] = nx[s[k]], ![s[k]] = a]
      BY <2>2
    <3>4. nn[a] = nx[s[k]] /\ nn[s[k]] = a
      BY <1>2, <3>1, <3>3
    <3>5. \A i \in 1 .. Len(s) : i # k => nn[s[i]] = nx[s[i]]
      BY <1>2, <3>2, <3>3
    <3> QED
      BY <1>5, <3>1, <3>4, <3>5
  <2> QED
    BY <1>1, <2>1, <2>2
<1> HIDE DEF LinksBehind
<1>13. ASSUME NEW i \in 1 .. Len(t)
       PROVE  nn[t[i]] = IF i = Len(t) THEN NULL ELSE t[i + 1]
  <2>1. i \in 1 .. (Len(s) + 1) /\ i \in Nat /\ (i # Len(t) => i + 1 \in 1 .. (Len(s) + 1))
    BY <1>1, <1>7, <1>8
  <2>2. CASE i <= k
    <3>1. t[i] = s[i] /\ i # Len(t) /\ i \in 1 .. Len(s) /\ i + 1 \in 1 .. (Len(s) + 1)
      BY <1>1, <1>7, <2>1, <2>2
    <3>2. CASE i = k
      <4>1. t[i + 1] = a
        BY <1>7, <3>1, <3>2
      <4>2. nn[s[i]] = a
        BY <1>1, <1>12, <3>1, <3>2
      <4> QED
        BY <3>1, <4>1, <4>2
    <3>3. CASE i # k
      <4>1. i + 1 <= k /\ i # Len(s)
        BY <1>1, <2>1, <2>2, <3>3
      <4>2. t[i + 1] = s[i + 1]
        BY <1>7, <3>1, <4>1
      <4> QED
        BY <1>5, <1>12, <3>1, <3>3, <4>1, <4>2
    <3> QED
      BY <3>2, <3>3
  <2>3. CASE i = k + 1
    <3>1. t[i] = a
      BY <1>7, <2>1, <2>3
    <3>2. CASE k = Len(s)
      BY <1>7, <1>12, <2>3, <3>1, <3>2
    <3>3. CASE k # Len(s)
      <4>1. i # Len(t) /\ i + 1 > k + 1 /\ (i + 1) - 1 = k + 1
        BY <1>1, <1>7, <2>1, <2>3, <3>3
      <4>2. t[i + 1] = s[k + 1]
        BY <1>7, <2>1, <4>1
      <4> QED
        BY <1>12, <3>1, <3>3, <4>1, <4>2
    <3> QED
      BY <3>2, <3>3
  <2>4. CASE i > k + 1
    <3>1. t[i] = s[i - 1] /\ i - 1 \in 1 .. Len(s)
      BY <1>7, <2>1, <2>4
    <3>2. i - 1 # k /\ (i - 1) + 1 = i
      BY <1>1, <2>1, <2>4
    <3>3. nn[t[i]] = IF i - 1 = Len(s) THEN NULL ELSE s[i]
      BY <1>5, <1>12, <3>1, <3>2
    <3>4. CASE i = Len(t)
      <4>1. i - 1 = Len(s)
        BY <1>1, <1>7, <3>4
      <4> QED
        BY <3>3, <3>4, <4>1
    <3>5. CASE i # Len(t)
      <4>1. i + 1 > k + 1 /\ (i + 1) - 1 = i /\ i - 1 # Len(s) /\ i + 1 \in 1 .. (Len(s) + 1)
        BY <1>1, <1>7, <2>1, <2>4, <3>5
      <4>2. t[i + 1] = s[i]
        BY <1>7, <4>1
      <4> QED
        BY <3>3, <3>5, <4>1, <4>2
    <3> QED
      BY <3>4, <3>5
  <2> QED
    BY <1>7, <2>1, <2>2, <2>3, <2>4
<1>14. Spells(t, hh, nn)
  BY <1>7, <1>10, <1>11, <1>13 DEF Spells
<1> QED
  BY <1>6, <1>14

\* The links of the other nodes stay.
LEMMA LinksOfOthers ==
  ASSUME NEW s, NEW h, NEW nx, Spells(s, h, nx), NEW k \in 0 .. Len(s), NEW a \in NodeAddrs,
         nx \in [NodeAddrs -> NodeAddrs \union {NULL}],
         NEW hh, NEW nn, LinksBehind(s, k, a, h, nx, hh, nn)
  PROVE  /\ nn \in [NodeAddrs -> NodeAddrs \union {NULL}]
         /\ \A b \in NodeAddrs : b # a /\ b \notin Elems(s) => nn[b] = nx[b]
<1>1. Len(s) \in Nat /\ k \in Nat /\ \A i \in 1 .. Len(s) : s[i] \in NodeAddrs /\ s[i] \in Elems(s)
  BY DEF Spells, Elems
<1>2. CASE k = 0
  <2>1. h \in NodeAddrs \union {NULL}
    <3>1. Len(s) # 0 => 1 \in 1 .. Len(s)
      BY <1>1
    <3> QED
      BY <1>1, <3>1 DEF Spells
  <2>2. nn = [nx EXCEPT ![a] = h]
    BY <1>2 DEF LinksBehind
  <2> QED
    BY <2>1, <2>2
<1>3. CASE k > 0
  <2>1. k \in 1 .. Len(s)
    BY <1>1, <1>3
  <2>2. s[k] \in NodeAddrs /\ s[k] \in Elems(s) /\ nx[s[k]] \in NodeAddrs \union {NULL}
    BY <1>1, <2>1
  <2>3. nn = [nx EXCEPT ![a] = nx[s[k]], ![s[k]] = a]
    BY <1>3 DEF LinksBehind
  <2> QED
    BY <2>2, <2>3
<1> QED
  BY <1>1, <1>2, <1>3

\* The insertion of module TaskQueue, on the list.
LEMMA InsertedNodes ==
  ASSUME NEW s \in Seq(NodeAddrs), NEW pr \in [NodeAddrs -> Int], NEW a \in NodeAddrs,
         NEW k, After(s, pr, pr[a], k)
  PROVE  Nodes(Inserted(s, k, a), pr) = InsertNode(Nodes(s, pr), [priority |-> pr[a], addr |-> a])
<1> DEFINE q == Nodes(s, pr)
           n == [priority |-> pr[a], addr |-> a]
           t == Inserted(s, k, a)
<1>1. Len(s) \in Nat /\ k \in 0 .. Len(s) /\ pr[a] \in Int
  BY DEF After
<1>2. /\ Len(q) = Len(s)
      /\ \A i \in 1 .. Len(s) : q[i] = [priority |-> pr[s[i]], addr |-> s[i]]
  BY <1>1 DEF Nodes
<1>3. InsertPos(q, pr[a]) = k
  BY <1>1, InsertPosOfNodes, AfterUnique
<1>4. InsertNode(q, n) = [i \in 1 .. (Len(q) + 1) |-> IF i <= k THEN q[i]
                                                     ELSE IF i = k + 1 THEN n ELSE q[i - 1]]
  <2>1. n.priority = pr[a]
    OBVIOUS
  <2> HIDE DEF q, n
  <2> QED
    BY <1>3, <2>1 DEF InsertNode
<1>5. IsInserted(s, k, a, t)
  BY <1>1, InsertedFacts
<1> HIDE DEF t
<1>6. Nodes(t, pr) = [i \in 1 .. (Len(s) + 1) |-> [priority |-> pr[t[i]], addr |-> t[i]]]
  BY <1>5 DEF Nodes, IsInserted
<1>7. ASSUME NEW i \in 1 .. (Len(s) + 1)
      PROVE  [priority |-> pr[t[i]], addr |-> t[i]]
               = IF i <= k THEN q[i] ELSE IF i = k + 1 THEN n ELSE q[i - 1]
  <2>1. /\ i <= k => i \in 1 .. Len(s) /\ t[i] = s[i]
        /\ i = k + 1 => t[i] = a
        /\ i > k + 1 => i - 1 \in 1 .. Len(s) /\ t[i] = s[i - 1]
        /\ i <= k \/ i = k + 1 \/ i > k + 1
    BY <1>5 DEF IsInserted
  <2>2. i > k + 1 => ~(i <= k) /\ i # k + 1
    BY <1>1
  <2>3. i = k + 1 => ~(i <= k)
    BY <1>1
  <2> HIDE DEF q
  <2>4. CASE i <= k
    BY <1>2, <2>1, <2>4
  <2>5. CASE i = k + 1
    BY <2>1, <2>3, <2>5
  <2>6. CASE i > k + 1
    BY <1>2, <2>1, <2>2, <2>6
  <2> QED
    BY <2>1, <2>4, <2>5, <2>6
<1> HIDE DEF q, n
<1>8. Nodes(t, pr) = InsertNode(q, n)
  BY <1>2, <1>4, <1>6, <1>7
<1> QED
  BY <1>8 DEF q, n, t

\* Taking the first node.
LEMMA RemovedSpells ==
  ASSUME NEW s, NEW h, NEW nx, Spells(s, h, nx), h # NULL
  PROVE  /\ Spells(Tail(s), nx[h], nx) /\ Len(Tail(s)) = Len(s) - 1 /\ Len(s) > 0
         /\ h \in Elems(s) /\ Elems(Tail(s)) = Elems(s) \ {h}
<1>1. s \in Seq(NodeAddrs) /\ Len(s) \in Nat /\ Len(s) > 0 /\ s # <<>> /\ h = s[1] /\ 1 \in 1 .. Len(s)
  BY DEF Spells
<1>2. \A i, j \in 1 .. Len(s) : s[i] = s[j] => i = j
  BY DEF Spells
<1>3. \A i \in 1 .. Len(s) : nx[s[i]] = IF i = Len(s) THEN NULL ELSE s[i + 1]
  BY DEF Spells
<1>4. PICK t : t = Tail(s)
  OBVIOUS
<1>5. t \in Seq(NodeAddrs) /\ Len(t) = Len(s) - 1 /\ \A i \in 1 .. Len(t) : t[i] = s[i + 1]
  BY <1>1, <1>4
<1>6. \A i \in 1 .. Len(t) : i + 1 \in 1 .. Len(s) /\ i + 1 # 1 /\ (i + 1 = Len(s) <=> i = Len(t))
  BY <1>1, <1>5
<1>7. ASSUME NEW i \in 1 .. Len(t), NEW j \in 1 .. Len(t), t[i] = t[j]
      PROVE  i = j
  <2>1. i + 1 = j + 1
    BY <1>2, <1>5, <1>6, <1>7
  <2> QED
    BY <2>1
<1>8. nx[h] = IF Len(t) = 0 THEN NULL ELSE t[1]
  <2>1. nx[h] = IF 1 = Len(s) THEN NULL ELSE s[1 + 1]
    BY <1>1, <1>3
  <2>2. Len(t) = 0 <=> 1 = Len(s)
    BY <1>1, <1>5
  <2>3. Len(t) # 0 => t[1] = s[1 + 1]
    BY <1>1, <1>5
  <2> QED
    BY <2>1, <2>2, <2>3
<1>9. ASSUME NEW i \in 1 .. Len(t)
      PROVE  nx[t[i]] = IF i = Len(t) THEN NULL ELSE t[i + 1]
  <2>1. nx[t[i]] = IF i = Len(t) THEN NULL ELSE s[(i + 1) + 1]
    BY <1>3, <1>5, <1>6
  <2>2. i # Len(t) => t[i + 1] = s[(i + 1) + 1]
    <3>1. i # Len(t) => i + 1 \in 1 .. Len(t)
      BY <1>1, <1>5
    <3> QED
      BY <1>5, <3>1
  <2> QED
    BY <2>1, <2>2
<1>10. Spells(t, nx[h], nx)
  BY <1>5, <1>7, <1>8, <1>9 DEF Spells
<1>11. h \in Elems(s)
  BY <1>1 DEF Elems
<1>12. Elems(t) = Elems(s) \ {h}
  <2>1. ASSUME NEW i \in 1 .. Len(t)
        PROVE  t[i] \in Elems(s) \ {h}
    BY <1>1, <1>2, <1>5, <1>6 DEF Elems
  <2>2. ASSUME NEW i \in 1 .. Len(s), s[i] # h
        PROVE  s[i] \in Elems(t)
    <3>1. i - 1 \in 1 .. Len(t) /\ (i - 1) + 1 = i
      BY <1>1, <1>5, <2>2
    <3>2. t[i - 1] = s[i]
      BY <1>5, <3>1
    <3> QED
      BY <3>1, <3>2 DEF Elems
  <2> QED
    BY <2>1, <2>2 DEF Elems
<1> QED
  BY <1>1, <1>4, <1>5, <1>10, <1>11, <1>12

\* Removing the head of the sequence removes that of the list.
LEMMA RemovedNodes ==
  ASSUME NEW s \in Seq(NodeAddrs), Len(s) > 0, NEW pr
  PROVE  Nodes(s, pr) # <<>> /\ Nodes(Tail(s), pr) = Tail(Nodes(s, pr))
<1>1. PICK t : t = Tail(s)
  OBVIOUS
<1>2. s # <<>> /\ Len(s) \in Nat
  OBVIOUS
<1>3. Len(t) = Len(s) - 1 /\ \A i \in 1 .. Len(t) : t[i] = s[i + 1]
  BY <1>1, <1>2
<1>4. PICK q : q = Nodes(s, pr)
  OBVIOUS
<1>5. q = [i \in 1 .. Len(s) |-> [priority |-> pr[s[i]], addr |-> s[i]]]
  BY <1>4 DEF Nodes
<1>6. Len(q) = Len(s) /\ q # <<>>
  BY <1>2, <1>5
<1>7. Tail(q) = [i \in 1 .. (Len(q) - 1) |-> q[i + 1]]
  <2> DEFINE V == {q[i] : i \in 1 .. Len(q)}
  <2>1. q \in Seq(V)
    BY <1>2, <1>5, <1>6
  <2> HIDE DEF V
  <2>2. /\ Tail(q) \in Seq(V) /\ Len(Tail(q)) = Len(q) - 1
        /\ \A i \in 1 .. (Len(q) - 1) : Tail(q)[i] = q[i + 1]
    BY <1>6, <2>1
  <2>3. Tail(q) \in [1 .. Len(Tail(q)) -> V]
    BY <2>2, LenProperties
  <2> QED
    BY <2>2, <2>3
<1>8. ASSUME NEW i \in 1 .. Len(t)
      PROVE  q[i + 1] = [priority |-> pr[t[i]], addr |-> t[i]]
  <2>1. i + 1 \in 1 .. Len(s) /\ t[i] = s[i + 1]
    BY <1>2, <1>3
  <2> QED
    BY <1>5, <2>1
<1>9. Nodes(t, pr) = Tail(q)
  BY <1>3, <1>6, <1>7, <1>8 DEF Nodes
<1> QED
  BY <1>1, <1>4, <1>6, <1>9

-----------------------------------------------------------------------------
(* The invariant.                                                          *)

\* Sequence s is the list, its length is stored, and no node of it is owned by
\* the caller that allocated it or by a worker.
IsQueue(s) ==
  /\ Spells(s, head, next)
  /\ len = Len(s)
  /\ Elems(s) \intersect fresh = {}
  /\ Elems(s) \intersect taken = {}

QueueTypes ==
  /\ priority \in [NodeAddrs -> Int]
  /\ next \in [NodeAddrs -> NodeAddrs \union {NULL}]
  /\ fresh \subseteq NodeAddrs
  /\ taken \subseteq NodeAddrs

QueueInvariant ==
  /\ QueueTypes
  /\ fresh \intersect taken = {}
  /\ \A a \in fresh : next[a] = NULL
  /\ \E s : IsQueue(s)

\* The step of ListIsTaskQueue.
ListStep ==
  \/ \E a \in fresh \ fresh' : List' = InsertNode(List, NodeAt(a))
  \/ List # <<>> /\ List' = Tail(List) /\ taken' \ taken = {head}
  \/ List' = <<>> /\ UNCHANGED <<fresh, taken>>

\* A head of NULL spells the empty sequence.
LEMMA EmptySpells ==
  ASSUME NEW nx
  PROVE  Spells(<<>>, NULL, nx) /\ Len(<<>>) = 0 /\ Elems(<<>>) = {}
  BY DEF Spells, Elems

\* The list of the empty sequence is empty.
LEMMA EmptyNodes == \A pr : Nodes(<<>>, pr) = <<>>
  BY DEF Nodes

\* ppool_queue_init makes an empty list.
LEMMA InitQueue == QueueInit => QueueInvariant
<1> SUFFICES ASSUME QueueInit PROVE QueueInvariant
  OBVIOUS
<1>1. QueueTypes /\ fresh = {} /\ taken = {}
  BY DEF QueueInit, QueueTypes
<1>2. IsQueue(<<>>)
  BY EmptySpells DEF QueueInit, IsQueue
<1> QED
  BY <1>1, <1>2 DEF QueueInvariant

\* ppool_queue_init, ppool_queue_cleanup and ppool_queue_destroy leave no node.
LEMMA EmptyingStep ==
  ASSUME QueueInvariant, len' = 0, head' = NULL, UNCHANGED <<fresh, taken, fields>>
  PROVE  QueueInvariant' /\ ListStep
<1>1. UNCHANGED <<fresh, taken, priority, next>>
  BY DEF fields
<1>2. Spells(<<>>, head', next')
  BY EmptySpells
<1>3. IsQueue(<<>>)'
  BY <1>1, <1>2, EmptySpells DEF IsQueue
<1>4. QueueInvariant'
  BY <1>1, <1>3 DEF QueueInvariant, QueueTypes
<1>5. List' = <<>>
  BY <1>2, NewListSpelled, EmptyNodes
<1> QED
  BY <1>1, <1>4, <1>5 DEF ListStep

\* A new node is written before it is linked.
LEMMA NewStep ==
  ASSUME QueueInvariant, NEW a \in NodeAddrs, NEW p \in Priorities, ppool_queue_new(a, p)
  PROVE  QueueInvariant' /\ List' = List
<1>1. PICK s : IsQueue(s)
  BY DEF QueueInvariant
<1>2. s \in Seq(NodeAddrs) /\ Linked = Elems(s) /\ List = Nodes(s, priority)
  BY <1>1, ListSpelled DEF IsQueue, Spells
<1>3. a \notin fresh /\ a \notin taken /\ a \notin Elems(s)
  BY <1>2 DEF ppool_queue_new, Allocated
<1>4. /\ priority' = [priority EXCEPT ![a] = p] /\ next' = [next EXCEPT ![a] = NULL]
      /\ fresh' = fresh \union {a} /\ UNCHANGED <<queue, len, head, taken>>
  BY DEF ppool_queue_new
<1>5. QueueTypes /\ fresh \intersect taken = {} /\ \A b \in fresh : next[b] = NULL
  BY DEF QueueInvariant
<1>6. QueueTypes'
  BY <1>4, <1>5, NodeAddrsAssumption DEF QueueTypes
<1>7. \A i \in 1 .. Len(s) : s[i] \in NodeAddrs /\ s[i] # a
  BY <1>2, <1>3 DEF Elems
<1>8. /\ \A i \in 1 .. Len(s) : next'[s[i]] = next[s[i]]
      /\ \A i \in 1 .. Len(s) : priority'[s[i]] = priority[s[i]]
  BY <1>4, <1>5, <1>7 DEF QueueTypes
<1>9. Spells(s, head', next')
  BY <1>1, <1>4, <1>8 DEF IsQueue, Spells
<1>10. IsQueue(s)'
  BY <1>1, <1>3, <1>4, <1>9 DEF IsQueue
<1>11. \A b \in fresh' : next'[b] = NULL
  BY <1>4, <1>5 DEF QueueTypes
<1>12. QueueInvariant'
  BY <1>3, <1>4, <1>5, <1>6, <1>10, <1>11 DEF QueueInvariant
<1>13. Nodes(s, priority') = Nodes(s, priority)
  BY <1>8 DEF Nodes
<1> QED
  BY <1>2, <1>9, <1>12, <1>13, NewListSpelled

\* Where ppool_queue_add links the node.
LEMMA AddLinks ==
  ASSUME QueueInvariant, NEW a \in NodeAddrs, ppool_queue_add(a), NEW s, IsQueue(s)
  PROVE  \E k \in 0 .. Len(s) : /\ After(s, priority, priority[a], k)
                                /\ LinksBehind(s, k, a, head, next, head', next')
<1>1. a \in fresh /\ a \notin Elems(s) /\ next[a] = NULL /\ s \in Seq(NodeAddrs) /\ Len(s) \in Nat
  BY DEF QueueInvariant, IsQueue, Spells, ppool_queue_add
<1>2. priority \in [NodeAddrs -> Int] /\ next \in [NodeAddrs -> NodeAddrs \union {NULL}] /\ priority[a] \in Int
  BY DEF QueueInvariant, QueueTypes
<1>3. Spells(s, head, next)
  BY DEF IsQueue
<1> DEFINE pos == ppool_queue_get_insert_pos(head, priority[a])
<1>4. CASE head = NULL
  <2>1. s = <<>>
    <3> SUFFICES ASSUME Len(s) # 0 PROVE FALSE
      BY <1>1
    <3>1. head = s[1] /\ 1 \in 1 .. Len(s) /\ s[1] \in NodeAddrs
      BY <1>1, <1>3 DEF Spells
    <3> QED
      BY <1>4, <3>1, NodeAddrsAssumption
  <2>2. pos = -1
    BY <1>4 DEF ppool_queue_get_insert_pos
  <2>3. head' = a /\ next' = next
    BY <2>2 DEF ppool_queue_add
  <2>4. next' = [next EXCEPT ![a] = head]
    BY <1>1, <1>2, <1>4, <2>3
  <2>5. 0 \in 0 .. Len(s) /\ After(s, priority, priority[a], 0)
    BY <1>1, <2>1 DEF After
  <2>6. LinksBehind(s, 0, a, head, next, head', next')
    <3>1. head' = a
      BY <2>3
    <3> HIDE DEF pos
    <3> QED
      BY <2>4, <3>1 DEF LinksBehind
  <2> QED
    BY <2>5, <2>6
<1>5. CASE head # NULL
  <2>1. s # <<>>
    BY <1>3, <1>5 DEF Spells
  <2>2. After(s, priority, priority[a], pos)
    BY <1>2, <1>3, <2>1, InsertPosOfList
  <2>3. pos \in 0 .. Len(s)
    BY <2>2 DEF After
  <2>4. /\ pos = 0 => head' = a /\ next' = [next EXCEPT ![a] = head]
        /\ pos > 0 => head' = head /\ next' = [next EXCEPT ![a] = next[Walk(head)[pos - 1]],
                                                          ![Walk(head)[pos - 1]] = a]
    BY <1>1, <2>3 DEF ppool_queue_add
  <2>5. pos > 0 => Walk(head)[pos - 1] = s[pos]
    <3>1. Len(s) \in Nat /\ N \in Nat /\ Len(s) <= N
      BY <1>3, ListFits
    <3> SUFFICES ASSUME pos > 0 PROVE Walk(head)[pos - 1] = s[pos]
      OBVIOUS
    <3> HIDE DEF pos
    <3>2. pos - 1 \in 0 .. N /\ pos - 1 < Len(s) /\ (pos - 1) + 1 = pos
      BY <2>3, <3>1
    <3>3. Walk(head)[pos - 1] = Nth(s, pos - 1)
      BY <1>3, <3>2, ListSpelled
    <3> QED
      BY <3>2, <3>3 DEF Nth
  <2>6. /\ pos = 0 => head' = a /\ next' = [next EXCEPT ![a] = head]
        /\ pos > 0 => head' = head /\ next' = [next EXCEPT ![a] = next[s[pos]], ![s[pos]] = a]
    BY <2>4, <2>5
  <2> HIDE DEF pos
  <2>7. LinksBehind(s, pos, a, head, next, head', next')
    BY <2>6 DEF LinksBehind
  <2> QED
    BY <2>2, <2>3, <2>7
<1> QED
  BY <1>4, <1>5

\* ppool_queue_add inserts where TaskQueue does.
LEMMA AddStep ==
  ASSUME QueueInvariant, NEW a \in NodeAddrs, ppool_queue_add(a)
  PROVE  QueueInvariant' /\ ListStep
<1>1. PICK s : IsQueue(s)
  BY DEF QueueInvariant
<1>2. PICK k \in 0 .. Len(s) : /\ After(s, priority, priority[a], k)
                               /\ LinksBehind(s, k, a, head, next, head', next')
  BY <1>1, AddLinks
<1>3. s \in Seq(NodeAddrs) /\ List = Nodes(s, priority) /\ Spells(s, head, next)
  BY <1>1, ListSpelled DEF IsQueue, Spells
<1>4. /\ a \in fresh /\ fresh' = fresh \ {a} /\ len' = len + 1
      /\ UNCHANGED <<queue, taken, priority>>
  BY DEF ppool_queue_add
<1>5. QueueTypes /\ fresh \intersect taken = {} /\ \A b \in fresh : next[b] = NULL
  BY DEF QueueInvariant
<1>6. PICK t : t = Inserted(s, k, a)
  OBVIOUS
<1>7. t \in Seq(NodeAddrs) /\ Len(t) = Len(s) + 1 /\ Elems(t) = Elems(s) \union {a}
  <2>1. IsInserted(s, k, a, t)
    BY <1>3, <1>6, InsertedFacts
  <2> QED
    BY <2>1 DEF IsInserted
<1>8. IsQueue(t)'
  <2>1. Spells(t, head', next')
    <3>1. a \notin Elems(s) /\ DOMAIN next = NodeAddrs
      BY <1>1, <1>4, <1>5 DEF IsQueue, QueueTypes
    <3> QED
      BY <1>2, <1>3, <1>6, <3>1, InsertedSpells
  <2>2. len' = Len(t)
    BY <1>1, <1>4, <1>7 DEF IsQueue
  <2>3. Elems(t) \intersect fresh' = {} /\ Elems(t) \intersect taken' = {}
    BY <1>1, <1>4, <1>5, <1>7 DEF IsQueue
  <2> QED
    BY <2>1, <2>2, <2>3 DEF IsQueue
<1>9. /\ next' \in [NodeAddrs -> NodeAddrs \union {NULL}]
      /\ \A b \in fresh' : next'[b] = NULL
  <2>1. /\ next' \in [NodeAddrs -> NodeAddrs \union {NULL}]
        /\ \A b \in NodeAddrs : b # a /\ b \notin Elems(s) => next'[b] = next[b]
    BY <1>2, <1>3, <1>5, LinksOfOthers DEF QueueTypes
  <2>2. \A b \in fresh' : b \in fresh /\ b \in NodeAddrs /\ b # a /\ b \notin Elems(s)
    BY <1>1, <1>4, <1>5 DEF IsQueue, QueueTypes
  <2> QED
    BY <1>5, <2>1, <2>2
<1>10. QueueInvariant'
  BY <1>4, <1>5, <1>8, <1>9 DEF QueueInvariant, QueueTypes
<1>11. List' = Nodes(t, priority)
  <2>1. Spells(t, head', next')
    BY <1>8 DEF IsQueue
  <2> QED
    BY <1>4, <2>1, NewListSpelled
<1>12. Nodes(t, priority) = InsertNode(List, NodeAt(a))
  BY <1>2, <1>3, <1>5, <1>6, InsertedNodes DEF NodeAt, QueueTypes
<1> QED
  BY <1>4, <1>10, <1>11, <1>12 DEF ListStep

\* ppool_queue_get_task removes the head.
LEMMA GetTaskStep ==
  ASSUME QueueInvariant, ppool_queue_get_task
  PROVE  QueueInvariant' /\ ListStep
<1>1. PICK s : IsQueue(s)
  BY DEF QueueInvariant
<1>2. s \in Seq(NodeAddrs) /\ List = Nodes(s, priority) /\ Len(s) \in Nat
  BY <1>1, ListSpelled DEF IsQueue, Spells
<1>3. /\ head # NULL /\ taken' = taken \union {head} /\ head' = next[head] /\ len' = len - 1
      /\ UNCHANGED <<fresh, priority, next>>
  BY DEF ppool_queue_get_task, Successor, fields
<1>4. PICK t : t = Tail(s)
  OBVIOUS
<1>5. /\ Spells(t, next[head], next) /\ Len(t) = Len(s) - 1 /\ Len(s) > 0
      /\ head \in Elems(s) /\ Elems(t) = Elems(s) \ {head}
  BY <1>1, <1>3, <1>4, RemovedSpells DEF IsQueue
<1>6. head \in NodeAddrs /\ head \notin fresh /\ head \notin taken
  BY <1>1, <1>2, <1>5 DEF IsQueue, Elems
<1>7. IsQueue(t)'
  <2>1. Spells(t, head', next')
    BY <1>3, <1>5
  <2>2. len' = Len(t)
    BY <1>1, <1>3, <1>5 DEF IsQueue
  <2>3. Elems(t) \intersect fresh' = {} /\ Elems(t) \intersect taken' = {}
    BY <1>1, <1>3, <1>5 DEF IsQueue
  <2> QED
    BY <2>1, <2>2, <2>3 DEF IsQueue
<1>8. QueueInvariant'
  BY <1>3, <1>6, <1>7 DEF QueueInvariant, QueueTypes
<1>9. List' = Nodes(t, priority)
  BY <1>3, <1>5, NewListSpelled
<1>10. List # <<>> /\ List' = Tail(List)
  BY <1>2, <1>4, <1>5, <1>9, RemovedNodes
<1>11. taken' \ taken = {head}
  BY <1>3, <1>6
<1> QED
  BY <1>8, <1>10, <1>11 DEF ListStep

\* Freeing a taken node does not touch the list.
LEMMA FreeStep ==
  ASSUME QueueInvariant, NEW a \in NodeAddrs, FreeTask(a)
  PROVE  QueueInvariant' /\ List' = List
<1>1. PICK s : IsQueue(s)
  BY DEF QueueInvariant
<1>2. taken' = taken \ {a} /\ UNCHANGED <<len, head, fresh, priority, next>>
  BY DEF FreeTask, fields
<1>3. Spells(s, head, next) /\ Spells(s, head', next')
  BY <1>1, <1>2 DEF IsQueue
<1>4. IsQueue(s)'
  BY <1>1, <1>2, <1>3 DEF IsQueue
<1>5. List' = List
  BY <1>2, <1>3, ListSpelled, NewListSpelled
<1> QED
  BY <1>2, <1>4, <1>5 DEF QueueInvariant, QueueTypes

\* No step, no change.
LEMMA StutterStep ==
  ASSUME QueueInvariant, UNCHANGED queueVars
  PROVE  QueueInvariant' /\ List' = List
<1>1. PICK s : IsQueue(s)
  BY DEF QueueInvariant
<1>2. UNCHANGED <<len, head, fresh, taken, priority, next>>
  BY DEF queueVars
<1>3. Spells(s, head, next) /\ Spells(s, head', next')
  BY <1>1, <1>2 DEF IsQueue
<1>4. IsQueue(s)'
  BY <1>1, <1>2, <1>3 DEF IsQueue
<1>5. List' = List
  BY <1>2, <1>3, ListSpelled, NewListSpelled
<1> QED
  BY <1>2, <1>4, <1>5 DEF QueueInvariant, QueueTypes

\* Every step keeps the invariant and does to the list what it should.
LEMMA QueueStep ==
  ASSUME QueueInvariant, [QueueNext]_queueVars
  PROVE  QueueInvariant' /\ (ListStep \/ List' = List)
<1>1. CASE ppool_queue_init
  BY <1>1, EmptyingStep DEF ppool_queue_init
<1>2. ASSUME NEW a \in NodeAddrs, NEW p \in Priorities, ppool_queue_new(a, p)
      PROVE  QueueInvariant' /\ (ListStep \/ List' = List)
  BY <1>2, NewStep
<1>3. ASSUME NEW a \in NodeAddrs, ppool_queue_add(a)
      PROVE  QueueInvariant' /\ (ListStep \/ List' = List)
  BY <1>3, AddStep
<1>4. ASSUME NEW a \in NodeAddrs, FreeTask(a)
      PROVE  QueueInvariant' /\ (ListStep \/ List' = List)
  BY <1>4, FreeStep
<1>5. CASE ppool_queue_get_task
  BY <1>5, GetTaskStep
<1>6. CASE ppool_queue_cleanup
  BY <1>6, EmptyingStep DEF ppool_queue_cleanup, CleanLen
<1>7. CASE ppool_queue_destroy
  BY <1>7, EmptyingStep DEF ppool_queue_destroy
<1>8. CASE UNCHANGED queueVars
  BY <1>8, StutterStep
<1> QED
  BY <1>1, <1>2, <1>3, <1>4, <1>5, <1>6, <1>7, <1>8 DEF QueueNext

-----------------------------------------------------------------------------
(* The theorems.                                                           *)

\* The list is always spelled by its pointers (invariant of every call).
THEOREM QueueInvariance == QueueSpec => []QueueInvariant
<1>1. QueueInvariant /\ [QueueNext]_queueVars => QueueInvariant'
  BY QueueStep
<1> QED
  BY InitQueue, <1>1, PTL DEF QueueSpec

\* The length that ppool_run tests is the number of nodes that
\* ppool_queue_get_task will find, and the list ends.
THEOREM LengthIsRight == QueueSpec => []LengthIsListLength
<1>1. QueueInvariant => LengthIsListLength
  <2> SUFFICES ASSUME QueueInvariant PROVE LengthIsListLength
    OBVIOUS
  <2>1. PICK s : IsQueue(s)
    BY DEF QueueInvariant
  <2>2. Walk(head)[N] = NULL /\ Cardinality(Linked) = Len(s) /\ len = Len(s)
    BY <2>1, ListSpelled DEF IsQueue
  <2> QED
    BY <2>2 DEF LengthIsListLength, N
<1> QED
  BY QueueInvariance, <1>1, PTL

\* No node is freed, by ppool_queue_cleanup or by the worker that took it,
\* while another owner can reach it.
THEOREM NodesHaveOneOwner == QueueSpec => []OneOwner
<1>1. QueueInvariant => OneOwner
  <2> SUFFICES ASSUME QueueInvariant PROVE OneOwner
    OBVIOUS
  <2>1. PICK s : IsQueue(s)
    BY DEF QueueInvariant
  <2>2. /\ Linked = Elems(s)
        /\ Elems(s) \intersect fresh = {} /\ Elems(s) \intersect taken = {}
    BY <2>1, ListSpelled DEF IsQueue
  <2> QED
    BY <2>2 DEF OneOwner, QueueInvariant
<1> QED
  BY QueueInvariance, <1>1, PTL

\* ppool_queue_add, ppool_queue_get_task, ppool_queue_cleanup and
\* ppool_queue_destroy act on the linked list as module TaskQueue says, and the
\* other calls leave it alone.
THEOREM ListActsAsTaskQueue == QueueSpec => ListIsTaskQueue
<1>1. QueueInvariant /\ [QueueNext]_queueVars => [ListStep]_List
  BY QueueStep
<1>2. [ListStep]_List => [ \/ \E a \in fresh \ fresh' : List' = InsertNode(List, NodeAt(a))
                           \/ taken' \ taken = {head} /\ List # <<>> /\ List' = Tail(List)
                           \/ UNCHANGED <<fresh, taken>> /\ List' = <<>> ]_List
  BY DEF ListStep
<1> QED
  BY QueueInvariance, <1>1, <1>2, PTL DEF QueueSpec, ListIsTaskQueue

=============================================================================
