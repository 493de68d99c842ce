---------------------------- MODULE CryptoProofs ----------------------------
(***************************************************************************)
(* Proofs about the digests for any block size, word size that is a whole  *)
(* number of blocks of bits, message and cut of it into pieces: both       *)
(* contexts compress exactly the blocks of the padded message; and about   *)
(* the CRCs for any message, any number of threads and any bytes: each     *)
(* thread gets the remainder of its message.                               *)
(*                                                                         *)
(* A digest's context is described by what it has seen: ShaAt and Md5At    *)
(* give it as a function of the message and the number of its bytes.  A    *)
(* turn of a loop, an update and final each take that description to the   *)
(* next one.  Turns are counted with Stop, and the loop, a function over   *)
(* its turns, is shown to agree with it at every turn: there is no least   *)
(* turn where it would not.                                                *)
(*                                                                         *)
(* A CRC's register is the remainder of the message so far.  A byte more   *)
(* is only carried along by the division until it reaches the left end;    *)
(* the eight steps that follow are rounds, and rounds may be applied to    *)
(* the highest byte alone, which is what the table holds.                  *)
(***************************************************************************)
EXTENDS Digest, Crc, SequenceTheorems, WellFoundedInduction, TLAPS

-----------------------------------------------------------------------------
(* Arithmetic.                                                             *)

\* Every number has a quotient and a remainder: the least one without them
\* would be at least b, and b less would have them.
LEMMA Quotient ==
  ASSUME NEW b \in Nat, b > 0, NEW n \in Nat
  PROVE  \E q \in Nat : \E r \in 0 .. (b - 1) : n = q * b + r
<1> DEFINE P(m) == \E q \in Nat : \E r \in 0 .. (b - 1) : m = q * b + r
           T == {m \in Nat : ~P(m)}
<1>1. T = {}
  <2> SUFFICES ASSUME T # {} PROVE FALSE
    OBVIOUS
  <2>1. PICK m \in T : \A j \in T : ~(<<j, m>> \in OpToRel(<, Nat))
    BY NatLessThanWellFounded, WFMin
  <2>2. CASE m < b
    <3>1. 0 \in Nat /\ m \in 0 .. (b - 1) /\ m = 0 * b + m
      BY <2>2
    <3> QED
      BY <3>1
  <2>3. CASE ~(m < b)
    <3>1. m - b \in Nat /\ m - b < m /\ m \in Nat
      BY <2>3
    <3>2. <<m - b, m>> \in OpToRel(<, Nat)
      BY <3>1 DEF OpToRel
    <3>3. PICK q \in Nat, r \in 0 .. (b - 1) : m - b = q * b + r
      BY <2>1, <3>1, <3>2
    <3>4. q + 1 \in Nat /\ m = (q + 1) * b + r
      BY <3>1, <3>3
    <3> QED
      BY <3>4
  <2> QED
    BY <2>2, <2>3
<1> QED
  BY <1>1

\* Named, for the provers to treat as any two functions.
Quot(n, b) == n \div b
Rem(n, b) == n % b

\* Quotient and remainder are the only ones.
LEMMA DivUnique ==
  ASSUME NEW b \in Nat, b > 0, NEW n, NEW q \in Nat, NEW r \in 0 .. (b - 1), n = q * b + r
  PROVE  Quot(n, b) = q /\ Rem(n, b) = r
  BY DEF Quot, Rem

\* \div and % are that quotient and remainder.
LEMMA DivMod ==
  ASSUME NEW b \in Nat, b > 0, NEW n \in Nat
  PROVE  /\ Quot(n, b) \in Nat /\ Rem(n, b) \in 0 .. (b - 1)
         /\ n = Quot(n, b) * b + Rem(n, b)
<1>1. PICK q \in Nat, r \in 0 .. (b - 1) : n = q * b + r
  BY Quotient
<1>2. Quot(n, b) = q /\ Rem(n, b) = r
  BY <1>1, DivUnique
<1> QED
  BY <1>1, <1>2

-----------------------------------------------------------------------------
(* A message in blocks.                                                    *)

\* A byte of a padded message.
Byte == Nat \union {Mark, Zero}

B == BLOCK
Full(n) == Quot(n, B)
Over(n) == Rem(n, B)

\* A block holds the length field and more.
LEMMA BlockType == B \in Nat /\ B > 2
  BY DigestAssumption DEF LENGTH, B

\* Whole blocks of n bytes, and the bytes over.
LEMMA FullOver ==
  ASSUME NEW n \in Nat
  PROVE  Full(n) \in Nat /\ Over(n) \in 0 .. (B - 1) /\ n = Full(n) * B + Over(n)
  BY BlockType, DivMod DEF Full, Over

\* The only such numbers.
LEMMA FullOverUnique ==
  ASSUME NEW n, NEW q \in Nat, NEW r \in 0 .. (B - 1), n = q * B + r
  PROVE  Full(n) = q /\ Over(n) = r
  BY BlockType, DivUnique DEF Full, Over

\* Where the next turn of an update stops, n bytes of L being gathered.
Turn(n, L) == Smaller(L - n, B - Over(n))

\* What a turn of t bytes does.
TurnIs(n, L, t) ==
  /\ t \in Nat /\ t <= L - n /\ Over(n) + t <= B
  /\ n < L => t > 0
  /\ Over(n) + t < B => Full(n + t) = Full(n) /\ Over(n + t) = Over(n) + t /\ n + t = L
  /\ Over(n) + t = B => Full(n + t) = Full(n) + 1 /\ Over(n + t) = 0

\* A turn takes a byte while there are some; it completes the block or ends the
\* data.
LEMMA TurnFacts ==
  ASSUME NEW L \in Nat, NEW n \in 0 .. L
  PROVE  TurnIs(n, L, Turn(n, L))
<1> DEFINE q == Full(n)
           r == Over(n)
           t == Turn(n, L)
<1>1. q \in Nat /\ r \in 0 .. (B - 1) /\ n = q * B + r /\ B \in Nat /\ B > 2 /\ n \in Nat /\ n <= L
  BY FullOver, BlockType
<1>2. /\ t \in Nat /\ t <= L - n /\ r + t <= B
      /\ n < L => t > 0
      /\ r + t < B => t = L - n
  <2>1. t = IF L - n < B - r THEN L - n ELSE B - r
    BY DEF Turn, Smaller
  <2> HIDE DEF q, r, t
  <2> QED
    BY <1>1, <2>1
<1>3. ASSUME r + t < B
      PROVE  Full(n + t) = q /\ Over(n + t) = r + t /\ n + t = L
  <2> HIDE DEF q, r, t
  <2>1. r + t \in 0 .. (B - 1) /\ n + t = q * B + (r + t)
    BY <1>1, <1>2, <1>3
  <2>2. n + t = L
    BY <1>1, <1>2, <1>3
  <2> QED
    BY <1>1, <2>1, <2>2, FullOverUnique
<1>4. ASSUME r + t = B
      PROVE  Full(n + t) = q + 1 /\ Over(n + t) = 0
  <2> HIDE DEF q, r, t
  <2>1. 0 \in 0 .. (B - 1) /\ q + 1 \in Nat /\ n + t = (q + 1) * B + 0
    BY <1>1, <1>2, <1>4
  <2> QED
    BY <2>1, FullOverUnique
<1> QED
  BY <1>2, <1>3, <1>4 DEF TurnIs

\* Where turn j stops that starts with n bytes.
Stop(n, L, j) == IF j = 0 THEN n ELSE Smaller(L, (Full(n) + j) * B)

\* Each turn goes from one stop to the next.
LEMMA StopFacts ==
  ASSUME NEW L \in Nat, NEW n \in 0 .. L, NEW j \in Nat
  PROVE  /\ Stop(n, L, j) \in 0 .. L
         /\ Stop(n, L, j + 1) = Stop(n, L, j) + Turn(Stop(n, L, j), L)
<1>1. Full(n) \in Nat /\ Over(n) \in 0 .. (B - 1) /\ n = Full(n) * B + Over(n)
      /\ B \in Nat /\ B > 2 /\ n \in Nat /\ n <= L
  BY FullOver, BlockType
<1> DEFINE q == Full(n) + j
           s == Stop(n, L, j)
<1>2. q \in Nat /\ q * B \in Nat /\ (q + 1) * B = q * B + B
  <2> HIDE DEF q
  <2>1. \A x \in Nat : x * B \in Nat /\ (x + 1) * B = x * B + B
    BY <1>1
  <2>2. q \in Nat
    BY <1>1 DEF q
  <2> QED
    BY <2>1, <2>2
<1>3. Stop(n, L, j + 1) = IF L < q * B + B THEN L ELSE q * B + B
  <2>1. j + 1 # 0 /\ Full(n) + (j + 1) = q + 1
    BY <1>1
  <2>2. Stop(n, L, j + 1) = Smaller(L, (q + 1) * B)
    BY <2>1 DEF Stop
  <2> HIDE DEF q
  <2> QED
    BY <1>2, <2>2 DEF Smaller
<1>4. CASE j = 0
  <2>1. s = n /\ q = Full(n)
    BY <1>1, <1>4 DEF Stop
  <2>2. Turn(n, L) = IF L - n < B - Over(n) THEN L - n ELSE B - Over(n)
    BY DEF Turn, Smaller
  <2>3. n = q * B + Over(n)
    BY <1>1, <2>1
  <2> HIDE DEF q, s
  <2>4. Stop(n, L, j + 1) = n + Turn(n, L)
    BY <1>1, <1>2, <1>3, <2>2, <2>3
  <2> QED
    BY <1>1, <2>1, <2>4 DEF s
<1>5. CASE j # 0
  <2>1. s = IF L < q * B THEN L ELSE q * B
    BY <1>5 DEF Stop, Smaller
  <2>2. Turn(s, L) = IF L - s < B - Over(s) THEN L - s ELSE B - Over(s)
    BY DEF Turn, Smaller
  <2> HIDE DEF q, s
  <2>3. s \in 0 .. L
    BY <1>1, <1>2, <2>1
  <2>4. CASE L < q * B
    <3>1. s = L /\ Over(s) \in 0 .. (B - 1)
      BY <2>1, <2>4, FullOver
    <3>2. Turn(s, L) = 0
      BY <1>1, <2>2, <3>1
    <3>3. Stop(n, L, j + 1) = L
      BY <1>1, <1>2, <1>3, <2>4
    <3> QED
      BY <2>3, <3>1, <3>2, <3>3 DEF s
  <2>5. CASE ~(L < q * B)
    <3>1. s = q * B /\ Over(s) = 0
      <4>1. s = q * B + 0 /\ 0 \in 0 .. (B - 1) /\ s = q * B
        BY <1>1, <1>2, <2>1, <2>5
      <4> QED
        BY <1>2, <4>1, FullOverUnique
    <3>2. Stop(n, L, j + 1) = s + Turn(s, L)
      BY <1>1, <1>2, <1>3, <2>2, <2>3, <3>1
    <3> QED
      BY <2>3, <3>2 DEF s
  <2> QED
    BY <2>4, <2>5
<1> QED
  BY <1>4, <1>5

\* There are enough turns when each takes a byte.
LEMMA LastStop ==
  ASSUME NEW L \in Nat, NEW n \in 0 .. L
  PROVE  L - n \in Nat /\ Stop(n, L, L - n) = L
<1>1. Full(n) \in Nat /\ Over(n) \in 0 .. (B - 1) /\ n = Full(n) * B + Over(n)
      /\ B \in Nat /\ B > 2 /\ n \in Nat /\ n <= L /\ L - n \in Nat
  BY FullOver, BlockType
<1>2. CASE n = L
  BY <1>1, <1>2 DEF Stop
<1>3. CASE n # L
  <2> DEFINE t == L - n
  <2>1. t \in Nat /\ t >= 1
    BY <1>1, <1>3
  <2>2. Stop(n, L, t) = IF L < (Full(n) + t) * B THEN L ELSE (Full(n) + t) * B
    BY <2>1 DEF Stop, Smaller
  <2>3. t * B >= t + (B - 1)
    <3>1. \A x \in Nat : x * B >= x
      BY <1>1
    <3>2. t - 1 \in Nat /\ t * B = (t - 1) * B + B
      BY <1>1, <2>1
    <3> HIDE DEF t
    <3>3. (t - 1) * B >= t - 1
      BY <3>1, <3>2
    <3> QED
      BY <1>1, <2>1, <3>2, <3>3
  <2>4. (Full(n) + t) * B = Full(n) * B + t * B
    BY <1>1, <2>1
  <2>5. ~(L < (Full(n) + t) * B) => (Full(n) + t) * B = L
    <3>1. L = n + t
      BY <1>1
    <3>2. Full(n) * B \in Nat /\ t * B \in Nat
      BY <1>1, <2>1
    <3> HIDE DEF t
    <3> QED
      BY <1>1, <2>1, <2>3, <2>4, <3>1, <3>2
  <2> QED
    BY <1>1, <2>2, <2>5
<1> QED
  BY <1>1, <1>2, <1>3

-----------------------------------------------------------------------------
(* What a context has seen of a message.                                   *)

\* Block k of message M, the whole blocks of its first n bytes, those over, and
\* the bytes from there on.
Block(M, k) == [i \in 1 .. B |-> M[(k - 1) * B + i]]
Blocks(M, n) == [k \in 1 .. Full(n) |-> Block(M, k)]
Rest(M, n) == [i \in 1 .. Over(n) |-> M[Full(n) * B + i]]
From(M, n) == [i \in 1 .. (Len(M) - n) |-> M[n + i]]

\* The bytes of the blocks and those over lie within the n bytes.
LEMMA PlaceInBlock ==
  ASSUME NEW L \in Nat, NEW n \in 0 .. L
  PROVE  /\ \A i \in 1 .. Over(n) : Full(n) * B + i \in 1 .. L
         /\ \A k \in 1 .. Full(n) : \A i \in 1 .. B : (k - 1) * B + i \in 1 .. L
<1>1. Full(n) \in Nat /\ Over(n) \in 0 .. (B - 1) /\ n = Full(n) * B + Over(n)
      /\ B \in Nat /\ B > 2 /\ n \in Nat /\ n <= L
  BY FullOver, BlockType
<1>2. ASSUME NEW k \in 1 .. Full(n), NEW i \in 1 .. B
      PROVE  (k - 1) * B + i \in 1 .. L
  <2>1. k * B <= Full(n) * B
    <3>1. PICK d \in Nat : Full(n) = k + d
      <4>1. Full(n) - k \in Nat /\ Full(n) = k + (Full(n) - k)
        BY <1>1
      <4> QED
        BY <4>1
    <3>2. Full(n) * B = k * B + d * B /\ d * B \in Nat /\ k * B \in Nat
      BY <1>1, <3>1
    <3> QED
      BY <3>2
  <2>2. k * B = (k - 1) * B + B /\ (k - 1) * B \in Nat
    <3>1. \A x \in Nat : (x + 1) * B = x * B + B /\ x * B \in Nat
      BY <1>1
    <3>2. k - 1 \in Nat /\ (k - 1) + 1 = k
      BY <1>1
    <3> QED
      BY <3>1, <3>2
  <2>3. Full(n) * B \in Nat
    BY <1>1
  <2> QED
    BY <1>1, <2>1, <2>2, <2>3
<1>3. Full(n) * B \in Nat
  BY <1>1
<1>4. \A i \in 1 .. Over(n) : Full(n) * B + i \in 1 .. L
  BY <1>1, <1>3
<1> QED
  BY <1>2, <1>4

\* Types and lengths of the parts of a message.
LEMMA BlocksFacts ==
  ASSUME NEW M \in Seq(Byte), NEW n \in 0 .. Len(M)
  PROVE  /\ Blocks(M, n) \in Seq(Seq(Byte)) /\ Len(Blocks(M, n)) = Full(n)
         /\ Rest(M, n) \in Seq(Byte) /\ Len(Rest(M, n)) = Over(n)
         /\ From(M, n) \in Seq(Byte) /\ Len(From(M, n)) = Len(M) - n
         /\ \A i \in 1 .. (Len(M) - n) : From(M, n)[i] = M[n + i]
<1>1. /\ Full(n) \in Nat /\ Over(n) \in 0 .. (B - 1) /\ n = Full(n) * B + Over(n)
      /\ B \in Nat /\ B > 2 /\ n \in Nat /\ n <= Len(M) /\ Len(M) \in Nat
  BY FullOver, BlockType
<1>2. \A i \in 1 .. Len(M) : M[i] \in Byte
  OBVIOUS
<1>3. Rest(M, n) \in Seq(Byte) /\ Len(Rest(M, n)) = Over(n)
  <2>1. \A i \in 1 .. Over(n) : M[Full(n) * B + i] \in Byte
    BY <1>1, <1>2, PlaceInBlock
  <2> DEFINE v == [i \in 1 .. Over(n) |-> M[Full(n) * B + i]]
  <2>2. v \in [1 .. Over(n) -> Byte]
    BY <2>1
  <2> HIDE DEF v
  <2>3. v \in Seq(Byte) /\ Len(v) = Over(n)
    BY <1>1, <2>2
  <2> QED
    BY <2>3 DEF Rest, v
<1>4. \A k \in 1 .. Full(n) : Block(M, k) \in Seq(Byte)
  <2> SUFFICES ASSUME NEW k \in 1 .. Full(n) PROVE Block(M, k) \in Seq(Byte)
    OBVIOUS
  <2>1. \A i \in 1 .. B : M[(k - 1) * B + i] \in Byte
    BY <1>1, <1>2, PlaceInBlock
  <2>2. Block(M, k) \in [1 .. B -> Byte]
    BY <2>1 DEF Block
  <2> QED
    BY <1>1, <2>2
<1>5. Blocks(M, n) \in Seq(Seq(Byte)) /\ Len(Blocks(M, n)) = Full(n)
  <2>1. Blocks(M, n) \in [1 .. Full(n) -> Seq(Byte)]
    BY <1>4 DEF Blocks
  <2> QED
    BY <1>1, <2>1
<1>6. /\ From(M, n) \in Seq(Byte) /\ Len(From(M, n)) = Len(M) - n
      /\ \A i \in 1 .. (Len(M) - n) : From(M, n)[i] = M[n + i]
  <2>1. \A i \in 1 .. (Len(M) - n) : n + i \in 1 .. Len(M)
    BY <1>1
  <2>2. Len(M) - n \in Nat
    BY <1>1
  <2>3. From(M, n) \in [1 .. (Len(M) - n) -> Byte]
    BY <1>2, <2>1 DEF From
  <2>4. From(M, n) \in Seq(Byte) /\ Len(From(M, n)) = Len(M) - n
    BY <2>2, <2>3
  <2> QED
    BY <2>4 DEF From
<1> QED
  BY <1>3, <1>5, <1>6

\* The two parts of a sequence.
LEMMA Cuts ==
  ASSUME NEW S, NEW f \in Seq(S), NEW t \in 0 .. Len(f)
  PROVE  /\ SubSeq(f, 1, t) = [i \in 1 .. t |-> f[i]]
         /\ SubSeq(f, t + 1, Len(f)) = [i \in 1 .. (Len(f) - t) |-> f[t + i]]
  OBVIOUS

\* Elements of a concatenation and of a sequence with another element.
Joined(f, g) == [i \in 1 .. (Len(f) + Len(g)) |-> IF i <= Len(f) THEN f[i] ELSE g[i - Len(f)]]
Appended(f, x) == [i \in 1 .. (Len(f) + 1) |-> IF i <= Len(f) THEN f[i] ELSE x]

\* A concatenation, element by element.
LEMMA Joins ==
  ASSUME NEW S, NEW f \in Seq(S), NEW g \in Seq(S)
  PROVE  f \o g \in Seq(S) /\ f \o g = Joined(f, g)
<1>1. PICK h : h = f \o g
  OBVIOUS
<1>2. /\ h \in Seq(S) /\ Len(h) = Len(f) + Len(g)
      /\ \A i \in 1 .. Len(f) + Len(g) : h[i] = IF i <= Len(f) THEN f[i] ELSE g[i - Len(f)]
  BY <1>1, ConcatProperties
<1>3. h \in [1 .. (Len(f) + Len(g)) -> S]
  BY <1>2, LenProperties
<1> QED
  BY <1>1, <1>2, <1>3 DEF Joined

\* A sequence with another element, element by element.
LEMMA Appends ==
  ASSUME NEW S, NEW f \in Seq(S), NEW x \in S
  PROVE  Append(f, x) = Appended(f, x)
<1>1. PICK h : h = Append(f, x)
  OBVIOUS
<1>2. h \in Seq(S) /\ Len(h) = Len(f) + 1 /\ Len(f) \in Nat
  BY <1>1
<1>3. \A i \in 1 .. (Len(f) + 1) : h[i] = IF i <= Len(f) THEN f[i] ELSE x
  BY <1>1
<1>4. h \in [1 .. (Len(f) + 1) -> S]
  BY <1>2, LenProperties
<1> QED
  BY <1>1, <1>3, <1>4 DEF Appended

\* What is gathered in a turn, and what is left.
LEMMA Gathered ==
  ASSUME NEW M \in Seq(Byte), NEW n \in 0 .. Len(M), NEW t \in 0 .. (Len(M) - n)
  PROVE  /\ Rest(M, n) \o SubSeq(From(M, n), 1, t)
              = [i \in 1 .. (Over(n) + t) |-> M[Full(n) * B + i]]
         /\ SubSeq(From(M, n), t + 1, Len(From(M, n))) = From(M, n + t)
<1>1. /\ Full(n) \in Nat /\ Over(n) \in Nat /\ n = Full(n) * B + Over(n) /\ t \in Nat
      /\ n \in Nat /\ Len(M) \in Nat /\ t <= Len(M) - n /\ Len(M) - n \in Nat
  BY FullOver, BlockType
<1>2. PICK x : x = Full(n) * B
  OBVIOUS
<1>3. x \in Nat /\ n = x + Over(n)
  BY <1>1, <1>2, BlockType
<1>4. PICK f : f = From(M, n)
  OBVIOUS
<1>5. f \in Seq(Byte) /\ Len(f) = Len(M) - n /\ \A i \in 1 .. (Len(M) - n) : f[i] = M[n + i]
  BY <1>4, BlocksFacts
<1>6. PICK u : u = SubSeq(f, 1, t)
  OBVIOUS
<1>7. u \in Seq(Byte) /\ Len(u) = t /\ \A i \in 1 .. t : u[i] = M[n + i]
  <2>1. t \in 0 .. Len(f) /\ \A i \in 1 .. t : i \in 1 .. (Len(M) - n)
    BY <1>1, <1>5
  <2>2. u = [i \in 1 .. t |-> f[i]]
    BY <1>5, <1>6, <2>1, Cuts
  <2>3. \A i \in 1 .. t : f[i] \in Byte
    BY <1>5, <2>1
  <2>4. u \in [1 .. t -> Byte]
    BY <2>2, <2>3
  <2>5. u \in Seq(Byte) /\ Len(u) = t
    BY <1>1, <2>4
  <2> QED
    BY <1>5, <2>1, <2>2, <2>5
<1>8. PICK v : v = Rest(M, n)
  OBVIOUS
<1>9. v \in Seq(Byte) /\ Len(v) = Over(n) /\ \A i \in 1 .. Over(n) : v[i] = M[x + i]
  BY <1>2, <1>8, BlocksFacts DEF Rest
<1>10. v \o u = [i \in 1 .. (Over(n) + t) |-> M[x + i]]
  <2>1. v \o u = Joined(v, u)
    BY <1>7, <1>9, Joins
  <2>2. ASSUME NEW i \in 1 .. (Over(n) + t)
        PROVE  (IF i <= Over(n) THEN v[i] ELSE u[i - Over(n)]) = M[x + i]
    <3>1. CASE i <= Over(n)
      BY <1>1, <1>9, <3>1
    <3>2. CASE ~(i <= Over(n))
      <4>1. i - Over(n) \in 1 .. t /\ n + (i - Over(n)) = x + i
        BY <1>1, <1>3, <3>2
      <4>2. u[i - Over(n)] = M[x + i]
        BY <1>7, <4>1
      <4> QED
        BY <3>2, <4>2
    <3> QED
      BY <3>1, <3>2
  <2>3. v \o u = [i \in 1 .. (Over(n) + t) |-> IF i <= Over(n) THEN v[i] ELSE u[i - Over(n)]]
    <3>1. Len(v) = Over(n) /\ Len(u) = t
      BY <1>7, <1>9
    <3> QED
      BY <2>1, <3>1, Zenon DEF Joined
  <2> QED
    BY <2>2, <2>3
<1>11. SubSeq(f, t + 1, Len(f)) = From(M, n + t)
  <2>1. t \in 0 .. Len(f)
    BY <1>1, <1>5
  <2>2. SubSeq(f, t + 1, Len(f)) = [i \in 1 .. (Len(f) - t) |-> f[t + i]]
    BY <1>5, <2>1, Cuts
  <2>3. Len(f) - t = Len(M) - (n + t)
    BY <1>1, <1>5
  <2>4. ASSUME NEW i \in 1 .. (Len(M) - (n + t))
        PROVE  f[t + i] = M[(n + t) + i]
    <3>1. t + i \in 1 .. (Len(M) - n) /\ n + (t + i) = (n + t) + i
      BY <1>1
    <3> QED
      BY <1>5, <3>1
  <2> QED
    BY <2>2, <2>3, <2>4 DEF From
<1> QED
  BY <1>2, <1>4, <1>6, <1>8, <1>10, <1>11

-----------------------------------------------------------------------------
(* SHA-256: update.                                                        *)

\* The context that has seen the first n bytes of M.
ShaAt(M, n, bits) == [state |-> Blocks(M, n), bit_count |-> bits, buffer |-> Rest(M, n)]

\* A block completed.
LEMMA OneMoreBlock ==
  ASSUME NEW M \in Seq(Byte), NEW n \in 0 .. Len(M), NEW m \in 0 .. Len(M), Full(m) = Full(n) + 1
  PROVE  Append(Blocks(M, n), [i \in 1 .. B |-> M[Full(n) * B + i]]) = Blocks(M, m)
<1>1. Full(n) \in Nat
  BY FullOver
<1>2. PICK f : f = Blocks(M, n)
  OBVIOUS
<1>3. f \in Seq(Seq(Byte)) /\ Len(f) = Full(n) /\ f = [k \in 1 .. Full(n) |-> Block(M, k)]
  BY <1>2, BlocksFacts DEF Blocks
<1>4. PICK b : b = [i \in 1 .. B |-> M[Full(n) * B + i]]
  OBVIOUS
<1>5. b = Block(M, Full(n) + 1)
  <2>1. (Full(n) + 1) - 1 = Full(n)
    BY <1>1
  <2> QED
    BY <1>4, <2>1 DEF Block
<1>6. b \in Seq(Byte)
  <2>1. Full(n) + 1 \in 1 .. Full(m)
    BY <1>1
  <2>2. Blocks(M, m) \in Seq(Seq(Byte)) /\ Len(Blocks(M, m)) = Full(m)
    BY BlocksFacts
  <2>3. Blocks(M, m)[Full(n) + 1] \in Seq(Byte)
    BY <2>1, <2>2
  <2>4. Blocks(M, m)[Full(n) + 1] = Block(M, Full(n) + 1)
    BY <2>1 DEF Blocks
  <2> QED
    BY <1>5, <2>3, <2>4
<1>7. Append(f, b) = Appended(f, b)
  BY <1>3, <1>6, Appends
<1>8. ASSUME NEW k \in 1 .. (Full(n) + 1)
      PROVE  (IF k <= Full(n) THEN f[k] ELSE b) = Block(M, k)
  <2>1. CASE k <= Full(n)
    <3>1. k \in 1 .. Full(n)
      BY <1>1, <2>1
    <3> QED
      BY <1>3, <2>1, <3>1
  <2>2. CASE ~(k <= Full(n))
    <3>1. k = Full(n) + 1
      BY <1>1, <2>2
    <3> QED
      BY <1>5, <2>2, <3>1
  <2> QED
    BY <2>1, <2>2
<1>9. Append(f, b) = [k \in 1 .. (Full(n) + 1) |-> IF k <= Full(n) THEN f[k] ELSE b]
  BY <1>3, <1>7, Zenon DEF Appended
<1> QED
  BY <1>2, <1>4, <1>8, <1>9 DEF Blocks

\* A turn of the loop: the context has seen up to the next stop.
LEMMA ShaTurn ==
  ASSUME NEW M \in Seq(Byte), NEW n \in 0 .. Len(M), NEW bits
  PROVE  LET m == n + Turn(n, Len(M))
         IN  sha_turn([data |-> From(M, n), ctx |-> ShaAt(M, n, bits)])
               = [data |-> From(M, m), ctx |-> ShaAt(M, m, bits)]
<1> DEFINE c == [data |-> From(M, n), ctx |-> ShaAt(M, n, bits)]
<1>1. PICK L : L = Len(M)
  OBVIOUS
<1>2. PICK t : t = Turn(n, L)
  OBVIOUS
<1>3. L \in Nat /\ n \in 0 .. L /\ TurnIs(n, L, t)
  BY <1>1, <1>2, TurnFacts
<1>4. Full(n) \in Nat /\ Over(n) \in Nat /\ Over(n) < B /\ B \in Nat
  BY <1>3, FullOver, BlockType
<1>  USE DEF TurnIs
<1>8. n + t \in 0 .. Len(M) /\ t \in 0 .. (Len(M) - n)
  BY <1>1, <1>3
<1>5. /\ From(M, n) \in Seq(Byte) /\ Len(From(M, n)) = L - n
      /\ Rest(M, n) \in Seq(Byte) /\ Len(Rest(M, n)) = Over(n)
  BY <1>1, BlocksFacts
<1>6. CASE n = L
  <2>1. t = 0 /\ n + t = n
    BY <1>3, <1>6
  <2>2. c.data = <<>>
    BY <1>3, <1>5, <1>6
  <2>3. sha_turn(c) = c
    BY <2>2 DEF sha_turn
  <2> QED
    BY <1>1, <1>2, <2>1, <2>3
<1>7. CASE n # L
  <2>1. c.data # <<>>
    <3>1. Len(c.data) # 0
      BY <1>3, <1>5, <1>7
    <3> QED
      BY <3>1
  <2>2. Smaller(Len(c.data), BLOCK - Len(c.ctx.buffer)) = t
    BY <1>2, <1>5 DEF Turn, B, ShaAt
  <2>3. PICK buf : buf = c.ctx.buffer \o SubSeq(c.data, 1, t)
    OBVIOUS
  <2>4. buf = [i \in 1 .. (Over(n) + t) |-> M[Full(n) * B + i]]
    BY <1>8, <2>3, Gathered DEF ShaAt
  <2>5. Len(buf) = Over(n) + t
    BY <1>3, <1>4, <2>4
  <2>6. SubSeq(c.data, t + 1, Len(c.data)) = From(M, n + t)
    BY <1>8, Gathered
  <2>7. sha_turn(c) =
          [data |-> From(M, n + t),
           ctx |-> [bit_count |-> bits,
                    state |-> IF Len(buf) = BLOCK THEN Append(Blocks(M, n), buf) ELSE Blocks(M, n),
                    buffer |-> IF Len(buf) = BLOCK THEN <<>> ELSE buf]]
    <3>1. c.ctx.bit_count = bits /\ c.ctx.state = Blocks(M, n)
      BY DEF ShaAt
    <3> HIDE DEF c
    <3> QED
      BY <2>1, <2>2, <2>3, <2>6, <3>1 DEF sha_turn, sha256_transform
  <2>8. CASE Over(n) + t = B
    <3>1. Append(Blocks(M, n), buf) = Blocks(M, n + t)
      BY <1>3, <1>8, <2>4, <2>8, OneMoreBlock
    <3>2. Rest(M, n + t) = <<>>
      BY <1>3, <2>8 DEF Rest
    <3>3. Len(buf) = BLOCK
      BY <2>5, <2>8 DEF B
    <3> QED
      BY <1>1, <1>2, <2>7, <3>1, <3>2, <3>3 DEF ShaAt
  <2>9. CASE Over(n) + t # B
    <3>1. Over(n) + t < B /\ Full(n + t) = Full(n) /\ Over(n + t) = Over(n) + t
      BY <1>3, <1>4, <2>9
    <3>2. Blocks(M, n + t) = Blocks(M, n) /\ Rest(M, n + t) = buf
      BY <2>4, <3>1 DEF Blocks, Rest
    <3>3. Len(buf) # BLOCK
      BY <2>5, <2>9 DEF B
    <3> QED
      BY <1>1, <1>2, <2>7, <3>2, <3>3 DEF ShaAt
  <2> QED
    BY <2>8, <2>9
<1> QED
  BY <1>6, <1>7

\* The turns of a loop, with the context and the data left.
ShaNow(M, n, bits) == [data |-> From(M, n), ctx |-> ShaAt(M, n, bits)]

ShaTurns(w, context, p) ==
  w = [j \in 0 .. Len(p) |->
         IF j = 0 THEN [data |-> p, ctx |-> context] ELSE sha_turn(w[j - 1])]

\* A function that satisfies the loop's definition exists, so that the loop's
\* own satisfies it.
LEMMA ShaLoop ==
  ASSUME NEW context, NEW p, NEW v, ShaTurns(v, context, p)
  PROVE  \E w : ShaTurns(w, context, p) /\ sha_gather(context, p) = w[Len(p)].ctx
<1>1. \E w : ShaTurns(w, context, p)
  OBVIOUS
<1> DEFINE w == CHOOSE w : w = [j \in 0 .. Len(p) |->
                  IF j = 0 THEN [data |-> p, ctx |-> context] ELSE sha_turn(w[j - 1])]
<1>2. ShaTurns(w, context, p)
  BY <1>1 DEF ShaTurns
<1>3. sha_gather(context, p) = w[Len(p)].ctx
  BY DEF sha_gather
<1> HIDE DEF w
<1> QED
  BY <1>2, <1>3

\* However often the loop turns, the context has seen what it says.
LEMMA ShaGather ==
  ASSUME NEW M \in Seq(Byte), NEW n \in 0 .. Len(M), NEW bits
  PROVE  sha_gather(ShaAt(M, n, bits), From(M, n)) = ShaAt(M, Len(M), bits)
<1>1. PICK L, T, p, c : L = Len(M) /\ T = L - n /\ p = From(M, n) /\ c = ShaAt(M, n, bits)
  OBVIOUS
<1>2. L \in Nat /\ n \in 0 .. L /\ T \in Nat /\ Len(p) = T /\ Stop(n, L, T) = L
  <2>1. L \in Nat /\ n \in 0 .. L
    BY <1>1
  <2>2. L - n \in Nat /\ Stop(n, L, L - n) = L
    BY <2>1, LastStop
  <2>3. Len(From(M, n)) = Len(M) - n
    BY BlocksFacts
  <2> QED
    BY <1>1, <2>1, <2>2, <2>3
<1> DEFINE v == [j \in 0 .. T |-> ShaNow(M, Stop(n, L, j), bits)]
<1>3. v[0] = [data |-> p, ctx |-> c] /\ 0 \in 0 .. T
  <2>1. Stop(n, L, 0) = n
    BY DEF Stop
  <2> QED
    BY <1>1, <1>2, <2>1 DEF ShaNow
<1>4. ASSUME NEW j \in 0 .. T, j # 0
      PROVE  j - 1 \in 0 .. T /\ v[j] = sha_turn(v[j - 1])
  <2>1. j - 1 \in Nat /\ j - 1 \in 0 .. T /\ (j - 1) + 1 = j
    BY <1>2, <1>4
  <2>2. PICK s : s = Stop(n, L, j - 1)
    OBVIOUS
  <2>3. s \in 0 .. L /\ Stop(n, L, (j - 1) + 1) = s + Turn(s, L)
    BY <1>2, <2>1, <2>2, StopFacts
  <2>4. Stop(n, L, j) = s + Turn(s, L)
    BY <2>1, <2>3
  <2>5. sha_turn(ShaNow(M, s, bits)) = ShaNow(M, s + Turn(s, L), bits)
    BY <1>1, <2>3, ShaTurn DEF ShaNow
  <2> QED
    BY <2>1, <2>2, <2>4, <2>5
<1>5. v[T].ctx = ShaAt(M, L, bits) /\ T \in 0 .. T
  BY <1>2 DEF ShaNow
<1>6. v = [j \in 0 .. T |-> v[j]]
  OBVIOUS
<1> HIDE DEF v
<1>7. ShaTurns(v, c, p)
  <2>1. \A j \in 0 .. T : v[j] = IF j = 0 THEN [data |-> p, ctx |-> c] ELSE sha_turn(v[j - 1])
    BY <1>3, <1>4
  <2>2. v = [j \in 0 .. T |-> IF j = 0 THEN [data |-> p, ctx |-> c] ELSE sha_turn(v[j - 1])]
    BY <1>6, <2>1
  <2> QED
    BY <1>2, <2>2 DEF ShaTurns
<1>8. PICK w : ShaTurns(w, c, p) /\ sha_gather(c, p) = w[Len(p)].ctx
  BY <1>7, ShaLoop
<1>9. \A j \in 0 .. T : w[j] = IF j = 0 THEN [data |-> p, ctx |-> c] ELSE sha_turn(w[j - 1])
  BY <1>2, <1>8 DEF ShaTurns
<1>10. \A j \in 0 .. T : w[j] = v[j]
  <2> DEFINE X == {j \in 0 .. T : w[j] # v[j]}
  <2> SUFFICES ASSUME X # {} PROVE FALSE
    OBVIOUS
  <2>1. X \subseteq Nat
    OBVIOUS
  <2>2. PICK j \in X : \A i \in X : ~(<<i, j>> \in OpToRel(<, Nat))
    BY <2>1, NatLessThanWellFounded, WFMin
  <2>3. j \in 0 .. T /\ w[j] # v[j]
    OBVIOUS
  <2>4. j # 0
    BY <1>3, <1>9, <2>3
  <2>5. j - 1 \in 0 .. T /\ j - 1 < j /\ j - 1 \in Nat /\ j \in Nat
    BY <1>2, <2>3, <2>4
  <2>6. <<j - 1, j>> \in OpToRel(<, Nat)
    BY <2>5 DEF OpToRel
  <2>7. w[j - 1] = v[j - 1]
    BY <2>2, <2>5, <2>6
  <2>8. w[j] = sha_turn(w[j - 1]) /\ v[j] = sha_turn(v[j - 1])
    BY <1>4, <1>9, <2>3, <2>4
  <2> QED
    BY <2>3, <2>7, <2>8
<1> QED
  BY <1>1, <1>2, <1>5, <1>8, <1>10

\* An update brings the context from the first n bytes of M to all of them.
LEMMA ShaUpdate ==
  ASSUME NEW M \in Seq(Byte), NEW n \in 0 .. Len(M), NEW bits
  PROVE  ember_crypto_sha256_update(ShaAt(M, n, bits), From(M, n))
           = ShaAt(M, Len(M), (bits + 8 * (Len(M) - n)) % (WORD * WORD))
<1>1. PICK new : new = (bits + 8 * (Len(M) - n)) % (WORD * WORD)
  OBVIOUS
<1>2. Len(From(M, n)) = Len(M) - n
  BY BlocksFacts
<1>3. [ShaAt(M, n, bits) EXCEPT !.bit_count = new] = ShaAt(M, n, new)
  BY DEF ShaAt
<1>4. ember_crypto_sha256_update(ShaAt(M, n, bits), From(M, n))
        = sha_gather([ShaAt(M, n, bits) EXCEPT !.bit_count = new], From(M, n))
  <2>1. ShaAt(M, n, bits).bit_count = bits
    BY DEF ShaAt
  <2> QED
    BY <1>1, <1>2, <2>1 DEF ember_crypto_sha256_update
<1> QED
  BY <1>1, <1>3, <1>4, ShaGather

-----------------------------------------------------------------------------
(* MD5: update.                                                            *)

\* The buffer keeps the bytes of the block before behind those of this one.
Kept(M, n) ==
  [i \in 1 .. B |-> IF i <= Over(n) THEN M[Full(n) * B + i]
                    ELSE IF Full(n) = 0 THEN Zero ELSE M[(Full(n) - 1) * B + i]]

Md5At(M, n, count) == [count |-> count, state |-> Blocks(M, n), buffer |-> Kept(M, n)]

Md5Now(M, n, count) == [data |-> From(M, n), idx |-> Over(n), ctx |-> Md5At(M, n, count)]

\* A turn of the loop: the context has seen up to the next stop.
LEMMA Md5Turn ==
  ASSUME NEW M \in Seq(Byte), NEW n \in 0 .. Len(M), NEW count
  PROVE  md5_turn(Md5Now(M, n, count)) = Md5Now(M, n + Turn(n, Len(M)), count)
<1>1. PICK L, t, c : L = Len(M) /\ t = Turn(n, L) /\ c = Md5Now(M, n, count)
  OBVIOUS
<1>2. L \in Nat /\ n \in 0 .. L /\ TurnIs(n, L, t)
  BY <1>1, TurnFacts
<1>3. Full(n) \in Nat /\ Over(n) \in Nat /\ Over(n) < B /\ B \in Nat /\ n = Full(n) * B + Over(n)
  BY <1>2, FullOver, BlockType
<1> USE DEF TurnIs
<1>4. n + t \in 0 .. Len(M) /\ t \in 0 .. (Len(M) - n)
  BY <1>1, <1>2
<1>5. /\ c.data = From(M, n) /\ c.idx = Over(n) /\ c.ctx.count = count
      /\ c.ctx.state = Blocks(M, n) /\ c.ctx.buffer = Kept(M, n)
  BY <1>1 DEF Md5Now, Md5At
<1>6. /\ From(M, n) \in Seq(Byte) /\ Len(From(M, n)) = L - n
      /\ \A i \in 1 .. (L - n) : From(M, n)[i] = M[n + i]
  BY <1>1, BlocksFacts
<1>7. CASE n = L
  <2>1. t = 0 /\ n + t = n
    BY <1>2, <1>7
  <2>2. c.data = <<>>
    BY <1>2, <1>5, <1>6, <1>7
  <2>3. md5_turn(c) = c
    BY <2>2 DEF md5_turn
  <2> QED
    BY <1>1, <2>1, <2>3
<1>8. CASE n # L
  <2>1. c.data # <<>>
    <3>1. Len(c.data) # 0
      BY <1>2, <1>5, <1>6, <1>8
    <3> QED
      BY <3>1
  <2>2. Smaller(BLOCK - c.idx, Len(c.data)) = t
    <3>1. BLOCK - c.idx = B - Over(n) /\ Len(c.data) = L - n
      BY <1>5, <1>6 DEF B
    <3>2. t = Smaller(L - n, B - Over(n))
      BY <1>1 DEF Turn
    <3>3. L - n \in Nat /\ B - Over(n) \in Nat
      BY <1>2, <1>3
    <3>4. \A x, y \in Nat : Smaller(x, y) = Smaller(y, x)
      BY DEF Smaller
    <3> QED
      BY <3>1, <3>2, <3>3, <3>4
  <2>3. PICK buf : buf = [i \in 1 .. BLOCK |-> IF c.idx < i /\ i <= c.idx + t
                                               THEN c.data[i - c.idx] ELSE c.ctx.buffer[i]]
    OBVIOUS
  <2>4. buf = [i \in 1 .. B |-> IF i <= Over(n) + t THEN M[Full(n) * B + i] ELSE Kept(M, n)[i]]
    <3>1. PICK x : x = Full(n) * B
      OBVIOUS
    <3>2. x \in Nat /\ n = x + Over(n)
      BY <1>3, <3>1
    <3>3. ASSUME NEW i \in 1 .. B
          PROVE  (IF Over(n) < i /\ i <= Over(n) + t THEN From(M, n)[i - Over(n)] ELSE Kept(M, n)[i])
                   = IF i <= Over(n) + t THEN M[x + i] ELSE Kept(M, n)[i]
      <4>1. CASE i <= Over(n)
        <5>1. Kept(M, n)[i] = M[x + i]
          BY <3>1, <4>1 DEF Kept
        <5>2. ~(Over(n) < i) /\ i <= Over(n) + t
          BY <1>2, <1>3, <4>1
        <5> QED
          BY <5>1, <5>2
      <4>2. CASE Over(n) < i /\ i <= Over(n) + t
        <5>1. i - Over(n) \in 1 .. (L - n) /\ n + (i - Over(n)) = x + i
          BY <1>2, <1>3, <3>2, <4>2, SMTT(30)
        <5>2. From(M, n)[i - Over(n)] = M[x + i]
          BY <1>6, <5>1
        <5> QED
          BY <4>2, <5>2
      <4>3. CASE ~(i <= Over(n) + t)
        BY <4>3
      <4> QED
        BY <1>3, <4>1, <4>2, <4>3
    <3> QED
      BY <1>5, <2>3, <3>1, <3>3 DEF B
  <2>5. md5_turn(c) =
          [data |-> SubSeq(c.data, t + 1, Len(c.data)),
           idx |-> IF c.idx + t = BLOCK THEN 0 ELSE c.idx + t,
           ctx |-> [count |-> c.ctx.count,
                    state |-> IF c.idx + t = BLOCK THEN Append(c.ctx.state, buf) ELSE c.ctx.state,
                    buffer |-> buf]]
    BY <2>1, <2>2, <2>3 DEF md5_turn, md5_transform
  <2>6. md5_turn(c) =
          [data |-> From(M, n + t),
           idx |-> IF Over(n) + t = B THEN 0 ELSE Over(n) + t,
           ctx |-> [count |-> count,
                    state |-> IF Over(n) + t = B THEN Append(Blocks(M, n), buf) ELSE Blocks(M, n),
                    buffer |-> buf]]
    <3>1. SubSeq(From(M, n), t + 1, Len(From(M, n))) = From(M, n + t)
      BY <1>4, Gathered
    <3> QED
      BY <1>5, <2>5, <3>1 DEF B
  <2>7. CASE Over(n) + t = B
    <3>1. Full(n + t) = Full(n) + 1 /\ Over(n + t) = 0
      BY <1>2, <2>7
    <3>2. buf = [i \in 1 .. B |-> M[Full(n) * B + i]]
      BY <2>4, <2>7
    <3>3. Append(Blocks(M, n), buf) = Blocks(M, n + t)
      BY <1>4, <3>1, <3>2, OneMoreBlock
    <3>4. Kept(M, n + t) = buf
      <4>1. Full(n + t) - 1 = Full(n) /\ Full(n + t) # 0 /\ \A i \in 1 .. B : ~(i <= Over(n + t))
        BY <1>3, <3>1
      <4> QED
        BY <3>2, <4>1 DEF Kept
    <3> QED
      BY <1>1, <2>6, <2>7, <3>1, <3>3, <3>4 DEF Md5Now, Md5At
  <2>8. CASE Over(n) + t # B
    <3>1. Over(n) + t < B /\ Full(n + t) = Full(n) /\ Over(n + t) = Over(n) + t
      BY <1>2, <1>3, <2>8
    <3>2. Blocks(M, n + t) = Blocks(M, n)
      BY <3>1 DEF Blocks
    <3>3. Kept(M, n + t) = buf
      <4>1. ASSUME NEW i \in 1 .. B, ~(i <= Over(n) + t)
            PROVE  ~(i <= Over(n))
        BY <1>2, <1>3, <4>1
      <4>2. Kept(M, n + t) = [i \in 1 .. B |-> IF i <= Over(n) + t THEN M[Full(n) * B + i]
                                             ELSE IF Full(n) = 0 THEN Zero ELSE M[(Full(n) - 1) * B + i]]
        BY <3>1 DEF Kept
      <4>3. \A i \in 1 .. B : ~(i <= Over(n) + t) =>
              Kept(M, n)[i] = IF Full(n) = 0 THEN Zero ELSE M[(Full(n) - 1) * B + i]
        BY <4>1 DEF Kept
      <4> QED
        BY <2>4, <4>2, <4>3
    <3> QED
      BY <1>1, <2>6, <2>8, <3>1, <3>2, <3>3 DEF Md5Now, Md5At
  <2> QED
    BY <2>7, <2>8
<1> QED
  BY <1>7, <1>8

Md5Turns(w, context, first, p) ==
  w = [j \in 0 .. Len(p) |->
         IF j = 0 THEN [data |-> p, idx |-> first, ctx |-> context] ELSE md5_turn(w[j - 1])]

\* As for SHA-256, the loop's function satisfies its definition.
LEMMA Md5Loop ==
  ASSUME NEW context, NEW first, NEW p, NEW v, Md5Turns(v, context, first, p)
  PROVE  \E w : Md5Turns(w, context, first, p) /\ md5_gather(context, first, p) = w[Len(p)].ctx
<1>1. \E w : Md5Turns(w, context, first, p)
  OBVIOUS
<1> DEFINE w == CHOOSE w : w = [j \in 0 .. Len(p) |->
                  IF j = 0 THEN [data |-> p, idx |-> first, ctx |-> context] ELSE md5_turn(w[j - 1])]
<1>2. Md5Turns(w, context, first, p)
  BY <1>1 DEF Md5Turns
<1>3. md5_gather(context, first, p) = w[Len(p)].ctx
  BY DEF md5_gather
<1> HIDE DEF w
<1> QED
  BY <1>2, <1>3

\* However often the loop turns, the context has seen what it says.
LEMMA Md5Gather ==
  ASSUME NEW M \in Seq(Byte), NEW n \in 0 .. Len(M), NEW count
  PROVE  md5_gather(Md5At(M, n, count), Over(n), From(M, n)) = Md5At(M, Len(M), count)
<1>1. PICK L, T, p, c, o :
        L = Len(M) /\ T = L - n /\ p = From(M, n) /\ c = Md5At(M, n, count) /\ o = Over(n)
  OBVIOUS
<1>2. L \in Nat /\ n \in 0 .. L /\ T \in Nat /\ Len(p) = T /\ Stop(n, L, T) = L
  <2>1. L \in Nat /\ n \in 0 .. L
    BY <1>1
  <2>2. L - n \in Nat /\ Stop(n, L, L - n) = L
    BY <2>1, LastStop
  <2>3. Len(From(M, n)) = Len(M) - n
    BY BlocksFacts
  <2> QED
    BY <1>1, <2>1, <2>2, <2>3
<1> DEFINE v == [j \in 0 .. T |-> Md5Now(M, Stop(n, L, j), count)]
<1>3. v[0] = [data |-> p, idx |-> o, ctx |-> c] /\ 0 \in 0 .. T
  <2>1. Stop(n, L, 0) = n
    BY DEF Stop
  <2> QED
    BY <1>1, <1>2, <2>1 DEF Md5Now
<1>4. ASSUME NEW j \in 0 .. T, j # 0
      PROVE  j - 1 \in 0 .. T /\ v[j] = md5_turn(v[j - 1])
  <2>1. j - 1 \in Nat /\ j - 1 \in 0 .. T /\ (j - 1) + 1 = j
    BY <1>2, <1>4
  <2>2. PICK s : s = Stop(n, L, j - 1)
    OBVIOUS
  <2>3. s \in 0 .. L /\ Stop(n, L, (j - 1) + 1) = s + Turn(s, L)
    BY <1>2, <2>1, <2>2, StopFacts
  <2>4. Stop(n, L, j) = s + Turn(s, L)
    BY <2>1, <2>3
  <2>5. md5_turn(Md5Now(M, s, count)) = Md5Now(M, s + Turn(s, L), count)
    BY <1>1, <2>3, Md5Turn
  <2> QED
    BY <2>1, <2>2, <2>4, <2>5
<1>5. v[T].ctx = Md5At(M, L, count) /\ T \in 0 .. T
  BY <1>2 DEF Md5Now
<1>6. v = [j \in 0 .. T |-> v[j]]
  OBVIOUS
<1> HIDE DEF v
<1>7. Md5Turns(v, c, o, p)
  <2>1. \A j \in 0 .. T :
          v[j] = IF j = 0 THEN [data |-> p, idx |-> o, ctx |-> c] ELSE md5_turn(v[j - 1])
    BY <1>3, <1>4
  <2>2. v = [j \in 0 .. T |-> IF j = 0 THEN [data |-> p, idx |-> o, ctx |-> c] ELSE md5_turn(v[j - 1])]
    BY <1>6, <2>1
  <2> QED
    BY <1>2, <2>2 DEF Md5Turns
<1>8. PICK w : Md5Turns(w, c, o, p) /\ md5_gather(c, o, p) = w[Len(p)].ctx
  BY <1>7, Md5Loop
<1>9. \A j \in 0 .. T : w[j] = IF j = 0 THEN [data |-> p, idx |-> o, ctx |-> c] ELSE md5_turn(w[j - 1])
  BY <1>2, <1>8 DEF Md5Turns
<1>10. \A j \in 0 .. T : w[j] = v[j]
  <2> DEFINE X == {j \in 0 .. T : w[j] # v[j]}
  <2> SUFFICES ASSUME X # {} PROVE FALSE
    OBVIOUS
  <2>1. X \subseteq Nat
    OBVIOUS
  <2>2. PICK j \in X : \A i \in X : ~(<<i, j>> \in OpToRel(<, Nat))
    BY <2>1, NatLessThanWellFounded, WFMin
  <2>3. j \in 0 .. T /\ w[j] # v[j]
    OBVIOUS
  <2>4. j # 0
    BY <1>3, <1>9, <2>3
  <2>5. j - 1 \in 0 .. T /\ j - 1 < j /\ j - 1 \in Nat /\ j \in Nat
    BY <1>2, <2>3, <2>4
  <2>6. <<j - 1, j>> \in OpToRel(<, Nat)
    BY <2>5 DEF OpToRel
  <2>7. w[j - 1] = v[j - 1]
    BY <2>2, <2>5, <2>6
  <2>8. w[j] = md5_turn(w[j - 1]) /\ v[j] = md5_turn(v[j - 1])
    BY <1>4, <1>9, <2>3, <2>4
  <2> QED
    BY <2>3, <2>7, <2>8
<1> QED
  BY <1>1, <1>2, <1>5, <1>8, <1>10

\* The words of a length.
W == WORD

\* A word has values.
LEMMA WordType == W \in Nat /\ W > 0 /\ W * W \in Nat /\ W * W > 0
<1>1. W \in Nat /\ W > 0
  BY DigestAssumption DEF W
<1>2. \A x \in Nat : x > 0 => x * x \in Nat /\ x * x > 0
  OBVIOUS
<1> QED
  BY <1>1, <1>2

\* A remainder taken early changes no later one.
LEMMA RemAdd ==
  ASSUME NEW b \in Nat, b > 0, NEW x \in Nat, NEW y \in Nat
  PROVE  Rem(Rem(x, b) + y, b) = Rem(x + y, b)
<1>1. PICK q, r : q = Quot(x, b) /\ r = Rem(x, b)
  OBVIOUS
<1>2. q \in Nat /\ r \in 0 .. (b - 1) /\ x = q * b + r
  BY <1>1, DivMod
<1>3. r + y \in Nat
  BY <1>2
<1>4. PICK p, s : p = Quot(r + y, b) /\ s = Rem(r + y, b)
  OBVIOUS
<1>5. p \in Nat /\ s \in 0 .. (b - 1) /\ r + y = p * b + s
  BY <1>3, <1>4, DivMod
<1>6. q + p \in Nat /\ x + y = (q + p) * b + s
  BY <1>2, <1>5
<1>7. Rem(x + y, b) = s
  BY <1>5, <1>6, DivUnique
<1> QED
  BY <1>1, <1>4, <1>7

\* The two words carry as one number.
LEMMA Md5Count ==
  ASSUME NEW x \in Nat, NEW len \in Nat
  PROVE  md5_count(<<Lo(x), Hi(x)>>, len) = <<Lo(x + 8 * len), Hi(x + 8 * len)>>
<1>1. PICK y : y = 8 * len
  OBVIOUS
<1>2. y \in Nat /\ W \in Nat /\ W > 0
  BY <1>1, WordType
<1>3. PICK p, r, q, s : p = Quot(x, W) /\ r = Rem(x, W) /\ q = Quot(y, W) /\ s = Rem(y, W)
  OBVIOUS
<1>4. /\ p \in Nat /\ r \in 0 .. (W - 1) /\ x = p * W + r
      /\ q \in Nat /\ s \in 0 .. (W - 1) /\ y = q * W + s
  BY <1>2, <1>3, DivMod
<1>5. PICK lo, carry : lo = Rem(r + s, W) /\ carry = IF lo < s THEN 1 ELSE 0
  OBVIOUS
<1>6. Rem(x + y, W) = lo /\ Quot(x + y, W) = p + q + carry /\ carry \in Nat
  <2>1. CASE r + s < W
    <3>1. r + s \in 0 .. (W - 1) /\ r + s = 0 * W + (r + s) /\ 0 \in Nat
      BY <1>2, <1>4, <2>1
    <3>2. lo = r + s
      BY <1>2, <1>5, <3>1, DivUnique
    <3>3. carry = 0
      BY <1>4, <1>5, <3>2
    <3>4. p + q \in Nat /\ x + y = (p + q) * W + (r + s)
      BY <1>2, <1>4
    <3>5. Quot(x + y, W) = p + q /\ Rem(x + y, W) = r + s
      BY <1>2, <3>1, <3>4, DivUnique
    <3> QED
      BY <1>4, <3>2, <3>3, <3>5
  <2>2. CASE ~(r + s < W)
    <3>1. r + s - W \in 0 .. (W - 1) /\ r + s = 1 * W + (r + s - W) /\ 1 \in Nat
      BY <1>2, <1>4, <2>2
    <3>2. lo = r + s - W
      BY <1>2, <1>5, <3>1, DivUnique
    <3>3. carry = 1
      BY <1>2, <1>4, <1>5, <3>2
    <3>4. p + q + 1 \in Nat /\ x + y = (p + q + 1) * W + (r + s - W)
      BY <1>2, <1>4
    <3>5. Quot(x + y, W) = p + q + 1 /\ Rem(x + y, W) = r + s - W
      BY <1>2, <3>1, <3>4, DivUnique, ZenonT(30)
    <3> QED
      BY <1>4, <3>2, <3>3, <3>5
  <2> QED
    BY <2>1, <2>2
<1>7. Rem(Rem(p, W) + (carry + q), W) = Rem(p + q + carry, W)
  <2>1. carry + q \in Nat /\ p + (carry + q) = p + q + carry
    BY <1>4, <1>6
  <2>2. Rem(Rem(p, W) + (carry + q), W) = Rem(p + (carry + q), W)
    BY <1>2, <1>4, <2>1, RemAdd
  <2> QED
    BY <2>1, <2>2
<1>8. PICK h : h = Rem(p, W)
  OBVIOUS
<1>9. h + carry + q = h + (carry + q)
  <2>1. h \in 0 .. (W - 1)
    BY <1>2, <1>4, <1>8, DivMod
  <2> QED
    BY <1>2, <1>4, <1>6, <2>1
<1>10. md5_count(<<r, h>>, len) = <<lo, Rem(h + carry + q, W)>>
  <2>1. md5_count(<<r, h>>, len) =
          <<Rem(r + Rem(8 * len, W), W),
            Rem(h + (IF Rem(r + Rem(8 * len, W), W) < Rem(8 * len, W) THEN 1 ELSE 0)
                  + Quot(8 * len, W), W)>>
    BY Zenon DEF md5_count, Rem, Quot, W
  <2> QED
    BY <1>1, <1>3, <1>5, <2>1
<1>11. Lo(x) = r /\ Hi(x) = h /\ Lo(x + y) = lo /\ Hi(x + y) = Rem(p + q + carry, W)
  <2>1. \A z : Lo(z) = Rem(z, W) /\ Hi(z) = Rem(Quot(z, W), W)
    BY DEF Lo, Hi, Rem, Quot, W
  <2> QED
    BY <1>3, <1>6, <1>8, <2>1
<1> QED
  BY <1>1, <1>7, <1>8, <1>9, <1>10, <1>11

Count(n) == <<Lo(8 * n), Hi(8 * n)>>

\* A whole number of blocks fits a word of bits: the count still tells the
\* fill of the buffer after it has carried.
LEMMA Md5Index ==
  ASSUME NEW n \in Nat, NEW state, NEW buffer
  PROVE  md5_idx([count |-> Count(n), state |-> state, buffer |-> buffer]) = Over(n)
<1>1. B \in Nat /\ B > 2 /\ W \in Nat /\ W > 0
  BY BlockType, WordType
<1>2. PICK u \in Nat : W = u * (8 * B)
  <2>1. 8 * B \in Nat /\ 8 * B > 0
    BY <1>1
  <2>2. Rem(W, 8 * B) = 0
    BY DigestAssumption DEF Rem, W, B
  <2>3. PICK m : m = 8 * B
    OBVIOUS
  <2>4. Quot(W, m) \in Nat /\ W = Quot(W, m) * m + 0
    <3>1. Quot(W, m) \in Nat /\ W = Quot(W, m) * m + Rem(W, m)
      BY <1>1, <2>1, <2>3, DivMod
    <3> QED
      BY <2>2, <2>3, <3>1
  <2>5. \A q, z \in Nat : q * z + 0 = q * z
    OBVIOUS
  <2> QED
    BY <2>1, <2>3, <2>4, <2>5
<1>3. PICK q, r : q = Quot(8 * n, W) /\ r = Rem(8 * n, W)
  OBVIOUS
<1>4. q \in Nat /\ r \in 0 .. (W - 1) /\ 8 * n = q * W + r
  BY <1>1, <1>3, DivMod
<1>5. PICK k \in Nat : q * W = 8 * (k * B)
  <2>1. q * u \in Nat /\ q * (u * (8 * B)) = 8 * ((q * u) * B)
    BY <1>1, <1>4
  <2> QED
    BY <1>2, <2>1
<1>6. PICK m \in Nat : r = m * 8 + 0 /\ n = k * B + m
  <2>1. PICK z : z = k * B
    OBVIOUS
  <2>2. z \in Nat
    BY <1>1, <2>1
  <2>3. n - z \in Nat /\ r = (n - z) * 8 + 0 /\ n = z + (n - z)
    BY <1>1, <1>4, <1>5, <2>1, <2>2
  <2> QED
    BY <2>1, <2>3
<1>7. Quot(r, 8) = m
  BY <1>6, DivUnique
<1>8. PICK p, s : p = Full(m) /\ s = Over(m)
  OBVIOUS
<1>9. p \in Nat /\ s \in 0 .. (B - 1) /\ m = p * B + s
  BY <1>8, FullOver
<1>10. k + p \in Nat /\ n = (k + p) * B + s
  BY <1>1, <1>6, <1>9
<1>11. Over(n) = s
  BY <1>9, <1>10, FullOverUnique
<1>12. md5_idx([count |-> Count(n), state |-> state, buffer |-> buffer]) = Rem(Quot(r, 8), B)
  <2>1. Lo(8 * n) = r
    BY <1>3 DEF Lo, Rem, W
  <2>2. [count |-> Count(n), state |-> state, buffer |-> buffer].count[1] = r
    BY <2>1 DEF Count
  <2> QED
    BY <2>2, Zenon DEF md5_idx, Rem, Quot, B
<1> QED
  BY <1>7, <1>8, <1>11, <1>12 DEF Over

\* An update brings the context from the first n bytes of M to all of them.
LEMMA Md5Update ==
  ASSUME NEW M \in Seq(Byte), NEW n \in 0 .. Len(M)
  PROVE  ember_crypto_md5_update(Md5At(M, n, Count(n)), From(M, n))
           = Md5At(M, Len(M), Count(Len(M)))
<1>1. PICK L, new : L = Len(M) /\ new = Count(L)
  OBVIOUS
<1>2. Len(From(M, n)) = L - n
  BY <1>1, BlocksFacts
<1>3. md5_count(Count(n), L - n) = new
  <2>1. 8 * n \in Nat /\ L - n \in Nat /\ 8 * n + 8 * (L - n) = 8 * L
    BY <1>1
  <2>2. md5_count(<<Lo(8 * n), Hi(8 * n)>>, L - n)
          = <<Lo(8 * n + 8 * (L - n)), Hi(8 * n + 8 * (L - n))>>
    BY <2>1, Md5Count
  <2> QED
    BY <1>1, <2>1, <2>2 DEF Count
<1>4. md5_idx(Md5At(M, n, Count(n))) = Over(n)
  <2>1. n \in Nat
    OBVIOUS
  <2> QED
    BY <2>1, Md5Index DEF Md5At
<1>5. [Md5At(M, n, Count(n)) EXCEPT !.count = new] = Md5At(M, n, new)
  BY DEF Md5At
<1>6. ember_crypto_md5_update(Md5At(M, n, Count(n)), From(M, n))
        = md5_gather([Md5At(M, n, Count(n)) EXCEPT !.count = new], Over(n), From(M, n))
  <2>1. Md5At(M, n, Count(n)).count = Count(n)
    BY DEF Md5At
  <2> QED
    BY <1>2, <1>3, <1>4, <2>1 DEF ember_crypto_md5_update
<1> QED
  BY <1>1, <1>5, <1>6, Md5Gather

-----------------------------------------------------------------------------
(* The padded message.                                                     *)

\* A context has seen the bytes before n only.
LEMMA PrefixOnly ==
  ASSUME NEW M \in Seq(Byte), NEW K \in Seq(Byte), NEW n \in 0 .. Len(M), n <= Len(K),
         \A i \in 1 .. n : M[i] = K[i]
  PROVE  Blocks(M, n) = Blocks(K, n) /\ Rest(M, n) = Rest(K, n) /\ Kept(M, n) = Kept(K, n)
<1>1. n \in Nat /\ n \in 0 .. n /\ Full(n) \in Nat /\ Over(n) \in 0 .. (B - 1)
  BY FullOver
<1>2. /\ \A i \in 1 .. Over(n) : Full(n) * B + i \in 1 .. n
      /\ \A k \in 1 .. Full(n) : \A i \in 1 .. B : (k - 1) * B + i \in 1 .. n
  BY <1>1, PlaceInBlock
<1>3. \A i \in 1 .. Over(n) : M[Full(n) * B + i] = K[Full(n) * B + i]
  BY <1>2
<1>4. \A k \in 1 .. Full(n) : \A i \in 1 .. B : M[(k - 1) * B + i] = K[(k - 1) * B + i]
  BY <1>2
<1>5. Rest(M, n) = Rest(K, n)
  BY <1>3 DEF Rest
<1>6. Blocks(M, n) = Blocks(K, n)
  <2>1. \A k \in 1 .. Full(n) : Block(M, k) = Block(K, k)
    BY <1>4 DEF Block
  <2> QED
    BY <2>1 DEF Blocks
<1>7. Kept(M, n) = Kept(K, n)
  <2> DEFINE kept(X, i) == IF i <= Over(n) THEN X[Full(n) * B + i]
                           ELSE IF Full(n) = 0 THEN Zero ELSE X[(Full(n) - 1) * B + i]
  <2>1. ASSUME NEW i \in 1 .. B
        PROVE  kept(M, i) = kept(K, i)
    <3>1. CASE i <= Over(n)
      <4>1. i \in 1 .. Over(n)
        BY <1>1, <3>1
      <4> QED
        BY <1>3, <3>1, <4>1
    <3>2. CASE ~(i <= Over(n)) /\ Full(n) # 0
      <4>1. Full(n) \in 1 .. Full(n)
        BY <1>1, <3>2
      <4> QED
        BY <1>4, <3>2, <4>1
    <3> QED
      BY <3>1, <3>2
  <2>2. Kept(M, n) = [i \in 1 .. B |-> kept(M, i)] /\ Kept(K, n) = [i \in 1 .. B |-> kept(K, i)]
    BY DEF Kept
  <2> HIDE DEF kept
  <2> QED
    BY <2>1, <2>2
<1> QED
  BY <1>5, <1>6, <1>7

\* Zeros, element by element.
LEMMA ZerosType ==
  ASSUME NEW z \in Nat
  PROVE  Zeros(z) \in Seq(Byte) /\ Len(Zeros(z)) = z /\ \A i \in 1 .. z : Zeros(z)[i] = Zero
  BY DEF Zeros, Byte

\* A mark, zeros, and what follows.
Filled(f, z) ==
  [i \in 1 .. (Len(f) + 1 + z) |->
     IF i <= Len(f) THEN f[i] ELSE IF i = Len(f) + 1 THEN Mark ELSE Zero]

\* What final appends to the bytes over.
LEMMA Fills ==
  ASSUME NEW f \in Seq(Byte), NEW z \in Nat
  PROVE  /\ Append(f, Mark) \o Zeros(z) = Filled(f, z)
         /\ Filled(f, z) \in Seq(Byte) /\ Len(Filled(f, z)) = Len(f) + 1 + z
<1>1. Mark \in Byte /\ Zero \in Byte /\ Len(f) \in Nat /\ \A i \in 1 .. Len(f) : f[i] \in Byte
  BY DEF Byte
<1>2. PICK g : g = Append(f, Mark)
  OBVIOUS
<1>3. g \in Seq(Byte) /\ Len(g) = Len(f) + 1
  BY <1>1, <1>2
<1>4. g = [i \in 1 .. (Len(f) + 1) |-> IF i <= Len(f) THEN f[i] ELSE Mark]
  BY <1>1, <1>2, Appends DEF Appended
<1>5. g \o Zeros(z) = Joined(g, Zeros(z))
  BY <1>3, ZerosType, Joins
<1>6. Len(Zeros(z)) = z
  BY ZerosType
<1>7. g \o Zeros(z) = [i \in 1 .. (Len(f) + 1 + z) |->
                         IF i <= Len(f) + 1 THEN g[i] ELSE Zeros(z)[i - (Len(f) + 1)]]
  BY <1>3, <1>5, <1>6, Zenon DEF Joined
<1>8. ASSUME NEW i \in 1 .. (Len(f) + 1 + z)
      PROVE  (IF i <= Len(f) + 1 THEN g[i] ELSE Zeros(z)[i - (Len(f) + 1)])
               = IF i <= Len(f) THEN f[i] ELSE IF i = Len(f) + 1 THEN Mark ELSE Zero
  <2>1. CASE i <= Len(f) + 1
    <3>1. i \in 1 .. (Len(f) + 1) /\ (~(i <= Len(f)) => i = Len(f) + 1)
      BY <1>1, <2>1
    <3>2. g[i] = IF i <= Len(f) THEN f[i] ELSE Mark
      BY <1>4, <3>1
    <3> QED
      BY <2>1, <3>1, <3>2
  <2>2. CASE ~(i <= Len(f) + 1)
    <3>1. i - (Len(f) + 1) \in 1 .. z /\ ~(i <= Len(f)) /\ i # Len(f) + 1
      BY <1>1, <2>2
    <3>2. Zeros(z)[i - (Len(f) + 1)] = Zero
      BY <3>1, ZerosType
    <3> QED
      BY <2>2, <3>1, <3>2
  <2> QED
    BY <2>1, <2>2
<1>9. g \o Zeros(z) = Filled(f, z)
  BY <1>7, <1>8 DEF Filled
<1>10. Filled(f, z) \in Seq(Byte) /\ Len(Filled(f, z)) = Len(f) + 1 + z
  <2>1. g \o Zeros(z) \in Seq(Byte)
    BY <1>3, ZerosType, Joins
  <2>2. Len(g \o Zeros(z)) = Len(g) + Len(Zeros(z))
    BY <1>3, ZerosType, ConcatProperties, SMTT(30)
  <2> QED
    BY <1>3, <1>6, <1>9, <2>1, <2>2
<1> QED
  BY <1>2, <1>9, <1>10

Msg(n) == [i \in 1 .. n |-> i]

\* The message, byte by byte.
LEMMA MsgType ==
  ASSUME NEW n \in Nat
  PROVE  Msg(n) \in Seq(Byte) /\ Len(Msg(n)) = n /\ \A i \in 1 .. n : Msg(n)[i] = i
  BY DEF Msg, Byte

\* The zeros behind the mark of n bytes, in this block or through the next one.
Room(n) == IF Over(n) + 3 <= B THEN B - 3 - Over(n) ELSE 2 * B - 3 - Over(n)

\* The padded message ends with this block or the next, and the standard leaves
\* no choice.
LEMMA RoomFacts ==
  ASSUME NEW n \in Nat
  PROVE  /\ Room(n) \in 0 .. (B - 1)
         /\ Over(n) + 3 <= B => n + Room(n) + 3 = (Full(n) + 1) * B
         /\ ~(Over(n) + 3 <= B) => n + Room(n) + 3 = (Full(n) + 2) * B
         /\ (CHOOSE z \in 0 .. (BLOCK - 1) : (n + 1 + z + LENGTH) % BLOCK = 0) = Room(n)
<1>1. PICK q, r : q = Full(n) /\ r = Over(n)
  OBVIOUS
<1>2. q \in Nat /\ r \in 0 .. (B - 1) /\ n = q * B + r /\ B \in Nat /\ B > 2
  BY <1>1, FullOver, BlockType
<1>3. PICK x : x = q * B
  OBVIOUS
<1>4. x \in Nat /\ n = x + r /\ (q + 1) * B = x + B /\ (q + 2) * B = x + 2 * B
  <2>1. \A a \in Nat : a * B \in Nat /\ (a + 1) * B = a * B + B /\ (a + 2) * B = a * B + 2 * B
    BY <1>2
  <2> QED
    BY <1>2, <1>3, <2>1
<1>5. PICK z : z = Room(n)
  OBVIOUS
<1>6. z = IF r + 3 <= B THEN B - 3 - r ELSE 2 * B - 3 - r
  BY <1>1, <1>5 DEF Room
<1>7. /\ z \in 0 .. (B - 1)
      /\ r + 3 <= B => n + z + 3 = (q + 1) * B
      /\ ~(r + 3 <= B) => n + z + 3 = (q + 2) * B
  BY <1>2, <1>4, <1>6
<1>8. Over(n + 1 + z + 2) = 0
  <2>1. n + 1 + z + 2 = n + z + 3
    BY <1>2, <1>7
  <2>2. 0 \in 0 .. (B - 1) /\ q + 1 \in Nat /\ q + 2 \in Nat
    BY <1>2
  <2>3. n + z + 3 = (q + 1) * B + 0 \/ n + z + 3 = (q + 2) * B + 0
    <3>1. (q + 1) * B = (q + 1) * B + 0 /\ (q + 2) * B = (q + 2) * B + 0
      BY <1>2, <1>4
    <3> QED
      BY <1>7, <3>1
  <2> QED
    BY <2>1, <2>2, <2>3, FullOverUnique
<1>9. ASSUME NEW y \in 0 .. (B - 1), Over(n + 1 + y + 2) = 0
      PROVE  y = z
  <2>1. CASE y < z
    <3>1. PICK d : d = z - y
      OBVIOUS
    <3>2. d \in 1 .. (B - 1)
      BY <1>2, <1>7, <1>9, <2>1, <3>1
    <3>3. n + 1 + y + 2 \in Nat /\ n + 1 + z + 2 \in Nat
      BY <1>2, <1>7, <1>9
    <3>4. PICK a : a = Full(n + 1 + y + 2)
      OBVIOUS
    <3>5. a \in Nat /\ n + 1 + y + 2 = a * B + 0
      BY <1>9, <3>3, <3>4, FullOver
    <3>6. PICK w : w = n + 1 + z + 2
      OBVIOUS
    <3>7. w = a * B + d /\ d \in 0 .. (B - 1)
      BY <1>2, <1>7, <1>9, <3>1, <3>2, <3>5, <3>6
    <3>8. Over(w) = d
      BY <3>5, <3>7, FullOverUnique
    <3> QED
      BY <1>8, <3>2, <3>6, <3>8
  <2>2. CASE z < y
    <3>1. PICK d : d = y - z
      OBVIOUS
    <3>2. d \in 1 .. (B - 1)
      BY <1>2, <1>7, <1>9, <2>2, <3>1
    <3>3. n + 1 + y + 2 \in Nat /\ n + 1 + z + 2 \in Nat
      BY <1>2, <1>7, <1>9
    <3>4. PICK a : a = Full(n + 1 + z + 2)
      OBVIOUS
    <3>5. a \in Nat /\ n + 1 + z + 2 = a * B + 0
      BY <1>8, <3>3, <3>4, FullOver
    <3>6. PICK w : w = n + 1 + y + 2
      OBVIOUS
    <3>7. w = a * B + d /\ d \in 0 .. (B - 1)
      BY <1>2, <1>7, <1>9, <3>1, <3>2, <3>5, <3>6
    <3>8. Over(w) = d
      BY <3>5, <3>7, FullOverUnique
    <3> QED
      BY <1>9, <3>2, <3>6, <3>8
  <2> QED
    BY <1>2, <1>7, <1>9, <2>1, <2>2
<1>10. (CHOOSE y \in 0 .. (B - 1) : Over(n + 1 + y + 2) = 0) = z
  BY <1>7, <1>8, <1>9
<1>11. (CHOOSE y \in 0 .. (BLOCK - 1) : (n + 1 + y + LENGTH) % BLOCK = 0) = z
  BY <1>10, Zenon DEF Over, Rem, B, LENGTH
<1> QED
  BY <1>1, <1>5, <1>7, <1>11

\* The padded message, byte by byte.
PadByte(n, first, second, i) ==
  IF i <= n THEN i ELSE IF i = n + 1 THEN Mark ELSE IF i <= n + 1 + Room(n) THEN Zero
  ELSE IF i = n + Room(n) + 2 THEN first ELSE second

PadLen(n) == n + Room(n) + 3
Pad(n, first, second) == [i \in 1 .. PadLen(n) |-> PadByte(n, first, second, i)]

\* Its type, and its length in blocks.
LEMMA PadType ==
  ASSUME NEW n \in Nat, NEW first \in Nat, NEW second \in Nat
  PROVE  /\ Pad(n, first, second) \in Seq(Byte) /\ Len(Pad(n, first, second)) = PadLen(n)
         /\ PadLen(n) \in Nat /\ n <= PadLen(n)
         /\ PadLen(n) = (Full(n) + IF Over(n) + 3 <= B THEN 1 ELSE 2) * B
<1>1. Room(n) \in Nat /\ PadLen(n) \in Nat /\ n <= PadLen(n)
  <2>1. Room(n) \in 0 .. (B - 1) /\ B \in Nat
    BY RoomFacts, BlockType
  <2> QED
    BY <2>1 DEF PadLen
<1>2. \A i \in 1 .. PadLen(n) : PadByte(n, first, second, i) \in Byte
  BY DEF PadByte, Byte
<1>3. Pad(n, first, second) \in [1 .. PadLen(n) -> Byte]
  BY <1>2 DEF Pad
<1>4. PadLen(n) = (Full(n) + IF Over(n) + 3 <= B THEN 1 ELSE 2) * B
  BY RoomFacts DEF PadLen
<1> QED
  BY <1>1, <1>3, <1>4

\* It is the padding of the standard.
LEMMA PaddedIs ==
  ASSUME NEW n \in Nat, NEW first \in Nat, NEW second \in Nat
  PROVE  Padded(n, <<first, second>>) = Pad(n, first, second)
<1>1. PICK z : z = Room(n)
  OBVIOUS
<1>2. z \in Nat
  <2>1. z \in 0 .. (B - 1) /\ B \in Nat
    BY <1>1, RoomFacts, BlockType
  <2> QED
    BY <2>1
<1>3. Msg(n) \in Seq(Byte) /\ Len(Msg(n)) = n /\ \A i \in 1 .. n : Msg(n)[i] = i
  BY MsgType
<1>4. PICK m : m = Msg(n)
  OBVIOUS
<1>5. PICK f : f = Filled(m, z)
  OBVIOUS
<1>6. f \in Seq(Byte) /\ Len(f) = n + 1 + z /\ f = Append(m, Mark) \o Zeros(z)
  BY <1>2, <1>3, <1>4, <1>5, Fills
<1>7. PICK g : g = <<first, second>>
  OBVIOUS
<1>8. g \in Seq(Byte) /\ Len(g) = 2 /\ g[1] = first /\ g[2] = second
  BY <1>7 DEF Byte
<1>9. m \o <<Mark>> = Append(m, Mark)
  <2>1. Mark \in Byte
    BY DEF Byte
  <2> QED
    BY <1>3, <1>4, <2>1, AppendIsConcat
<1>10. Padded(n, g) = f \o g
  <2>1. Padded(n, g) = m \o <<Mark>> \o Zeros(z) \o g
    BY <1>1, <1>4, RoomFacts, Zenon DEF Padded, Msg
  <2> QED
    BY <1>6, <1>9, <2>1
<1>11. f \o g = [i \in 1 .. (n + 1 + z + 2) |-> IF i <= n + 1 + z THEN f[i] ELSE g[i - (n + 1 + z)]]
  <2>1. f \o g = Joined(f, g)
    BY <1>6, <1>8, Joins
  <2> QED
    BY <1>6, <1>8, <2>1, Zenon DEF Joined
<1>12. ASSUME NEW i \in 1 .. (n + 1 + z + 2)
       PROVE  (IF i <= n + 1 + z THEN f[i] ELSE g[i - (n + 1 + z)]) = PadByte(n, first, second, i)
  <2>1. CASE i <= n + 1 + z
    <3>1. i \in 1 .. (Len(m) + 1 + z)
      BY <1>2, <1>3, <1>4, <2>1
    <3>2. f[i] = IF i <= n THEN m[i] ELSE IF i = n + 1 THEN Mark ELSE Zero
      BY <1>3, <1>4, <1>5, <3>1 DEF Filled
    <3>3. i <= n => m[i] = i
      BY <1>3, <1>4
    <3> QED
      BY <1>1, <2>1, <3>2, <3>3 DEF PadByte
  <2>2. CASE ~(i <= n + 1 + z)
    <3>1. ~(i <= n) /\ i # n + 1 /\ (i = n + z + 2 \/ i = n + z + 3)
      BY <1>2, <2>2
    <3>2. CASE i = n + z + 2
      <4>1. i - (n + 1 + z) = 1
        BY <1>2, <3>2
      <4> QED
        BY <1>1, <1>8, <2>2, <3>1, <3>2, <4>1 DEF PadByte
    <3>3. CASE i = n + z + 3
      <4>1. i - (n + 1 + z) = 2 /\ i # n + z + 2
        BY <1>2, <3>3
      <4> QED
        BY <1>1, <1>8, <2>2, <3>1, <4>1 DEF PadByte
    <3> QED
      BY <3>1, <3>2, <3>3
  <2> QED
    BY <2>1, <2>2
<1>13. PadLen(n) = n + 1 + z + 2
  BY <1>1, <1>2 DEF PadLen
<1> QED
  BY <1>7, <1>10, <1>11, <1>12, <1>13 DEF Pad

\* The count of SHA-256, which wraps, still holds both words of the length.
LEMMA Words ==
  ASSUME NEW x \in Nat
  PROVE  /\ Lo(x) \in Nat /\ Hi(x) \in Nat
         /\ Lo(x % (WORD * WORD)) = Lo(x) /\ Hi(x % (WORD * WORD)) = Hi(x)
<1>1. W \in Nat /\ W > 0 /\ W * W \in Nat /\ W * W > 0
  BY WordType
<1>2. \A z : Lo(z) = Rem(z, W) /\ Hi(z) = Rem(Quot(z, W), W)
  BY DEF Lo, Hi, Rem, Quot, W
<1>3. PICK q, s : q = Quot(x, W * W) /\ s = Rem(x, W * W)
  OBVIOUS
<1>4. q \in Nat /\ s \in 0 .. (W * W - 1) /\ x = q * (W * W) + s
  BY <1>1, <1>3, DivMod
<1>5. s \in Nat
  BY <1>1, <1>4
<1>6. PICK p, t : p = Quot(s, W) /\ t = Rem(s, W)
  OBVIOUS
<1>7. p \in Nat /\ t \in 0 .. (W - 1) /\ s = p * W + t
  BY <1>1, <1>5, <1>6, DivMod
<1>8. PICK a, b : a = Quot(p, W) /\ b = Rem(p, W)
  OBVIOUS
<1>9. a \in Nat /\ b \in 0 .. (W - 1) /\ p = a * W + b
  BY <1>1, <1>7, <1>8, DivMod
<1>10. PICK h : h = q * W + p
  OBVIOUS
<1>11. h \in Nat /\ x = h * W + t
  <2>1. q * W \in Nat /\ (q * W + p) * W = q * (W * W) + p * W
    BY <1>1, <1>4, <1>7
  <2>2. p * W \in Nat /\ q * (W * W) \in Nat
    BY <1>1, <1>4, <1>7
  <2> QED
    BY <1>1, <1>4, <1>7, <1>10, <2>1, <2>2
<1>12. Quot(x, W) = h /\ Rem(x, W) = t
  BY <1>1, <1>7, <1>11, DivUnique
<1>13. q + a \in Nat /\ h = (q + a) * W + b
  BY <1>1, <1>4, <1>9, <1>10
<1>14. Rem(h, W) = b
  BY <1>1, <1>9, <1>13, DivUnique, ZenonT(30)
<1>15. t \in Nat /\ b \in Nat
  BY <1>1, <1>7, <1>9
<1>16. x % (WORD * WORD) = s
  BY <1>3 DEF Rem, W
<1> QED
  BY <1>2, <1>6, <1>8, <1>12, <1>14, <1>15, <1>16

\* A part of a sequence, element by element.
LEMMA Piece ==
  ASSUME NEW S, NEW f \in Seq(S), NEW m \in Nat, NEW t \in Nat, m + t <= Len(f)
  PROVE  SubSeq(f, m + 1, m + t) = [i \in 1 .. t |-> f[m + i]]
  OBVIOUS

\* A sequence cut into blocks.
LEMMA AllBlocks ==
  ASSUME NEW K \in Seq(Byte)
  PROVE  BlocksOf(K) = Blocks(K, Len(K))
<1>1. PICK L : L = Len(K)
  OBVIOUS
<1>2. L \in Nat /\ L \in 0 .. L /\ Full(L) \in Nat /\ B \in Nat
  BY <1>1, FullOver, BlockType
<1>3. ASSUME NEW k \in 1 .. Full(L)
      PROVE  SubSeq(K, (k - 1) * B + 1, k * B) = Block(K, k)
  <2>1. PICK x : x = (k - 1) * B
    OBVIOUS
  <2>2. x \in Nat /\ k * B = x + B
    <3>1. \A y \in Nat : y * B \in Nat /\ (y + 1) * B = y * B + B
      BY <1>2
    <3>2. k - 1 \in Nat /\ (k - 1) + 1 = k
      BY <1>2
    <3> QED
      BY <2>1, <3>1, <3>2
  <2>3. B \in 1 .. B
    BY BlockType
  <2>4. (k - 1) * B + B \in 1 .. L
    BY <1>2, <2>3, PlaceInBlock
  <2>5. x + B <= Len(K)
    BY <1>1, <1>2, <2>1, <2>2, <2>4
  <2>6. SubSeq(K, x + 1, x + B) = [i \in 1 .. B |-> K[x + i]]
    BY <1>2, <2>2, <2>5, Piece
  <2> QED
    BY <2>1, <2>2, <2>6 DEF Block
<1>4. BlocksOf(K) = [k \in 1 .. Full(L) |-> SubSeq(K, (k - 1) * B + 1, k * B)]
  BY <1>1, Zenon DEF BlocksOf, Full, Quot, B
<1> QED
  BY <1>1, <1>3, <1>4 DEF Blocks

-----------------------------------------------------------------------------
(* SHA-256: final.                                                         *)

\* Both branches of final complete the padded message.
LEMMA ShaFinal ==
  ASSUME NEW n \in Nat
  PROVE  ember_crypto_sha256_final(ShaAt(Msg(n), n, (8 * n) % (WORD * WORD)))
           = BlocksOf(Padded(n, <<Hi(8 * n), Lo(8 * n)>>))
<1>1. PICK hi, lo : hi = Hi(8 * n) /\ lo = Lo(8 * n)
  OBVIOUS
<1>2. /\ hi \in Nat /\ lo \in Nat
      /\ Hi((8 * n) % (WORD * WORD)) = hi /\ Lo((8 * n) % (WORD * WORD)) = lo
  BY <1>1, Words
<1>3. PICK M, K, E : M = Msg(n) /\ K = Pad(n, hi, lo) /\ E = PadLen(n)
  OBVIOUS
<1>4. /\ K \in Seq(Byte) /\ Len(K) = E /\ E \in Nat /\ n <= E
      /\ E = (Full(n) + IF Over(n) + 3 <= B THEN 1 ELSE 2) * B
      /\ \A i \in 1 .. E : K[i] = PadByte(n, hi, lo, i)
  BY <1>2, <1>3, PadType, SMTT(30) DEF Pad
<1>5. Padded(n, <<hi, lo>>) = K
  BY <1>2, <1>3, PaddedIs
<1>6. BlocksOf(K) = Blocks(K, E)
  BY <1>4, AllBlocks
<1>7. M \in Seq(Byte) /\ Len(M) = n /\ n \in 0 .. n /\ \A i \in 1 .. n : M[i] = i
  BY <1>3, MsgType
<1>8. PICK x, r : x = Full(n) * B /\ r = Over(n)
  OBVIOUS
<1>9. /\ x \in Nat /\ Full(n) \in Nat /\ r \in 0 .. (B - 1) /\ n = x + r /\ B \in Nat /\ B > 2
      /\ (Full(n) + 1) * B = x + B /\ (Full(n) + 2) * B = x + 2 * B
  <2>1. Full(n) \in Nat /\ B \in Nat
    BY FullOver, BlockType
  <2>2. \A a \in Nat : a * B \in Nat /\ (a + 1) * B = a * B + B /\ (a + 2) * B = a * B + 2 * B
    BY <2>1
  <2> QED
    BY <1>8, <2>1, <2>2, FullOver, BlockType
<1>10. PICK R : R = Rest(M, n)
  OBVIOUS
<1>11. R \in Seq(Byte) /\ Len(R) = r /\ \A i \in 1 .. r : R[i] = x + i
  <2>1. R \in Seq(Byte) /\ Len(R) = r
    BY <1>7, <1>8, <1>10, BlocksFacts
  <2>2. ASSUME NEW i \in 1 .. r PROVE R[i] = x + i
    <3>1. x + i \in 1 .. n
      BY <1>9
    <3>2. R[i] = M[x + i]
      BY <1>8, <1>10 DEF Rest
    <3> QED
      BY <1>7, <3>1, <3>2
  <2> QED
    BY <2>1, <2>2
<1>12. Blocks(M, n) = Blocks(K, n)
  <2>1. \A i \in 1 .. n : M[i] = K[i]
    <3> SUFFICES ASSUME NEW i \in 1 .. n PROVE M[i] = K[i]
      OBVIOUS
    <3>1. i \in 1 .. E
      BY <1>4
    <3> QED
      BY <1>4, <1>7, <3>1 DEF PadByte
  <2> QED
    BY <1>4, <1>7, <2>1, PrefixOnly
<1>13. \A z \in Nat : /\ Append(R, Mark) \o Zeros(z) = Filled(R, z)
                      /\ Filled(R, z) \in Seq(Byte) /\ Len(Filled(R, z)) = r + 1 + z
                      /\ \A i \in 1 .. (r + 1 + z) : Filled(R, z)[i] =
                           IF i <= r THEN R[i] ELSE IF i = r + 1 THEN Mark ELSE Zero
  BY <1>11, Fills DEF Filled
<1>14. Len(Append(R, Mark)) = r + 1
  <2>1. Mark \in Byte
    BY DEF Byte
  <2> QED
    BY <1>11, <2>1
<1>15. PICK g : g = <<hi, lo>>
  OBVIOUS
<1>16. g \in Seq(Byte) /\ Len(g) = 2 /\ g[1] = hi /\ g[2] = lo
  BY <1>2, <1>15 DEF Byte
<1>17. PICK c : c = ShaAt(M, n, (8 * n) % (WORD * WORD))
  OBVIOUS
<1>18. ember_crypto_sha256_final(c) =
         IF r + 1 <= B - 2
         THEN Append(Blocks(M, n), Append(R, Mark) \o Zeros(B - 2 - (r + 1)) \o g)
         ELSE Append(Append(Blocks(M, n), Append(R, Mark) \o Zeros(B - (r + 1))), Zeros(B - 2) \o g)
  <2>1. c.buffer = R /\ c.state = Blocks(M, n) /\ c.bit_count = (8 * n) % (WORD * WORD)
    BY <1>10, <1>17 DEF ShaAt
  <2> QED
    BY <1>2, <1>14, <1>15, <2>1
    DEF ember_crypto_sha256_final, sha256_transform, sha256_fits, B, LENGTH
<1>19. CASE r + 3 <= B
  <2>1. PICK z : z = B - 3 - r
    OBVIOUS
  <2>2. z \in Nat /\ z = B - 2 - (r + 1) /\ z = Room(n) /\ r + 1 <= B - 2 /\ r + 1 + z = B - 2
    <3>1. Room(n) = B - 3 - r
      BY <1>8, <1>19 DEF Room
    <3>2. r \in Nat /\ B \in Nat
      BY <1>9
    <3> QED
      BY <1>19, <2>1, <3>1, <3>2
  <2>3. PICK f : f = Filled(R, z)
    OBVIOUS
  <2>4. /\ f = Append(R, Mark) \o Zeros(z) /\ f \in Seq(Byte) /\ Len(f) = B - 2
        /\ \A i \in 1 .. (B - 2) : f[i] = IF i <= r THEN R[i] ELSE IF i = r + 1 THEN Mark ELSE Zero
    BY <1>13, <2>2, <2>3
  <2>5. f \o g = [i \in 1 .. ((B - 2) + 2) |-> IF i <= B - 2 THEN f[i] ELSE g[i - (B - 2)]]
    <3>1. f \o g = Joined(f, g)
      BY <1>16, <2>4, Joins
    <3> QED
      BY <1>16, <2>4, <3>1, Zenon DEF Joined
  <2>6. E = x + B /\ (B - 2) + 2 = B
    BY <1>4, <1>8, <1>9, <1>19
  <2>7. ASSUME NEW i \in 1 .. B
        PROVE  (IF i <= B - 2 THEN f[i] ELSE g[i - (B - 2)]) = K[x + i]
    <3>1. x + i \in 1 .. E /\ i \in Nat
      BY <1>9, <2>6
    <3>2. K[x + i] = PadByte(n, hi, lo, x + i)
      BY <1>4, <3>1
    <3>3. CASE i <= B - 2
      <4>1. f[i] = IF i <= r THEN x + i ELSE IF i = r + 1 THEN Mark ELSE Zero
        <5>1. i \in 1 .. (B - 2)
          BY <1>9, <3>3
        <5>2. i <= r => i \in 1 .. r
          BY <1>9
        <5> QED
          BY <1>11, <2>4, <5>1, <5>2
      <4>2. /\ x + i <= n <=> i <= r
            /\ x + i = n + 1 <=> i = r + 1
            /\ x + i <= n + 1 + z
        BY <1>9, <2>2, <3>1, <3>3
      <4> QED
        BY <2>2, <3>2, <3>3, <4>1, <4>2 DEF PadByte
    <3>4. CASE ~(i <= B - 2)
      <4>1. /\ i = B - 1 \/ i = B
            /\ ~(x + i <= n) /\ x + i # n + 1 /\ ~(x + i <= n + 1 + z)
            /\ i = B - 1 => x + i = n + z + 2 /\ i - (B - 2) = 1
            /\ i = B => x + i # n + z + 2 /\ i - (B - 2) = 2
        BY <1>9, <2>2, <3>1, <3>4
      <4>2. CASE i = B - 1
        BY <1>16, <2>2, <3>2, <3>4, <4>1, <4>2 DEF PadByte
      <4>3. CASE i = B
        BY <1>16, <2>2, <3>2, <3>4, <4>1, <4>3 DEF PadByte
      <4> QED
        BY <4>1, <4>2, <4>3
    <3> QED
      BY <3>3, <3>4
  <2>8. f \o g = [i \in 1 .. B |-> K[Full(n) * B + i]]
    BY <1>8, <2>5, <2>6, <2>7
  <2>9. Full(E) = Full(n) + 1
    <3>1. E = (Full(n) + 1) * B + 0 /\ Full(n) + 1 \in Nat /\ 0 \in 0 .. (B - 1)
      BY <1>9, <2>6
    <3> QED
      BY <3>1, FullOverUnique
  <2>10. Append(Blocks(K, n), f \o g) = Blocks(K, E)
    <3>1. n \in 0 .. Len(K) /\ E \in 0 .. Len(K)
      BY <1>4
    <3> QED
      BY <1>4, <2>8, <2>9, <3>1, OneMoreBlock
  <2>11. ember_crypto_sha256_final(c) = Append(Blocks(M, n), f \o g)
    BY <1>18, <2>2, <2>4
  <2> QED
    BY <1>1, <1>3, <1>5, <1>6, <1>12, <1>17, <2>10, <2>11
<1>20. CASE ~(r + 3 <= B)
  <2>1. PICK z : z = B - (r + 1)
    OBVIOUS
  <2>2. z \in Nat /\ Room(n) = 2 * B - 3 - r /\ ~(r + 1 <= B - 2) /\ r + 1 + z = B
    <3>1. Room(n) = 2 * B - 3 - r
      BY <1>8, <1>20 DEF Room
    <3>2. r \in 0 .. (B - 1) /\ B \in Nat
      BY <1>9
    <3> QED
      BY <1>20, <2>1, <3>1, <3>2
  <2>3. PICK f : f = Filled(R, z)
    OBVIOUS
  <2>4. /\ f = Append(R, Mark) \o Zeros(z) /\ f \in Seq(Byte) /\ Len(f) = B
        /\ \A i \in 1 .. B : f[i] = IF i <= r THEN R[i] ELSE IF i = r + 1 THEN Mark ELSE Zero
    BY <1>13, <2>2, <2>3
  <2>5. E = x + 2 * B
    BY <1>4, <1>8, <1>9, <1>20
  <2>6. ASSUME NEW i \in 1 .. B
        PROVE  f[i] = K[x + i]
    <3>1. x + i \in 1 .. E /\ i \in Nat
      BY <1>9, <2>5
    <3>2. K[x + i] = PadByte(n, hi, lo, x + i)
      BY <1>4, <3>1
    <3>3. i <= r => i \in 1 .. r
      BY <1>9
    <3>4. /\ x + i <= n <=> i <= r
          /\ x + i = n + 1 <=> i = r + 1
          /\ x + i <= n + 1 + Room(n)
      BY <1>9, <2>2, <3>1
    <3> QED
      BY <1>11, <2>4, <3>2, <3>3, <3>4 DEF PadByte
  <2>7. f = [i \in 1 .. B |-> K[Full(n) * B + i]]
    <3>1. f \in [1 .. B -> Byte]
      BY <2>4, LenProperties
    <3> QED
      BY <1>8, <2>6, <3>1
  <2>8. PICK s : s = x + B
    OBVIOUS
  <2>9. s \in 0 .. Len(K) /\ Full(s) = Full(n) + 1 /\ n \in 0 .. Len(K) /\ E \in 0 .. Len(K)
    <3>1. s = (Full(n) + 1) * B + 0 /\ Full(n) + 1 \in Nat /\ 0 \in 0 .. (B - 1)
      BY <1>9, <2>8
    <3>2. Full(s) = Full(n) + 1
      BY <3>1, FullOverUnique
    <3> QED
      BY <1>4, <1>9, <2>5, <2>8, <3>2
  <2>10. Append(Blocks(K, n), f) = Blocks(K, s)
    BY <1>4, <2>7, <2>9, OneMoreBlock
  <2>11. Full(E) = Full(s) + 1
    <3>1. E = (Full(n) + 2) * B + 0 /\ Full(n) + 2 \in Nat /\ 0 \in 0 .. (B - 1)
      BY <1>9, <2>5
    <3>2. Full(E) = Full(n) + 2
      BY <3>1, FullOverUnique
    <3> QED
      BY <1>9, <2>9, <3>2
  <2>12. Full(s) * B = s
    BY <1>9, <2>8, <2>9
  <2>13. PICK u : u = Zeros(B - 2)
    OBVIOUS
  <2>14. u \in Seq(Byte) /\ Len(u) = B - 2 /\ \A i \in 1 .. (B - 2) : u[i] = Zero
    <3>1. B - 2 \in Nat
      BY <1>9
    <3> QED
      BY <2>13, <3>1, ZerosType
  <2>15. u \o g = [i \in 1 .. ((B - 2) + 2) |-> IF i <= B - 2 THEN u[i] ELSE g[i - (B - 2)]]
    <3>1. u \o g = Joined(u, g)
      BY <1>16, <2>14, Joins
    <3> QED
      BY <1>16, <2>14, <3>1, Zenon DEF Joined
  <2>16. (B - 2) + 2 = B
    BY <1>9
  <2>17. ASSUME NEW i \in 1 .. B
         PROVE  (IF i <= B - 2 THEN u[i] ELSE g[i - (B - 2)]) = K[s + i]
    <3>1. s + i \in 1 .. E /\ i \in Nat
      BY <1>9, <2>5, <2>8
    <3>2. K[s + i] = PadByte(n, hi, lo, s + i)
      BY <1>4, <3>1
    <3>3. PICK y : y = Room(n)
      OBVIOUS
    <3>4. y = 2 * B - 3 - r
      BY <2>2, <3>3
    <3>5. ~(s + i <= n) /\ s + i # n + 1
      BY <1>9, <2>8, <3>1
    <3>6. CASE i <= B - 2
      <4>1. s + i <= n + 1 + y
        BY <1>9, <2>8, <3>1, <3>4, <3>6
      <4>2. u[i] = Zero
        BY <1>9, <2>14, <3>6
      <4> QED
        BY <3>2, <3>3, <3>5, <3>6, <4>1, <4>2 DEF PadByte
    <3>7. CASE ~(i <= B - 2)
      <4>1. /\ i = B - 1 \/ i = B
            /\ ~(s + i <= n + 1 + y)
            /\ i = B - 1 => s + i = n + y + 2 /\ i - (B - 2) = 1
            /\ i = B => s + i # n + y + 2 /\ i - (B - 2) = 2
        BY <1>9, <2>8, <3>1, <3>4, <3>7
      <4>2. CASE i = B - 1
        BY <1>16, <3>2, <3>3, <3>5, <3>7, <4>1, <4>2 DEF PadByte
      <4>3. CASE i = B
        BY <1>16, <3>2, <3>3, <3>5, <3>7, <4>1, <4>3 DEF PadByte
      <4> QED
        BY <4>1, <4>2, <4>3
    <3> QED
      BY <3>6, <3>7
  <2>18. u \o g = [i \in 1 .. B |-> K[Full(s) * B + i]]
    BY <2>12, <2>15, <2>16, <2>17
  <2>19. Append(Blocks(K, s), u \o g) = Blocks(K, E)
    BY <1>4, <2>9, <2>11, <2>18, OneMoreBlock
  <2>20. ember_crypto_sha256_final(c) = Append(Append(Blocks(M, n), f), u \o g)
    BY <1>18, <2>1, <2>2, <2>4, <2>13
  <2> QED
    BY <1>1, <1>3, <1>5, <1>6, <1>12, <1>17, <2>10, <2>19, <2>20
<1> QED
  BY <1>19, <1>20

-----------------------------------------------------------------------------
(* MD5: final, which is two updates.                                       *)

\* The first update completes all but the field, the second one the field; the
\* count that the first one changes is not the one that is written.
LEMMA Md5Final ==
  ASSUME NEW n \in Nat
  PROVE  ember_crypto_md5_final(Md5At(Msg(n), n, Count(n)))
           = BlocksOf(Padded(n, <<Lo(8 * n), Hi(8 * n)>>))
<1>1. PICK hi, lo : hi = Hi(8 * n) /\ lo = Lo(8 * n)
  OBVIOUS
<1>2. hi \in Nat /\ lo \in Nat
  BY <1>1, Words
<1>3. PICK M, K, E, z : M = Msg(n) /\ K = Pad(n, lo, hi) /\ E = PadLen(n) /\ z = Room(n)
  OBVIOUS
<1>4. /\ K \in Seq(Byte) /\ Len(K) = E /\ E \in Nat
      /\ \A i \in 1 .. E : K[i] = PadByte(n, lo, hi, i)
  BY <1>2, <1>3, PadType DEF Pad
<1>5. Padded(n, <<lo, hi>>) = K /\ BlocksOf(K) = Blocks(K, E)
  BY <1>2, <1>3, <1>4, PaddedIs, AllBlocks
<1>6. z \in Nat /\ E = n + z + 3
  <2>1. z \in 0 .. (B - 1) /\ B \in Nat
    BY <1>3, RoomFacts, BlockType
  <2>2. z \in Nat
    BY <2>1
  <2> QED
    BY <1>3, <2>2 DEF PadLen
<1>7. M \in Seq(Byte) /\ Len(M) = n /\ \A i \in 1 .. n : M[i] = i
  BY <1>3, MsgType
<1>8. PICK P, m : P = Filled(M, z) /\ m = n + 1 + z
  OBVIOUS
<1>9. /\ P \in Seq(Byte) /\ Len(P) = m /\ m \in Nat /\ n <= m /\ m <= E /\ E - m = 2 /\ m - n = 1 + z
      /\ \A i \in 1 .. m : P[i] = IF i <= n THEN M[i] ELSE IF i = n + 1 THEN Mark ELSE Zero
  <2>1. P \in Seq(Byte) /\ Len(P) = Len(M) + 1 + z
    BY <1>6, <1>7, <1>8, Fills
  <2>2. \A i \in 1 .. (Len(M) + 1 + z) :
          P[i] = IF i <= Len(M) THEN M[i] ELSE IF i = Len(M) + 1 THEN Mark ELSE Zero
    BY <1>8 DEF Filled
  <2>3. m \in Nat /\ n <= m /\ m <= E /\ E - m = 2 /\ m - n = 1 + z
    BY <1>6, <1>8
  <2> QED
    BY <1>7, <1>8, <2>1, <2>2, <2>3
<1>10. \A i \in 1 .. n : M[i] = P[i]
  <2> SUFFICES ASSUME NEW i \in 1 .. n PROVE M[i] = P[i]
    OBVIOUS
  <2>1. i \in 1 .. m
    BY <1>9
  <2> QED
    BY <1>9, <2>1
<1>11. \A i \in 1 .. m : P[i] = K[i]
  <2> SUFFICES ASSUME NEW i \in 1 .. m PROVE P[i] = K[i]
    OBVIOUS
  <2>1. i \in 1 .. E /\ i <= n + 1 + z
    BY <1>4, <1>8, <1>9
  <2>2. K[i] = IF i <= n THEN i ELSE IF i = n + 1 THEN Mark ELSE Zero
    BY <1>3, <1>4, <2>1 DEF PadByte
  <2>3. i <= n => M[i] = i
    BY <1>7
  <2> QED
    BY <1>9, <2>2, <2>3
<1>12. From(P, n) = <<Mark>> \o Zeros(z)
  <2>1. PICK f : f = <<Mark>>
    OBVIOUS
  <2>2. f \in Seq(Byte) /\ Len(f) = 1 /\ f[1] = Mark
    BY <2>1 DEF Byte
  <2>3. PICK g : g = Zeros(z)
    OBVIOUS
  <2>4. g \in Seq(Byte) /\ Len(g) = z /\ \A i \in 1 .. z : g[i] = Zero
    BY <1>6, <2>3, ZerosType
  <2>5. f \o g = [i \in 1 .. (1 + z) |-> IF i <= 1 THEN f[i] ELSE g[i - 1]]
    <3>1. f \o g = Joined(f, g)
      BY <2>2, <2>4, Joins
    <3> QED
      BY <2>2, <2>4, <3>1, Zenon DEF Joined
  <2>6. ASSUME NEW i \in 1 .. (1 + z)
        PROVE  (IF i <= 1 THEN f[i] ELSE g[i - 1]) = P[n + i]
    <3>1. n + i \in 1 .. m /\ ~(n + i <= n) /\ (n + i = n + 1 <=> i = 1) /\ (i <= 1 <=> i = 1)
      BY <1>6, <1>9
    <3>2. P[n + i] = IF i = 1 THEN Mark ELSE Zero
      BY <1>9, <3>1
    <3>3. i # 1 => i - 1 \in 1 .. z
      BY <1>6
    <3> QED
      BY <2>2, <2>4, <3>1, <3>2, <3>3
  <2>7. From(P, n) = [i \in 1 .. (1 + z) |-> P[n + i]]
    BY <1>9 DEF From
  <2> QED
    BY <2>1, <2>3, <2>5, <2>6, <2>7
<1>13. From(K, m) = <<lo, hi>>
  <2>1. From(K, m) = [i \in 1 .. 2 |-> K[m + i]]
    BY <1>4, <1>9 DEF From
  <2>2. K[m + 1] = lo /\ K[m + 2] = hi
    <3>1. /\ m + 1 \in 1 .. E /\ m + 2 \in 1 .. E
          /\ m + 1 = n + z + 2 /\ m + 2 # n + z + 2
          /\ ~(m + 1 <= n) /\ m + 1 # n + 1 /\ ~(m + 1 <= n + 1 + z)
          /\ ~(m + 2 <= n) /\ m + 2 # n + 1 /\ ~(m + 2 <= n + 1 + z)
      BY <1>6, <1>8, <1>9
    <3>2. K[m + 1] = PadByte(n, lo, hi, m + 1) /\ K[m + 2] = PadByte(n, lo, hi, m + 2)
      BY <1>4, <3>1
    <3> QED
      BY <1>3, <3>1, <3>2 DEF PadByte
  <2> QED
    BY <2>1, <2>2
<1>14. PICK c : c = Md5At(M, n, Count(n))
  OBVIOUS
<1>15. c.count = <<lo, hi>> /\ md5_idx(c) = Over(n)
  <2>1. c = [count |-> Count(n), state |-> Blocks(M, n), buffer |-> Kept(M, n)]
    BY <1>14 DEF Md5At
  <2>2. md5_idx(c) = Over(n)
    BY <2>1, Md5Index
  <2> QED
    BY <1>1, <2>1, <2>2 DEF Count
<1>16. md5_padlen(Over(n)) - 1 = z
  <2>1. PICK r : r = Over(n)
    OBVIOUS
  <2>2. r \in 0 .. (B - 1) /\ B \in Nat
    BY <2>1, FullOver, BlockType
  <2>3. md5_padlen(r) = IF r < B - 2 THEN B - 2 - r ELSE 2 * B - 2 - r
    BY DEF md5_padlen, B, LENGTH
  <2>4. z = IF r + 3 <= B THEN B - 3 - r ELSE 2 * B - 3 - r
    BY <1>3, <2>1 DEF Room
  <2>5. md5_padlen(r) - 1 = z
    BY <2>2, <2>3, <2>4
  <2> QED
    BY <2>1, <2>5
<1>17. ember_crypto_md5_final(c) =
         ember_crypto_md5_update(ember_crypto_md5_update(c, From(P, n)), From(K, m)).state
  BY <1>12, <1>13, <1>15, <1>16 DEF ember_crypto_md5_final
<1>18. c = Md5At(P, n, Count(n))
  <2>1. n \in 0 .. Len(M) /\ n <= Len(P)
    BY <1>7, <1>9
  <2>2. Blocks(M, n) = Blocks(P, n) /\ Kept(M, n) = Kept(P, n)
    BY <1>7, <1>9, <1>10, <2>1, PrefixOnly
  <2> QED
    BY <1>14, <2>2 DEF Md5At
<1>19. ember_crypto_md5_update(c, From(P, n)) = Md5At(P, m, Count(m))
  <2>1. n \in 0 .. Len(P)
    BY <1>9
  <2> QED
    BY <1>9, <1>18, <2>1, Md5Update
<1>20. Md5At(P, m, Count(m)) = Md5At(K, m, Count(m))
  <2>1. m \in 0 .. Len(P) /\ m <= Len(K)
    BY <1>4, <1>9
  <2>2. Blocks(P, m) = Blocks(K, m) /\ Kept(P, m) = Kept(K, m)
    BY <1>4, <1>9, <1>11, <2>1, PrefixOnly
  <2> QED
    BY <2>2 DEF Md5At
<1>21. ember_crypto_md5_update(Md5At(K, m, Count(m)), From(K, m)) = Md5At(K, E, Count(E))
  <2>1. m \in 0 .. Len(K)
    BY <1>4, <1>9
  <2> QED
    BY <1>4, <2>1, Md5Update
<1>22. Md5At(K, E, Count(E)).state = Blocks(K, E)
  BY DEF Md5At
<1> QED
  BY <1>1, <1>3, <1>5, <1>14, <1>17, <1>19, <1>20, <1>21, <1>22

-----------------------------------------------------------------------------
(* The program.                                                            *)

\* Before final each context is that of the bytes sent, with its count; after
\* it the digests are those of the padded message.
DigestInvariant ==
  /\ sent \in Nat
  /\ finished \in BOOLEAN
  /\ ~finished =>
       /\ sha = ShaAt(Msg(sent), sent, (8 * sent) % (WORD * WORD))
       /\ md5 = Md5At(Msg(sent), sent, Count(sent))
  /\ DigestsCompressMessage

\* A context from init has seen nothing.
LEMMA NothingSent ==
  /\ ember_crypto_sha256_init = ShaAt(Msg(0), 0, (8 * 0) % (WORD * WORD))
  /\ ember_crypto_md5_init = Md5At(Msg(0), 0, Count(0))
<1>1. B \in Nat /\ B > 2 /\ W \in Nat /\ W > 0 /\ W * W \in Nat /\ W * W > 0
  BY BlockType, WordType
<1>2. Full(0) = 0 /\ Over(0) = 0
  <2>1. 0 = 0 * B + 0 /\ 0 \in 0 .. (B - 1)
    BY <1>1
  <2> QED
    BY <2>1, FullOverUnique
<1>3. Blocks(Msg(0), 0) = <<>> /\ Rest(Msg(0), 0) = <<>>
  BY <1>2 DEF Blocks, Rest
<1>4. Kept(Msg(0), 0) = Zeros(BLOCK)
  <2>1. \A i \in 1 .. B : ~(i <= 0)
    OBVIOUS
  <2>2. Kept(Msg(0), 0) = [i \in 1 .. B |-> Zero]
    BY <1>2, <2>1 DEF Kept
  <2> QED
    BY <2>2 DEF Zeros, B
<1>5. \A b \in Nat : b > 0 => Quot(0, b) = 0 /\ Rem(0, b) = 0
  <2> SUFFICES ASSUME NEW b \in Nat, b > 0 PROVE Quot(0, b) = 0 /\ Rem(0, b) = 0
    OBVIOUS
  <2>1. 0 = 0 * b + 0 /\ 0 \in 0 .. (b - 1)
    OBVIOUS
  <2> QED
    BY <2>1, DivUnique
<1>6. (8 * 0) % (WORD * WORD) = 0 /\ Lo(8 * 0) = 0 /\ Hi(8 * 0) = 0
  <2>1. 8 * 0 = 0
    OBVIOUS
  <2>2. Rem(0, W * W) = 0 /\ Rem(0, W) = 0 /\ Rem(Quot(0, W), W) = 0
    BY <1>1, <1>5
  <2> QED
    BY <2>1, <2>2 DEF Lo, Hi, Rem, Quot, W
<1> QED
  BY <1>3, <1>4, <1>6
  DEF ShaAt, Md5At, Count, ember_crypto_sha256_init, ember_crypto_md5_init

\* update, of any length.
LEMMA OneUpdate ==
  ASSUME DigestInvariant, NEW len \in Nat, DigestUpdate(len)
  PROVE  DigestInvariant'
<1>1. PICK n, m, M, K : n = sent /\ m = sent + len /\ M = Msg(n) /\ K = Msg(m)
  OBVIOUS
<1>2. n \in Nat /\ m \in Nat /\ n <= m /\ m - n = len
  BY <1>1 DEF DigestInvariant
<1>3. /\ M \in Seq(Byte) /\ Len(M) = n /\ \A i \in 1 .. n : M[i] = i
      /\ K \in Seq(Byte) /\ Len(K) = m /\ \A i \in 1 .. m : K[i] = i
  BY <1>1, <1>2, MsgType
<1>4. Blocks(M, n) = Blocks(K, n) /\ Rest(M, n) = Rest(K, n) /\ Kept(M, n) = Kept(K, n)
  <2>1. n \in 0 .. Len(M) /\ n <= Len(K)
    BY <1>2, <1>3
  <2>2. \A i \in 1 .. n : M[i] = K[i]
    <3>1. \A i \in 1 .. n : i \in 1 .. m
      BY <1>2
    <3> QED
      BY <1>3, <3>1
  <2> QED
    BY <1>3, <2>1, <2>2, PrefixOnly
<1>5. n \in 0 .. Len(K)
  BY <1>2, <1>3
<1>6. PICK piece : piece = [i \in 1 .. len |-> sent + i]
  OBVIOUS
<1>7. piece = From(K, n)
  <2>1. \A i \in 1 .. len : n + i \in 1 .. m
    BY <1>2
  <2>2. \A i \in 1 .. len : K[n + i] = n + i
    BY <1>3, <2>1
  <2> QED
    BY <1>1, <1>2, <1>3, <1>6, <2>2 DEF From
<1>8. /\ sha' = ember_crypto_sha256_update(sha, piece)
      /\ md5' = ember_crypto_md5_update(md5, piece)
      /\ sent' = m /\ ~finished /\ ~finished'
  BY <1>1, <1>6 DEF DigestUpdate, DigestInvariant
<1>9. PICK bits : bits = (8 * n) % (WORD * WORD)
  OBVIOUS
<1>10. sha = ShaAt(K, n, bits) /\ md5 = Md5At(K, n, Count(n))
  BY <1>1, <1>4, <1>8, <1>9 DEF DigestInvariant, ShaAt, Md5At
<1>11. (bits + 8 * (m - n)) % (WORD * WORD) = (8 * m) % (WORD * WORD)
  <2>1. PICK b : b = WORD * WORD
    OBVIOUS
  <2>2. b \in Nat /\ b > 0
    BY <2>1, WordType DEF W
  <2>3. 8 * n \in Nat /\ 8 * (m - n) \in Nat /\ 8 * n + 8 * (m - n) = 8 * m
    BY <1>2
  <2>4. Rem(Rem(8 * n, b) + 8 * (m - n), b) = Rem(8 * n + 8 * (m - n), b)
    BY <2>2, <2>3, RemAdd
  <2> QED
    BY <1>9, <2>1, <2>3, <2>4 DEF Rem
<1>12. sha' = ShaAt(K, m, (8 * m) % (WORD * WORD))
  BY <1>3, <1>5, <1>7, <1>8, <1>10, <1>11, ShaUpdate
<1>13. md5' = Md5At(K, m, Count(m))
  BY <1>3, <1>5, <1>7, <1>8, <1>10, Md5Update
<1>14. /\ sha' = ShaAt(Msg(sent'), sent', (8 * sent') % (WORD * WORD))
       /\ md5' = Md5At(Msg(sent'), sent', Count(sent'))
  BY <1>1, <1>8, <1>12, <1>13
<1>15. sent' \in Nat /\ finished' \in BOOLEAN /\ DigestsCompressMessage'
  BY <1>2, <1>8 DEF DigestUpdate, DigestInvariant, DigestsCompressMessage
<1> QED
  BY <1>14, <1>15 DEF DigestInvariant

\* final, of both.
LEMMA BothFinal ==
  ASSUME DigestInvariant, DigestFinal
  PROVE  DigestInvariant'
<1>1. PICK n : n = sent
  OBVIOUS
<1>2. /\ n \in Nat /\ sent' = n /\ finished'
      /\ sha = ShaAt(Msg(n), n, (8 * n) % (WORD * WORD)) /\ md5 = Md5At(Msg(n), n, Count(n))
      /\ sha' = [sha EXCEPT !.state = ember_crypto_sha256_final(sha)]
      /\ md5' = [md5 EXCEPT !.state = ember_crypto_md5_final(md5)]
  BY <1>1 DEF DigestInvariant, DigestFinal
<1>3. sha'.state = BlocksOf(Padded(n, <<Hi(8 * n), Lo(8 * n)>>))
  <2>1. sha'.state = ember_crypto_sha256_final(sha)
    BY <1>2 DEF ShaAt
  <2> QED
    BY <1>2, <2>1, ShaFinal
<1>4. md5'.state = BlocksOf(Padded(n, <<Lo(8 * n), Hi(8 * n)>>))
  <2>1. md5'.state = ember_crypto_md5_final(md5)
    BY <1>2 DEF Md5At
  <2> QED
    BY <1>2, <2>1, Md5Final
<1>5. finished' \in BOOLEAN
  BY DEF DigestFinal
<1> QED
  BY <1>2, <1>3, <1>4, <1>5 DEF DigestInvariant, DigestsCompressMessage

\* Each context is always that of the bytes sent so far.
THEOREM DigestInvariance == DigestSpec => []DigestInvariant
<1>1. DigestInit => DigestInvariant
  <2> SUFFICES ASSUME DigestInit PROVE DigestInvariant
    OBVIOUS
  <2>1. sent = 0 /\ ~finished /\ finished \in BOOLEAN
        /\ sha = ember_crypto_sha256_init /\ md5 = ember_crypto_md5_init
    BY DEF DigestInit
  <2> QED
    BY <2>1, NothingSent DEF DigestInvariant, DigestsCompressMessage
<1>2. DigestInvariant /\ [DigestNext]_digestVars => DigestInvariant'
  <2> SUFFICES ASSUME DigestInvariant, [DigestNext]_digestVars PROVE DigestInvariant'
    OBVIOUS
  <2>1. CASE DigestFinal
    BY <2>1, BothFinal
  <2>2. CASE DigestAgain
    <3>1. sent' = 0 /\ ~finished' /\ finished' \in BOOLEAN
          /\ sha' = ember_crypto_sha256_init /\ md5' = ember_crypto_md5_init
      BY <2>2 DEF DigestAgain
    <3> QED
      BY <3>1, NothingSent DEF DigestInvariant, DigestsCompressMessage
  <2>3. ASSUME NEW len \in 0 .. MaxPiece, DigestUpdate(len)
        PROVE  DigestInvariant'
    <3>1. len \in Nat
      OBVIOUS
    <3> QED
      BY <2>3, <3>1, OneUpdate
  <2>4. CASE UNCHANGED digestVars
    BY <2>4 DEF digestVars, DigestInvariant, DigestsCompressMessage
  <2> QED
    BY <2>1, <2>2, <2>3, <2>4 DEF DigestNext
<1> QED
  BY <1>1, <1>2, PTL DEF DigestSpec

\* However the message was cut, both digests compress the blocks of the padded
\* message.
THEOREM DigestsAreRight == DigestSpec => []DigestsCompressMessage
<1>1. DigestInvariant => DigestsCompressMessage
  BY DEF DigestInvariant
<1> QED
  BY <1>1, DigestInvariance, PTL

-----------------------------------------------------------------------------
(* Words of bits.                                                          *)

Bits(w) == [1 .. w -> {0, 1}]

\* Words with the same bits are the same.
LEMMA SameBits ==
  ASSUME NEW w \in Nat, NEW a \in Bits(w), NEW b \in Bits(w), \A i \in 1 .. w : a[i] = b[i]
  PROVE  a = b
  BY DEF Bits

\* A word is a sequence.
LEMMA BitsLen ==
  ASSUME NEW w \in Nat, NEW c \in Bits(w)
  PROVE  Len(c) = w /\ DOMAIN c = 1 .. w /\ c \in Seq({0, 1})
  BY DEF Bits

\* Exclusive or, bit by bit.
LEMMA XorBits ==
  ASSUME NEW w \in Nat, NEW a \in Bits(w), NEW b \in Bits(w)
  PROVE  /\ Xor(a, b) \in Bits(w)
         /\ \A i \in 1 .. w : Xor(a, b)[i] = IF a[i] = b[i] THEN 0 ELSE 1
  BY DEF Bits, Xor

\* Shifts, bit by bit.
LEMMA ShiftBits ==
  ASSUME NEW w \in Nat, NEW c \in Bits(w), NEW n \in Nat
  PROVE  /\ ShiftLeft(c, n) \in Bits(w)
         /\ \A i \in 1 .. w : ShiftLeft(c, n)[i] = IF i + n <= w THEN c[i + n] ELSE 0
         /\ ShiftRight(c, n) \in Bits(w)
         /\ \A i \in 1 .. w : ShiftRight(c, n)[i] = IF i > n THEN c[i - n] ELSE 0
<1>1. DOMAIN c = 1 .. w
  BY DEF Bits
<1>2. \A i \in 1 .. w : c[i] \in {0, 1}
  BY DEF Bits
<1>3. \A i \in 1 .. w : (i + n \in 1 .. w <=> i + n <= w) /\ (i - n \in 1 .. w <=> i > n)
  OBVIOUS
<1>4. ShiftLeft(c, n) = [i \in 1 .. w |-> IF i + n <= w THEN c[i + n] ELSE 0]
  BY <1>1, <1>3 DEF ShiftLeft
<1>5. ShiftRight(c, n) = [i \in 1 .. w |-> IF i > n THEN c[i - n] ELSE 0]
  BY <1>1, <1>3 DEF ShiftRight
<1>6. \A i \in 1 .. w : (IF i + n <= w THEN c[i + n] ELSE 0) \in {0, 1}
  BY <1>2, <1>3
<1>7. \A i \in 1 .. w : (IF i > n THEN c[i - n] ELSE 0) \in {0, 1}
  BY <1>2, <1>3
<1> QED
  BY <1>4, <1>5, <1>6, <1>7 DEF Bits

\* One position to the left, and eight.
LEMMA ShiftsUsed ==
  ASSUME NEW w \in Nat, NEW c \in Bits(w)
  PROVE  /\ ShiftLeft(c, 1) \in Bits(w)
         /\ \A i \in 1 .. w : ShiftLeft(c, 1)[i] = IF i + 1 <= w THEN c[i + 1] ELSE 0
         /\ ShiftLeft(c, 8) \in Bits(w)
         /\ \A i \in 1 .. w : ShiftLeft(c, 8)[i] = IF i + 8 <= w THEN c[i + 8] ELSE 0
<1>1. 1 \in Nat /\ 8 \in Nat
  OBVIOUS
<1>2. /\ ShiftLeft(c, 1) \in Bits(w)
      /\ \A i \in 1 .. w : ShiftLeft(c, 1)[i] = IF i + 1 <= w THEN c[i + 1] ELSE 0
  BY <1>1, ShiftBits
<1>3. /\ ShiftLeft(c, 8) \in Bits(w)
      /\ \A i \in 1 .. w : ShiftLeft(c, 8)[i] = IF i + 8 <= w THEN c[i + 8] ELSE 0
  BY <1>1, ShiftBits
<1> QED
  BY <1>2, <1>3

\* Words that have eight given bits at one end.
LEMMA AtBits ==
  ASSUME NEW w \in Nat, w >= 8, NEW p \in Bits(8)
  PROVE  /\ AtTop(p, w) \in Bits(w)
         /\ \A i \in 1 .. w : AtTop(p, w)[i] = IF i <= 8 THEN p[i] ELSE 0
         /\ AtBottom(p, w) \in Bits(w)
         /\ \A i \in 1 .. w : AtBottom(p, w)[i] = IF i > w - 8 THEN p[i - (w - 8)] ELSE 0
<1>1. \A i \in 1 .. w : (IF i <= 8 THEN p[i] ELSE 0) \in {0, 1}
  BY DEF Bits
<1>2. \A i \in 1 .. w : (IF i > w - 8 THEN p[i - (w - 8)] ELSE 0) \in {0, 1}
  <2>1. \A i \in 1 .. w : i > w - 8 => i - (w - 8) \in 1 .. 8
    OBVIOUS
  <2> QED
    BY <2>1 DEF Bits
<1> QED
  BY <1>1, <1>2 DEF Bits, AtTop, AtBottom

\* The highest and the lowest eight bits.
LEMMA ByteBits ==
  ASSUME NEW w \in Nat, w >= 8, NEW c \in Bits(w)
  PROVE  /\ HighByte(c) \in Bits(8) /\ \A i \in 1 .. 8 : HighByte(c)[i] = c[i]
         /\ LowByte(c) \in Bits(8) /\ \A i \in 1 .. 8 : LowByte(c)[i] = c[w - 8 + i]
<1>1. Len(c) = w
  BY BitsLen
<1>2. \A i \in 1 .. 8 : i \in 1 .. w /\ w - 8 + i \in 1 .. w
  OBVIOUS
<1> QED
  BY <1>1, <1>2 DEF Bits, HighByte, LowByte

\* Bits in the opposite order.
LEMMA ReverseBits ==
  ASSUME NEW w \in Nat, NEW c \in Bits(w)
  PROVE  /\ Reverse(c) \in Bits(w)
         /\ \A i \in 1 .. w : Reverse(c)[i] = c[w + 1 - i]
<1>1. Len(c) = w
  BY BitsLen
<1>2. \A i \in 1 .. w : (w - i) + 1 = w + 1 - i /\ w + 1 - i \in 1 .. w
  OBVIOUS
<1> QED
  BY <1>1, <1>2 DEF Bits, Reverse

-----------------------------------------------------------------------------
(* Rounds.                                                                 *)

\* A round, bit by bit.
LEMMA RoundBits ==
  ASSUME NEW w \in Nat, w > 0, NEW c \in Bits(w), NEW poly \in Bits(w)
  PROVE  /\ Round(c, poly) \in Bits(w)
         /\ Round(c, poly) = IF c[1] = 1 THEN Xor(ShiftLeft(c, 1), poly) ELSE ShiftLeft(c, 1)
<1>1. ShiftLeft(c, 1) \in Bits(w)
  BY ShiftsUsed
<1>2. Xor(ShiftLeft(c, 1), poly) \in Bits(w)
  BY <1>1, XorBits
<1> QED
  BY <1>1, <1>2 DEF Round

\* Bits that do not reach the top only shift.
LEMMA RoundXor ==
  ASSUME NEW w \in Nat, w > 0, NEW a \in Bits(w), NEW b \in Bits(w), NEW poly \in Bits(w),
         b[1] = 0
  PROVE  Round(Xor(a, b), poly) = Xor(Round(a, poly), ShiftLeft(b, 1))
<1>1. PICK c : c = Xor(a, b)
  OBVIOUS
<1>2. c \in Bits(w) /\ \A i \in 1 .. w : c[i] = IF a[i] = b[i] THEN 0 ELSE 1
  BY <1>1, XorBits
<1>3. PICK sa, sb, sc : sa = ShiftLeft(a, 1) /\ sb = ShiftLeft(b, 1) /\ sc = ShiftLeft(c, 1)
  OBVIOUS
<1>4. /\ sa \in Bits(w) /\ \A i \in 1 .. w : sa[i] = IF i + 1 <= w THEN a[i + 1] ELSE 0
      /\ sb \in Bits(w) /\ \A i \in 1 .. w : sb[i] = IF i + 1 <= w THEN b[i + 1] ELSE 0
      /\ sc \in Bits(w) /\ \A i \in 1 .. w : sc[i] = IF i + 1 <= w THEN c[i + 1] ELSE 0
  BY <1>2, <1>3, ShiftsUsed
<1>5. \A i \in 1 .. w : sc[i] = IF sa[i] = sb[i] THEN 0 ELSE 1
  BY <1>2, <1>4
<1>6. a[1] \in {0, 1} /\ c[1] = a[1]
  <2>1. 1 \in 1 .. w
    OBVIOUS
  <2> QED
    BY <1>2, <2>1 DEF Bits
<1>7. CASE a[1] = 1
  <2>1. PICK xa, xc : xa = Xor(sa, poly) /\ xc = Xor(sc, poly)
    OBVIOUS
  <2>2. /\ xa \in Bits(w) /\ \A i \in 1 .. w : xa[i] = IF sa[i] = poly[i] THEN 0 ELSE 1
        /\ xc \in Bits(w) /\ \A i \in 1 .. w : xc[i] = IF sc[i] = poly[i] THEN 0 ELSE 1
    BY <1>4, <2>1, XorBits
  <2>3. /\ Xor(xa, sb) \in Bits(w)
        /\ \A i \in 1 .. w : Xor(xa, sb)[i] = IF xa[i] = sb[i] THEN 0 ELSE 1
    BY <1>4, <2>2, XorBits
  <2>4. \A i \in 1 .. w : sa[i] \in {0, 1} /\ sb[i] \in {0, 1} /\ poly[i] \in {0, 1}
    BY <1>4 DEF Bits
  <2>5. \A i \in 1 .. w : xc[i] = Xor(xa, sb)[i]
    BY <1>5, <2>2, <2>3, <2>4
  <2>6. xc = Xor(xa, sb)
    BY <2>2, <2>3, <2>5, SameBits
  <2> QED
    BY <1>1, <1>2, <1>3, <1>6, <1>7, <2>1, <2>6, RoundBits
<1>8. CASE a[1] = 0
  <2>1. /\ Xor(sa, sb) \in Bits(w)
        /\ \A i \in 1 .. w : Xor(sa, sb)[i] = IF sa[i] = sb[i] THEN 0 ELSE 1
    BY <1>4, XorBits
  <2>2. sc = Xor(sa, sb)
    BY <1>4, <1>5, <2>1, SameBits
  <2> QED
    BY <1>1, <1>2, <1>3, <1>6, <1>8, <2>2, RoundBits
<1> QED
  BY <1>6, <1>7, <1>8

\* Shifts add up.
LEMMA ShiftShift ==
  ASSUME NEW w \in Nat, NEW c \in Bits(w), NEW n \in Nat
  PROVE  ShiftLeft(ShiftLeft(c, n), 1) = ShiftLeft(c, n + 1)
<1>1. PICK s : s = ShiftLeft(c, n)
  OBVIOUS
<1>2. s \in Bits(w) /\ \A i \in 1 .. w : s[i] = IF i + n <= w THEN c[i + n] ELSE 0
  BY <1>1, ShiftBits
<1>3. PICK t : t = ShiftLeft(s, 1)
  OBVIOUS
<1>4. t \in Bits(w) /\ \A i \in 1 .. w : t[i] = IF i + 1 <= w THEN s[i + 1] ELSE 0
  BY <1>2, <1>3, ShiftBits
<1>5. PICK m, u : m \in Nat /\ m = n + 1 /\ u = ShiftLeft(c, m)
  OBVIOUS
<1>6. u \in Bits(w) /\ \A i \in 1 .. w : u[i] = IF i + m <= w THEN c[i + m] ELSE 0
  BY <1>5, ShiftBits
<1>7. \A i \in 1 .. w : t[i] = u[i]
  <2> SUFFICES ASSUME NEW i \in 1 .. w PROVE t[i] = u[i]
    OBVIOUS
  <2>1. CASE i + 1 <= w
    <3>1. i + 1 \in 1 .. w /\ (i + 1) + n = i + m
      BY <2>1, <1>5
    <3> QED
      BY <1>2, <1>4, <1>6, <2>1, <3>1
  <2>2. CASE ~(i + 1 <= w)
    <3>1. ~(i + m <= w)
      BY <1>5, <2>2
    <3> QED
      BY <1>4, <1>6, <2>2, <3>1
  <2> QED
    BY <2>1, <2>2
<1>8. t = u
  BY <1>4, <1>6, <1>7, SameBits
<1> QED
  BY <1>1, <1>3, <1>5, <1>8

\* Eight rounds in a row.
LEMMA EightRounds ==
  ASSUME NEW poly, NEW c, NEW c1, NEW c2, NEW c3, NEW c4, NEW c5, NEW c6, NEW c7,
         c1 = Round(c, poly), c2 = Round(c1, poly), c3 = Round(c2, poly), c4 = Round(c3, poly),
         c5 = Round(c4, poly), c6 = Round(c5, poly), c7 = Round(c6, poly)
  PROVE  Rounds(c, poly) = Round(c7, poly)
  BY DEF Rounds

\* Eight rounds give a word.
LEMMA RoundsBits ==
  ASSUME NEW w \in Nat, w > 0, NEW c \in Bits(w), NEW poly \in Bits(w)
  PROVE  Rounds(c, poly) \in Bits(w)
<1>1. \A x \in Bits(w) : Round(x, poly) \in Bits(w)
  BY RoundBits
<1> QED
  BY <1>1 DEF Rounds

\* A word with no bit among the highest eight only shifts in eight rounds.
LEMMA RoundsXor ==
  ASSUME NEW w \in Nat, w >= 8, NEW a \in Bits(w), NEW b \in Bits(w), NEW poly \in Bits(w),
         \A i \in 1 .. 8 : b[i] = 0
  PROVE  Rounds(Xor(a, b), poly) = Xor(Rounds(a, poly), ShiftLeft(b, 8))
<1>1. \A x \in Bits(w) : Round(x, poly) \in Bits(w)
  BY RoundBits
<1>2. ASSUME NEW n \in 0 .. 7, NEW x \in Bits(w)
      PROVE  Round(Xor(x, ShiftLeft(b, n)), poly) = Xor(Round(x, poly), ShiftLeft(b, n + 1))
  <2>1. PICK s : s = ShiftLeft(b, n)
    OBVIOUS
  <2>2. n \in Nat
    OBVIOUS
  <2>3. s \in Bits(w) /\ \A i \in 1 .. w : s[i] = IF i + n <= w THEN b[i + n] ELSE 0
    BY <2>1, <2>2, ShiftBits
  <2>4. s[1] = 0
    <3>1. 1 \in 1 .. w /\ 1 + n \in 1 .. 8 /\ 1 + n <= w
      OBVIOUS
    <3> QED
      BY <2>3, <3>1
  <2>5. Round(Xor(x, s), poly) = Xor(Round(x, poly), ShiftLeft(s, 1))
    BY <2>3, <2>4, RoundXor
  <2>6. ShiftLeft(s, 1) = ShiftLeft(b, n + 1)
    BY <2>1, <2>2, ShiftShift
  <2> QED
    BY <2>1, <2>5, <2>6
<1>3. b = ShiftLeft(b, 0)
  <2>1. ShiftLeft(b, 0) \in Bits(w)
        /\ \A i \in 1 .. w : ShiftLeft(b, 0)[i] = IF i + 0 <= w THEN b[i + 0] ELSE 0
    BY ShiftBits
  <2>2. \A i \in 1 .. w : ShiftLeft(b, 0)[i] = b[i]
    BY <2>1
  <2> QED
    BY <2>1, <2>2, SameBits
<1>4. PICK a1, a2, a3, a4, a5, a6, a7 :
        /\ a1 = Round(a, poly) /\ a2 = Round(a1, poly) /\ a3 = Round(a2, poly)
        /\ a4 = Round(a3, poly) /\ a5 = Round(a4, poly) /\ a6 = Round(a5, poly)
        /\ a7 = Round(a6, poly)
  OBVIOUS
<1>5. /\ a1 \in Bits(w) /\ a2 \in Bits(w) /\ a3 \in Bits(w) /\ a4 \in Bits(w)
      /\ a5 \in Bits(w) /\ a6 \in Bits(w) /\ a7 \in Bits(w)
  BY <1>1, <1>4
<1>6. PICK b1, b2, b3, b4, b5, b6, b7, b8 :
        /\ b1 = ShiftLeft(b, 1) /\ b2 = ShiftLeft(b, 2) /\ b3 = ShiftLeft(b, 3)
        /\ b4 = ShiftLeft(b, 4) /\ b5 = ShiftLeft(b, 5) /\ b6 = ShiftLeft(b, 6)
        /\ b7 = ShiftLeft(b, 7) /\ b8 = ShiftLeft(b, 8)
  OBVIOUS
<1>7. /\ Xor(a1, b1) = Round(Xor(a, b), poly)
      /\ Xor(a2, b2) = Round(Xor(a1, b1), poly)
      /\ Xor(a3, b3) = Round(Xor(a2, b2), poly)
      /\ Xor(a4, b4) = Round(Xor(a3, b3), poly)
  BY <1>2, <1>3, <1>4, <1>5, <1>6
<1>8. /\ Xor(a5, b5) = Round(Xor(a4, b4), poly)
      /\ Xor(a6, b6) = Round(Xor(a5, b5), poly)
      /\ Xor(a7, b7) = Round(Xor(a6, b6), poly)
      /\ Xor(Round(a7, poly), b8) = Round(Xor(a7, b7), poly)
  BY <1>2, <1>4, <1>5, <1>6
<1>9. Rounds(a, poly) = Round(a7, poly)
  BY <1>4, EightRounds
<1>10. Rounds(Xor(a, b), poly) = Round(Xor(a7, b7), poly)
  BY <1>7, <1>8, EightRounds
<1> QED
  BY <1>6, <1>8, <1>9, <1>10

-----------------------------------------------------------------------------
(* What a byte does.                                                       *)

\* The new value of a CRC: its highest byte and the message's give the index
\* of the entry that is combined with the rest.
Updated(c, p, w, poly) ==
  Xor(ShiftLeft(c, 8), Rounds(AtTop(Xor(HighByte(c), p), w), poly))

\* That is what eight rounds make of the CRC with the byte at its top.
LEMMA ByteByTable ==
  ASSUME NEW w \in Nat, w >= 8, NEW c \in Bits(w), NEW p \in Bits(8), NEW poly \in Bits(w)
  PROVE  Rounds(Xor(c, AtTop(p, w)), poly) = Updated(c, p, w, poly)
<1>1. PICK h : h = HighByte(c)
  OBVIOUS
<1>2. h \in Bits(8) /\ \A i \in 1 .. 8 : h[i] = c[i]
  BY <1>1, ByteBits
<1>3. PICK x : x = Xor(h, p)
  OBVIOUS
<1>4. x \in Bits(8) /\ \A i \in 1 .. 8 : x[i] = IF h[i] = p[i] THEN 0 ELSE 1
  <2>1. 8 \in Nat
    OBVIOUS
  <2> QED
    BY <1>2, <1>3, <2>1, XorBits
<1>5. PICK a : a = AtTop(x, w)
  OBVIOUS
<1>6. a \in Bits(w) /\ \A i \in 1 .. w : a[i] = IF i <= 8 THEN x[i] ELSE 0
  BY <1>4, <1>5, AtBits
<1>7. PICK b : b = [i \in 1 .. w |-> IF i <= 8 THEN 0 ELSE c[i]]
  OBVIOUS
<1>8. b \in Bits(w) /\ (\A i \in 1 .. w : b[i] = IF i <= 8 THEN 0 ELSE c[i])
      /\ \A i \in 1 .. 8 : b[i] = 0
  <2>1. \A i \in 1 .. 8 : i \in 1 .. w
    OBVIOUS
  <2> QED
    BY <1>7, <2>1 DEF Bits
<1>9. PICK t : t = AtTop(p, w)
  OBVIOUS
<1>10. t \in Bits(w) /\ \A i \in 1 .. w : t[i] = IF i <= 8 THEN p[i] ELSE 0
  BY <1>9, AtBits
<1>11. Xor(c, t) = Xor(a, b)
  <2>1. Xor(c, t) \in Bits(w) /\ \A i \in 1 .. w : Xor(c, t)[i] = IF c[i] = t[i] THEN 0 ELSE 1
    BY <1>10, XorBits
  <2>2. Xor(a, b) \in Bits(w) /\ \A i \in 1 .. w : Xor(a, b)[i] = IF a[i] = b[i] THEN 0 ELSE 1
    BY <1>6, <1>8, XorBits
  <2>3. ASSUME NEW i \in 1 .. w PROVE (IF c[i] = t[i] THEN 0 ELSE 1) = IF a[i] = b[i] THEN 0 ELSE 1
    <3>1. CASE i <= 8
      <4>1. i \in 1 .. 8 /\ t[i] = p[i] /\ a[i] = x[i] /\ b[i] = 0 /\ h[i] = c[i]
        BY <1>2, <1>6, <1>8, <1>10, <3>1
      <4> QED
        BY <1>4, <4>1
    <3>2. CASE ~(i <= 8)
      <4>1. t[i] = 0 /\ a[i] = 0 /\ b[i] = c[i]
        BY <1>6, <1>8, <1>10, <3>2
      <4> QED
        BY <4>1
    <3> QED
      BY <3>1, <3>2
  <2>4. \A i \in 1 .. w : Xor(c, t)[i] = Xor(a, b)[i]
    BY <2>1, <2>2, <2>3
  <2> QED
    BY <2>1, <2>2, <2>4, SameBits
<1>12. Rounds(Xor(a, b), poly) = Xor(Rounds(a, poly), ShiftLeft(b, 8))
  BY <1>6, <1>8, RoundsXor
<1>13. ShiftLeft(b, 8) = ShiftLeft(c, 8)
  <2>1. /\ ShiftLeft(b, 8) \in Bits(w)
        /\ \A i \in 1 .. w : ShiftLeft(b, 8)[i] = IF i + 8 <= w THEN b[i + 8] ELSE 0
        /\ ShiftLeft(c, 8) \in Bits(w)
        /\ \A i \in 1 .. w : ShiftLeft(c, 8)[i] = IF i + 8 <= w THEN c[i + 8] ELSE 0
    BY <1>8, ShiftsUsed
  <2>2. \A i \in 1 .. w : i + 8 <= w => b[i + 8] = c[i + 8]
    <3>1. \A i \in 1 .. w : i + 8 <= w => i + 8 \in 1 .. w /\ ~(i + 8 <= 8)
      OBVIOUS
    <3> QED
      BY <1>8, <3>1
  <2>3. \A i \in 1 .. w : ShiftLeft(b, 8)[i] = ShiftLeft(c, 8)[i]
    BY <2>1, <2>2
  <2> QED
    BY <2>1, <2>3, SameBits
<1>14. Xor(Rounds(a, poly), ShiftLeft(c, 8)) = Xor(ShiftLeft(c, 8), Rounds(a, poly))
  <2>1. PICK u, v : u = Rounds(a, poly) /\ v = ShiftLeft(c, 8)
    OBVIOUS
  <2>2. u \in Bits(w) /\ v \in Bits(w)
    BY <1>6, <2>1, RoundsBits, ShiftsUsed
  <2>3. /\ Xor(u, v) \in Bits(w) /\ \A i \in 1 .. w : Xor(u, v)[i] = IF u[i] = v[i] THEN 0 ELSE 1
        /\ Xor(v, u) \in Bits(w) /\ \A i \in 1 .. w : Xor(v, u)[i] = IF v[i] = u[i] THEN 0 ELSE 1
    BY <2>2, XorBits
  <2>4. Xor(u, v) = Xor(v, u)
    BY <2>3, SameBits
  <2> QED
    BY <2>1, <2>4
<1> QED
  BY <1>1, <1>3, <1>5, <1>9, <1>11, <1>12, <1>13, <1>14 DEF Updated

-----------------------------------------------------------------------------
(* The division.                                                           *)

Bit(a, b) == IF a = b THEN 0 ELSE 1

\* A step of the division, bit by bit.
LEMMA DivideBits ==
  ASSUME NEW w \in Nat, w > 0, NEW c \in Bits(w), NEW bit \in {0, 1}, NEW poly \in Bits(w)
  PROVE  /\ Divide(c, bit, poly) \in Bits(w)
         /\ \E next \in Bits(w) :
              /\ \A i \in 1 .. w : next[i] = IF i < w THEN c[i + 1] ELSE bit
              /\ Divide(c, bit, poly) = IF c[1] = 1 THEN Xor(next, poly) ELSE next
<1>1. PICK next : next = [i \in DOMAIN c |-> IF i + 1 \in DOMAIN c THEN c[i + 1] ELSE bit]
  OBVIOUS
<1>2. DOMAIN c = 1 .. w /\ \A i \in 1 .. w : c[i] \in {0, 1}
  BY DEF Bits
<1>3. \A i \in 1 .. w : i + 1 \in 1 .. w <=> i < w
  OBVIOUS
<1>4. next \in Bits(w) /\ \A i \in 1 .. w : next[i] = IF i < w THEN c[i + 1] ELSE bit
  BY <1>1, <1>2, <1>3 DEF Bits
<1>5. Xor(next, poly) \in Bits(w)
  BY <1>4, XorBits
<1>6. Divide(c, bit, poly) = IF c[1] = 1 THEN Xor(next, poly) ELSE next
  BY <1>1 DEF Divide
<1> QED
  BY <1>4, <1>5, <1>6

\* Where the next bit is zero a step is a round.
LEMMA DivideZero ==
  ASSUME NEW w \in Nat, w > 0, NEW c \in Bits(w), NEW poly \in Bits(w)
  PROVE  Divide(c, 0, poly) = Round(c, poly)
<1>1. PICK next \in Bits(w) :
        /\ \A i \in 1 .. w : next[i] = IF i < w THEN c[i + 1] ELSE 0
        /\ Divide(c, 0, poly) = IF c[1] = 1 THEN Xor(next, poly) ELSE next
  BY DivideBits
<1>2. /\ ShiftLeft(c, 1) \in Bits(w)
      /\ \A i \in 1 .. w : ShiftLeft(c, 1)[i] = IF i + 1 <= w THEN c[i + 1] ELSE 0
  BY ShiftsUsed
<1>3. \A i \in 1 .. w : i < w <=> i + 1 <= w
  OBVIOUS
<1>4. next = ShiftLeft(c, 1)
  <2>1. \A i \in 1 .. w : next[i] = ShiftLeft(c, 1)[i]
    BY <1>1, <1>2, <1>3
  <2> QED
    BY <1>2, <2>1, SameBits
<1> QED
  BY <1>1, <1>4 DEF Round

\* f is the function of Remainder.
Division(f, d, total, poly) ==
  f = [n \in Len(poly) .. total |->
         IF n = Len(poly) THEN [i \in 1 .. n |-> d[i]] ELSE Divide(f[n - 1], d[n], poly)]

\* Remainder is the last value of such a function, if there is one.
LEMMA DivisionLoop ==
  ASSUME NEW d, NEW total, NEW poly, NEW f, Division(f, d, total, poly)
  PROVE  \E g : Division(g, d, total, poly) /\ Remainder(d, total, poly) = g[total]
<1> DEFINE g == CHOOSE g : Division(g, d, total, poly)
<1>1. Division(g, d, total, poly)
  BY DEF Division
<1>2. Remainder(d, total, poly) = g[total]
  BY DEF Remainder, Division
<1> QED
  BY <1>1, <1>2

\* Its steps.
LEMMA DivisionSteps ==
  ASSUME NEW w \in Nat, w > 0, NEW poly \in Bits(w), NEW total \in Nat, total >= w,
         NEW d \in Bits(total), NEW f, Division(f, d, total, poly)
  PROVE  /\ f[w] \in Bits(w) /\ \A i \in 1 .. w : f[w][i] = d[i]
         /\ \A n \in w .. total : n > w => f[n] = Divide(f[n - 1], d[n], poly)
<1>1. Len(poly) = w
  BY BitsLen
<1>2. w \in w .. total
  OBVIOUS
<1>3. f[w] = [i \in 1 .. w |-> d[i]]
  BY <1>1, <1>2 DEF Division
<1>4. \A i \in 1 .. w : d[i] \in {0, 1}
  <2>1. \A i \in 1 .. w : i \in 1 .. total
    OBVIOUS
  <2> QED
    BY <2>1 DEF Bits
<1>5. f[w] \in Bits(w) /\ \A i \in 1 .. w : f[w][i] = d[i]
  BY <1>3, <1>4 DEF Bits
<1>6. ASSUME NEW n \in w .. total, n > w PROVE f[n] = Divide(f[n - 1], d[n], poly)
  <2>1. n \in Len(poly) .. total /\ n # Len(poly)
    BY <1>1, <1>6
  <2> QED
    BY <2>1 DEF Division
<1> QED
  BY <1>5, <1>6

\* What is left is a word at every step.
LEMMA DivisionBits ==
  ASSUME NEW w \in Nat, w > 0, NEW poly \in Bits(w), NEW total \in Nat, total >= w,
         NEW d \in Bits(total), NEW f, Division(f, d, total, poly)
  PROVE  \A n \in w .. total : f[n] \in Bits(w)
<1> DEFINE T == {n \in Nat : n \in w .. total /\ f[n] \notin Bits(w)}
<1>1. T = {}
  <2> SUFFICES ASSUME T # {} PROVE FALSE
    OBVIOUS
  <2>1. PICK n \in T : \A k \in T : ~(<<k, n>> \in OpToRel(<, Nat))
    BY NatLessThanWellFounded, WFMin
  <2>2. n \in w .. total /\ f[n] \notin Bits(w)
    OBVIOUS
  <2>3. n > w
    BY <2>2, DivisionSteps
  <2>4. n - 1 \in Nat /\ n - 1 \in w .. total /\ n - 1 < n /\ n \in Nat
    BY <2>2, <2>3
  <2>5. f[n - 1] \in Bits(w)
    <3>1. <<n - 1, n>> \in OpToRel(<, Nat)
      BY <2>4 DEF OpToRel
    <3> QED
      BY <2>1, <2>4, <3>1
  <2>6. d[n] \in {0, 1}
    <3>1. n \in 1 .. total
      BY <2>2
    <3> QED
      BY <3>1 DEF Bits
  <2>7. f[n] = Divide(f[n - 1], d[n], poly)
    BY <2>2, <2>3, DivisionSteps
  <2>8. f[n] \in Bits(w)
    BY <2>5, <2>6, <2>7, DivideBits
  <2> QED
    BY <2>2, <2>8
<1>2. ASSUME NEW n \in w .. total PROVE f[n] \in Bits(w)
  <2>1. n \in Nat
    OBVIOUS
  <2> QED
    BY <1>1, <2>1
<1> QED
  BY <1>2

\* There is such a function: there is no least length it could not be
\* extended to.
LEMMA DivisionExists ==
  ASSUME NEW w \in Nat, w > 0, NEW poly \in Bits(w), NEW total \in Nat, total >= w, NEW d
  PROVE  \E f : Division(f, d, total, poly)
<1> DEFINE T == {n \in Nat : n >= w /\ ~\E f : Division(f, d, n, poly)}
<1>1. Len(poly) = w
  BY BitsLen
<1>2. T = {}
  <2> SUFFICES ASSUME T # {} PROVE FALSE
    OBVIOUS
  <2>1. PICK n \in T : \A k \in T : ~(<<k, n>> \in OpToRel(<, Nat))
    BY NatLessThanWellFounded, WFMin
  <2>2. n \in Nat /\ n >= w /\ ~\E f : Division(f, d, n, poly)
    OBVIOUS
  <2>3. CASE n = w
    <3>1. PICK f : f = [k \in w .. w |-> [i \in 1 .. k |-> d[i]]]
      OBVIOUS
    <3>2. \A k \in w .. w : k = w
      OBVIOUS
    <3>3. Division(f, d, w, poly)
      BY <1>1, <3>1, <3>2 DEF Division
    <3> QED
      BY <2>2, <2>3, <3>3
  <2>4. CASE n # w
    <3>1. PICK m \in Nat : m = n - 1 /\ m >= w /\ m < n
      BY <2>2, <2>4
    <3>2. <<m, n>> \in OpToRel(<, Nat)
      BY <2>2, <3>1 DEF OpToRel
    <3>3. PICK f : Division(f, d, m, poly)
      BY <2>1, <3>1, <3>2
    <3>4. PICK x : x = Divide(f[m], d[n], poly)
      OBVIOUS
    <3>5. PICK g : g = [k \in w .. n |-> IF k <= m THEN f[k] ELSE x]
      OBVIOUS
    <3>6. ASSUME NEW k \in w .. n
          PROVE  g[k] = IF k = w THEN [i \in 1 .. k |-> d[i]] ELSE Divide(g[k - 1], d[k], poly)
      <4>1. CASE k = w
        <5>1. k \in w .. m /\ k \in w .. n /\ k <= m
          BY <3>1, <4>1
        <5>2. f[k] = [i \in 1 .. k |-> d[i]]
          BY <1>1, <3>3, <4>1, <5>1 DEF Division
        <5> QED
          BY <3>5, <4>1, <5>1, <5>2
      <4>2. CASE k # w /\ k <= m
        <5>1. k \in w .. m /\ k - 1 \in w .. n /\ k - 1 <= m
          BY <3>1, <4>2
        <5>2. f[k] = Divide(f[k - 1], d[k], poly)
          BY <1>1, <3>3, <4>2, <5>1 DEF Division
        <5>3. g[k] = f[k] /\ g[k - 1] = f[k - 1]
          BY <3>5, <4>2, <5>1
        <5> QED
          BY <4>2, <5>2, <5>3
      <4>3. CASE k # w /\ ~(k <= m)
        <5>1. k = n /\ k - 1 = m /\ m \in w .. n /\ m <= m
          BY <2>2, <3>1, <4>3
        <5>2. g[k] = x /\ g[m] = f[m]
          BY <3>5, <4>3, <5>1
        <5> QED
          BY <3>4, <4>3, <5>1, <5>2
      <4> QED
        BY <4>1, <4>2, <4>3
    <3>7. g = [k \in w .. n |-> IF k = w THEN [i \in 1 .. k |-> d[i]]
                               ELSE Divide(g[k - 1], d[k], poly)]
      BY <3>5, <3>6
    <3>8. Division(g, d, n, poly)
      BY <1>1, <3>7 DEF Division
    <3> QED
      BY <2>2, <3>8
  <2> QED
    BY <2>3, <2>4
<1> QED
  BY <1>2

\* What follows the first bit of c differs from what follows that of a in the
\* bits of v.
NextDiffer(a, c, v, w) == \A i \in 1 .. w : i < w => c[i + 1] = Bit(a[i + 1], v[i])

\* A step with words that differ in the bits of v only.
LEMMA DivideBoth ==
  ASSUME NEW w \in Nat, w > 0, NEW a \in Bits(w), NEW c \in Bits(w), NEW v \in Bits(w),
         NEW d \in {0, 1}, NEW e \in {0, 1}, NEW poly \in Bits(w),
         a[1] = c[1], e = Bit(d, v[w]), NextDiffer(a, c, v, w)
  PROVE  \A i \in 1 .. w : Divide(c, e, poly)[i] = Bit(Divide(a, d, poly)[i], v[i])
<1>1. PICK x \in Bits(w) :
        /\ \A i \in 1 .. w : x[i] = IF i < w THEN a[i + 1] ELSE d
        /\ Divide(a, d, poly) = IF a[1] = 1 THEN Xor(x, poly) ELSE x
  BY DivideBits
<1>2. PICK y \in Bits(w) :
        /\ \A i \in 1 .. w : y[i] = IF i < w THEN c[i + 1] ELSE e
        /\ Divide(c, e, poly) = IF c[1] = 1 THEN Xor(y, poly) ELSE y
  BY DivideBits
<1>3. \A i \in 1 .. w : i < w \/ i = w
  OBVIOUS
<1>4. \A i \in 1 .. w : y[i] = Bit(x[i], v[i])
  BY <1>1, <1>2, <1>3 DEF NextDiffer
<1>5. \A i \in 1 .. w : poly[i] \in {0, 1} /\ x[i] \in {0, 1} /\ v[i] \in {0, 1}
  BY DEF Bits
<1>6. CASE a[1] = 1
  <2>1. /\ \A i \in 1 .. w : Xor(x, poly)[i] = IF x[i] = poly[i] THEN 0 ELSE 1
        /\ \A i \in 1 .. w : Xor(y, poly)[i] = IF y[i] = poly[i] THEN 0 ELSE 1
    BY XorBits
  <2>2. Divide(a, d, poly) = Xor(x, poly) /\ Divide(c, e, poly) = Xor(y, poly)
    BY <1>1, <1>2, <1>6
  <2> QED
    BY <1>4, <1>5, <2>1, <2>2 DEF Bit
<1>7. CASE a[1] # 1
  BY <1>1, <1>2, <1>4, <1>7
<1> QED
  BY <1>6, <1>7

\* f has the words that a division leaves, up to a length of the dividend.
Leaves(f, d, w, total, poly) ==
  /\ \A n \in w .. total : f[n] \in Bits(w)
  /\ \A i \in 1 .. w : f[w][i] = d[i]
  /\ \A n \in w .. total : n > w => f[n] = Divide(f[n - 1], d[n], poly)

\* e is d with the bits of p, all of them after the first n.
Differ(d, e, p, n, total) ==
  \A k \in 1 .. total : /\ d[k] \in {0, 1} /\ p[k] \in {0, 1}
                        /\ e[k] = Bit(d[k], p[k]) /\ (k <= n => p[k] = 0)

\* Bits further to the right change no step before they reach the left end:
\* up to there they are only carried along.
LEMMA Carried ==
  ASSUME NEW w \in Nat, w > 0, NEW N \in Nat, NEW poly \in Bits(w),
         NEW D, NEW E, NEW P, NEW f, NEW g, NEW S, S = N + w,
         Differ(D, E, P, N, S), Leaves(f, D, w, S, poly), Leaves(g, E, w, S, poly)
  PROVE  \A i \in 1 .. w : g[S][i] = Bit(f[S][i], P[N + i])
<1>0. /\ \A k \in 1 .. (N + w) : /\ D[k] \in {0, 1} /\ P[k] \in {0, 1}
                                 /\ E[k] = Bit(D[k], P[k]) /\ (k <= N => P[k] = 0)
      /\ \A n \in w .. (N + w) : f[n] \in Bits(w) /\ g[n] \in Bits(w)
      /\ \A i \in 1 .. w : f[w][i] = D[i] /\ g[w][i] = E[i]
      /\ \A n \in w .. (N + w) : n > w => /\ f[n] = Divide(f[n - 1], D[n], poly)
                                          /\ g[n] = Divide(g[n - 1], E[n], poly)
  BY DEF Differ, Leaves
<1> DEFINE Ok(j) == \A i \in 1 .. w : g[w + j][i] = Bit(f[w + j][i], P[j + i])
           T == {j \in Nat : j <= N /\ ~Ok(j)}
<1>1. T = {}
  <2> SUFFICES ASSUME T # {} PROVE FALSE
    OBVIOUS
  <2>1. PICK j \in T : \A k \in T : ~(<<k, j>> \in OpToRel(<, Nat))
    BY NatLessThanWellFounded, WFMin
  <2>2. j \in Nat /\ j <= N /\ ~Ok(j)
    OBVIOUS
  <2>3. CASE j = 0
    <3>1. \A i \in 1 .. w : i \in 1 .. (N + w) /\ w + 0 = w /\ 0 + i = i
      OBVIOUS
    <3>2. Ok(0)
      BY <1>0, <3>1
    <3> QED
      BY <2>2, <2>3, <3>2
  <2>4. CASE j # 0
    <3>1. PICK k \in Nat : j = k + 1 /\ k < j /\ k <= N
      <4>1. j - 1 \in Nat /\ j = (j - 1) + 1 /\ j - 1 < j /\ j - 1 <= N
        BY <2>2, <2>4
      <4> QED
        BY <4>1
    <3>2. Ok(k)
      <4>1. <<k, j>> \in OpToRel(<, Nat)
        BY <2>2, <3>1 DEF OpToRel
      <4> QED
        BY <2>1, <3>1, <4>1
    <3>3. PICK n, m : n = w + j /\ m = w + k
      OBVIOUS
    <3>4. n \in w .. (N + w) /\ n > w /\ n - 1 = m /\ m \in w .. (N + w) /\ n \in 1 .. (N + w)
      BY <2>2, <3>1, <3>3
    <3>5. PICK a, c : a = f[m] /\ c = g[m]
      OBVIOUS
    <3>6. /\ a \in Bits(w) /\ c \in Bits(w)
          /\ f[n] = Divide(a, D[n], poly) /\ g[n] = Divide(c, E[n], poly)
          /\ D[n] \in {0, 1} /\ P[n] \in {0, 1} /\ E[n] = Bit(D[n], P[n])
      BY <1>0, <3>4, <3>5
    <3>7. \A i \in 1 .. w : c[i] = Bit(a[i], P[k + i])
      BY <3>2, <3>3, <3>5
    <3>8. a[1] \in {0, 1} /\ c[1] = a[1]
      <4>1. 1 \in 1 .. w /\ k + 1 = j /\ j \in 1 .. (N + w) /\ j <= N
        BY <2>2, <3>1
      <4>2. P[j] = 0 /\ c[1] = Bit(a[1], P[j])
        BY <1>0, <3>7, <4>1
      <4>3. a[1] \in {0, 1}
        BY <3>6, <4>1 DEF Bits
      <4> QED
        BY <4>2, <4>3 DEF Bit
    <3>9. PICK v : v = [i \in 1 .. w |-> P[j + i]]
      OBVIOUS
    <3>10. v \in Bits(w) /\ \A i \in 1 .. w : v[i] = P[j + i]
      <4>1. \A i \in 1 .. w : j + i \in 1 .. (N + w)
        BY <2>2
      <4> QED
        BY <1>0, <3>9, <4>1 DEF Bits
    <3>11. E[n] \in {0, 1} /\ E[n] = Bit(D[n], v[w])
      <4>1. w \in 1 .. w /\ j + w = n
        BY <2>2, <3>3
      <4> QED
        BY <3>6, <3>10, <4>1 DEF Bit
    <3>12. NextDiffer(a, c, v, w)
      <4> SUFFICES ASSUME NEW i \in 1 .. w, i < w PROVE c[i + 1] = Bit(a[i + 1], v[i])
        BY DEF NextDiffer
      <4>1. PICK l : l = i + 1
        OBVIOUS
      <4>2. l \in 1 .. w /\ k + l = j + i
        BY <2>2, <3>1, <4>1
      <4>3. c[l] = Bit(a[l], P[j + i])
        BY <3>7, <4>2
      <4> QED
        BY <3>10, <4>1, <4>3
    <3>13. \A i \in 1 .. w : g[n][i] = Bit(f[n][i], v[i])
      <4>1. PICK d, e : d = D[n] /\ e = E[n]
        OBVIOUS
      <4>2. /\ d \in {0, 1} /\ e \in {0, 1} /\ a[1] = c[1] /\ e = Bit(d, v[w])
            /\ a \in Bits(w) /\ c \in Bits(w) /\ v \in Bits(w)
        BY <3>6, <3>8, <3>10, <3>11, <4>1
      <4>3. \A i \in 1 .. w : Divide(c, e, poly)[i] = Bit(Divide(a, d, poly)[i], v[i])
        BY <3>12, <4>2, DivideBoth
      <4> QED
        BY <3>6, <4>1, <4>3
    <3>14. Ok(j)
      BY <3>3, <3>10, <3>13
    <3> QED
      BY <2>2, <3>14
  <2> QED
    BY <2>3, <2>4
<1>2. Ok(N)
  <2>1. N \in Nat /\ N <= N
    OBVIOUS
  <2> HIDE DEF Ok
  <2> QED
    BY <1>1, <2>1
<1>3. w + N = S
  OBVIOUS
<1> QED
  BY <1>2, <1>3

-----------------------------------------------------------------------------
(* A message with one byte more.                                           *)

Messages == Seq(Bits(8))

\* The bits of the dividend.
LEMMA DividendBits ==
  ASSUME NEW w \in Nat, NEW start \in Bits(w), NEW m \in Messages,
         NEW total, total = 8 * Len(m) + w
  PROVE  /\ total \in Nat
         /\ Dividend(m, start) \in Bits(total)
         /\ \A i \in 1 .. total :
              /\ MessageBit(m, i) \in {0, 1}
              /\ Dividend(m, start)[i] =
                   IF i <= w /\ start[i] = 1 THEN 1 - MessageBit(m, i) ELSE MessageBit(m, i)
<1>1. Len(start) = w
  BY BitsLen
<1>2. Len(m) \in Nat /\ 8 * Len(m) + w \in Nat
  BY DEF Messages
<1>3. PICK n \in Nat : n = Len(m) /\ total = 8 * n + w
  BY <1>2
<1>4. ASSUME NEW i \in 1 .. (8 * n + w) PROVE MessageBit(m, i) \in {0, 1}
  <2>1. CASE i <= 8 * n
    <3>1. PICK q, r : q = ((i - 1) \div 8) + 1 /\ r = ((i - 1) % 8) + 1
      OBVIOUS
    <3>2. q \in 1 .. n /\ r \in 1 .. 8
      BY <2>1, <3>1
    <3>3. m[q] \in Bits(8)
      BY <1>3, <3>2 DEF Messages
    <3>4. m[q][r] \in {0, 1}
      BY <3>2, <3>3 DEF Bits
    <3> QED
      BY <1>3, <2>1, <3>1, <3>4 DEF MessageBit
  <2>2. CASE ~(i <= 8 * n)
    BY <1>3, <2>2 DEF MessageBit
  <2> QED
    BY <2>1, <2>2
<1>5. Dividend(m, start) =
        [i \in 1 .. (8 * n + w) |->
           IF i <= w /\ start[i] = 1 THEN 1 - MessageBit(m, i) ELSE MessageBit(m, i)]
  BY <1>1, <1>3 DEF Dividend
<1>6. \A i \in 1 .. (8 * n + w) :
        (IF i <= w /\ start[i] = 1 THEN 1 - MessageBit(m, i) ELSE MessageBit(m, i)) \in {0, 1}
  BY <1>4
<1> QED
  BY <1>2, <1>3, <1>4, <1>5, <1>6 DEF Bits

\* A byte more sets eight bits after those of the message.
LEMMA BitsOfAppend ==
  ASSUME NEW m \in Messages, NEW p \in Bits(8), NEW n \in Nat, n = Len(m), NEW i \in Nat, i > 0
  PROVE  /\ Len(Append(m, p)) = n + 1
         /\ i <= 8 * n => MessageBit(Append(m, p), i) = MessageBit(m, i)
         /\ i > 8 * n => MessageBit(m, i) = 0
         /\ i > 8 * n /\ i <= 8 * n + 8 => MessageBit(Append(m, p), i) = p[i - 8 * n]
         /\ i > 8 * n + 8 => MessageBit(Append(m, p), i) = 0
<1>1. PICK a : a = Append(m, p)
  OBVIOUS
<1>2. Len(a) = n + 1 /\ (\A k \in 1 .. n : a[k] = m[k]) /\ a[n + 1] = p
  BY <1>1 DEF Messages
<1>3. PICK q, r : q = ((i - 1) \div 8) + 1 /\ r = ((i - 1) % 8) + 1
  OBVIOUS
<1>4. MessageBit(a, i) = IF i <= 8 * (n + 1) THEN a[q][r] ELSE 0
  BY <1>2, <1>3 DEF MessageBit
<1>5. MessageBit(m, i) = IF i <= 8 * n THEN m[q][r] ELSE 0
  BY <1>3 DEF MessageBit
<1>6. CASE i <= 8 * n
  <2>1. q \in 1 .. n /\ i <= 8 * (n + 1)
    BY <1>3, <1>6
  <2> QED
    BY <1>1, <1>2, <1>4, <1>5, <1>6, <2>1
<1>7. CASE i > 8 * n /\ i <= 8 * n + 8
  <2>1. q = n + 1 /\ r = i - 8 * n /\ i <= 8 * (n + 1)
    BY <1>3, <1>7
  <2> QED
    BY <1>1, <1>2, <1>4, <1>5, <1>7, <2>1
<1>8. CASE i > 8 * n + 8
  <2>1. ~(i <= 8 * (n + 1)) /\ ~(i <= 8 * n)
    BY <1>8
  <2> QED
    BY <1>1, <1>2, <1>4, <1>5, <1>8, <2>1
<1> QED
  BY <1>6, <1>7, <1>8

\* Dividend and remainder of no bytes: the initial value.
LEMMA ResidueOfNothing ==
  ASSUME NEW w \in Nat, w > 0, NEW start \in Bits(w), NEW poly \in Bits(w)
  PROVE  Residue(<<>>, start, poly) = start
<1>1. <<>> \in Messages /\ Len(<<>>) = 0
  BY DEF Messages
<1>2. PICK d : d = Dividend(<<>>, start)
  OBVIOUS
<1>3. /\ d \in Bits(w)
      /\ \A i \in 1 .. w : d[i] = IF start[i] = 1 THEN 1 - MessageBit(<<>>, i)
                                  ELSE MessageBit(<<>>, i)
  <2>1. 8 * Len(<<>>) + w = w
    BY <1>1
  <2>2. \A i \in 1 .. w : i <= w
    OBVIOUS
  <2> QED
    BY <1>1, <1>2, <2>1, <2>2, DividendBits
<1>4. \A i \in 1 .. w : MessageBit(<<>>, i) = 0
  BY <1>1 DEF MessageBit
<1>5. d = start
  <2>1. \A i \in 1 .. w : start[i] \in {0, 1}
    BY DEF Bits
  <2>2. \A i \in 1 .. w : d[i] = start[i]
    BY <1>3, <1>4, <2>1
  <2> QED
    BY <1>3, <2>2, SameBits
<1>6. PICK f : Division(f, d, w, poly)
  BY DivisionExists
<1>7. PICK g : Division(g, d, w, poly) /\ Remainder(d, w, poly) = g[w]
  BY <1>6, DivisionLoop
<1>8. g[w] \in Bits(w) /\ \A i \in 1 .. w : g[w][i] = d[i]
  BY <1>3, <1>7, DivisionSteps
<1>9. g[w] = d
  BY <1>3, <1>8, SameBits
<1>10. Len(start) = w /\ 8 * 0 + w = w
  BY BitsLen
<1> QED
  BY <1>1, <1>2, <1>5, <1>7, <1>9, <1>10 DEF Residue

\* A byte more in the message updates the remainder as it does a CRC.
LEMMA ResidueOfAppend ==
  ASSUME NEW w \in Nat, w >= 8, NEW start \in Bits(w), NEW poly \in Bits(w),
         NEW m \in Messages, NEW p \in Bits(8)
  PROVE  /\ Residue(m, start, poly) \in Bits(w)
         /\ Residue(Append(m, p), start, poly) = Updated(Residue(m, start, poly), p, w, poly)
<1>1. PICK n \in Nat, N \in Nat : n = Len(m) /\ N = 8 * n
  BY DEF Messages
<1>2. PICK a \in Messages : a = Append(m, p)
  <2>1. Append(m, p) \in Messages
    BY AppendProperties DEF Messages
  <2> QED
    BY <2>1
<1>3. Len(a) = n + 1
  BY <1>1, <1>2 DEF Messages
<1>4. PICK D, E : D = Dividend(m, start) /\ E = Dividend(a, start)
  OBVIOUS
<1>5. PICK S \in Nat, L \in Nat : S = N + w /\ L = N + w + 8
  OBVIOUS
<1>6. /\ D \in Bits(S)
      /\ \A i \in 1 .. S :
           /\ MessageBit(m, i) \in {0, 1}
           /\ D[i] = IF i <= w /\ start[i] = 1 THEN 1 - MessageBit(m, i) ELSE MessageBit(m, i)
  <2>1. S = 8 * Len(m) + w
    BY <1>1, <1>5
  <2>2. /\ Dividend(m, start) \in Bits(S)
        /\ \A i \in 1 .. S :
              /\ MessageBit(m, i) \in {0, 1}
              /\ Dividend(m, start)[i] =
                   IF i <= w /\ start[i] = 1 THEN 1 - MessageBit(m, i) ELSE MessageBit(m, i)
    BY <2>1, DividendBits
  <2> QED
    BY <1>4, <2>2
<1>7. /\ E \in Bits(L)
      /\ \A i \in 1 .. L :
           /\ MessageBit(a, i) \in {0, 1}
           /\ E[i] = IF i <= w /\ start[i] = 1 THEN 1 - MessageBit(a, i) ELSE MessageBit(a, i)
  <2>1. L = 8 * Len(a) + w
    BY <1>1, <1>3, <1>5
  <2>2. /\ Dividend(a, start) \in Bits(L)
        /\ \A i \in 1 .. L :
              /\ MessageBit(a, i) \in {0, 1}
              /\ Dividend(a, start)[i] =
                   IF i <= w /\ start[i] = 1 THEN 1 - MessageBit(a, i) ELSE MessageBit(a, i)
    BY <2>1, DividendBits
  <2> QED
    BY <1>4, <2>2
<1>8. ASSUME NEW i \in 1 .. L
      PROVE  /\ i <= N => MessageBit(a, i) = MessageBit(m, i)
             /\ i > N => MessageBit(m, i) = 0
             /\ i > N /\ i <= N + 8 => MessageBit(a, i) = p[i - N]
             /\ i > N + 8 => MessageBit(a, i) = 0
  <2>1. i \in Nat /\ i > 0
    OBVIOUS
  <2> QED
    BY <1>1, <1>2, <2>1, BitsOfAppend, SMTT(30)
<1>9. PICK P : P = [i \in 1 .. S |-> IF i > N /\ i <= N + 8 THEN p[i - N] ELSE 0]
  OBVIOUS
<1>10. \A i \in 1 .. S : P[i] \in {0, 1} /\ (i <= N => P[i] = 0)
  <2>1. \A i \in 1 .. S : i > N /\ i <= N + 8 => i - N \in 1 .. 8
    OBVIOUS
  <2>2. \A i \in 1 .. 8 : p[i] \in {0, 1}
    BY DEF Bits
  <2> QED
    BY <1>9, <2>1, <2>2, SMTT(30)
<1>11. ASSUME NEW i \in 1 .. S PROVE E[i] = Bit(D[i], P[i]) /\ D[i] \in {0, 1}
  <2>1. i \in 1 .. L
    BY <1>5
  <2>2. D[i] \in {0, 1}
    BY <1>6 DEF Bits
  <2>3. CASE i <= N
    <3>1. MessageBit(a, i) = MessageBit(m, i) /\ P[i] = 0
      BY <1>8, <1>10, <2>1, <2>3
    <3>2. E[i] = D[i]
      BY <1>6, <1>7, <2>1, <3>1
    <3> QED
      BY <2>2, <3>1, <3>2 DEF Bit
  <2>4. CASE i > N
    <3>1. MessageBit(m, i) = 0 /\ MessageBit(a, i) = P[i] /\ P[i] \in {0, 1}
      <4>1. P[i] = IF i <= N + 8 THEN p[i - N] ELSE 0
        BY <1>9, <2>4
      <4>2. MessageBit(m, i) = 0
        BY <1>8, <2>1, <2>4
      <4>3. MessageBit(a, i) = IF i <= N + 8 THEN p[i - N] ELSE 0
        <5>1. i <= N + 8 => MessageBit(a, i) = p[i - N]
          BY <1>8, <2>1, <2>4
        <5>2. ~(i <= N + 8) => MessageBit(a, i) = 0
          BY <1>8, <2>1, <2>4
        <5> QED
          BY <5>1, <5>2
      <4> QED
        BY <1>10, <4>1, <4>2, <4>3
    <3>2. /\ D[i] = IF i <= w /\ start[i] = 1 THEN 1 - 0 ELSE 0
          /\ E[i] = IF i <= w /\ start[i] = 1 THEN 1 - P[i] ELSE P[i]
      BY <1>6, <1>7, <2>1, <3>1
    <3> QED
      BY <2>2, <3>1, <3>2 DEF Bit
  <2> QED
    BY <2>2, <2>3, <2>4
<1>12. \A i \in 1 .. L : i > S => E[i] = 0
  <2>1. \A i \in 1 .. L : i > S => i > N + 8 /\ ~(i <= w)
    BY <1>5
  <2> QED
    BY <1>7, <1>8, <2>1
<1>13. w > 0 /\ S >= w /\ L >= w /\ S <= L
  BY <1>5
<1>14. PICK f : Division(f, D, S, poly) /\ Remainder(D, S, poly) = f[S]
  <2>1. \E f : Division(f, D, S, poly)
    BY <1>13, DivisionExists
  <2> QED
    BY <2>1, DivisionLoop
<1>15. PICK g : Division(g, E, L, poly) /\ Remainder(E, L, poly) = g[L]
  <2>1. \E g : Division(g, E, L, poly)
    BY <1>13, DivisionExists
  <2> QED
    BY <2>1, DivisionLoop
<1>16. /\ \A i \in 1 .. w : f[w][i] = D[i]
       /\ \A k \in w .. S : k > w => f[k] = Divide(f[k - 1], D[k], poly)
       /\ \A k \in w .. S : f[k] \in Bits(w)
  BY <1>6, <1>13, <1>14, DivisionSteps, DivisionBits
<1>17. /\ \A i \in 1 .. w : g[w][i] = E[i]
       /\ \A k \in w .. L : k > w => g[k] = Divide(g[k - 1], E[k], poly)
       /\ \A k \in w .. L : g[k] \in Bits(w)
  BY <1>7, <1>13, <1>15, DivisionSteps, DivisionBits
<1>18. \A i \in 1 .. w : g[S][i] = Bit(f[S][i], P[N + i])
  <2>1. Leaves(f, D, w, S, poly)
    BY <1>16 DEF Leaves
  <2>2. Leaves(g, E, w, S, poly)
    <3>1. \A k \in w .. S : k \in w .. L
      BY <1>13
    <3> QED
      BY <1>17, <3>1 DEF Leaves
  <2>3. Differ(D, E, P, N, S)
    BY <1>10, <1>11 DEF Differ
  <2> QED
    BY <1>5, <1>13, <2>1, <2>2, <2>3, Carried
<1>19. f[S] \in Bits(w) /\ g[S] \in Bits(w)
  <2>1. S \in w .. S /\ S \in w .. L
    BY <1>13
  <2> QED
    BY <1>16, <1>17, <2>1
<1>20. g[S] = Xor(f[S], AtTop(p, w))
  <2>1. PICK t : t = AtTop(p, w)
    OBVIOUS
  <2>2. t \in Bits(w) /\ \A i \in 1 .. w : t[i] = IF i <= 8 THEN p[i] ELSE 0
    BY <2>1, AtBits
  <2>3. ASSUME NEW i \in 1 .. w PROVE P[N + i] = t[i]
    <3>1. PICK k : k = N + i
      OBVIOUS
    <3>2. k \in 1 .. S /\ k > N /\ (k <= N + 8 <=> i <= 8) /\ k - N = i
      BY <1>5, <3>1
    <3> QED
      BY <1>9, <2>2, <3>1, <3>2
  <2>4. /\ Xor(f[S], t) \in Bits(w)
        /\ \A i \in 1 .. w : Xor(f[S], t)[i] = IF f[S][i] = t[i] THEN 0 ELSE 1
    BY <1>19, <2>2, XorBits
  <2>5. \A i \in 1 .. w : g[S][i] = Xor(f[S], t)[i]
    BY <1>18, <2>3, <2>4 DEF Bit
  <2> QED
    BY <1>19, <2>1, <2>4, <2>5, SameBits
<1>21. g[L] = Rounds(g[S], poly)
  <2>1. ASSUME NEW k \in S .. (L - 1) PROVE g[k + 1] = Round(g[k], poly)
    <3>1. PICK l : l = k + 1
      OBVIOUS
    <3>2. l \in w .. L /\ l > w /\ l - 1 = k /\ k \in w .. L /\ l \in 1 .. L /\ l > S
      BY <1>5, <1>13, <3>1
    <3>3. E[l] = 0 /\ g[k] \in Bits(w) /\ g[l] = Divide(g[k], E[l], poly)
      BY <1>12, <1>17, <3>2
    <3>4. Divide(g[k], 0, poly) = Round(g[k], poly)
      BY <1>13, <3>3, DivideZero
    <3> QED
      BY <3>1, <3>3, <3>4
  <2>2. /\ S \in S .. (L - 1) /\ S + 1 \in S .. (L - 1) /\ S + 2 \in S .. (L - 1)
        /\ S + 3 \in S .. (L - 1) /\ S + 4 \in S .. (L - 1) /\ S + 5 \in S .. (L - 1)
        /\ S + 6 \in S .. (L - 1) /\ S + 7 \in S .. (L - 1)
        /\ (S + 1) + 1 = S + 2 /\ (S + 2) + 1 = S + 3 /\ (S + 3) + 1 = S + 4
        /\ (S + 4) + 1 = S + 5 /\ (S + 5) + 1 = S + 6 /\ (S + 6) + 1 = S + 7
        /\ (S + 7) + 1 = L
    BY <1>5
  <2>3. /\ g[S + 1] = Round(g[S], poly) /\ g[S + 2] = Round(g[S + 1], poly)
        /\ g[S + 3] = Round(g[S + 2], poly) /\ g[S + 4] = Round(g[S + 3], poly)
        /\ g[S + 5] = Round(g[S + 4], poly) /\ g[S + 6] = Round(g[S + 5], poly)
        /\ g[S + 7] = Round(g[S + 6], poly) /\ g[L] = Round(g[S + 7], poly)
    BY <2>1, <2>2
  <2> QED
    BY <2>3, EightRounds
<1>22. Rounds(Xor(f[S], AtTop(p, w)), poly) = Updated(f[S], p, w, poly)
  BY <1>19, ByteByTable
<1>23. Residue(m, start, poly) = f[S] /\ Residue(a, start, poly) = g[L]
  <2>1. Len(start) = w
    BY BitsLen
  <2>2. 8 * Len(m) + Len(start) = S /\ 8 * Len(a) + Len(start) = L
    BY <1>1, <1>3, <1>5, <2>1
  <2> QED
    BY <1>4, <1>14, <1>15, <2>2 DEF Residue
<1> QED
  BY <1>2, <1>19, <1>20, <1>21, <1>22, <1>23

-----------------------------------------------------------------------------
(* The reflected CRC is the mirror image.                                  *)

\* Reversing a word twice gives it back.
LEMMA ReverseTwice ==
  ASSUME NEW w \in Nat, NEW c \in Bits(w)
  PROVE  Reverse(Reverse(c)) = c
<1>1. PICK r : r = Reverse(c)
  OBVIOUS
<1>2. r \in Bits(w) /\ \A i \in 1 .. w : r[i] = c[w + 1 - i]
  BY <1>1, ReverseBits
<1>3. Reverse(r) \in Bits(w) /\ \A i \in 1 .. w : Reverse(r)[i] = r[w + 1 - i]
  BY <1>2, ReverseBits
<1>4. \A i \in 1 .. w : w + 1 - i \in 1 .. w /\ w + 1 - (w + 1 - i) = i
  OBVIOUS
<1>5. \A i \in 1 .. w : Reverse(r)[i] = c[i]
  BY <1>2, <1>3, <1>4
<1> QED
  BY <1>1, <1>3, <1>5, SameBits

\* The image of an exclusive or.
LEMMA ReverseXor ==
  ASSUME NEW w \in Nat, NEW a \in Bits(w), NEW b \in Bits(w)
  PROVE  Reverse(Xor(a, b)) = Xor(Reverse(a), Reverse(b))
<1>1. PICK x, ra, rb : x = Xor(a, b) /\ ra = Reverse(a) /\ rb = Reverse(b)
  OBVIOUS
<1>2. x \in Bits(w) /\ \A i \in 1 .. w : x[i] = IF a[i] = b[i] THEN 0 ELSE 1
  BY <1>1, XorBits
<1>3. /\ ra \in Bits(w) /\ \A i \in 1 .. w : ra[i] = a[w + 1 - i]
      /\ rb \in Bits(w) /\ \A i \in 1 .. w : rb[i] = b[w + 1 - i]
  BY <1>1, ReverseBits
<1>4. Reverse(x) \in Bits(w) /\ \A i \in 1 .. w : Reverse(x)[i] = x[w + 1 - i]
  BY <1>2, ReverseBits
<1>5. Xor(ra, rb) \in Bits(w) /\ \A i \in 1 .. w : Xor(ra, rb)[i] = IF ra[i] = rb[i] THEN 0 ELSE 1
  BY <1>3, XorBits
<1>6. \A i \in 1 .. w : w + 1 - i \in 1 .. w
  OBVIOUS
<1>7. \A i \in 1 .. w : Reverse(x)[i] = Xor(ra, rb)[i]
  BY <1>2, <1>3, <1>4, <1>5, <1>6
<1> QED
  BY <1>1, <1>4, <1>5, <1>7, SameBits

\* The image of a shift.
LEMMA ReverseShift ==
  ASSUME NEW w \in Nat, NEW c \in Bits(w), NEW n \in Nat
  PROVE  Reverse(ShiftRight(c, n)) = ShiftLeft(Reverse(c), n)
<1>1. PICK s, r, l : s = ShiftRight(c, n) /\ r = Reverse(c) /\ l = ShiftLeft(r, n)
  OBVIOUS
<1>2. s \in Bits(w) /\ \A i \in 1 .. w : s[i] = IF i > n THEN c[i - n] ELSE 0
  BY <1>1, ShiftBits
<1>3. r \in Bits(w) /\ \A i \in 1 .. w : r[i] = c[w + 1 - i]
  BY <1>1, ReverseBits
<1>4. l \in Bits(w) /\ \A i \in 1 .. w : l[i] = IF i + n <= w THEN r[i + n] ELSE 0
  BY <1>1, <1>3, ShiftBits
<1>5. Reverse(s) \in Bits(w) /\ \A i \in 1 .. w : Reverse(s)[i] = s[w + 1 - i]
  BY <1>2, ReverseBits
<1>6. ASSUME NEW i \in 1 .. w PROVE Reverse(s)[i] = l[i]
  <2>1. PICK k : k = w + 1 - i
    OBVIOUS
  <2>2. k \in 1 .. w /\ Reverse(s)[i] = IF k > n THEN c[k - n] ELSE 0
    BY <1>2, <1>5, <2>1
  <2>3. CASE i + n <= w
    <3>1. i + n \in 1 .. w /\ w + 1 - (i + n) = k - n /\ k > n
      BY <2>1, <2>3
    <3> QED
      BY <1>3, <1>4, <2>2, <2>3, <3>1
  <2>4. CASE ~(i + n <= w)
    <3>1. ~(k > n)
      BY <2>1, <2>4
    <3> QED
      BY <1>4, <2>2, <2>4, <3>1
  <2> QED
    BY <2>3, <2>4
<1> QED
  BY <1>1, <1>4, <1>5, <1>6, SameBits

\* The image of a round.
LEMMA ReverseRound ==
  ASSUME NEW w \in Nat, w > 0, NEW c \in Bits(w), NEW poly \in Bits(w)
  PROVE  /\ RoundReflected(c, poly) \in Bits(w)
         /\ Reverse(RoundReflected(c, poly)) = Round(Reverse(c), Reverse(poly))
<1>1. PICK s : s = ShiftRight(c, 1)
  OBVIOUS
<1>2. 1 \in Nat
  OBVIOUS
<1>3. s \in Bits(w) /\ Reverse(s) = ShiftLeft(Reverse(c), 1)
  BY <1>1, <1>2, ShiftBits, ReverseShift
<1>4. Len(c) = w
  BY BitsLen
<1>5. Reverse(c)[1] = c[w]
  <2>1. 1 \in 1 .. w /\ w + 1 - 1 = w
    OBVIOUS
  <2> QED
    BY <2>1, ReverseBits
<1>6. Xor(s, poly) \in Bits(w) /\ Reverse(Xor(s, poly)) = Xor(Reverse(s), Reverse(poly))
  BY <1>3, XorBits, ReverseXor
<1>7. CASE c[w] = 1
  <2>1. RoundReflected(c, poly) = Xor(s, poly)
    BY <1>1, <1>4, <1>7 DEF RoundReflected
  <2>2. Round(Reverse(c), Reverse(poly)) = Xor(ShiftLeft(Reverse(c), 1), Reverse(poly))
    BY <1>5, <1>7 DEF Round
  <2> QED
    BY <1>3, <1>6, <2>1, <2>2
<1>8. CASE c[w] # 1
  <2>1. RoundReflected(c, poly) = s
    BY <1>1, <1>4, <1>8 DEF RoundReflected
  <2>2. Round(Reverse(c), Reverse(poly)) = ShiftLeft(Reverse(c), 1)
    BY <1>5, <1>8 DEF Round
  <2> QED
    BY <1>3, <2>1, <2>2
<1> QED
  BY <1>7, <1>8

\* The image of eight rounds.
LEMMA ReverseRounds ==
  ASSUME NEW w \in Nat, w > 0, NEW c \in Bits(w), NEW poly \in Bits(w)
  PROVE  /\ RoundsReflected(c, poly) \in Bits(w)
         /\ Reverse(RoundsReflected(c, poly)) = Rounds(Reverse(c), Reverse(poly))
<1>1. \A x \in Bits(w) : /\ RoundReflected(x, poly) \in Bits(w)
                         /\ Reverse(RoundReflected(x, poly)) = Round(Reverse(x), Reverse(poly))
  BY ReverseRound
<1>2. PICK c1, c2, c3, c4, c5, c6, c7, c8 :
        /\ c1 = RoundReflected(c, poly) /\ c2 = RoundReflected(c1, poly)
        /\ c3 = RoundReflected(c2, poly) /\ c4 = RoundReflected(c3, poly)
        /\ c5 = RoundReflected(c4, poly) /\ c6 = RoundReflected(c5, poly)
        /\ c7 = RoundReflected(c6, poly) /\ c8 = RoundReflected(c7, poly)
  OBVIOUS
<1>3. /\ c1 \in Bits(w) /\ c2 \in Bits(w) /\ c3 \in Bits(w) /\ c4 \in Bits(w)
      /\ c5 \in Bits(w) /\ c6 \in Bits(w) /\ c7 \in Bits(w) /\ c8 \in Bits(w)
  BY <1>1, <1>2
<1>4. RoundsReflected(c, poly) = c8
  BY <1>2 DEF RoundsReflected
<1>5. /\ Reverse(c1) = Round(Reverse(c), Reverse(poly))
      /\ Reverse(c2) = Round(Reverse(c1), Reverse(poly))
      /\ Reverse(c3) = Round(Reverse(c2), Reverse(poly))
      /\ Reverse(c4) = Round(Reverse(c3), Reverse(poly))
      /\ Reverse(c5) = Round(Reverse(c4), Reverse(poly))
      /\ Reverse(c6) = Round(Reverse(c5), Reverse(poly))
      /\ Reverse(c7) = Round(Reverse(c6), Reverse(poly))
      /\ Reverse(c8) = Round(Reverse(c7), Reverse(poly))
  BY <1>1, <1>2, <1>3
<1>6. Rounds(Reverse(c), Reverse(poly)) = Reverse(c8)
  BY <1>5, EightRounds
<1> QED
  BY <1>3, <1>4, <1>6

\* The image of a word with a byte at its end, and of the lowest byte.
LEMMA ReverseBytes ==
  ASSUME NEW w \in Nat, w >= 8, NEW c \in Bits(w), NEW p \in Bits(8)
  PROVE  /\ Reverse(AtBottom(p, w)) = AtTop(Reverse(p), w)
         /\ Reverse(LowByte(c)) = HighByte(Reverse(c))
<1>1. PICK q : q = Reverse(p)
  OBVIOUS
<1>2. q \in Bits(8) /\ \A i \in 1 .. 8 : q[i] = p[8 + 1 - i]
  <2>1. 8 \in Nat
    OBVIOUS
  <2> QED
    BY <1>1, <2>1, ReverseBits
<1>3. PICK a, t : a = AtBottom(p, w) /\ t = AtTop(q, w)
  OBVIOUS
<1>4. /\ a \in Bits(w) /\ \A i \in 1 .. w : a[i] = IF i > w - 8 THEN p[i - (w - 8)] ELSE 0
      /\ t \in Bits(w) /\ \A i \in 1 .. w : t[i] = IF i <= 8 THEN q[i] ELSE 0
  BY <1>2, <1>3, AtBits
<1>5. Reverse(a) \in Bits(w) /\ \A i \in 1 .. w : Reverse(a)[i] = a[w + 1 - i]
  BY <1>4, ReverseBits
<1>6. ASSUME NEW i \in 1 .. w PROVE Reverse(a)[i] = t[i]
  <2>1. PICK k : k = w + 1 - i
    OBVIOUS
  <2>2. k \in 1 .. w /\ (k > w - 8 <=> i <= 8) /\ k - (w - 8) = 8 + 1 - i
    BY <2>1
  <2>3. i <= 8 => q[i] = p[8 + 1 - i]
    BY <1>2
  <2> QED
    BY <1>4, <1>5, <2>1, <2>2, <2>3
<1>7. Reverse(a) = t
  BY <1>4, <1>5, <1>6, SameBits
<1>8. PICK r, l, h : r = Reverse(c) /\ l = LowByte(c) /\ h = HighByte(r)
  OBVIOUS
<1>9. r \in Bits(w) /\ \A i \in 1 .. w : r[i] = c[w + 1 - i]
  BY <1>8, ReverseBits
<1>10. /\ l \in Bits(8) /\ \A i \in 1 .. 8 : l[i] = c[w - 8 + i]
       /\ h \in Bits(8) /\ \A i \in 1 .. 8 : h[i] = r[i]
  BY <1>8, <1>9, ByteBits
<1>11. Reverse(l) \in Bits(8) /\ \A i \in 1 .. 8 : Reverse(l)[i] = l[8 + 1 - i]
  <2>1. 8 \in Nat
    OBVIOUS
  <2> QED
    BY <1>10, <2>1, ReverseBits
<1>12. ASSUME NEW i \in 1 .. 8 PROVE Reverse(l)[i] = h[i]
  <2>1. PICK k : k = 8 + 1 - i
    OBVIOUS
  <2>2. k \in 1 .. 8 /\ i \in 1 .. w /\ w - 8 + k = w + 1 - i
    BY <2>1
  <2> QED
    BY <1>9, <1>10, <1>11, <2>1, <2>2
<1>13. Reverse(l) = h
  <2>1. 8 \in Nat
    OBVIOUS
  <2> QED
    BY <1>10, <1>11, <1>12, <2>1, SameBits
<1> QED
  BY <1>1, <1>3, <1>7, <1>8, <1>13

-----------------------------------------------------------------------------
(* The registers.                                                          *)

\* The value of a CRC of w bits after a message.
Register(w, m) ==
  IF w = 8 THEN Residue(m, Fill(0, 8), Poly8)
  ELSE IF w = 16 THEN Residue(m, Fill(1, 16), Poly16)
  ELSE Reverse(Residue(Reflected(m), Fill(1, 32), Reverse(Poly32)))

\* The constants are words of their widths.
LEMMA Constants ==
  /\ Fill(0, 8) \in Bits(8) /\ Fill(1, 16) \in Bits(16) /\ Fill(1, 32) \in Bits(32)
  /\ Poly8 \in Bits(8) /\ Poly16 \in Bits(16) /\ Poly32 \in Bits(32)
  /\ Reverse(Poly32) \in Bits(32)
<1>1. 8 \in Nat /\ 16 \in Nat /\ 32 \in Nat
  OBVIOUS
<1>2. Fill(0, 8) \in Bits(8) /\ Fill(1, 16) \in Bits(16) /\ Fill(1, 32) \in Bits(32)
  BY DEF Bits, Fill
<1>3. ASSUME NEW w \in Nat, NEW S PROVE Word(w, S) \in Bits(w)
  BY DEF Word, Bits
<1>4. Poly8 \in Bits(8) /\ Poly16 \in Bits(16) /\ Poly32 \in Bits(32)
  BY <1>1, <1>3 DEF Poly8, Poly16, Poly32
<1> QED
  BY <1>1, <1>2, <1>4, ReverseBits

\* A message reversed byte by byte.
LEMMA ReflectedAppend ==
  ASSUME NEW m \in Messages, NEW p \in Bits(8)
  PROVE  /\ Reflected(m) \in Messages
         /\ Reverse(p) \in Bits(8)
         /\ Reflected(Append(m, p)) = Append(Reflected(m), Reverse(p))
<1>1. 8 \in Nat
  OBVIOUS
<1>2. \A c \in Bits(8) : Reverse(c) \in Bits(8)
  BY <1>1, ReverseBits
<1>3. PICK n \in Nat : n = Len(m)
  BY DEF Messages
<1>4. DOMAIN m = 1 .. n /\ \A i \in 1 .. n : m[i] \in Bits(8)
  BY <1>3 DEF Messages
<1>5. PICK r : r = Reflected(m)
  OBVIOUS
<1>6. r = [i \in 1 .. n |-> Reverse(m[i])]
  BY <1>4, <1>5 DEF Reflected
<1>7. r \in Messages /\ Len(r) = n
  BY <1>2, <1>3, <1>4, <1>6 DEF Messages
<1>8. PICK a \in Messages : a = Append(m, p)
  <2>1. Append(m, p) \in Messages
    BY AppendProperties DEF Messages
  <2> QED
    BY <2>1
<1>9. DOMAIN a = 1 .. (n + 1) /\ (\A i \in 1 .. n : a[i] = m[i]) /\ a[n + 1] = p
  BY <1>3, <1>8 DEF Messages
<1>10. Reflected(a) = [i \in 1 .. (n + 1) |-> Reverse(a[i])]
  BY <1>9 DEF Reflected
<1>11. PICK q : q = Reverse(p)
  OBVIOUS
<1>12. q \in Bits(8)
  BY <1>2, <1>11
<1>13. PICK b \in Messages : b = Append(r, q)
  <2>1. Append(r, q) \in Messages
    BY <1>7, <1>12, AppendProperties DEF Messages
  <2> QED
    BY <2>1
<1>14. Len(b) = n + 1 /\ (\A i \in 1 .. n : b[i] = r[i]) /\ b[n + 1] = q
  BY <1>7, <1>12, <1>13 DEF Messages
<1>15. b = [i \in 1 .. (n + 1) |-> b[i]]
  BY <1>14 DEF Messages
<1>16. \A i \in 1 .. (n + 1) : i \in 1 .. n \/ i = n + 1
  BY <1>3
<1>17. \A i \in 1 .. (n + 1) : b[i] = Reverse(a[i])
  BY <1>6, <1>9, <1>11, <1>14, <1>16
<1>18. b = Reflected(a)
  BY <1>10, <1>15, <1>17
<1> QED
  BY <1>5, <1>7, <1>8, <1>11, <1>12, <1>13, <1>18

\* With an empty message the register has its initial value.
LEMMA RegisterOfNothing ==
  ASSUME NEW w \in {8, 16, 32}
  PROVE  Register(w, <<>>) = InitOf(w)
<1>1. 8 \in Nat /\ 8 > 0 /\ 16 \in Nat /\ 16 > 0 /\ 32 \in Nat /\ 32 > 0
  OBVIOUS
<1>2. Residue(<<>>, Fill(0, 8), Poly8) = Fill(0, 8)
  BY <1>1, Constants, ResidueOfNothing
<1>3. Residue(<<>>, Fill(1, 16), Poly16) = Fill(1, 16)
  BY <1>1, Constants, ResidueOfNothing
<1>4. Residue(<<>>, Fill(1, 32), Reverse(Poly32)) = Fill(1, 32)
  BY <1>1, Constants, ResidueOfNothing
<1>5. Reflected(<<>>) = <<>>
  BY DEF Reflected
<1>6. Reverse(Fill(1, 32)) = Fill(1, 32)
  <2>1. /\ Reverse(Fill(1, 32)) \in Bits(32)
        /\ \A i \in 1 .. 32 : Reverse(Fill(1, 32))[i] = Fill(1, 32)[32 + 1 - i]
    BY <1>1, Constants, ReverseBits
  <2>2. \A i \in 1 .. 32 : Fill(1, 32)[i] = 1
    BY DEF Fill
  <2>3. \A i \in 1 .. 32 : 32 + 1 - i \in 1 .. 32
    OBVIOUS
  <2>4. \A i \in 1 .. 32 : Reverse(Fill(1, 32))[i] = Fill(1, 32)[i]
    BY <2>1, <2>2, <2>3
  <2> QED
    BY <1>1, <2>1, <2>4, Constants, SameBits
<1> QED
  BY <1>2, <1>3, <1>4, <1>5, <1>6 DEF Register, InitOf, crc8_init, crc16_init, crc32_init

\* CRC-8 has no bits beside the byte: its entry is the whole update.
LEMMA Crc8Update ==
  ASSUME NEW c \in Bits(8), NEW p \in Bits(8)
  PROVE  crc8_update(c, p, TRUE) = Updated(c, p, 8, Poly8)
<1>1. 8 \in Nat /\ 8 >= 8 /\ 8 > 0
  OBVIOUS
<1>2. PICK h : h = HighByte(c)
  OBVIOUS
<1>3. h \in Bits(8) /\ \A i \in 1 .. 8 : h[i] = c[i]
  BY <1>1, <1>2, ByteBits
<1>4. h = c
  BY <1>1, <1>3, SameBits
<1>5. PICK x : x = Xor(c, p)
  OBVIOUS
<1>6. x \in Bits(8)
  BY <1>1, <1>5, XorBits
<1>7. AtTop(x, 8) = x
  <2>1. AtTop(x, 8) \in Bits(8) /\ \A i \in 1 .. 8 : AtTop(x, 8)[i] = IF i <= 8 THEN x[i] ELSE 0
    BY <1>1, <1>6, AtBits
  <2>2. \A i \in 1 .. 8 : AtTop(x, 8)[i] = x[i]
    BY <2>1
  <2> QED
    BY <1>1, <1>6, <2>1, <2>2, SameBits
<1>8. PICK r : r = Rounds(x, Poly8)
  OBVIOUS
<1>9. r \in Bits(8)
  BY <1>1, <1>6, <1>8, Constants, RoundsBits
<1>10. PICK s : s = ShiftLeft(c, 8)
  OBVIOUS
<1>11. s \in Bits(8) /\ \A i \in 1 .. 8 : s[i] = 0
  <2>1. s \in Bits(8) /\ \A i \in 1 .. 8 : s[i] = IF i + 8 <= 8 THEN c[i + 8] ELSE 0
    BY <1>1, <1>10, ShiftsUsed
  <2>2. \A i \in 1 .. 8 : ~(i + 8 <= 8)
    OBVIOUS
  <2> QED
    BY <2>1, <2>2
<1>12. Xor(s, r) = r
  <2>1. Xor(s, r) \in Bits(8) /\ \A i \in 1 .. 8 : Xor(s, r)[i] = IF s[i] = r[i] THEN 0 ELSE 1
    BY <1>1, <1>9, <1>11, XorBits
  <2>2. \A i \in 1 .. 8 : r[i] \in {0, 1}
    BY <1>9 DEF Bits
  <2>3. \A i \in 1 .. 8 : Xor(s, r)[i] = r[i]
    BY <1>11, <2>1, <2>2
  <2> QED
    BY <1>1, <1>9, <2>1, <2>3, SameBits
<1>13. crc8_update(c, p, TRUE) = r
  BY <1>5, <1>8 DEF crc8_update, crc8_build_table
<1>14. Updated(c, p, 8, Poly8) = Xor(s, r)
  BY <1>2, <1>4, <1>5, <1>7, <1>8, <1>10 DEF Updated
<1> QED
  BY <1>12, <1>13, <1>14

\* CRC-16 is as described.
LEMMA Crc16Update ==
  ASSUME NEW c, NEW p
  PROVE  crc16_update(c, p, TRUE) = Updated(c, p, 16, Poly16)
  BY DEF crc16_update, crc16_build_table, Updated

\* CRC-32 is its mirror image.
LEMMA Crc32Update ==
  ASSUME NEW c \in Bits(32), NEW p \in Bits(8)
  PROVE  Reverse(crc32_update(c, p, TRUE)) = Updated(Reverse(c), Reverse(p), 32, Reverse(Poly32))
         /\ crc32_update(c, p, TRUE) \in Bits(32)
<1>1. 8 \in Nat /\ 32 \in Nat /\ 32 >= 8 /\ 32 > 0
  OBVIOUS
<1>2. PICK l : l = LowByte(c)
  OBVIOUS
<1>3. l \in Bits(8) /\ Reverse(l) = HighByte(Reverse(c))
  BY <1>1, <1>2, ByteBits, ReverseBytes
<1>4. PICK x : x = Xor(l, p)
  OBVIOUS
<1>5. x \in Bits(8) /\ Reverse(x) = Xor(HighByte(Reverse(c)), Reverse(p))
  BY <1>1, <1>3, <1>4, XorBits, ReverseXor
<1>6. PICK a : a = AtBottom(x, 32)
  OBVIOUS
<1>7. a \in Bits(32) /\ Reverse(a) = AtTop(Reverse(x), 32)
  BY <1>1, <1>5, <1>6, AtBits, ReverseBytes
<1>8. PICK r : r = RoundsReflected(a, Poly32)
  OBVIOUS
<1>9. r \in Bits(32) /\ Reverse(r) = Rounds(Reverse(a), Reverse(Poly32))
  BY <1>1, <1>7, <1>8, Constants, ReverseRounds
<1>10. PICK s : s = ShiftRight(c, 8)
  OBVIOUS
<1>11. s \in Bits(32) /\ Reverse(s) = ShiftLeft(Reverse(c), 8)
  BY <1>1, <1>10, ShiftBits, ReverseShift
<1>12. Xor(s, r) \in Bits(32) /\ Reverse(Xor(s, r)) = Xor(Reverse(s), Reverse(r))
  BY <1>1, <1>9, <1>11, XorBits, ReverseXor
<1>13. crc32_update(c, p, TRUE) = Xor(s, r)
  BY <1>2, <1>4, <1>6, <1>8, <1>10 DEF crc32_update, crc32_build_table
<1>14. Updated(Reverse(c), Reverse(p), 32, Reverse(Poly32)) = Xor(Reverse(s), Reverse(r))
  BY <1>5, <1>7, <1>9, <1>11 DEF Updated
<1> QED
  BY <1>12, <1>13, <1>14

\* A byte more in the message updates the register.
LEMMA RegisterOfAppend ==
  ASSUME NEW w \in {8, 16, 32}, NEW m \in Messages, NEW p \in Bits(8)
  PROVE  UpdateOf(w, Register(w, m), p, TRUE) = Register(w, Append(m, p))
<1>1. 8 \in Nat /\ 8 >= 8 /\ 16 \in Nat /\ 16 >= 8 /\ 32 \in Nat /\ 32 >= 8
  OBVIOUS
<1>2. CASE w = 8
  <2>1. PICK c : c = Residue(m, Fill(0, 8), Poly8)
    OBVIOUS
  <2>2. /\ c \in Bits(8)
        /\ Residue(Append(m, p), Fill(0, 8), Poly8) = Updated(c, p, 8, Poly8)
    BY <1>1, <2>1, Constants, ResidueOfAppend
  <2>3. crc8_update(c, p, TRUE) = Updated(c, p, 8, Poly8)
    BY <2>2, Crc8Update
  <2> QED
    BY <1>2, <2>1, <2>2, <2>3 DEF UpdateOf, Register
<1>3. CASE w = 16
  <2>1. PICK c : c = Residue(m, Fill(1, 16), Poly16)
    OBVIOUS
  <2>2. /\ c \in Bits(16)
        /\ Residue(Append(m, p), Fill(1, 16), Poly16) = Updated(c, p, 16, Poly16)
    <3>1. PICK start, poly : start = Fill(1, 16) /\ poly = Poly16
      OBVIOUS
    <3>2. w \in Nat /\ w >= 8 /\ start \in Bits(w) /\ poly \in Bits(w)
      BY <1>1, <1>3, <3>1, Constants
    <3>3. /\ Residue(m, start, poly) \in Bits(w)
          /\ Residue(Append(m, p), start, poly) = Updated(Residue(m, start, poly), p, w, poly)
      BY <3>2, ResidueOfAppend
    <3> QED
      BY <1>3, <2>1, <3>1, <3>3
  <2>3. crc16_update(c, p, TRUE) = Updated(c, p, 16, Poly16)
    BY Crc16Update
  <2>4. Register(w, m) = c /\ Register(w, Append(m, p)) = Updated(c, p, 16, Poly16)
    BY <1>3, <2>1, <2>2 DEF Register
  <2>5. UpdateOf(w, c, p, TRUE) = crc16_update(c, p, TRUE)
    BY <1>3 DEF UpdateOf
  <2> QED
    BY <2>3, <2>4, <2>5
<1>4. CASE w = 32
  <2>1. PICK k, q, poly : k = Reflected(m) /\ q = Reverse(p) /\ poly = Reverse(Poly32)
    OBVIOUS
  <2>2. k \in Messages /\ q \in Bits(8) /\ Reflected(Append(m, p)) = Append(k, q)
    BY <2>1, ReflectedAppend
  <2>3. PICK d : d = Residue(k, Fill(1, 32), poly)
    OBVIOUS
  <2>4. poly \in Bits(32) /\ Fill(1, 32) \in Bits(32)
    BY <2>1, Constants
  <2>5. d \in Bits(32) /\ Residue(Append(k, q), Fill(1, 32), poly) = Updated(d, q, 32, poly)
    BY <1>1, <2>2, <2>3, <2>4, ResidueOfAppend
  <2>6. PICK c : c = Reverse(d)
    OBVIOUS
  <2>7. c \in Bits(32) /\ Reverse(c) = d
    BY <1>1, <2>5, <2>6, ReverseBits, ReverseTwice
  <2>8. PICK u : u = crc32_update(c, p, TRUE)
    OBVIOUS
  <2>9. u \in Bits(32) /\ Reverse(u) = Updated(d, q, 32, poly)
    BY <2>1, <2>7, <2>8, Crc32Update
  <2>10. u = Reverse(Updated(d, q, 32, poly))
    BY <1>1, <2>9, ReverseTwice
  <2>11. Register(w, m) = c /\ Register(w, Append(m, p)) = Reverse(Updated(d, q, 32, poly))
    BY <1>4, <2>1, <2>2, <2>3, <2>5, <2>6 DEF Register
  <2>12. UpdateOf(w, c, p, TRUE) = u
    BY <1>4, <2>8 DEF UpdateOf
  <2> QED
    BY <2>10, <2>11, <2>12
<1> QED
  BY <1>2, <1>3, <1>4

\* What final makes of the register is the reference.
LEMMA RegisterFinal ==
  ASSUME NEW m, width \in {8, 16, 32}
  PROVE  FinalOf(width, Register(width, m)) = Reference(m)
  BY DEF FinalOf, Register, Reference, crc8_final, crc16_final, crc32_final

-----------------------------------------------------------------------------
(* The invariant.                                                          *)

\* A thread's computation: where it reads the entries it should, its register
\* is that of its message, and its result the reference.
SumIsRight(s) ==
  /\ s = [pc |-> s.pc, sure |-> s.sure, message |-> s.message, crc |-> s.crc]
  /\ s.pc \in {"begin", "build", "flag", "update", "done"}
  /\ s.sure \in BOOLEAN
  /\ s.message \in Messages
  /\ s.pc \in {"begin", "build", "flag"} => s.message = <<>>
  /\ s.pc \in {"build", "flag"} => s.sure
  /\ s.pc = "update" /\ (s.sure \/ ordered) => s.crc = Register(width, s.message)
  /\ s.pc = "done" /\ (s.sure \/ ordered) => s.crc = Reference(s.message)

\* A flag that is set was set after the table was built, so that with stores
\* in order a thread that uses the table finds it built.
CrcInvariant ==
  /\ width \in {8, 16, 32} /\ ordered \in BOOLEAN /\ built \in BOOLEAN
  /\ table_ready \in BOOLEAN /\ (table_ready => built)
  /\ DOMAIN sums = CrcThreads
  /\ \A t \in CrcThreads :
       /\ SumIsRight(sums[t])
       /\ sums[t].pc = "flag" => built
       /\ sums[t].pc \in {"update", "done"} /\ ordered => built

\* A thread that goes on.
LEMMA Gone ==
  ASSUME CrcInvariant, NEW t \in CrcThreads, NEW pc, NEW sure, NEW crc, Goto(t, pc, sure, crc)
  PROVE  /\ DOMAIN sums' = CrcThreads
         /\ sums'[t] = [pc |-> pc, sure |-> sure, message |-> sums[t].message, crc |-> crc]
         /\ \A u \in CrcThreads \ {t} : sums'[u] = sums[u]
<1>1. PICK s : s = sums[t]
  OBVIOUS
<1>2. s = [pc |-> s.pc, sure |-> s.sure, message |-> s.message, crc |-> s.crc]
  BY <1>1 DEF CrcInvariant, SumIsRight
<1>3. DOMAIN sums = CrcThreads
  BY DEF CrcInvariant
<1>4. sums' = [sums EXCEPT ![t].pc = pc, ![t].sure = sure, ![t].crc = crc]
  BY DEF Goto
<1>5. sums'[t] = [s EXCEPT !.pc = pc, !.sure = sure, !.crc = crc]
  BY <1>1, <1>3, <1>4
<1> QED
  BY <1>1, <1>2, <1>3, <1>4, <1>5

\* Before the first byte the register has its initial value.
LEMMA Started ==
  ASSUME CrcInvariant, NEW t \in CrcThreads, sums[t].message = <<>>, NEW sure \in BOOLEAN,
         Goto(t, "update", sure, InitOf(width)), UNCHANGED <<width, ordered>>
  PROVE  SumIsRight(sums[t])'
<1>1. sums'[t] = [pc |-> "update", sure |-> sure, message |-> <<>>, crc |-> InitOf(width)]
  BY Gone
<1>2. Register(width, <<>>) = InitOf(width)
  BY RegisterOfNothing DEF CrcInvariant
<1>3. <<>> \in Messages
  BY DEF Messages
<1> QED
  BY <1>1, <1>2, <1>3 DEF SumIsRight

\* What the other threads do is not disturbed.
LEMMA OthersKept ==
  ASSUME CrcInvariant, NEW u \in CrcThreads, sums'[u] = sums[u], UNCHANGED <<width, ordered>>
  PROVE  SumIsRight(sums[u])'
<1>1. SumIsRight(sums[u])
  BY DEF CrcInvariant
<1>2. \A m : Reference(m)' = Reference(m)
  BY DEF Reference
<1> QED
  BY <1>1, <1>2 DEF SumIsRight

\* What a step of one thread has to keep.
LEMMA OneThread ==
  ASSUME CrcInvariant, NEW t \in CrcThreads, UNCHANGED <<width, ordered>>,
         built' \in BOOLEAN, built => built', table_ready' \in BOOLEAN, table_ready' => built',
         DOMAIN sums' = CrcThreads, \A u \in CrcThreads \ {t} : sums'[u] = sums[u],
         SumIsRight(sums[t])', sums'[t].pc = "flag" => built',
         sums'[t].pc \in {"update", "done"} /\ ordered => built'
  PROVE  CrcInvariant'
<1>1. ASSUME NEW u \in CrcThreads
      PROVE  /\ SumIsRight(sums[u])'
             /\ sums'[u].pc = "flag" => built'
             /\ sums'[u].pc \in {"update", "done"} /\ ordered => built'
  <2>1. CASE u = t
    BY <2>1
  <2>2. CASE u # t
    <3>1. sums'[u] = sums[u]
      BY <2>2
    <3>2. SumIsRight(sums[u])'
      BY <3>1, OthersKept
    <3>3. /\ sums[u].pc = "flag" => built
          /\ sums[u].pc \in {"update", "done"} /\ ordered => built
      BY DEF CrcInvariant
    <3> QED
      BY <3>1, <3>2, <3>3
  <2> QED
    BY <2>1, <2>2
<1>2. width' \in {8, 16, 32} /\ ordered' \in BOOLEAN /\ ordered' = ordered
  BY DEF CrcInvariant
<1> QED
  BY <1>1, <1>2 DEF CrcInvariant

\* ensure_table.
LEMMA EnsureKeeps ==
  ASSUME CrcInvariant, NEW t \in CrcThreads, ensure_table(t)
  PROVE  CrcInvariant'
<1>1. PICK sure : sure = sums[t].sure
  OBVIOUS
<1>2. /\ sums[t].pc = "begin" /\ sure \in BOOLEAN /\ sums[t].message = <<>>
      /\ UNCHANGED <<width, ordered, built, table_ready>>
      /\ built \in BOOLEAN /\ table_ready \in BOOLEAN /\ (table_ready => built)
  BY <1>1 DEF CrcInvariant, SumIsRight, ensure_table
<1>3. CASE table_ready
  <2>1. Goto(t, "update", sure, InitOf(width))
    BY <1>1, <1>3 DEF ensure_table
  <2>2. SumIsRight(sums[t])'
    BY <1>2, <2>1, Started
  <2>3. /\ DOMAIN sums' = CrcThreads /\ \A u \in CrcThreads \ {t} : sums'[u] = sums[u]
        /\ sums'[t] = [pc |-> "update", sure |-> sure, message |-> sums[t].message,
                       crc |-> InitOf(width)]
    BY <2>1, Gone
  <2>4. sums'[t].pc = "update"
    BY <2>3
  <2> QED
    BY <1>2, <1>3, <2>2, <2>3, <2>4, OneThread
<1>4. CASE ~table_ready
  <2>1. PICK yes, crc : yes = TRUE /\ crc = <<>> /\ Goto(t, "build", yes, crc)
    BY <1>4 DEF ensure_table
  <2>2. /\ sums'[t] = [pc |-> "build", sure |-> yes, message |-> sums[t].message, crc |-> crc]
        /\ DOMAIN sums' = CrcThreads /\ \A u \in CrcThreads \ {t} : sums'[u] = sums[u]
    <3>1. Goto(t, "build", yes, crc)
      BY <2>1
    <3> QED
      BY <3>1, Gone
  <2>3. SumIsRight(sums[t])' /\ sums'[t].pc = "build"
    BY <1>2, <2>1, <2>2 DEF SumIsRight, Messages
  <2> QED
    BY <1>2, <2>2, <2>3, OneThread
<1> QED
  BY <1>3, <1>4

\* The end of build_table.
LEMMA StoreKeeps ==
  ASSUME CrcInvariant, NEW t \in CrcThreads, store_table(t)
  PROVE  CrcInvariant'
<1>1. /\ sums[t].pc = "build" /\ sums[t].message = <<>> /\ table_ready \in BOOLEAN
      /\ built' = TRUE /\ UNCHANGED <<width, ordered, table_ready>>
  BY DEF CrcInvariant, SumIsRight, store_table
<1>2. PICK yes, crc : yes = TRUE /\ crc = <<>> /\ Goto(t, "flag", yes, crc)
  BY DEF store_table
<1>3. /\ sums'[t] = [pc |-> "flag", sure |-> yes, message |-> sums[t].message, crc |-> crc]
      /\ DOMAIN sums' = CrcThreads /\ \A u \in CrcThreads \ {t} : sums'[u] = sums[u]
  <2>1. Goto(t, "flag", yes, crc)
    BY <1>2
  <2> QED
    BY <2>1, Gone
<1>4. SumIsRight(sums[t])' /\ sums'[t].pc = "flag"
  BY <1>1, <1>2, <1>3 DEF SumIsRight, Messages
<1> QED
  BY <1>1, <1>3, <1>4, OneThread

\* The flag.
LEMMA ReadyKeeps ==
  ASSUME CrcInvariant, NEW t \in CrcThreads, set_ready(t)
  PROVE  CrcInvariant'
<1>1. /\ sums[t].pc = "flag" /\ sums[t].message = <<>> /\ built /\ built \in BOOLEAN
      /\ table_ready' = TRUE /\ UNCHANGED <<width, ordered, built>>
  BY DEF CrcInvariant, SumIsRight, set_ready
<1>2. PICK yes \in BOOLEAN : Goto(t, "update", yes, InitOf(width))
  BY DEF set_ready
<1>3. SumIsRight(sums[t])'
  BY <1>1, <1>2, Started
<1>4. /\ DOMAIN sums' = CrcThreads /\ \A u \in CrcThreads \ {t} : sums'[u] = sums[u]
      /\ sums'[t] = [pc |-> "update", sure |-> yes, message |-> sums[t].message,
                     crc |-> InitOf(width)]
  BY <1>2, Gone
<1>5. sums'[t].pc = "update"
  BY <1>4
<1> QED
  BY <1>1, <1>3, <1>4, <1>5, OneThread

\* update.
LEMMA UpdateKeeps ==
  ASSUME CrcInvariant, NEW t \in CrcThreads, NEW byte \in Bytes, crc_update(t, byte)
  PROVE  CrcInvariant'
<1>1. PICK s, w : s = sums[t] /\ w = width
  OBVIOUS
<1>2. /\ SumIsRight(s) /\ w \in {8, 16, 32} /\ DOMAIN sums = CrcThreads
      /\ s.pc = "update" /\ (ordered => built) /\ byte \in Bits(8)
      /\ UNCHANGED <<width, ordered, built, table_ready>>
      /\ built \in BOOLEAN /\ table_ready \in BOOLEAN /\ (table_ready => built)
  BY <1>1, CrcAssumption DEF CrcInvariant, crc_update, Bits
<1>3. PICK arrived \in Arrived(t) :
        sums' = [sums EXCEPT ![t].message = Append(@, byte),
                             ![t].crc = UpdateOf(width, @, byte, arrived)]
  BY DEF crc_update
<1>4. PICK r : r = sums'[t]
  OBVIOUS
<1>5. s = [pc |-> s.pc, sure |-> s.sure, message |-> s.message, crc |-> s.crc]
  BY <1>2 DEF SumIsRight
<1>6. r = [s EXCEPT !.message = Append(@, byte), !.crc = UpdateOf(w, @, byte, arrived)]
  BY <1>1, <1>2, <1>3, <1>4
<1>7. r = [pc |-> s.pc, sure |-> s.sure, message |-> Append(s.message, byte),
           crc |-> UpdateOf(w, s.crc, byte, arrived)]
  BY <1>5, <1>6
<1>8. s.sure \/ ordered => arrived = TRUE
  BY <1>1, <1>2 DEF Arrived
<1>9. s.sure \/ ordered => r.crc = Register(w, r.message)
  <2> SUFFICES ASSUME s.sure \/ ordered PROVE r.crc = Register(w, r.message)
    OBVIOUS
  <2>1. s.crc = Register(w, s.message) /\ s.message \in Messages
    BY <1>1, <1>2 DEF SumIsRight
  <2>2. UpdateOf(w, Register(w, s.message), byte, TRUE) = Register(w, Append(s.message, byte))
    BY <1>2, <2>1, RegisterOfAppend
  <2> QED
    BY <1>7, <1>8, <2>1, <2>2
<1>10. r.message \in Messages
  BY <1>2, <1>7, AppendProperties DEF SumIsRight, Messages
<1>11. SumIsRight(sums[t])'
  <2>1. r.pc = "update" /\ r.sure \in BOOLEAN /\ r.sure = s.sure
    BY <1>2, <1>7 DEF SumIsRight
  <2>2. r = [pc |-> r.pc, sure |-> r.sure, message |-> r.message, crc |-> r.crc]
    BY <1>7
  <2> QED
    BY <1>1, <1>2, <1>4, <1>9, <1>10, <2>1, <2>2 DEF SumIsRight
<1>12. /\ DOMAIN sums' = CrcThreads /\ \A u \in CrcThreads \ {t} : sums'[u] = sums[u]
  BY <1>2, <1>3
<1>13. sums'[t].pc = "update"
  BY <1>2, <1>4, <1>7
<1> QED
  BY <1>2, <1>11, <1>12, <1>13, OneThread

\* final.
LEMMA FinalKeeps ==
  ASSUME CrcInvariant, NEW t \in CrcThreads, crc_final(t)
  PROVE  CrcInvariant'
<1>1. PICK s, w, crc : s = sums[t] /\ w = width /\ crc = FinalOf(width, sums[t].crc)
  OBVIOUS
<1>2. /\ SumIsRight(s) /\ w \in {8, 16, 32} /\ s.pc = "update" /\ (ordered => built)
      /\ UNCHANGED <<width, ordered, built, table_ready>>
      /\ built \in BOOLEAN /\ table_ready \in BOOLEAN /\ (table_ready => built)
  BY <1>1 DEF CrcInvariant, crc_final
<1>3. PICK sure : sure = s.sure
  OBVIOUS
<1>4. Goto(t, "done", sure, crc)
  BY <1>1, <1>3 DEF crc_final
<1>5. /\ sums'[t] = [pc |-> "done", sure |-> sure, message |-> s.message, crc |-> crc]
      /\ DOMAIN sums' = CrcThreads /\ \A u \in CrcThreads \ {t} : sums'[u] = sums[u]
  BY <1>1, <1>4, Gone
<1>6. sure \/ ordered => crc = Reference(s.message)
  <2> SUFFICES ASSUME sure \/ ordered PROVE crc = Reference(s.message)
    OBVIOUS
  <2>1. s.crc = Register(w, s.message)
    BY <1>1, <1>2, <1>3 DEF SumIsRight
  <2>2. PICK m : m = s.message
    OBVIOUS
  <2>3. FinalOf(width, Register(width, m)) = Reference(m)
    BY <1>1, <1>2, RegisterFinal
  <2> QED
    BY <1>1, <2>1, <2>2, <2>3
<1>7. sure \/ ordered => crc = Reference(s.message)'
  BY <1>2, <1>6 DEF Reference
<1>8. SumIsRight(sums[t])' /\ sums'[t].pc = "done"
  <2>1. s.message \in Messages /\ sure \in BOOLEAN
    BY <1>2, <1>3 DEF SumIsRight
  <2> QED
    BY <1>2, <1>5, <1>7, <2>1 DEF SumIsRight
<1> QED
  BY <1>2, <1>5, <1>8, OneThread

\* Another message.
LEMMA AgainKeeps ==
  ASSUME CrcInvariant, NEW t \in CrcThreads, crc_again(t)
  PROVE  CrcInvariant'
<1>1. PICK sure : sure = sums[t].sure
  OBVIOUS
<1>2. /\ DOMAIN sums = CrcThreads /\ sure \in BOOLEAN
      /\ UNCHANGED <<width, ordered, built, table_ready>>
      /\ built \in BOOLEAN /\ table_ready \in BOOLEAN /\ (table_ready => built)
  BY <1>1 DEF CrcInvariant, SumIsRight, crc_again
<1>3. sums' = [sums EXCEPT ![t] = NotBegun(sure)]
  BY <1>1 DEF crc_again
<1>4. /\ sums'[t] = [pc |-> "begin", sure |-> sure, message |-> <<>>, crc |-> <<>>]
      /\ DOMAIN sums' = CrcThreads /\ \A u \in CrcThreads \ {t} : sums'[u] = sums[u]
  BY <1>2, <1>3 DEF NotBegun
<1>5. SumIsRight(sums[t])' /\ sums'[t].pc = "begin"
  BY <1>2, <1>4 DEF SumIsRight, Messages
<1> QED
  BY <1>2, <1>4, <1>5, OneThread

\* Each thread's register is that of its message.
THEOREM CrcInvariance == CrcSpec => []CrcInvariant
<1>1. CrcInit => CrcInvariant
  <2> SUFFICES ASSUME CrcInit PROVE CrcInvariant
    OBVIOUS
  <2>1. ASSUME NEW t \in CrcThreads PROVE SumIsRight(sums[t]) /\ sums[t].pc = "begin"
    <3>1. PICK sure \in BOOLEAN : sums = [u \in CrcThreads |-> NotBegun(sure)]
      BY DEF CrcInit
    <3>2. sums[t] = [pc |-> "begin", sure |-> sure, message |-> <<>>, crc |-> <<>>]
      BY <3>1 DEF NotBegun
    <3> QED
      BY <3>2 DEF SumIsRight, Messages
  <2>2. DOMAIN sums = CrcThreads /\ width \in {8, 16, 32} /\ ordered \in BOOLEAN
        /\ table_ready \in BOOLEAN /\ built = table_ready
    BY DEF CrcInit
  <2> QED
    BY <2>1, <2>2 DEF CrcInvariant
<1>2. CrcInvariant /\ [CrcNext]_crcVars => CrcInvariant'
  <2> SUFFICES ASSUME CrcInvariant, [CrcNext]_crcVars PROVE CrcInvariant'
    OBVIOUS
  <2>1. ASSUME NEW t \in CrcThreads, ensure_table(t) PROVE CrcInvariant'
    BY <2>1, EnsureKeeps
  <2>2. ASSUME NEW t \in CrcThreads, store_table(t) PROVE CrcInvariant'
    BY <2>2, StoreKeeps
  <2>3. ASSUME NEW t \in CrcThreads, set_ready(t) PROVE CrcInvariant'
    BY <2>3, ReadyKeeps
  <2>4. ASSUME NEW t \in CrcThreads, crc_final(t) PROVE CrcInvariant'
    BY <2>4, FinalKeeps
  <2>5. ASSUME NEW t \in CrcThreads, crc_again(t) PROVE CrcInvariant'
    BY <2>5, AgainKeeps
  <2>6. ASSUME NEW t \in CrcThreads, NEW b \in Bytes, crc_update(t, b) PROVE CrcInvariant'
    BY <2>6, UpdateKeeps
  <2>7. CASE UNCHANGED crcVars
    BY <2>7 DEF crcVars, CrcInvariant, SumIsRight, Reference
  <2> QED
    BY <2>1, <2>2, <2>3, <2>4, <2>5, <2>6, <2>7 DEF CrcNext
<1> QED
  BY <1>1, <1>2, PTL DEF CrcSpec

\* Every thread that is sure of the table, or sees stores in order, gets the
\* remainder of its message.
THEOREM CrcsAreRight == CrcSpec => []CrcIsRemainder
<1>1. CrcInvariant => CrcIsRemainder
  BY DEF CrcInvariant, SumIsRight, CrcIsRemainder
<1> QED
  BY <1>1, CrcInvariance, PTL

=====
