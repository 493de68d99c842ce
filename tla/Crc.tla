-------------------------------- MODULE Crc ---------------------------------
(***************************************************************************)
(* The CRCs of components/crypto/src/crc.c: values as bit sequences, most  *)
(* significant bit first, the tables that the first use builds behind a    *)
(* plain int flag, and threads that each compute one CRC.                  *)
(*                                                                         *)
(* Flag and table are written and read without synchronisation.  Where     *)
(* compiler or processor reorder plain stores, a thread that finds the     *)
(* flag set by another one may read entries as they were before the table  *)
(* was built: zero.                                                        *)
(***************************************************************************)
EXTENDS Integers, Sequences, SequencesExt

CONSTANTS CrcThreads,
          Bytes,        \* message bytes, as bits
          MaxBytes      \* bound on the bytes of a message

ASSUME CrcAssumption == Bytes \subseteq [1 .. 8 -> {0, 1}] /\ MaxBytes \in Nat

VARIABLES
  width,       \* the CRC considered: 8, 16 or 32
  ordered,     \* other threads see plain stores in the order of the program
  built,       \* some thread has stored the whole table
  table_ready, \* crcN_table_ready
  sums         \* the computation of each thread

crcVars == <<width, ordered, built, table_ready, sums>>

-----------------------------------------------------------------------------
(* Bits.                                                                   *)

Fill(bit, w) == [i \in 1 .. w |-> bit]
Xor(a, b) == [i \in DOMAIN a |-> IF a[i] = b[i] THEN 0 ELSE 1]
ShiftLeft(c, n) == [i \in DOMAIN c |-> IF i + n \in DOMAIN c THEN c[i + n] ELSE 0]
ShiftRight(c, n) == [i \in DOMAIN c |-> IF i - n \in DOMAIN c THEN c[i - n] ELSE 0]

\* The highest and the lowest eight bits, and a word of w bits that has the
\* given ones there and is zero elsewhere.
HighByte(c) == [i \in 1 .. 8 |-> c[i]]
LowByte(c) == [i \in 1 .. 8 |-> c[Len(c) - 8 + i]]
AtTop(p, w) == [i \in 1 .. w |-> IF i <= 8 THEN p[i] ELSE 0]
AtBottom(p, w) == [i \in 1 .. w |-> IF i > w - 8 THEN p[i - (w - 8)] ELSE 0]

\* The word whose bits are those that the exponents name.
Word(w, exponents) == [i \in 1 .. w |-> IF w - i \in exponents THEN 1 ELSE 0]

Poly8 == Word(8, {2, 1, 0})                                       \* 0x07
Poly16 == Word(16, {12, 5, 0})                                    \* 0x1021
Poly32 == Word(32, {31, 30, 29, 27, 26, 24, 23, 21, 20, 19, 15, 9, 8, 5})
                                                                  \* 0xEDB88320

-----------------------------------------------------------------------------
(* The tables and their use.                                               *)

\* One round of the inner loop of the build functions, and of the reflected
\* one.
Round(c, poly) == IF c[1] = 1 THEN Xor(ShiftLeft(c, 1), poly) ELSE ShiftLeft(c, 1)
RoundReflected(c, poly) ==
  IF c[Len(c)] = 1 THEN Xor(ShiftRight(c, 1), poly) ELSE ShiftRight(c, 1)

\* The eight rounds.
Rounds(c, poly) ==
  LET R(x) == Round(x, poly) IN R(R(R(R(R(R(R(R(c))))))))
RoundsReflected(c, poly) ==
  LET R(x) == RoundReflected(x, poly) IN R(R(R(R(R(R(R(R(c))))))))

\* crcN_table[i], for an index of eight bits.
crc8_build_table(i) == Rounds(i, Poly8)

crc16_build_table(i) == Rounds(AtTop(i, 16), Poly16)

crc32_build_table(i) == RoundsReflected(AtBottom(i, 32), Poly32)

\* Where the entry has not arrived, a thread reads zero.
crc8_init == Fill(0, 8)
crc8_update(c, p, arrived) ==
  IF arrived THEN crc8_build_table(Xor(c, p)) ELSE Fill(0, 8)
crc8_final(c) == c

crc16_init == Fill(1, 16)
crc16_update(c, p, arrived) ==
  Xor(ShiftLeft(c, 8),
      IF arrived THEN crc16_build_table(Xor(HighByte(c), p)) ELSE Fill(0, 16))
crc16_final(c) == c

crc32_init == Fill(1, 32)
crc32_update(c, p, arrived) ==
  Xor(ShiftRight(c, 8),
      IF arrived THEN crc32_build_table(Xor(LowByte(c), p)) ELSE Fill(0, 32))
crc32_final(c) == Xor(c, Fill(1, 32))

-----------------------------------------------------------------------------
(* Threads.                                                                *)

InitOf(w) == IF w = 8 THEN crc8_init ELSE IF w = 16 THEN crc16_init ELSE crc32_init
UpdateOf(w, c, p, arrived) ==
  IF w = 8 THEN crc8_update(c, p, arrived)
  ELSE IF w = 16 THEN crc16_update(c, p, arrived) ELSE crc32_update(c, p, arrived)
FinalOf(w, c) == IF w = 8 THEN crc8_final(c) ELSE IF w = 16 THEN crc16_final(c) ELSE crc32_final(c)

\* sure: the thread has the whole table, because it built it itself or was
\* started after that.
NotBegun(sure) == [pc |-> "begin", sure |-> sure, message |-> <<>>, crc |-> <<>>]

\* The program may have used the CRC before it started the threads.
CrcInit ==
  /\ width \in {8, 16, 32}
  /\ ordered \in BOOLEAN
  /\ table_ready \in BOOLEAN
  /\ built = table_ready
  /\ sums = [t \in CrcThreads |-> NotBegun(table_ready)]

Goto(t, pc, sure, crc) ==
  sums' = [sums EXCEPT ![t].pc = pc, ![t].sure = sure, ![t].crc = crc]

\* Mutant: the flag is set before the table is built.
Bug_ensure_table(t) ==
  /\ sums[t].pc = "begin"
  /\ IF table_ready THEN Goto(t, "update", sums[t].sure, InitOf(width))
     ELSE Goto(t, "build", TRUE, <<>>)
  /\ table_ready' = TRUE
  /\ UNCHANGED <<width, ordered, built>>

\* crcN_ensure_table finds the flag, or goes on to build the table and then
\* sets it.
ensure_table(t) ==
  /\ sums[t].pc = "begin"
  /\ IF table_ready THEN Goto(t, "update", sums[t].sure, InitOf(width))
     ELSE Goto(t, "build", TRUE, <<>>)
  /\ UNCHANGED <<width, ordered, built, table_ready>>

store_table(t) ==
  /\ sums[t].pc = "build"
  /\ built' = TRUE
  /\ Goto(t, "flag", TRUE, <<>>)
  /\ UNCHANGED <<width, ordered, table_ready>>

set_ready(t) ==
  /\ sums[t].pc = "flag"
  /\ table_ready' = TRUE
  /\ Goto(t, "update", TRUE, InitOf(width))
  /\ UNCHANGED <<width, ordered, built>>

\* Whether the entry a thread reads has its value: it may, or it must.
Arrived(t) == IF sums[t].sure \/ (ordered /\ built) THEN {TRUE} ELSE BOOLEAN

crc_update(t, byte) ==
  /\ sums[t].pc = "update"
  /\ Len(sums[t].message) < MaxBytes
  /\ \E arrived \in Arrived(t) :
       sums' = [sums EXCEPT ![t].message = Append(@, byte),
                            ![t].crc = UpdateOf(width, @, byte, arrived)]
  /\ UNCHANGED <<width, ordered, built, table_ready>>

crc_final(t) ==
  /\ sums[t].pc = "update"
  /\ Goto(t, "done", sums[t].sure, FinalOf(width, sums[t].crc))
  /\ UNCHANGED <<width, ordered, built, table_ready>>

\* The thread goes on to another message.
crc_again(t) ==
  /\ sums[t].pc = "done"
  /\ sums' = [sums EXCEPT ![t] = NotBegun(sums[t].sure)]
  /\ UNCHANGED <<width, ordered, built, table_ready>>

CrcNext ==
  \E t \in CrcThreads :
    \/ ensure_table(t) \/ store_table(t) \/ set_ready(t) \/ crc_final(t) \/ crc_again(t)
    \/ \E b \in Bytes : crc_update(t, b)

CrcSpec == CrcInit /\ [][CrcNext]_crcVars

-----------------------------------------------------------------------------
(* The reference: the remainder of a polynomial division.                  *)

\* What is left of the dividend takes in its next bit; where it began with a
\* one the divisor, a leading one and poly, is subtracted.
Divide(left, bit, poly) ==
  LET next == [i \in DOMAIN left |-> IF i + 1 \in DOMAIN left THEN left[i + 1] ELSE bit]
  IN  IF left[1] = 1 THEN Xor(next, poly) ELSE next

\* The division of the first total bits of the dividend.
Remainder(dividend, total, poly) ==
  LET left[n \in Len(poly) .. total] ==
        IF n = Len(poly) THEN [i \in 1 .. n |-> dividend[i]]
        ELSE Divide(left[n - 1], dividend[n], poly)
  IN  left[total]

\* Bit i of the message; its bytes begin with their highest bit.
MessageBit(m, i) ==
  IF i <= 8 * Len(m) THEN m[((i - 1) \div 8) + 1][((i - 1) % 8) + 1] ELSE 0

\* The message followed by zeros, its first bits combined with the initial
\* value.
Dividend(m, start) ==
  [i \in 1 .. 8 * Len(m) + Len(start) |->
     IF i <= Len(start) /\ start[i] = 1 THEN 1 - MessageBit(m, i) ELSE MessageBit(m, i)]

Residue(m, start, poly) == Remainder(Dividend(m, start), 8 * Len(m) + Len(start), poly)

Reflected(m) == [i \in DOMAIN m |-> Reverse(m[i])]

Reference(m) ==
  IF width = 8 THEN Residue(m, Fill(0, 8), Poly8)
  ELSE IF width = 16 THEN Residue(m, Fill(1, 16), Poly16)
  ELSE Xor(Reverse(Residue(Reflected(m), Fill(1, 32), Reverse(Poly32))), Fill(1, 32))

\* A thread gets the remainder of its message (for CRC-32 with bits reflected
\* and complemented), whoever builds the table and however often it is built
\* at once, if plain stores are seen in order.  Otherwise only a thread does
\* that built the table itself, or was started after it was built.
CrcIsRemainder ==
  \A t \in CrcThreads :
    (sums[t].pc = "done" /\ (sums[t].sure \/ ordered)) =>
      sums[t].crc = Reference(sums[t].message)

=============================================================================
