------------------------------- MODULE Digest -------------------------------
(***************************************************************************)
(* The streaming part of components/crypto/src/sha256.c and md5.c: how     *)
(* update gathers blocks from pieces of a message and final pads the last  *)
(* one.  The same message goes through a context of each.                  *)
(*                                                                         *)
(* The compression function is kept symbolic: a context's state is the     *)
(* sequence of the blocks compressed into it, so two messages have equal   *)
(* states only if the code compressed equal blocks.  Byte i of the message *)
(* is its number i.  BLOCK is 64 and WORD 2^32 in the code; a length field *)
(* of two words is one byte each here, and eight bits stay eight bits.     *)
(***************************************************************************)
EXTENDS Integers, Sequences

CONSTANTS BLOCK,       \* bytes in a block
          WORD,        \* values of a word of the length
          MaxMessage,  \* bound on the bytes of the message
          MaxPiece     \* bound on the bytes passed to one update

LENGTH == 2            \* bytes of the length field, one for each word
Mark == "0x80"
Zero == "0x00"

ASSUME DigestAssumption ==
  /\ BLOCK \in Nat /\ BLOCK > LENGTH
  /\ WORD \in Nat /\ WORD > 0 /\ WORD % (8 * BLOCK) = 0

VARIABLES sent, sha, md5, finished

digestVars == <<sent, sha, md5, finished>>

Smaller(a, b) == IF a < b THEN a ELSE b
Zeros(n) == [i \in 1 .. n |-> Zero]

\* The two words of a length in bits, each written as one symbolic byte.
Lo(bits) == bits % WORD
Hi(bits) == (bits \div WORD) % WORD

-----------------------------------------------------------------------------
(* sha256.c                                                                *)

sha256_transform(state, block) == Append(state, block)

ember_crypto_sha256_init == [state |-> <<>>, bit_count |-> 0, buffer |-> <<>>]

\* One turn of the loop of update, with the data that is left.
sha_turn(c) ==
  LET copy == Smaller(Len(c.data), BLOCK - Len(c.ctx.buffer))
      buf == c.ctx.buffer \o SubSeq(c.data, 1, copy)
      full == Len(buf) = BLOCK
  IN  IF c.data = <<>> THEN c
      ELSE [data |-> SubSeq(c.data, copy + 1, Len(c.data)),
            ctx |-> [bit_count |-> c.ctx.bit_count,
                     state |-> IF full THEN sha256_transform(c.ctx.state, buf) ELSE c.ctx.state,
                     buffer |-> IF full THEN <<>> ELSE buf]]

\* A turn takes at least one byte.
sha_gather(context, p) ==
  LET turn[j \in 0 .. Len(p)] ==
        IF j = 0 THEN [data |-> p, ctx |-> context] ELSE sha_turn(turn[j - 1])
  IN  turn[Len(p)].ctx

ember_crypto_sha256_update(ctx, data) ==
  sha_gather([ctx EXCEPT !.bit_count = (@ + 8 * Len(data)) % (WORD * WORD)], data)

\* Whether the length field fits behind the mark.
sha256_fits(idx) == idx <= BLOCK - LENGTH

ember_crypto_sha256_final(ctx) ==
  LET marked == Append(ctx.buffer, Mark)
      idx == Len(marked)
      len == <<Hi(ctx.bit_count), Lo(ctx.bit_count)>>
  IN  IF sha256_fits(idx)
      THEN sha256_transform(ctx.state, marked \o Zeros(BLOCK - LENGTH - idx) \o len)
      ELSE sha256_transform(sha256_transform(ctx.state, marked \o Zeros(BLOCK - idx)),
                            Zeros(BLOCK - LENGTH) \o len)

-----------------------------------------------------------------------------
(* md5.c: the fill of the buffer is computed from the count, and final     *)
(* goes through update.                                                    *)

md5_transform(state, block) == Append(state, block)

ember_crypto_md5_init ==
  [state |-> <<>>, count |-> <<0, 0>>, buffer |-> Zeros(BLOCK)]

md5_idx(ctx) == (ctx.count[1] \div 8) % BLOCK

\* Mutant: no carry into the second word.
Bug_md5_count(count, len) ==
  <<(count[1] + 8 * len) % WORD, count[2]>>

\* The first word wraps and carries into the second, which also takes the
\* bits of the length that the first has no room for.
md5_count(count, len) ==
  LET add == (8 * len) % WORD
      lo == (count[1] + add) % WORD
      carry == IF lo < add THEN 1 ELSE 0
  IN  <<lo, (count[2] + carry + (8 * len) \div WORD) % WORD>>

md5_turn(c) ==
  LET copy == Smaller(BLOCK - c.idx, Len(c.data))
      buf == [i \in 1 .. BLOCK |->
                IF c.idx < i /\ i <= c.idx + copy THEN c.data[i - c.idx] ELSE c.ctx.buffer[i]]
      full == c.idx + copy = BLOCK
  IN  IF c.data = <<>> THEN c
      ELSE [data |-> SubSeq(c.data, copy + 1, Len(c.data)),
            idx |-> IF full THEN 0 ELSE c.idx + copy,
            ctx |-> [count |-> c.ctx.count,
                     state |-> IF full THEN md5_transform(c.ctx.state, buf) ELSE c.ctx.state,
                     buffer |-> buf]]

md5_gather(context, first, p) ==
  LET turn[j \in 0 .. Len(p)] ==
        IF j = 0 THEN [data |-> p, idx |-> first, ctx |-> context] ELSE md5_turn(turn[j - 1])
  IN  turn[Len(p)].ctx

ember_crypto_md5_update(ctx, data) ==
  md5_gather([ctx EXCEPT !.count = md5_count(@, Len(data))], md5_idx(ctx), data)

md5_padlen(idx) ==
  IF idx < BLOCK - LENGTH THEN BLOCK - LENGTH - idx ELSE 2 * BLOCK - LENGTH - idx

ember_crypto_md5_final(ctx) ==
  LET len == ctx.count
      pad == <<Mark>> \o Zeros(md5_padlen(md5_idx(ctx)) - 1)
  IN  ember_crypto_md5_update(ember_crypto_md5_update(ctx, pad), len).state

-----------------------------------------------------------------------------
(* A program hashes a message piece by piece.                              *)

DigestInit ==
  /\ sent = 0
  /\ sha = ember_crypto_sha256_init
  /\ md5 = ember_crypto_md5_init
  /\ finished = FALSE

DigestUpdate(len) ==
  /\ ~finished
  /\ sent + len <= MaxMessage
  /\ LET piece == [i \in 1 .. len |-> sent + i] IN
     /\ sha' = ember_crypto_sha256_update(sha, piece)
     /\ md5' = ember_crypto_md5_update(md5, piece)
  /\ sent' = sent + len
  /\ UNCHANGED finished

\* The digests, in place of the contexts.
DigestFinal ==
  /\ ~finished
  /\ sha' = [sha EXCEPT !.state = ember_crypto_sha256_final(sha)]
  /\ md5' = [md5 EXCEPT !.state = ember_crypto_md5_final(md5)]
  /\ finished' = TRUE
  /\ UNCHANGED sent

\* The contexts are used for another message.
DigestAgain ==
  /\ finished
  /\ sent' = 0
  /\ sha' = ember_crypto_sha256_init
  /\ md5' = ember_crypto_md5_init
  /\ finished' = FALSE

DigestNext == DigestFinal \/ DigestAgain \/ \E len \in 0 .. MaxPiece : DigestUpdate(len)

DigestSpec == DigestInit /\ [][DigestNext]_digestVars

-----------------------------------------------------------------------------

\* The standard's padding: the mark, the fewest zeros that leave room for the
\* length field at the end of a block, and the length field.
Padded(n, field) ==
  LET zeros == CHOOSE z \in 0 .. (BLOCK - 1) : (n + 1 + z + LENGTH) % BLOCK = 0
  IN  [i \in 1 .. n |-> i] \o <<Mark>> \o Zeros(zeros) \o field

BlocksOf(s) ==
  [k \in 1 .. (Len(s) \div BLOCK) |-> SubSeq(s, (k - 1) * BLOCK + 1, k * BLOCK)]

\* However the message was cut into pieces, both digests compress exactly the
\* blocks of the padded message, with its length in bits: SHA-256 the most
\* significant word first, MD5 the least significant one, also when the length
\* has carried into the second word of the count.
DigestsCompressMessage ==
  finished =>
    /\ sha.state = BlocksOf(Padded(sent, <<Hi(8 * sent), Lo(8 * sent)>>))
    /\ md5.state = BlocksOf(Padded(sent, <<Lo(8 * sent), Hi(8 * sent)>>))

=============================================================================
