------------------------------ MODULE FillBlk ------------------------------
(***************************************************************************)
(* fill_blk of replay.c: the contents of a block made from the md5 of its  *)
(* record, by copying or through one of three random generators.  A buffer *)
(* is a function from byte offsets to characters, or Unwritten; it extends *)
(* past the block so that an overrun shows.                                *)
(***************************************************************************)
EXTENDS Mt19937, SequencesExt

CONSTANTS BLK_SIZE,         \* 4096 in the code
          MD5_SIZE,         \* 32
          WORD_SIZE,        \* sizeof(uint32_t)
          LCG_MULTIPLIER, LCG_INCREMENT,    \* 1103515245 and 12345
          RandR             \* rand_r of the C library, as a function of the seed

Unwritten == -1
Chars == 2 ^ (WORD_BITS \div WORD_SIZE)
EmptyBuf == [p \in 0..(BLK_SIZE + MD5_SIZE - 1) |-> Unwritten]

ASSUME FillAssumption ==
    /\ BLK_SIZE \in Nat /\ MD5_SIZE \in Nat \ {0} /\ WORD_SIZE \in 1..MD5_SIZE
    /\ WORD_BITS % WORD_SIZE = 0
    /\ RandR \in [Words -> Words]

lcg_rand_r(rseed_r) == (rseed_r * LCG_MULTIPLIER + LCG_INCREMENT) & (2 ^ (WORD_BITS - 1) - 1)

\* One call of genrandom: the context afterwards and the number.
genrandom(gener, ctx) ==
    CASE gener = "mt19937ar" -> LET r == genrand_int32_r(ctx)
                                IN  [ctx |-> r.state, y |-> r.y]
      [] gener = "rand"      -> [ctx |-> RandR[ctx], y |-> RandR[ctx]]
      [] gener = "lcg"       -> [ctx |-> lcg_rand_r(ctx), y |-> lcg_rand_r(ctx)]

fedseed(gener, ctx, s) ==
    IF gener = "mt19937ar" THEN init_genrand_r(ctx, s) ELSE s

\* Mutant: seed from a char instead of a uint32_t.
SeedOfOneChar(md5) == md5[1]

\* *(uint32_t *)md5
Seed(md5) ==
    LET value[k \in 0..WORD_SIZE] ==
            IF k = 0 THEN 0 ELSE value[k - 1] + md5[k] * Chars ^ (k - 1)
    IN  value[WORD_SIZE]

\* The bytes of a word, as they are stored.
Bytes(y) == [k \in 1..WORD_SIZE |-> (y \div Chars ^ (k - 1)) % Chars]

Store(buf, at, data) ==
    [p \in DOMAIN buf |-> IF p \in at..(at + Len(data) - 1) THEN data[p - at + 1] ELSE buf[p]]

step(md5) == Len(md5) \div MD5_SIZE
blk_size_per_step(md5) == BLK_SIZE \div step(md5)

\* Mutant: md5 is not advanced.
FirstChunk(md5, i) == SubSeq(md5, 1, MD5_SIZE)

\* md5 += 32
Chunk(md5, i) == SubSeq(md5, (i - 1) * MD5_SIZE + 1, i * MD5_SIZE)

\* How often a loop over j by size runs, the last time perhaps past the part.
Rounds(md5, size) == (blk_size_per_step(md5) + size - 1) \div size

\* The null generator: the part of chunk i.
Copies(md5, i) == FlattenSeq([j \in 1..Rounds(md5, MD5_SIZE) |-> Chunk(md5, i)])

\* A generator: its context and the numbers, after seeding with chunk i.
Numbers(md5, i, gener, ctx) ==
    LET after[j \in 0..Rounds(md5, WORD_SIZE)] ==
            IF j = 0 THEN [ctx |-> fedseed(gener, ctx, Seed(Chunk(md5, i))), data |-> <<>>]
            ELSE LET prev == after[j - 1]
                     r == genrandom(gener, prev.ctx)
                 IN  [ctx |-> r.ctx, data |-> prev.data \o Bytes(r.y)]
    IN  after[Rounds(md5, WORD_SIZE)]

\* killed: the division by step = 0 raises SIGFPE.
fill_blk(md5, gener, ctx) ==
    LET part == blk_size_per_step(md5)
        after[i \in 0..step(md5)] ==
            IF i = 0 THEN [buf |-> EmptyBuf, ctx |-> ctx]
            ELSE LET prev == after[i - 1]
                     new == IF gener = "null" THEN [ctx |-> ctx, data |-> Copies(md5, i)]
                            ELSE Numbers(md5, i, gener, prev.ctx)
                 IN  [buf |-> Store(prev.buf, (i - 1) * part, new.data), ctx |-> new.ctx]
    IN  IF step(md5) = 0 THEN [killed |-> TRUE, buf |-> EmptyBuf]
        ELSE [killed |-> FALSE, buf |-> after[step(md5)].buf]
=============================================================================
