------------------------------ MODULE Mt19937 ------------------------------
(***************************************************************************)
(* The Mersenne twister of mt19937ar.c, with its parameters as constants.  *)
(* A generator is a record [mt, mti]; the static one of init_genrand and   *)
(* genrand_int32 runs the same code as the one that init_genrand_r and     *)
(* genrand_int32_r get as an argument.                                     *)
(***************************************************************************)
EXTENDS Integers, Sequences, Bitwise

CONSTANTS N, M,             \* 624 and 397 in the code
          WORD_BITS,        \* 32
          MATRIX_A, INIT_MULTIPLIER, DEFAULT_SEED,
          TEMPERING         \* shifts and masks, <<11, 7, 0x9d2c5680, 15, 0xefc60000, 18>>

ASSUME MtAssumption == N \in Nat /\ M \in 1..(N - 1) /\ WORD_BITS \in Nat \ {0, 1}

Words == 0..(2 ^ WORD_BITS - 1)
UPPER_MASK == 2 ^ (WORD_BITS - 1)
LOWER_MASK == UPPER_MASK - 1
shiftL(y, n) == y * 2 ^ n

\* mt19937ar_state: whatever malloc left in it.
mt19937ar_state == [mt : [0..(N - 1) -> Words], mti : Int]

init_genrand_r(state, s) ==
    LET mt[k \in 0..(N - 1)] ==
            IF k = 0 THEN s & (2 ^ WORD_BITS - 1)
            ELSE LET w == mt[k - 1]
                 IN  (INIT_MULTIPLIER * (w ^^ shiftR(w, WORD_BITS - 2)) + k) % 2 ^ WORD_BITS
    IN  [state EXCEPT !.mt = [k \in 0..(N - 1) |-> mt[k]], !.mti = N]

\* mt[kk] from mt[kk], its successor and the word M further on.
Twisted(far, w, next) ==
    LET y == (w & UPPER_MASK) | (next & LOWER_MASK)
    IN  (far ^^ shiftR(y, 1)) ^^ (IF y % 2 = 1 THEN MATRIX_A ELSE 0)

\* Mutant: the second loop starts a word early.
FarEarly(kk) == IF kk < N - M - 1 THEN kk + M ELSE (kk + M + 1) % N

\* The word that the first and the second loop, and the last statement, combine.
Far(kk) == IF kk < N - M THEN kk + M ELSE kk + (M - N)

\* All N words, in place: later words use earlier ones that are already new.
Regenerated(mt) ==
    LET after[kk \in 0..N] ==
            IF kk = 0 THEN mt
            ELSE LET m == after[kk - 1]
                 IN  [m EXCEPT ![kk - 1] = Twisted(m[Far(kk - 1)], m[kk - 1], m[kk % N])]
    IN  after[N]

Tempered(w) ==
    LET y1 == w ^^ shiftR(w, TEMPERING[1])
        y2 == y1 ^^ (shiftL(y1, TEMPERING[2]) & TEMPERING[3])
        y3 == y2 ^^ (shiftL(y2, TEMPERING[4]) & TEMPERING[5])
    IN  y3 ^^ shiftR(y3, TEMPERING[6])

\* The generator after the call and the number returned.
genrand_int32_r(state) ==
    LET seeded == IF state.mti = N + 1 THEN init_genrand_r(state, DEFAULT_SEED) ELSE state
        ready == IF seeded.mti >= N
                   THEN [mt |-> Regenerated(seeded.mt), mti |-> 0] ELSE seeded
    IN  [state |-> [ready EXCEPT !.mti = @ + 1], y |-> Tempered(ready.mt[ready.mti])]

\* The static generator before its first use, and its functions.
Static == [mt |-> [k \in 0..(N - 1) |-> 0], mti |-> N + 1]
init_genrand(state, s) == init_genrand_r(state, s)
genrand_int32(state) == genrand_int32_r(state)
=============================================================================
