-------------------------- MODULE ShuffleAndWrite --------------------------
(***************************************************************************)
(* shuffle_and_write.cpp: reads a file in blocks of granularity bytes and  *)
(* writes the blocks in random order to a new file.  A byte is named by    *)
(* its offset in the file that is read; Garbage is memory nobody filled.   *)
(* No return value is looked at, so reads and writes are given by how many *)
(* bytes each call transfers; open failing is all of them giving none.     *)
(***************************************************************************)
EXTENDS Integers, Sequences, SequencesExt

Garbage == -1

\* Mutant: the tail counts as a block.
num_blocks_rounded_up(size, granularity) == (size + granularity - 1) \div granularity

num_blocks(size, granularity) ==
    IF size \div granularity = 0 THEN 1 ELSE size \div granularity

\* map before std::random_shuffle.
map_in_order(n) == [pos \in 0..(n - 1) |-> pos]

\* The outcomes of std::random_shuffle (external): all arrangements.
random_shuffle(n) == {f \in [0..(n - 1) -> 0..(n - 1)] :
                          \A x, y \in 0..(n - 1) : f[x] = f[y] => x = y}

\* Bytes that read number i returns: what it was given to transfer, but no
\* more than is left.  off is the file offset before it.
ReadUpTo(reads, size, i) ==
    LET upto[k \in 0..i] ==
            IF k = 0 THEN [off |-> 0, got |-> 0]
            ELSE LET off == upto[k - 1].off + upto[k - 1].got
                     left == size - off
                 IN  [off |-> off, got |-> IF reads[k - 1] < left THEN reads[k - 1] ELSE left]
    IN  upto[i]

\* The part of very_large_filebuf at i * granularity.
Block(reads, size, granularity, i) ==
    LET r == ReadUpTo(reads, size, i + 1)
    IN  [k \in 1..granularity |-> IF k <= r.got THEN r.off + k - 1 ELSE Garbage]

\* The new file.  killed: size / granularity with granularity 0; memory:
\* whether malloc gives the buffer, otherwise the new file stays empty.
shuffle_and_write(size, granularity, shuffle, reads, writes, memory) ==
    LET n == num_blocks(size, granularity)
        map == [i \in 0..(n - 1) |-> map_in_order(n)[shuffle[i]]]
        written == [i \in 1..n |->
                        SubSeq(Block(reads, size, granularity, map[i - 1]), 1, writes[i - 1])]
    IN  IF granularity = 0 THEN [killed |-> TRUE, out |-> <<>>]
        ELSE [killed |-> FALSE, out |-> IF memory THEN FlattenSeq(written) ELSE <<>>]
=============================================================================
