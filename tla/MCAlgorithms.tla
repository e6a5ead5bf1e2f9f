---------------------------- MODULE MCAlgorithms ----------------------------
(* Values for Algorithms: chunks of four two-bit characters.               *)
EXTENDS Algorithms

MCTempering == <<1, 1, 13, 2, 12, 3>>

\* Chunks that agree on the first word, on its first character, on the rest.
MCChunks == {<<0, 1, 0, 0>>, <<0, 1, 1, 0>>, <<1, 1, 1, 0>>, <<0, 0, 1, 0>>}
MCMd5s ==
    {<<>>, <<1, 0, 1>>} \cup MCChunks
    \cup {a \o b : <<a, b>> \in MCChunks \X MCChunks}
    \cup {a \o <<1>> : a \in MCChunks}
    \cup {<<0, 1, 0, 0, 1, 1, 1, 0, 0, 1, 1, 0>>}

MCRandR == [s \in Words |-> (3 * s + 1) % 2 ^ WORD_BITS]

MCCells == {[kind |-> "int", value |-> ONE], [kind |-> "int", value |-> 2 * ONE],
            [kind |-> "float", value |-> 3 * (ONE \div 2)], [kind |-> "text", value |-> 0]}

MCContexts == {[mt |-> [k \in 0..(N - 1) |-> 6], mti |-> i] : i \in {2, N, N + 1}}
=============================================================================
