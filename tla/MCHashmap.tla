----------------------------- MODULE MCHashmap -----------------------------
EXTENDS Hashmap
MCNoKey == -2
\* All keys in one probe chain; chains that wrap around and run into each other.
MCHashFunctions ==
    {[k \in Keys |-> 7], [k \in Keys |-> 7 - 4 * (k % 2)]}
=============================================================================
