---------------------------- MODULE HashmapSort ----------------------------
(***************************************************************************)
(* _hashmap_msort of map.c: the bottom-up merge sort of the list that runs *)
(* through the buckets of a hashmap.                                       *)
(*                                                                         *)
(* m is [data, next]: data[n] is what bucket n holds (its key, hash and    *)
(* value move together), next[n] the bucket after it or NULL.  A while     *)
(* loop is Loop: its body applied as long as the condition holds, and at   *)
(* most "fuel" times; every caller passes a fuel that the length of the    *)
(* list bounds.                                                            *)
(***************************************************************************)
EXTENDS Integers, Sequences, SequencesExt

CONSTANT INT_BITS               \* width of the int a comparison returns

ASSUME IntBitsAssumption == INT_BITS \in Nat \ {0}

NULL == -1

\* The value an int of INT_BITS bits keeps of d.
ToInt(d) == ((d + 2^(INT_BITS - 1)) % 2^INT_BITS) - 2^(INT_BITS - 1)

\* cmp_func(x->key, y->key) > 0: the comparison returns a difference, which
\* wraps around for keys half the range of an int apart or more.
Gt(x, y) == ToInt(x.key - y.key) > 0

Loop(Cond(_), Body(_), state, fuel) ==
    LET after[n \in 0..fuel] ==
            IF n = 0 THEN state
            ELSE LET s == after[n - 1] IN IF Cond(s) THEN Body(s) ELSE s
    IN  after[fuel]

\* At most k steps along the list, stopping at its last bucket.
Advance(next, n, k) ==
    Loop(LAMBDA p : next[p] # NULL, LAMBDA p : next[p], n, k)

\* Mutant: the second bucket keeps what it held.
swap_overwrites(m, x, y) == [m EXCEPT !.data = [@ EXCEPT ![x] = m.data[y]]]

\* Exchanges what two buckets hold; their places in the list stay.
_hashmap_swap_bucket(m, x, y) ==
    [m EXCEPT !.data = [@ EXCEPT ![x] = m.data[y], ![y] = m.data[x]]]

\* Merges the sublists start1..end1 and start2..end2.  end2 of the result is
\* the last bucket of the merged part.
_hashmap_merge(m, start1, end1, start2, end2, len) ==
    LET m1 == IF Gt(m.data[start1], m.data[start2])
              THEN _hashmap_swap_bucket(
                       _hashmap_swap_bucket(m, start1, start2), end1, end2)
              ELSE m
        bendnext == m1.next[end2]
        Merging(s) == s.astart # end1 /\ s.bstart # bendnext
        Step(s) ==
            IF Gt(m1.data[s.next[s.astart]], m1.data[s.bstart])
            THEN [next |-> [s.next EXCEPT ![s.bstart] = s.next[s.astart],
                                          ![s.astart] = s.bstart],
                  astart |-> s.bstart,
                  bstart |-> s.next[s.bstart]]
            ELSE [s EXCEPT !.astart = s.next[s.astart]]
        s == Loop(Merging, Step,
                  [next |-> m1.next, astart |-> start1, bstart |-> start2],
                  2 * len)
    IN  IF s.astart = end1
        THEN [m |-> [m1 EXCEPT !.next = [s.next EXCEPT ![end1] = s.bstart]],
              end2 |-> end2]
        ELSE [m |-> [m1 EXCEPT !.next = s.next], end2 |-> end1]

\* One pass over the list: merge neighbouring sublists of gap buckets.
MergePass(m, head, gap, len) ==
    LET Left(s) == ~s.stop /\ s.start1 # NULL
        Pair(s) ==
            LET end1 == Advance(s.m.next, s.start1, gap - 1)
                start2 == s.m.next[end1]
                end2 == Advance(s.m.next, start2, gap - 1)
                temp == s.m.next[end2]
                merged == _hashmap_merge(s.m, s.start1, end1, start2, end2, len)
            IN  IF start2 = NULL
                THEN [s EXCEPT !.stop = TRUE]
                ELSE [m |-> IF s.start1 = head THEN merged.m
                            ELSE [merged.m EXCEPT !.next =
                                     [@ EXCEPT ![s.prevend] = s.start1]],
                      prevend |-> merged.end2, start1 |-> temp, stop |-> FALSE]
        s == Loop(Left, Pair, [m |-> m, prevend |-> NULL, start1 |-> head,
                               stop |-> FALSE], len)
    IN  [s.m EXCEPT !.next = [@ EXCEPT ![s.prevend] = s.start1]]

\* A merge leaves start1 where it is, so the head never changes.
_hashmap_msort(m, head, len) ==
    IF head = NULL THEN m
    ELSE LET Unsorted(s) == s.gap < len
             Pass(s) == [m |-> MergePass(s.m, head, s.gap, len),
                         gap |-> s.gap * 2]
         IN  Loop(Unsorted, Pass, [m |-> m, gap |-> 1], len).m

-----------------------------------------------------------------------------
\* The buckets from head on, in list order (at most len of them).
ListFrom(next, head, len) ==
    LET at[n \in 0..len] ==
            IF n = 0 THEN head
            ELSE LET p == at[n - 1] IN IF p = NULL THEN NULL ELSE next[p]
    IN  [n \in {k \in 1..len : at[k - 1] # NULL} |-> at[n - 1]]

\* hashmap_sort on a list of keys, wherever in the table their buckets are.
SortKeys(keys) ==
    LET n == Len(keys)
        m == [data |-> [k \in 1..n |-> [key |-> keys[k]]],
              next |-> [k \in 1..n |-> IF k = n THEN NULL ELSE k + 1]]
        head == IF n = 0 THEN NULL ELSE 1
        r == _hashmap_msort(m, head, n)
        list == ListFrom(r.next, head, n + 1)
    IN  [k \in DOMAIN list |-> r.data[list[k]].key]
=============================================================================
