--------------------------- MODULE Hashmap_proofs ---------------------------
(***************************************************************************)
(* Proofs about map.c, for any keys, values, hash function and capacity,   *)
(* any sequence of operations, and any outcome of the comparisons.         *)
(***************************************************************************)
EXTENDS Hashmap, SumLemmas

-----------------------------------------------------------------------------
(* Loops *)

\* What the first steps of a recursion are.
Steps(step, x, fuel, b) ==
    b = [n \in 0..fuel |-> IF n = 0 THEN x ELSE step[b[n - 1]]]

\* A step that leads from S to S can be repeated.
LEMMA Iterates ==
    ASSUME NEW S, NEW step \in [S -> S], NEW x \in S
    PROVE  \A fuel \in Nat : \E b \in [0..fuel -> S] : Steps(step, x, fuel, b)
<1> DEFINE T == {n \in Nat : \E b \in [0..n -> S] : Steps(step, x, n, b)}
<1>1. 0 \in T
  <2> DEFINE b == [k \in 0..0 |-> x]
  <2>1. b \in [0..0 -> S] /\ Steps(step, x, 0, b)
    BY DEF Steps
  <2> HIDE DEF b
  <2> QED BY <2>1
<1>2. ASSUME NEW n \in Nat, n \in T PROVE n + 1 \in T
  <2>1. PICK b \in [0..n -> S] : Steps(step, x, n, b)
    BY <1>2
  <2> DEFINE c == [k \in 0..n + 1 |-> IF k = n + 1 THEN step[b[n]] ELSE b[k]]
  <2>2. c \in [0..n + 1 -> S]
    OBVIOUS
  <2>3. ASSUME NEW k \in 0..n + 1
        PROVE  c[k] = IF k = 0 THEN x ELSE step[c[k - 1]]
    <3>1. CASE k = n + 1
      <4>1. k # 0 /\ k - 1 = n /\ c[n] = b[n] /\ c[k] = step[b[n]]
        BY <3>1
      <4> QED BY <4>1
    <3>2. CASE k # n + 1
      <4>1. k \in 0..n /\ c[k] = b[k] /\ b[k] = IF k = 0 THEN x ELSE step[b[k - 1]]
        BY <2>1, <3>2 DEF Steps
      <4>2. k # 0 => c[k - 1] = b[k - 1]
        BY <4>1
      <4> QED BY <4>1, <4>2
    <3> QED BY <3>1, <3>2
  <2>4. Steps(step, x, n + 1, c)
    <3> HIDE DEF c
    <3>1. c = [k \in 0..n + 1 |-> c[k]]
      BY <2>2
    <3> QED BY <2>3, <3>1 DEF Steps
  <2> HIDE DEF c
  <2> QED BY <2>2, <2>4
<1> HIDE DEF T
<1>3. \A n \in Nat : n \in T
  BY <1>1, <1>2, SetInduction
<1> QED BY <1>3 DEF T

\* What every step of a loop keeps holds after it.
LEMMA Kept ==
    ASSUME NEW fuel \in Nat, NEW S, NEW b, b[0] \in S,
           \A n \in 1..fuel : b[n - 1] \in S => b[n] \in S
    PROVE  \A n \in 0..fuel : b[n] \in S
<1> DEFINE T == {n \in Nat : n <= fuel => b[n] \in S}
<1>1. 0 \in T
  OBVIOUS
<1>2. ASSUME NEW n \in Nat, n \in T PROVE n + 1 \in T
  <2>1. n + 1 <= fuel => n + 1 \in 1..fuel /\ n <= fuel /\ n + 1 - 1 = n
    OBVIOUS
  <2> QED BY <1>2, <2>1
<1> HIDE DEF T
<1>3. \A n \in Nat : n \in T
  BY <1>1, <1>2, SetInduction
<1> QED BY <1>3 DEF T

-----------------------------------------------------------------------------
(* Lists *)

\* L names the n buckets of a list in their order.
Chain(next, L, n) ==
    /\ L \in [1..n -> DOMAIN next]
    /\ \A j, k \in 1..n : L[j] = L[k] => j = k
    /\ \A k \in 1..n : next[L[k]] = IF k = n THEN NULL ELSE L[k + 1]

FirstOf(L, n) == IF n = 0 THEN NULL ELSE L[1]

\* The buckets that ListFrom meets, the NULL behind the last one included.
Follows(next, head, len, at) ==
    at = [n \in 0..len |->
             IF n = 0 THEN head
             ELSE LET p == at[n - 1] IN IF p = NULL THEN NULL ELSE next[p]]

\* ListFrom is the walk with n steps, cut off at the first NULL.
LEMMA ListFromIs ==
    ASSUME NEW next, NEW head, NEW len
    PROVE  LET at == CHOOSE at : Follows(next, head, len, at)
           IN  ListFrom(next, head, len) =
                  [n \in {k \in 1..len : at[k - 1] # NULL} |-> at[n - 1]]
  BY DEF ListFrom, Follows

\* A walk along a list of n buckets with n + 1 steps meets them all.
LEMMA WalkIsList ==
    ASSUME NEW n \in Nat, NEW next, NEW L, Chain(next, L, n), NULL \notin DOMAIN next
    PROVE  ListFrom(next, FirstOf(L, n), n + 1) = L
<1> DEFINE walk == CHOOSE at : Follows(next, FirstOf(L, n), n + 1, at)
           good == [k \in 0..n + 1 |-> IF k < n THEN L[k + 1] ELSE NULL]
<1>1. \A k \in 1..n : L[k] # NULL
  BY DEF Chain
<1>2. Follows(next, FirstOf(L, n), n + 1, good)
  <2>1. ASSUME NEW k \in 0..n + 1
        PROVE  good[k] = IF k = 0 THEN FirstOf(L, n)
                         ELSE LET p == good[k - 1] IN IF p = NULL THEN NULL ELSE next[p]
    <3>1. CASE k = 0
      BY <3>1 DEF FirstOf
    <3>2. CASE k # 0 /\ k - 1 < n
      <4>1. k \in 1..n /\ k - 1 \in 0..n + 1 /\ k - 1 + 1 = k
        BY <3>2
      <4>2. good[k - 1] = L[k] /\ L[k] # NULL
        BY <1>1, <3>2, <4>1
      <4>3. next[L[k]] = IF k = n THEN NULL ELSE L[k + 1]
        BY <4>1 DEF Chain
      <4>4. good[k] = IF k < n THEN L[k + 1] ELSE NULL
        OBVIOUS
      <4> QED BY <3>2, <4>1, <4>2, <4>3, <4>4
    <3>3. CASE k # 0 /\ ~(k - 1 < n)
      <4>1. k - 1 \in 0..n + 1 /\ ~(k < n)
        BY <3>3
      <4>2. good[k - 1] = NULL /\ good[k] = NULL
        BY <3>3, <4>1
      <4> QED BY <3>3, <4>2
    <3> QED BY <3>1, <3>2, <3>3
  <2> HIDE DEF good
  <2>2. good = [k \in 0..n + 1 |-> good[k]]
    BY DEF good
  <2> QED BY <2>1, <2>2 DEF Follows
<1>3. Follows(next, FirstOf(L, n), n + 1, walk)
  <2> HIDE DEF good
  <2> QED BY <1>2
<1> HIDE DEF walk
<1>4. \A k \in 0..n + 1 : walk[k] = good[k]
  <2> DEFINE S == {k \in Nat : k <= n + 1 => walk[k] = good[k]}
  <2>1. /\ walk[0] = FirstOf(L, n) /\ good[0] = FirstOf(L, n)
        /\ \A k \in 1..n + 1 :
              /\ walk[k] = IF walk[k - 1] = NULL THEN NULL ELSE next[walk[k - 1]]
              /\ good[k] = IF good[k - 1] = NULL THEN NULL ELSE next[good[k - 1]]
    <3> HIDE DEF good
    <3> QED BY <1>2, <1>3 DEF Follows
  <2> HIDE DEF good
  <2>2. 0 \in S
    BY <2>1
  <2>3. ASSUME NEW k \in Nat, k \in S PROVE k + 1 \in S
    <3>1. k + 1 <= n + 1 => k + 1 \in 1..n + 1 /\ k <= n + 1 /\ k + 1 - 1 = k
      OBVIOUS
    <3> QED BY <2>1, <2>3, <3>1
  <2> HIDE DEF S
  <2>4. \A k \in Nat : k \in S
    BY <2>2, <2>3, SetInduction
  <2> QED BY <2>4 DEF S
<1>5. \A k \in 1..n + 1 : (walk[k - 1] # NULL <=> k \in 1..n)
                          /\ (k \in 1..n => walk[k - 1] = L[k])
  <2> SUFFICES ASSUME NEW k \in 1..n + 1
               PROVE  (walk[k - 1] # NULL <=> k \in 1..n)
                      /\ (k \in 1..n => walk[k - 1] = L[k])
    OBVIOUS
  <2>1. k - 1 \in 0..n + 1 /\ k - 1 + 1 = k /\ (k - 1 < n <=> k \in 1..n)
    OBVIOUS
  <2>2. walk[k - 1] = IF k - 1 < n THEN L[k] ELSE NULL
    BY <1>4, <2>1
  <2> QED BY <1>1, <2>1, <2>2
<1>6. {k \in 1..n + 1 : walk[k - 1] # NULL} = 1..n
  BY <1>5
<1>7. L = [k \in 1..n |-> L[k]]
  BY DEF Chain
<1>8. ListFrom(next, FirstOf(L, n), n + 1) =
         [k \in {j \in 1..n + 1 : walk[j - 1] # NULL} |-> walk[k - 1]]
  BY ListFromIs DEF walk
<1>9. \A k \in 1..n : walk[k - 1] = L[k]
  BY <1>5
<1> QED BY <1>6, <1>7, <1>8, <1>9

-----------------------------------------------------------------------------
(* The invariant *)

\* Every bucket holds a key and a value or is empty, and its next pointer leads
\* to a bucket that is allocated.
Bucket(addresses) ==
    [key : Keys \cup {NoKey}, val : Values \cup {0}, next : addresses \cup {NULL}]

\* The types, and that a call is in progress or not.
TypeInv ==
    /\ hash \in HashFunctions /\ sorted \in BOOLEAN
    /\ capacity \in Nat \ {0, 1} /\ count \in Nat
    /\ DOMAIN heap \subseteq Nat \ {0} /\ Table(capacity) \subseteq DOMAIN heap
    /\ heap \in [DOMAIN heap -> Bucket(DOMAIN heap)]
    /\ call.at # "resize" => DOMAIN heap = Table(capacity)
    /\ call \in [op : Ops \cup {"none"}, key : Keys \cup {NoKey},
                 val : Values \cup {0}, at : {"resize", "find", "done"}]
    /\ call.op = "none" <=> call.at = "done"
    /\ call.op # "none" => call.key \in Keys /\ ~sorted

\* A quarter of the table is free, also after the call in progress.
SizeInv ==
    /\ 4 * count <= 3 * capacity
    /\ call.at = "find" /\ call.op # "get" => 4 * (count + 1) <= 3 * capacity
    /\ call.at = "resize" => 4 * (count + 1) <= 3 * capacity

\* The list L, of which the first j entries are in the current table and the
\* others in the one that is being resized.
Linked(L, j) ==
    /\ L \in [1..count -> DOMAIN heap] /\ j \in 0..count
    /\ first = FirstOf(L, count)
    /\ last = IF j = 0 THEN HEAD ELSE L[j]
    /\ \A n \in 1..count :
          /\ heap[L[n]].next = IF n = count THEN NULL ELSE L[n + 1]
          /\ heap[L[n]].key \in Keys
          /\ L[n] \in Table(capacity) <=> n <= j
    /\ \A m, n \in 1..count : heap[L[m]].key = heap[L[n]].key => m = n
    /\ \A a \in Table(capacity) :
          IF heap[a].key = NoKey THEN heap[a].next = NULL ELSE \E n \in 1..j : a = L[n]
    /\ IF call.at = "resize" THEN j < count ELSE j = count

\* The probes for k meet a in the end, and no free bucket and not k before.
Reached(k, a) ==
    \E d \in 0..capacity - 1 :
        /\ Probe(k, d) = a
        /\ \A e \in 0..d - 1 : heap[Probe(k, e)].key \notin {NoKey, k}

FindInv ==
    \A a \in Table(capacity) : heap[a].key # NoKey => Reached(heap[a].key, a)

\* A free bucket has no value, as calloc left it.
FreeInv == \A a \in Table(capacity) : heap[a].key = NoKey => heap[a].val = 0

\* Nothing but a free bucket is known of the table after hashmap_sort.
SomeFree == \E a \in Table(capacity) : heap[a].key = NoKey

MapInv ==
    /\ TypeInv /\ SizeInv
    /\ ~sorted => FindInv /\ FreeInv /\ (\E L, j : Linked(L, j))
    /\ sorted => SomeFree /\ first \in DOMAIN heap \cup {NULL}
                 /\ last \in Table(capacity) \cup {HEAD}

\* The list from f through the table h meets the n buckets L, with different keys.
ListOf(h, f, L, n) ==
    /\ L \in [1..n -> DOMAIN h] /\ f = FirstOf(L, n)
    /\ \A k \in 1..n : h[L[k]].next = IF k = n THEN NULL ELSE L[k + 1]
    /\ \A j, k \in 1..n : h[L[j]].key = h[L[k]].key => j = k

\* A step keeps the entries of the list at their places, in whatever buckets.
KeepsList ==
    \E L, M :
        /\ ListOf(heap, first, L, count) /\ ListOf(heap', first', M, count')
        /\ count' = count
        /\ \A n \in 1..count : /\ heap'[M[n]].key = heap[L[n]].key
                              /\ heap'[M[n]].val = heap[L[n]].val

\* A step adds an entry to the end of the list.
ExtendsList(k, v) ==
    \E L, M :
        /\ ListOf(heap, first, L, count) /\ ListOf(heap', first', M, count')
        /\ count' = count + 1
        /\ \A n \in 1..count : /\ heap'[M[n]].key = heap[L[n]].key
                              /\ heap'[M[n]].val = heap[L[n]].val
        /\ heap'[M[count + 1]].key = k /\ heap'[M[count + 1]].val = v

-----------------------------------------------------------------------------
(* Probes *)

\* A probe looks at a bucket of the table.
LEMMA ProbeType ==
    ASSUME TypeInv, NEW k \in Keys, NEW d \in Nat
    PROVE  Probe(k, d) \in Table(capacity)
<1>1. hash[k] \in Nat /\ capacity \in Nat \ {0}
  <2>1. hash \in [Keys -> Nat]
    BY HashmapAssumption DEF TypeInv, HashmapAssumption
  <2> QED BY <2>1 DEF TypeInv
<1>2. PICK h \in Nat : h = hash[k] + d
  BY <1>1
<1>3. h % capacity \in 0..capacity - 1
  BY <1>1, <1>2
<1>4. PICK r \in 0..capacity - 1 : r = h % capacity
  BY <1>3
<1>5. capacity + r \in capacity..2 * capacity - 1
  BY <1>1, <1>4
<1> QED BY <1>2, <1>4, <1>5 DEF Probe, Table

\* Keys are no free bucket.
LEMMA KeyType == NoKey \notin Keys /\ Keys \subseteq Nat
  BY HashmapAssumption DEF HashmapAssumption

\* The bucket that the loops over the probes return.
LEMMA FirstProbeIs ==
    ASSUME TypeInv, NEW k \in Keys, NEW stop, ProbeEnds(k, stop)
    PROVE  \E d \in 0..capacity - 1 :
              /\ FirstProbe(k, stop) = Probe(k, d) /\ ProbeStops(k, stop, d)
              /\ \A e \in 0..d - 1 : ~ProbeStops(k, stop, e)
<1>1. capacity \in Nat
  BY DEF TypeInv
<1> DEFINE S == {d \in 0..capacity - 1 : ProbeStops(k, stop, d)}
           IsFirst(d) == /\ ProbeStops(k, stop, d)
                         /\ \A e \in 0..d - 1 : ~ProbeStops(k, stop, e)
<1>2. S \in SUBSET Nat /\ S # {}
  BY DEF ProbeEnds
<1>3. PICK d \in S : \A e \in S : d <= e
  BY <1>2, Least
<1>4. ASSUME NEW e \in 0..d - 1 PROVE ~ProbeStops(k, stop, e)
  <2>1. e \in 0..capacity - 1 /\ ~(d <= e)
    BY <1>1, <1>3
  <2> QED BY <1>3, <2>1
<1>5. d \in 0..capacity - 1 /\ IsFirst(d)
  BY <1>3, <1>4
<1>6. PICK f : f = CHOOSE x \in 0..capacity - 1 : IsFirst(x)
  OBVIOUS
<1>7. f \in 0..capacity - 1 /\ IsFirst(f)
  <2> HIDE DEF IsFirst
  <2> QED BY <1>5, <1>6
<1>8. FirstProbe(k, stop) = Probe(k, f)
  BY <1>6 DEF FirstProbe
<1> QED BY <1>7, <1>8

\* There is only one.
LEMMA FirstProbeOnly ==
    ASSUME TypeInv, NEW k \in Keys, NEW stop, NEW d \in 0..capacity - 1,
           ProbeStops(k, stop, d), \A e \in 0..d - 1 : ~ProbeStops(k, stop, e)
    PROVE  FirstProbe(k, stop) = Probe(k, d)
<1>1. ProbeEnds(k, stop)
  BY DEF ProbeEnds
<1>2. PICK f \in 0..capacity - 1 :
          /\ FirstProbe(k, stop) = Probe(k, f) /\ ProbeStops(k, stop, f)
          /\ \A e \in 0..f - 1 : ~ProbeStops(k, stop, e)
  BY <1>1, FirstProbeIs
<1>3. f = d
  <2>1. f \in Nat /\ d \in Nat
    BY DEF TypeInv
  <2>2. ~(f < d)
    <3>1. f < d => f \in 0..d - 1
      BY <2>1
    <3> QED BY <1>2, <3>1
  <2>3. ~(d < f)
    <3>1. d < f => d \in 0..f - 1
      BY <2>1
    <3> QED BY <1>2, <3>1
  <2> QED BY <2>1, <2>2, <2>3
<1> QED BY <1>2, <1>3

\* find_entry stops at the bucket of a key in the table, and at a free bucket
\* only if the key is not in the table.
LEMMA FindEntry ==
    ASSUME TypeInv, FindInv, NEW k \in Keys
    PROVE  /\ \A a \in Table(capacity) : heap[a].key = k => find_entry(k) = a
           /\ ProbeEnds(k, {NoKey, k}) =>
                 /\ find_entry(k) \in Table(capacity)
                 /\ heap[find_entry(k)].key \in {NoKey, k}
                 /\ heap[find_entry(k)].key = NoKey =>
                       \A a \in Table(capacity) : heap[a].key # k
<1>1. ASSUME NEW a \in Table(capacity), heap[a].key = k PROVE find_entry(k) = a
  <2>1. Reached(k, a)
    <3>1. k # NoKey
      BY KeyType
    <3> QED BY <1>1, <3>1 DEF FindInv
  <2>2. PICK d \in 0..capacity - 1 :
            /\ Probe(k, d) = a
            /\ \A e \in 0..d - 1 : heap[Probe(k, e)].key \notin {NoKey, k}
    BY <2>1 DEF Reached
  <2>3. ProbeStops(k, {NoKey, k}, d)
        /\ \A e \in 0..d - 1 : ~ProbeStops(k, {NoKey, k}, e)
    BY <1>1, <2>2 DEF ProbeStops
  <2> QED BY <2>2, <2>3, FirstProbeOnly DEF find_entry
<1>2. ASSUME ProbeEnds(k, {NoKey, k})
      PROVE  find_entry(k) \in Table(capacity) /\ heap[find_entry(k)].key \in {NoKey, k}
  <2>1. PICK d \in 0..capacity - 1 :
            /\ FirstProbe(k, {NoKey, k}) = Probe(k, d) /\ ProbeStops(k, {NoKey, k}, d)
    BY <1>2, FirstProbeIs
  <2>2. d \in Nat
    BY DEF TypeInv
  <2>3. Probe(k, d) \in Table(capacity)
    BY <2>2, ProbeType
  <2> QED BY <2>1, <2>3 DEF find_entry, ProbeStops
<1>3. k # NoKey
  BY KeyType
<1> QED BY <1>1, <1>2, <1>3

\* A new key in the first free bucket of its probes leaves all keys reachable.
LEMMA FindInsert ==
    ASSUME TypeInv, FindInv, UNCHANGED <<capacity, hash>>, NEW k \in Keys,
           \A a \in Table(capacity) : heap[a].key # k,
           NEW d \in 0..capacity - 1, heap[Probe(k, d)].key = NoKey,
           \A e \in 0..d - 1 : heap[Probe(k, e)].key # NoKey,
           \A a \in Table(capacity) :
               heap'[a].key = IF a = Probe(k, d) THEN k ELSE heap[a].key
    PROVE  FindInv'
<1>1. /\ \A x, e : Probe(x, e)' = Probe(x, e)
      /\ Table(capacity)' = Table(capacity) /\ capacity' = capacity
  BY DEF Probe, Table
<1>2. \A x \in Keys, e \in Nat : Probe(x, e) \in Table(capacity)
  BY ProbeType
<1>3. capacity \in Nat /\ NoKey \notin Keys /\ Table(capacity) \subseteq DOMAIN heap
      /\ heap \in [DOMAIN heap -> Bucket(DOMAIN heap)]
  BY KeyType DEF TypeInv
<1>4. SUFFICES ASSUME NEW a \in Table(capacity), heap'[a].key # NoKey
               PROVE  \E f \in 0..capacity - 1 :
                         /\ Probe(heap'[a].key, f) = a
                         /\ \A e \in 0..f - 1 :
                               heap'[Probe(heap'[a].key, e)].key \notin {NoKey, heap'[a].key}
  BY <1>1 DEF FindInv, Reached, Probe, Table
<1>5. CASE a = Probe(k, d)
  <2>1. heap'[a].key = k
    BY <1>5
  <2>2. ASSUME NEW e \in 0..d - 1 PROVE heap'[Probe(k, e)].key \notin {NoKey, k}
    <3>1. e \in Nat /\ Probe(k, e) \in Table(capacity)
      BY <1>2, <1>3
    <3>2. Probe(k, e) # Probe(k, d)
      OBVIOUS
    <3> QED BY <3>1, <3>2
  <2> QED BY <1>5, <2>1, <2>2
<1>6. CASE a # Probe(k, d)
  <2>1. heap'[a].key = heap[a].key
    BY <1>6
  <2>2. PICK x : x = heap[a].key
    OBVIOUS
  <2>3. x \in Keys /\ x # k
    BY <1>3, <1>4, <2>1, <2>2 DEF Bucket
  <2>4. Reached(x, a)
    BY <1>4, <2>1, <2>2 DEF FindInv
  <2>5. PICK f \in 0..capacity - 1 :
            /\ Probe(x, f) = a
            /\ \A e \in 0..f - 1 : heap[Probe(x, e)].key \notin {NoKey, x}
    BY <2>4 DEF Reached
  <2>6. ASSUME NEW e \in 0..f - 1 PROVE heap'[Probe(x, e)].key \notin {NoKey, x}
    <3>1. Probe(x, e) \in Table(capacity)
      <4>1. e \in Nat
        BY <1>3
      <4> QED BY <1>2, <2>3, <4>1
    <3>2. heap[Probe(x, e)].key \notin {NoKey, x}
      BY <2>5
    <3>3. Probe(x, e) # Probe(k, d)
      BY <3>2
    <3> QED BY <3>1, <3>2, <3>3
  <2> QED BY <2>1, <2>2, <2>5, <2>6
<1> QED BY <1>5, <1>6

\* With the keys where they were, they are found as before.
LEMMA FindSame ==
    ASSUME TypeInv, FindInv, UNCHANGED <<capacity, hash>>,
           \A a \in Table(capacity) : heap'[a].key = heap[a].key
    PROVE  FindInv'
<1>1. /\ \A x, e : Probe(x, e)' = Probe(x, e)
      /\ Table(capacity)' = Table(capacity) /\ capacity' = capacity
  BY DEF Probe, Table
<1>2. \A x \in Keys, e \in Nat : Probe(x, e) \in Table(capacity)
  BY ProbeType
<1>3. SUFFICES ASSUME NEW a \in Table(capacity), heap[a].key # NoKey
               PROVE  \E f \in 0..capacity - 1 :
                         /\ Probe(heap[a].key, f) = a
                         /\ \A e \in 0..f - 1 :
                               heap'[Probe(heap[a].key, e)].key \notin {NoKey, heap[a].key}
  BY <1>1 DEF FindInv, Reached, Probe, Table
<1>4. heap[a].key \in Keys /\ capacity \in Nat
  BY <1>3 DEF TypeInv, Bucket
<1>5. PICK f \in 0..capacity - 1 :
          /\ Probe(heap[a].key, f) = a
          /\ \A e \in 0..f - 1 : heap[Probe(heap[a].key, e)].key \notin {NoKey, heap[a].key}
  BY <1>3 DEF FindInv, Reached
<1>6. ASSUME NEW e \in 0..f - 1
      PROVE  heap'[Probe(heap[a].key, e)].key \notin {NoKey, heap[a].key}
  <2>1. e \in Nat
    BY <1>4
  <2> QED BY <1>2, <1>4, <1>5, <2>1
<1> QED BY <1>5, <1>6

-----------------------------------------------------------------------------
(* Links *)

\* The addresses of a table are none of the marks HEAD and NULL.
LEMMA Addresses ==
    ASSUME TypeInv
    PROVE  /\ HEAD \notin DOMAIN heap /\ NULL \notin DOMAIN heap
           /\ \A a \in Table(2 * capacity) : a \notin Table(capacity) /\ a \in Nat \ {0}
           /\ Table(capacity) \subseteq Nat \ {0}
  BY DEF TypeInv, HEAD, NULL, Table

\* Bucket entry gets the contents b, and last's next pointer leads to it, in
\* either order.
Links(g, entry, b) ==
    \/ g = SetNext([heap EXCEPT ![entry] = b], last, entry)
    \/ g = [SetNext(heap, last, entry) EXCEPT ![entry] = b]

\* What the buckets hold then.
LEMMA Linking ==
    ASSUME TypeInv, last \in DOMAIN heap \cup {HEAD}, NEW entry \in DOMAIN heap,
           entry # last, NEW b \in Bucket(DOMAIN heap), NEW g, Links(g, entry, b)
    PROVE  /\ g \in [DOMAIN heap -> Bucket(DOMAIN heap)]
           /\ \A a \in DOMAIN heap :
                 /\ g[a].key = IF a = entry THEN b.key ELSE heap[a].key
                 /\ g[a].val = IF a = entry THEN b.val ELSE heap[a].val
                 /\ g[a].next = IF a = entry THEN b.next
                                ELSE IF a = last THEN entry ELSE heap[a].next
<1>1. HEAD \notin DOMAIN heap /\ heap \in [DOMAIN heap -> Bucket(DOMAIN heap)]
  BY Addresses DEF TypeInv
<1> DEFINE linked == [heap[last] EXCEPT !.next = entry]
           f == [a \in DOMAIN heap |-> IF a = entry THEN b
                                       ELSE IF a = last THEN linked ELSE heap[a]]
<1>2. last \in DOMAIN heap =>
         /\ linked \in Bucket(DOMAIN heap) /\ linked.next = entry
         /\ linked.key = heap[last].key /\ linked.val = heap[last].val
  <2> SUFFICES ASSUME last \in DOMAIN heap
               PROVE  /\ linked \in Bucket(DOMAIN heap) /\ linked.next = entry
                      /\ linked.key = heap[last].key /\ linked.val = heap[last].val
    OBVIOUS
  <2>1. heap[last] \in Bucket(DOMAIN heap)
    BY <1>1
  <2> QED BY <2>1 DEF Bucket
<1>3. g = f
  <2> HIDE DEF linked
  <2>1. CASE last = HEAD
    <3>1. g = [heap EXCEPT ![entry] = b]
      BY <2>1 DEF Links, SetNext
    <3> QED BY <1>1, <2>1, <3>1
  <2>2. CASE last # HEAD
    <3>1. last \in DOMAIN heap
      BY <2>2
    <3>2. \/ g = [[heap EXCEPT ![entry] = b] EXCEPT ![last].next = entry]
          \/ g = [[heap EXCEPT ![last].next = entry] EXCEPT ![entry] = b]
      BY <2>2 DEF Links, SetNext
    <3> QED BY <1>1, <3>1, <3>2 DEF linked
  <2> QED BY <2>1, <2>2
<1> HIDE DEF linked
<1>4. f \in [DOMAIN heap -> Bucket(DOMAIN heap)]
  BY <1>1, <1>2
<1>5. ASSUME NEW a \in DOMAIN heap
      PROVE  /\ f[a].key = IF a = entry THEN b.key ELSE heap[a].key
             /\ f[a].val = IF a = entry THEN b.val ELSE heap[a].val
             /\ f[a].next = IF a = entry THEN b.next
                            ELSE IF a = last THEN entry ELSE heap[a].next
  BY <1>2
<1> QED BY <1>3, <1>4, <1>5

\* Where the end of the list is, and what comes after it.
LEMMA LinkedEnd ==
    ASSUME TypeInv, NEW L, NEW j, Linked(L, j)
    PROVE  /\ last \in DOMAIN heap \cup {HEAD} /\ last \in Table(capacity) \cup {HEAD}
           /\ \A n \in 1..count : L[n] = last <=> n = j
           /\ j < count => NextOf(last) = L[j + 1]
           /\ first \in DOMAIN heap \cup {NULL}
<1>1. /\ HEAD \notin DOMAIN heap /\ j \in 0..count /\ count \in Nat
      /\ L \in [1..count -> DOMAIN heap]
      /\ last = IF j = 0 THEN HEAD ELSE L[j]
      /\ first = IF count = 0 THEN NULL ELSE L[1]
      /\ \A n \in 1..count : /\ heap[L[n]].next = IF n = count THEN NULL ELSE L[n + 1]
                             /\ L[n] \in Table(capacity) <=> n <= j
      /\ \A m, n \in 1..count : heap[L[m]].key = heap[L[n]].key => m = n
  BY Addresses DEF Linked, TypeInv, FirstOf
<1>2. \A m, n \in 1..count : L[m] = L[n] => m = n
  BY <1>1
<1>3. j # 0 => j \in 1..count /\ last = L[j] /\ last # HEAD
  BY <1>1
<1>4. \A n \in 1..count : L[n] # HEAD
  BY <1>1
<1>5. j < count => NextOf(last) = L[j + 1]
  <2>1. CASE j = 0
    BY <1>1, <2>1 DEF NextOf
  <2>2. CASE j # 0
    <3>1. j < count => heap[L[j]].next = L[j + 1]
      BY <1>1, <1>3, <2>2
    <3> QED BY <1>3, <2>2, <3>1 DEF NextOf
  <2> QED BY <2>1, <2>2
<1>6. \A n \in 1..count : L[n] = last <=> n = j
  BY <1>1, <1>2, <1>3, <1>4
<1>7. j # 0 => last \in Table(capacity) /\ last \in DOMAIN heap
  BY <1>1, <1>3
<1>8. first \in DOMAIN heap \cup {NULL}
  BY <1>1
<1> QED BY <1>1, <1>5, <1>6, <1>7, <1>8

-----------------------------------------------------------------------------
(* The operations *)

\* A new map is empty.
LEMMA InitInv == hashmap_create => MapInv
<1> SUFFICES ASSUME hashmap_create PROVE MapInv
  OBVIOUS
<1>1. /\ hash \in HashFunctions /\ capacity = HASHMAP_DEFAULT_CAPACITY
      /\ heap = [a \in Table(capacity) |-> EmptyBucket]
      /\ first = NULL /\ last = HEAD /\ count = 0 /\ call = Idle /\ sorted = FALSE
  BY DEF hashmap_create, calloc
<1>2. capacity \in Nat \ {0, 1} /\ Table(capacity) \subseteq Nat \ {0}
  BY <1>1, HashmapAssumption DEF HashmapAssumption, Table
<1>3. EmptyBucket \in Bucket(Table(capacity)) /\ EmptyBucket.key = NoKey
      /\ EmptyBucket.next = NULL /\ EmptyBucket.val = 0
  BY DEF EmptyBucket, Bucket
<1>4. TypeInv
  BY <1>1, <1>2, <1>3 DEF TypeInv, Idle, Ops
<1>5. SizeInv
  BY <1>1, <1>2 DEF SizeInv, Idle
<1>6. \A a \in Table(capacity) : /\ heap[a].key = NoKey /\ heap[a].next = NULL
                                 /\ heap[a].val = 0
  BY <1>1, <1>3
<1>7. Linked([n \in 1..count |-> NULL], 0)
  <2>1. 1..count = {}
    BY <1>1
  <2> QED BY <1>1, <1>6, <2>1 DEF Linked, FirstOf, Idle
<1> QED BY <1>1, <1>4, <1>5, <1>6, <1>7 DEF MapInv, FindInv, FreeInv

\* A call begins; the table doubles first if it would be too full.
LEMMA EnterStep ==
    ASSUME MapInv, NEW op \in Ops, NEW k \in Keys, NEW v \in Values \cup {0},
           Enter(op, k, v)
    PROVE  MapInv' /\ KeepsList
<1>1. TypeInv /\ SizeInv /\ FindInv /\ FreeInv /\ ~sorted /\ call.op = "none" /\ call.at = "done"
  BY DEF MapInv, Enter, TypeInv
<1>2. PICK L, j : Linked(L, j)
  BY <1>1 DEF MapInv
<1>3. /\ UNCHANGED <<hash, first, count, sorted>>
      /\ call' = [op |-> op, key |-> k, val |-> v,
                  at |-> IF op # "get" /\ Overloaded(count + 1, capacity)
                         THEN "resize" ELSE "find"]
  BY DEF Enter
<1>4. /\ capacity \in Nat \ {0, 1} /\ count \in Nat /\ DOMAIN heap = Table(capacity)
      /\ heap \in [DOMAIN heap -> Bucket(DOMAIN heap)]
  BY <1>1 DEF TypeInv
<1>5. CASE op # "get" /\ Overloaded(count + 1, capacity)
  <2>1. /\ capacity' = 2 * capacity /\ last' = HEAD
        /\ heap' = [a \in DOMAIN heap \cup Table(capacity') |->
                       IF a \in DOMAIN heap THEN heap[a] ELSE EmptyBucket]
    BY <1>4, <1>5 DEF Enter, HASHMAP_RESIZE_FACTOR
  <2>2. \A a \in Table(2 * capacity) : a \notin DOMAIN heap /\ a \in Nat \ {0}
    BY <1>1, <1>4, Addresses
  <2> DEFINE D == DOMAIN heap \cup Table(2 * capacity)
  <2>3. heap' = [a \in D |-> IF a \in DOMAIN heap THEN heap[a] ELSE EmptyBucket]
        /\ DOMAIN heap' = D
    BY <2>1
  <2>4. EmptyBucket \in Bucket(D) /\ EmptyBucket.key = NoKey /\ EmptyBucket.next = NULL
        /\ EmptyBucket.val = 0
    BY DEF EmptyBucket, Bucket
  <2>5. \A a \in DOMAIN heap : heap[a] \in Bucket(D)
    <3>1. Bucket(DOMAIN heap) \subseteq Bucket(D)
      BY DEF Bucket
    <3> QED BY <1>4, <3>1
  <2>6. heap' \in [D -> Bucket(D)]
    <3> HIDE DEF D
    <3> QED BY <2>3, <2>4, <2>5
  <2>7. D \subseteq Nat \ {0}
    BY <1>1, <1>4, <2>2, Addresses
  <2> HIDE DEF D
  <2>8. TypeInv'
    <3>1. Table(capacity') = Table(2 * capacity) /\ Table(2 * capacity) \subseteq D
      BY <2>1 DEF D
    <3>2. capacity' \in Nat \ {0, 1}
      BY <1>4, <2>1
    <3>3. call'.at = "resize" /\ call'.op = op /\ call'.key = k /\ op # "none"
      BY <1>3, <1>5 DEF Ops
    <3>4. call' \in [op : Ops \cup {"none"}, key : Keys \cup {NoKey},
                     val : Values \cup {0}, at : {"resize", "find", "done"}]
      BY <1>3, <1>5
    <3>5. /\ hash' \in HashFunctions /\ sorted' \in BOOLEAN /\ count' \in Nat
          /\ ~sorted'
      BY <1>1, <1>3 DEF TypeInv
    <3>6. /\ DOMAIN heap' \subseteq Nat \ {0} /\ Table(capacity)' \subseteq DOMAIN heap'
          /\ heap' \in [DOMAIN heap' -> Bucket(DOMAIN heap')]
      BY <2>3, <2>6, <2>7, <3>1 DEF Table
    <3>7. call'.at # "resize" => DOMAIN heap' = Table(capacity)'
      BY <3>3
    <3> QED BY <3>2, <3>3, <3>4, <3>5, <3>6, <3>7 DEF TypeInv
  <2>9. SizeInv' /\ count > 0
    <3>1. 4 * (count + 1) > 3 * capacity /\ 4 * count <= 3 * capacity
      BY <1>1, <1>5 DEF Overloaded, SizeInv
    <3>2. 4 * (count + 1) <= 3 * (2 * capacity) /\ 4 * count <= 3 * (2 * capacity)
          /\ count > 0
      BY <1>4, <3>1
    <3> QED BY <1>3, <2>1, <3>2 DEF SizeInv
  <2>10. \A a \in Table(2 * capacity) : /\ heap'[a].key = NoKey /\ heap'[a].next = NULL
                                        /\ heap'[a].val = 0
    BY <2>2, <2>3, <2>4 DEF D
  <2>11. Linked(L, 0)' /\ KeepsList
    <3>1. /\ L \in [1..count -> DOMAIN heap] /\ first = FirstOf(L, count)
          /\ \A n \in 1..count :
                /\ heap[L[n]].next = IF n = count THEN NULL ELSE L[n + 1]
                /\ heap[L[n]].key \in Keys
          /\ \A m, n \in 1..count : heap[L[m]].key = heap[L[n]].key => m = n
      BY <1>2 DEF Linked
    <3>2. \A n \in 1..count : /\ heap'[L[n]] = heap[L[n]] /\ L[n] \in D
                              /\ L[n] \notin Table(2 * capacity)
      BY <2>2, <2>3, <3>1 DEF D
    <3>3. L \in [1..count -> D]
      BY <3>1, <3>2
    <3>4. /\ L \in [1..count' -> DOMAIN heap'] /\ 0 \in 0..count'
          /\ first' = FirstOf(L, count)' /\ last' = HEAD
          /\ \A n \in 1..count' :
                /\ heap'[L[n]].next = IF n = count' THEN NULL ELSE L[n + 1]
                /\ heap'[L[n]].key \in Keys
                /\ L[n] \notin Table(capacity)' /\ ~(n <= 0)
          /\ \A m, n \in 1..count' : heap'[L[m]].key = heap'[L[n]].key => m = n
      BY <1>3, <1>4, <2>1, <2>3, <3>1, <3>2, <3>3 DEF FirstOf, Table
    <3>5. \A a \in Table(capacity)' : heap'[a].key = NoKey /\ heap'[a].next = NULL
      BY <2>1, <2>10 DEF Table
    <3>6. call'.at = "resize" /\ 0 < count'
      BY <1>3, <1>4, <1>5, <2>9
    <3>7. FirstOf(L, count)' = FirstOf(L, count')
      BY DEF FirstOf, NULL
    <3>8. KeepsList
      <4>1. ListOf(heap, first, L, count)
        BY <3>1 DEF ListOf
      <4>2. /\ L \in [1..count' -> DOMAIN heap'] /\ first' = FirstOf(L, count')
            /\ \A n \in 1..count' :
                  heap'[L[n]].next = IF n = count' THEN NULL ELSE L[n + 1]
            /\ \A m, n \in 1..count' : heap'[L[m]].key = heap'[L[n]].key => m = n
        BY <1>3, <3>4, <3>7
      <4>3. ListOf(heap', first', L, count')
        BY <4>2 DEF ListOf
      <4>4. /\ count' = count
            /\ \A n \in 1..count : /\ heap'[L[n]].key = heap[L[n]].key
                                    /\ heap'[L[n]].val = heap[L[n]].val
        BY <1>3, <3>2
      <4> QED BY <4>1, <4>3, <4>4 DEF KeepsList
    <3> QED BY <3>4, <3>5, <3>6, <3>8 DEF Linked, HEAD, NULL
  <2>12. FindInv' /\ FreeInv'
    BY <2>1, <2>10 DEF FindInv, FreeInv, Table
  <2>13. ~sorted'
    BY <1>1, <1>3
  <2> QED BY <2>8, <2>9, <2>11, <2>12, <2>13 DEF MapInv
<1>6. CASE ~(op # "get" /\ Overloaded(count + 1, capacity))
  <2>1. UNCHANGED <<capacity, heap, last, hash, first, count, sorted>>
    BY <1>3, <1>6 DEF Enter
  <2>2. call'.at = "find" /\ call'.op = op /\ call'.key = k /\ op # "none"
        /\ call' \in [op : Ops \cup {"none"}, key : Keys \cup {NoKey},
                      val : Values \cup {0}, at : {"resize", "find", "done"}]
    BY <1>3, <1>6 DEF Ops
  <2>3. TypeInv'
    BY <1>1, <2>1, <2>2 DEF TypeInv, Table, Bucket, NULL
  <2>4. SizeInv'
    <3>1. op # "get" => 4 * (count + 1) <= 3 * capacity
      BY <1>4, <1>6 DEF Overloaded
    <3> QED BY <1>1, <2>1, <2>2, <3>1 DEF SizeInv
  <2>5. FindInv' /\ FreeInv'
    <3>1. FreeInv'
      BY <1>1, <2>1 DEF FreeInv, Table
    <3> QED BY <1>1, <2>1, <3>1, FindSame
  <2>6. Linked(L, j)' /\ KeepsList
    <3>1. j = count
      BY <1>1, <1>2 DEF Linked
    <3>2. Linked(L, j)'
      BY <1>2, <2>1, <2>2, <3>1 DEF Linked, Table, FirstOf, HEAD, NULL
    <3>3. ListOf(heap, first, L, count)
      BY <1>2 DEF Linked, ListOf
    <3> QED BY <2>1, <3>2, <3>3 DEF KeepsList
  <2>7. ~sorted'
    BY <1>1, <1>3
  <2> QED BY <2>3, <2>4, <2>5, <2>6, <2>7 DEF MapInv
<1> QED BY <1>5, <1>6

\* One entry of the list moves to the new table; after the last one the old
\* table is free and no pointer leads into it.
LEMMA ResizeStep == ASSUME MapInv, hashmap_resize PROVE MapInv' /\ KeepsList
<1>1. TypeInv /\ SizeInv /\ FindInv /\ FreeInv /\ call.at = "resize" /\ ~sorted
  BY DEF MapInv, hashmap_resize, TypeInv
<1>2. PICK L, j : Linked(L, j)
  BY <1>1 DEF MapInv
<1>3. /\ L \in [1..count -> DOMAIN heap] /\ j \in 0..count /\ j < count
      /\ first = FirstOf(L, count) /\ last = (IF j = 0 THEN HEAD ELSE L[j])
      /\ \A n \in 1..count :
            /\ heap[L[n]].next = IF n = count THEN NULL ELSE L[n + 1]
            /\ heap[L[n]].key \in Keys
            /\ L[n] \in Table(capacity) <=> n <= j
      /\ \A m, n \in 1..count : heap[L[m]].key = heap[L[n]].key => m = n
      /\ \A a \in Table(capacity) :
            IF heap[a].key = NoKey THEN heap[a].next = NULL
            ELSE \E n \in 1..j : a = L[n]
  BY <1>1, <1>2 DEF Linked
<1>4. /\ capacity \in Nat \ {0, 1} /\ count \in Nat
      /\ DOMAIN heap \subseteq Nat \ {0} /\ Table(capacity) \subseteq DOMAIN heap
      /\ heap \in [DOMAIN heap -> Bucket(DOMAIN heap)]
  BY <1>1 DEF TypeInv
<1> DEFINE old == L[j + 1]
<1>5a. PICK k : k = heap[old].key
  OBVIOUS
<1>5b. PICK entry : entry = resize_entry(k)
  OBVIOUS
<1>5c. PICK copied : copied = SetNext([heap EXCEPT ![entry] = heap[old]], last, entry)
  OBVIOUS
<1> DEFINE over == copied[entry].next = NULL
<1>5. j + 1 \in 1..count /\ old \in DOMAIN heap /\ k \in Keys /\ k # NoKey
  BY <1>3, <1>4, <1>5a, KeyType
<1>6. NextOf(last) = old
  <2>1. j < count
    BY <1>3
  <2> QED BY <1>1, <1>2, <2>1, LinkedEnd
<1>7. /\ ProbeEnds(k, {NoKey}) /\ last' = entry
      /\ first' = (IF last = HEAD THEN entry ELSE first)
      /\ heap' = (IF over THEN [a \in Table(capacity) |-> copied[a]] ELSE copied)
      /\ call' = [call EXCEPT !.at = IF over THEN "find" ELSE "resize"]
      /\ UNCHANGED <<hash, capacity, count, out, sorted>>
  BY <1>6, <1>5a, <1>5b, <1>5c DEF hashmap_resize
<1>8. PICK d \in 0..capacity - 1 :
          /\ entry = Probe(k, d) /\ heap[entry].key = NoKey
          /\ \A e \in 0..d - 1 : heap[Probe(k, e)].key # NoKey
  <2>1. PICK d \in 0..capacity - 1 :
            /\ FirstProbe(k, {NoKey}) = Probe(k, d) /\ ProbeStops(k, {NoKey}, d)
            /\ \A e \in 0..d - 1 : ~ProbeStops(k, {NoKey}, e)
    BY <1>1, <1>5, <1>7, FirstProbeIs
  <2> QED BY <1>5b, <2>1 DEF resize_entry, ProbeStops
<1> HIDE DEF over
<1>9. entry \in Table(capacity) /\ entry \in DOMAIN heap
  <2>1. d \in Nat
    BY <1>4
  <2> QED BY <1>1, <1>4, <1>5, <1>8, <2>1, ProbeType
<1>10. \A n \in 1..count : L[n] # entry
  BY <1>3, <1>8, KeyType
<1>11. last # entry /\ last \in DOMAIN heap \cup {HEAD}
  <2>1. j # 0 => j \in 1..count
    BY <1>3
  <2>2. entry # HEAD
    BY <1>1, <1>9, Addresses
  <2>3. last \in DOMAIN heap \cup {HEAD}
    BY <1>1, <1>2, LinkedEnd
  <2> QED BY <1>3, <1>10, <2>1, <2>2, <2>3
<1>12. heap[old] \in Bucket(DOMAIN heap) /\ heap[old].key = k
       /\ heap[old].next = (IF j + 1 = count THEN NULL ELSE L[j + 2])
  <2>1. j + 1 + 1 = j + 2
    BY <1>3, <1>4
  <2>2. heap[old].next = IF j + 1 = count THEN NULL ELSE L[j + 1 + 1]
    BY <1>3, <1>5
  <2> QED BY <1>4, <1>5, <1>5a, <2>1, <2>2
<1>13. /\ copied \in [DOMAIN heap -> Bucket(DOMAIN heap)]
       /\ \A a \in DOMAIN heap :
             /\ copied[a].key = IF a = entry THEN k ELSE heap[a].key
             /\ copied[a].val = IF a = entry THEN heap[old].val ELSE heap[a].val
             /\ copied[a].next = IF a = entry THEN heap[old].next
                                 ELSE IF a = last THEN entry ELSE heap[a].next
  <2>1. PICK b \in Bucket(DOMAIN heap) : b = heap[old]
    BY <1>12
  <2>2. Links(copied, entry, b)
    BY <1>5c, <2>1 DEF Links
  <2>3. b.key = k /\ b.val = heap[old].val /\ b.next = heap[old].next
    BY <1>12, <2>1
  <2> HIDE DEF old
  <2> QED BY <1>1, <1>9, <1>11, <2>1, <2>2, <2>3, Linking
<1>14. over <=> j + 1 = count
  <2>1. copied[entry].next = heap[old].next
    BY <1>9, <1>13
  <2>2. j + 1 # count => j + 2 \in 1..count
    BY <1>3, <1>4
  <2>3. j + 1 # count => L[j + 2] # NULL
    BY <1>1, <1>3, <2>2, Addresses
  <2> QED BY <1>12, <2>1, <2>3 DEF over
<1> DEFINE M == [L EXCEPT ![j + 1] = entry]
<1>15. /\ M \in [1..count -> DOMAIN heap]
       /\ \A n \in 1..count : M[n] = IF n = j + 1 THEN entry ELSE L[n]
  BY <1>3, <1>5, <1>9
<1> HIDE DEF M
<1>16. \A n \in 1..count : (L[n] = last <=> n = j)
  BY <1>1, <1>2, LinkedEnd
<1>17. ASSUME NEW n \in 1..count
       PROVE  /\ copied[M[n]].key = heap[L[n]].key /\ copied[M[n]].val = heap[L[n]].val
              /\ copied[M[n]].next = IF n = count THEN NULL ELSE M[n + 1]
              /\ M[n] \in Table(capacity) <=> n <= j + 1
  <2>1. n # count => n + 1 \in 1..count
    BY <1>4
  <2>2. L[n] \in DOMAIN heap
    BY <1>3
  <2>3. CASE n = j + 1
    <3>1. M[n] = entry
      BY <1>15, <2>3
    <3>2. copied[M[n]].key = heap[L[n]].key /\ copied[M[n]].val = heap[L[n]].val
      BY <1>9, <1>13, <1>5a, <2>3, <3>1
    <3>3. copied[M[n]].next = IF n = count THEN NULL ELSE L[n + 1]
      BY <1>3, <1>9, <1>13, <2>3, <3>1
    <3>4. n # count => M[n + 1] = L[n + 1]
      BY <1>3, <1>15, <2>1, <2>3
    <3>5. n <= j + 1
      BY <1>3, <2>3
    <3> QED BY <1>9, <3>1, <3>2, <3>3, <3>4, <3>5
  <2>4. CASE n = j
    <3>1. M[n] = L[n] /\ L[n] = last /\ L[n] # entry
      BY <1>10, <1>15, <1>16, <2>4
    <3>2. /\ copied[M[n]].key = heap[L[n]].key /\ copied[M[n]].val = heap[L[n]].val
          /\ copied[M[n]].next = entry
      BY <1>13, <2>2, <3>1
    <3>3. n # count /\ M[n + 1] = entry
      BY <1>3, <1>5, <1>15, <2>4
    <3>4. M[n] \in Table(capacity) /\ n <= j + 1
      BY <1>3, <2>4, <3>1
    <3> QED BY <3>2, <3>3, <3>4
  <2>5. CASE n # j /\ n # j + 1
    <3>1. M[n] = L[n] /\ L[n] # last /\ L[n] # entry
      BY <1>10, <1>15, <1>16, <2>5
    <3>2. /\ copied[M[n]].key = heap[L[n]].key /\ copied[M[n]].val = heap[L[n]].val
          /\ copied[M[n]].next = heap[L[n]].next
      BY <1>13, <2>2, <3>1
    <3>3. n # count => M[n + 1] = L[n + 1]
      <4>1. n + 1 # j + 1
        BY <1>3, <2>5
      <4> QED BY <1>15, <2>1, <4>1
    <3>4. n <= j <=> n <= j + 1
      BY <1>3, <2>5
    <3> QED BY <1>3, <3>1, <3>2, <3>3, <3>4
  <2> QED BY <2>3, <2>4, <2>5
<1>18. ASSUME NEW a \in Table(capacity)
       PROVE  IF copied[a].key = NoKey THEN copied[a].next = NULL
              ELSE \E n \in 1..j + 1 : a = M[n]
  <2>1. a \in DOMAIN heap
    BY <1>4
  <2>2. CASE a = entry
    <3>1. copied[a].key # NoKey
      BY <1>5, <1>13, <2>1, <2>2
    <3>2. a = M[j + 1] /\ j + 1 \in 1..j + 1
      BY <1>3, <1>5, <1>15, <2>2
    <3> QED BY <3>1, <3>2
  <2>3. CASE a # entry /\ heap[a].key = NoKey
    <3>1. a # last
      <4>1. j # 0 => j \in 1..count /\ heap[L[j]].key \in Keys
        BY <1>3
      <4>2. a # HEAD
        BY <1>4, <2>1 DEF HEAD
      <4> QED BY <1>3, <2>3, <4>1, <4>2, KeyType
    <3> QED BY <1>3, <1>13, <2>1, <2>3, <3>1
  <2>4. CASE a # entry /\ heap[a].key # NoKey
    <3>1. PICK n \in 1..j : a = L[n]
      BY <1>3, <2>4
    <3>2. n \in 1..count /\ n # j + 1 /\ n \in 1..j + 1
      BY <1>3, <1>4
    <3>3. a = M[n]
      BY <1>15, <3>1, <3>2
    <3>4. copied[a].key # NoKey
      BY <1>13, <2>1, <2>4
    <3> QED BY <3>2, <3>3, <3>4
  <2> QED BY <2>2, <2>3, <2>4
<1>19. \A a \in Table(capacity) : heap'[a] = copied[a]
  BY <1>4, <1>7
<1>20. /\ DOMAIN heap' = (IF over THEN Table(capacity) ELSE DOMAIN heap)
       /\ \A n \in 1..count : M[n] \in DOMAIN heap' /\ heap'[M[n]] = copied[M[n]]
  <2>1. DOMAIN heap' = (IF over THEN Table(capacity) ELSE DOMAIN heap)
    BY <1>7, <1>13
  <2>2. over => \A n \in 1..count : n <= j + 1
    BY <1>3, <1>4, <1>14
  <2>3. \A n \in 1..count : M[n] \in DOMAIN heap
    BY <1>15
  <2> QED BY <1>7, <1>17, <1>19, <2>1, <2>2, <2>3
<1>21. TypeInv'
  <2>1. /\ call'.at = (IF over THEN "find" ELSE "resize") /\ call'.op = call.op
        /\ call'.key = call.key /\ call.op # "none"
        /\ call' \in [op : Ops \cup {"none"}, key : Keys \cup {NoKey},
                      val : Values \cup {0}, at : {"resize", "find", "done"}]
    BY <1>1, <1>7 DEF TypeInv
  <2>2. /\ DOMAIN heap' \subseteq Nat \ {0} /\ Table(capacity) \subseteq DOMAIN heap'
        /\ call'.at # "resize" => DOMAIN heap' = Table(capacity)
    BY <1>4, <1>20, <2>1
  <2>3. heap' \in [DOMAIN heap' -> Bucket(DOMAIN heap')]
    <3>1. CASE ~over
      BY <1>7, <1>13, <3>1
    <3>2. CASE over
      <4>1. ASSUME NEW a \in Table(capacity) PROVE copied[a] \in Bucket(Table(capacity))
        <5>1. copied[a] \in Bucket(DOMAIN heap)
          BY <1>4, <1>13
        <5>2. copied[a].next \in Table(capacity) \cup {NULL}
          <6>1. CASE copied[a].key = NoKey
            BY <1>18, <6>1
          <6>2. CASE copied[a].key # NoKey
            <7>1. PICK n \in 1..j + 1 : a = M[n]
              BY <1>18, <6>2
            <7>2. n \in 1..count
              BY <1>3, <1>4, <7>1
            <7>3. copied[a].next = IF n = count THEN NULL ELSE M[n + 1]
              BY <1>17, <7>1, <7>2
            <7>4. n # count => n + 1 \in 1..count /\ M[n + 1] \in DOMAIN heap'
              BY <1>4, <1>20, <7>2
            <7> QED BY <1>20, <3>2, <7>3, <7>4
          <6> QED BY <6>1, <6>2
        <5> QED BY <5>1, <5>2 DEF Bucket
      <4>2. heap' = [a \in Table(capacity) |-> copied[a]]
        BY <1>7, <3>2
      <4> QED BY <4>1, <4>2
    <3> QED BY <3>1, <3>2
  <2>4. /\ hash' \in HashFunctions /\ sorted' \in BOOLEAN /\ ~sorted'
        /\ capacity' \in Nat \ {0, 1} /\ count' \in Nat
        /\ call'.key \in Keys
    BY <1>1, <1>4, <1>7, <2>1 DEF TypeInv
  <2>5. Table(capacity)' = Table(capacity)
    BY <1>7 DEF Table
  <2> QED BY <2>1, <2>2, <2>3, <2>4, <2>5 DEF TypeInv
<1>22. SizeInv'
  BY <1>1, <1>7 DEF SizeInv
<1>23. FindInv'
  <2>1. \A a \in Table(capacity) : heap[a].key # k
    <3> SUFFICES ASSUME NEW a \in Table(capacity), heap[a].key = k PROVE FALSE
      OBVIOUS
    <3>1. PICK n \in 1..j : a = L[n]
      BY <1>3, <1>5
    <3>2. n \in 1..count /\ n # j + 1
      BY <1>3, <1>4
    <3> QED BY <1>3, <1>5, <1>5a, <3>1, <3>2
  <2>2. \A a \in Table(capacity) :
           heap'[a].key = IF a = Probe(k, d) THEN k ELSE heap[a].key
    BY <1>4, <1>8, <1>13, <1>19
  <2>3. UNCHANGED <<capacity, hash>>
    BY <1>7
  <2>4. heap[Probe(k, d)].key = NoKey
    BY <1>8
  <2> QED BY <1>1, <1>5, <1>8, <2>1, <2>2, <2>3, <2>4, FindInsert
<1>24. Linked(M, j + 1)' /\ KeepsList
  <2>1. /\ M \in [1..count -> DOMAIN heap'] /\ j + 1 \in 0..count
        /\ first' = FirstOf(M, count) /\ last' = M[j + 1] /\ j + 1 # 0
    <3>1. last = HEAD <=> j = 0
      <4>1. j # 0 => j \in 1..count /\ L[j] \in DOMAIN heap
        BY <1>3
      <4> QED BY <1>1, <1>3, <4>1, Addresses
    <3>2. count # 0 /\ 1 \in 1..count
      BY <1>3, <1>4
    <3>3. M[1] = IF j = 0 THEN entry ELSE L[1]
      BY <1>3, <1>15, <3>2
    <3>4. last' = M[j + 1]
      BY <1>5, <1>7, <1>15
    <3>5. first' = FirstOf(M, count)
      BY <1>3, <1>7, <3>1, <3>2, <3>3 DEF FirstOf
    <3>6. M = [n \in 1..count |-> M[n]]
      BY <1>15
    <3>7. j + 1 \in 0..count /\ j + 1 # 0
      BY <1>3, <1>5
    <3> QED BY <1>20, <3>4, <3>5, <3>6, <3>7
  <2>2. ASSUME NEW n \in 1..count
        PROVE  /\ heap'[M[n]].next = IF n = count THEN NULL ELSE M[n + 1]
               /\ heap'[M[n]].key \in Keys
               /\ M[n] \in Table(capacity) <=> n <= j + 1
    BY <1>3, <1>17, <1>20
  <2>3. ASSUME NEW m \in 1..count, NEW n \in 1..count,
               heap'[M[m]].key = heap'[M[n]].key
        PROVE  m = n
    BY <1>3, <1>17, <1>20, <2>3
  <2>4. \A a \in Table(capacity) :
           IF heap'[a].key = NoKey THEN heap'[a].next = NULL
           ELSE \E n \in 1..j + 1 : a = M[n]
    BY <1>18, <1>19
  <2>5. IF call'.at = "resize" THEN j + 1 < count ELSE j + 1 = count
    <3>1. call'.at = (IF over THEN "find" ELSE "resize")
      BY <1>1, <1>7 DEF TypeInv
    <3> QED BY <1>3, <1>4, <1>14, <3>1
  <2>6. count' = count /\ Table(capacity)' = Table(capacity)
    BY <1>7 DEF Table
  <2>7. /\ M \in [1..count' -> DOMAIN heap'] /\ j + 1 \in 0..count'
        /\ first' = FirstOf(M, count)'
        /\ last' = (IF j + 1 = 0 THEN HEAD ELSE M[j + 1])
    BY <2>1, <2>6 DEF FirstOf
  <2>8. /\ \A n \in 1..count' :
              /\ heap'[M[n]].next = IF n = count' THEN NULL ELSE M[n + 1]
              /\ heap'[M[n]].key \in Keys
              /\ M[n] \in Table(capacity)' <=> n <= j + 1
        /\ \A m, n \in 1..count' : heap'[M[m]].key = heap'[M[n]].key => m = n
        /\ \A a \in Table(capacity)' :
               IF heap'[a].key = NoKey THEN heap'[a].next = NULL
               ELSE \E n \in 1..j + 1 : a = M[n]
        /\ IF call'.at = "resize" THEN j + 1 < count' ELSE j + 1 = count'
    BY <2>2, <2>3, <2>4, <2>5, <2>6
  <2>9. KeepsList
    <3>1. ListOf(heap, first, L, count)
      BY <1>3 DEF ListOf
    <3>2. ListOf(heap', first', M, count')
      BY <2>1, <2>2, <2>3, <2>6 DEF ListOf
    <3> QED BY <1>17, <1>20, <2>6, <3>1, <3>2 DEF KeepsList
  <2> QED BY <2>7, <2>8, <2>9 DEF Linked, HEAD, NULL
<1>25. ~sorted'
  BY <1>1, <1>7
<1>26. FreeInv'
  <2>1. ASSUME NEW a \in Table(capacity), heap'[a].key = NoKey PROVE heap'[a].val = 0
    BY <1>1, <1>4, <1>5, <1>13, <1>19, <2>1 DEF FreeInv
  <2>2. Table(capacity)' = Table(capacity)
    BY <1>7 DEF Table
  <2> QED BY <2>1, <2>2 DEF FreeInv
<1> QED BY <1>21, <1>22, <1>23, <1>24, <1>25, <1>26 DEF MapInv

\* What is known when an operation has found its bucket.
LEMMA Found ==
    ASSUME MapInv, NEW op \in Ops, Finding(op)
    PROVE  /\ TypeInv /\ SizeInv /\ FindInv /\ FreeInv /\ ~sorted
           /\ call.at = "find" /\ call.op = op /\ call.key \in Keys
           /\ call.val \in Values \cup {0} /\ DOMAIN heap = Table(capacity)
           /\ call' = Idle /\ UNCHANGED <<hash, capacity, sorted>>
           /\ Table(capacity)' = Table(capacity)
           /\ find_entry(call.key) \in Table(capacity)
           /\ heap[find_entry(call.key)].key \in {NoKey, call.key}
           /\ heap[find_entry(call.key)].key = NoKey =>
                 \A a \in Table(capacity) : heap[a].key # call.key
           /\ \E L : Linked(L, count)
<1>1. /\ call.at = "find" /\ call.op = op /\ call' = Idle
      /\ ProbeEnds(call.key, {NoKey, call.key})
      /\ UNCHANGED <<hash, capacity, sorted>>
  BY DEF Finding
<1>2. TypeInv /\ SizeInv /\ op # "none"
  BY DEF MapInv, Ops
<1>3. /\ ~sorted /\ call.key \in Keys /\ call.val \in Values \cup {0}
      /\ DOMAIN heap = Table(capacity)
  BY <1>1, <1>2 DEF TypeInv
<1>4. FindInv /\ FreeInv /\ \E L, j : Linked(L, j)
  BY <1>3 DEF MapInv
<1>5. \E L : Linked(L, count)
  <2>1. PICK L, j : Linked(L, j)
    BY <1>4
  <2>2. j = count
    BY <1>1, <2>1 DEF Linked
  <2> QED BY <2>1, <2>2
<1>6. /\ find_entry(call.key) \in Table(capacity)
      /\ heap[find_entry(call.key)].key \in {NoKey, call.key}
      /\ heap[find_entry(call.key)].key = NoKey =>
            \A a \in Table(capacity) : heap[a].key # call.key
  BY <1>1, <1>2, <1>3, <1>4, FindEntry
<1>7. Table(capacity)' = Table(capacity)
  BY <1>1 DEF Table
<1> QED BY <1>1, <1>2, <1>3, <1>4, <1>5, <1>6, <1>7

\* After an operation its call is over.
LEMMA Returned ==
    ASSUME TypeInv, UNCHANGED <<hash, capacity, sorted>>, call' = Idle,
           count' \in Nat, DOMAIN heap = Table(capacity),
           heap' \in [DOMAIN heap -> Bucket(DOMAIN heap)]
    PROVE  TypeInv'
<1>1. DOMAIN heap' = DOMAIN heap /\ Table(capacity)' = Table(capacity)
  BY DEF Table
<1>2. Bucket(DOMAIN heap)' = Bucket(DOMAIN heap)
  BY <1>1 DEF Bucket, NULL
<1>3. call' \in [op : Ops \cup {"none"}, key : Keys \cup {NoKey},
                 val : Values \cup {0}, at : {"resize", "find", "done"}]
      /\ call'.op = "none" /\ call'.at = "done"
  BY DEF Idle
<1> QED BY <1>1, <1>2, <1>3 DEF TypeInv

\* A new entry comes to the end of the list, in a bucket that was free.
LEMMA InsertStep ==
    ASSUME MapInv, NEW op \in Ops \ {"get"}, Finding(op),
           heap[find_entry(call.key)].key = NoKey,
           Insert(find_entry(call.key), call.key, call.val)
    PROVE  MapInv' /\ ExtendsList(call.key, call.val)
<1>1. /\ TypeInv /\ SizeInv /\ FindInv /\ FreeInv /\ ~sorted
      /\ call.at = "find" /\ call.op = op /\ call.key \in Keys
      /\ call.val \in Values \cup {0} /\ DOMAIN heap = Table(capacity)
      /\ call' = Idle /\ UNCHANGED <<hash, capacity, sorted>>
      /\ Table(capacity)' = Table(capacity)
      /\ find_entry(call.key) \in Table(capacity)
      /\ \A a \in Table(capacity) : heap[a].key # call.key
      /\ \E L : Linked(L, count)
  BY Found
<1>2. PICK k \in Keys : k = call.key
  BY <1>1
<1>3. PICK entry \in DOMAIN heap : entry = find_entry(k)
  BY <1>1, <1>2
<1>4. PICK b : b = [key |-> k, val |-> call.val, next |-> NULL]
  OBVIOUS
<1>5. /\ first' = (IF last = HEAD THEN entry ELSE first) /\ last' = entry
      /\ heap' = [SetNext(heap, last, entry) EXCEPT ![entry] = b]
      /\ count' = count + 1
  BY <1>2, <1>3, <1>4 DEF Insert
<1>6. b \in Bucket(DOMAIN heap) /\ b.key = k /\ b.val = call.val /\ b.next = NULL
  BY <1>1, <1>4 DEF Bucket
<1>7. PICK L : Linked(L, count)
  BY <1>1
<1>8. /\ capacity \in Nat \ {0, 1} /\ count \in Nat
      /\ DOMAIN heap \subseteq Nat \ {0}
      /\ heap \in [DOMAIN heap -> Bucket(DOMAIN heap)]
  BY <1>1 DEF TypeInv
<1>9. /\ L \in [1..count -> DOMAIN heap] /\ first = FirstOf(L, count)
      /\ last = (IF count = 0 THEN HEAD ELSE L[count])
      /\ \A n \in 1..count :
            /\ heap[L[n]].next = IF n = count THEN NULL ELSE L[n + 1]
            /\ heap[L[n]].key \in Keys
            /\ L[n] \in Table(capacity)
      /\ \A m, n \in 1..count : heap[L[m]].key = heap[L[n]].key => m = n
      /\ \A a \in Table(capacity) :
            IF heap[a].key = NoKey THEN heap[a].next = NULL
            ELSE \E n \in 1..count : a = L[n]
  BY <1>7 DEF Linked
<1>10. heap[entry].key = NoKey /\ NoKey \notin Keys
  BY <1>2, <1>3, KeyType
<1>11. \A n \in 1..count : L[n] # entry
  BY <1>9, <1>10
<1>12. last # entry /\ last \in DOMAIN heap \cup {HEAD}
  <2>1. count # 0 => count \in 1..count
    BY <1>8
  <2>2. entry # HEAD
    BY <1>1, Addresses
  <2> QED BY <1>9, <1>11, <2>1, <2>2
<1>13. /\ heap' \in [DOMAIN heap -> Bucket(DOMAIN heap)]
       /\ \A a \in DOMAIN heap :
             /\ heap'[a].key = IF a = entry THEN k ELSE heap[a].key
             /\ heap'[a].val = IF a = entry THEN call.val ELSE heap[a].val
             /\ heap'[a].next = IF a = entry THEN NULL
                                ELSE IF a = last THEN entry ELSE heap[a].next
  <2>1. PICK g : g = [SetNext(heap, last, entry) EXCEPT ![entry] = b]
    OBVIOUS
  <2>2. Links(g, entry, b)
    BY <2>1 DEF Links
  <2>3. g = heap'
    BY <1>5, <2>1
  <2> QED BY <1>1, <1>6, <1>12, <2>2, <2>3, Linking
<1>14. TypeInv'
  BY <1>1, <1>5, <1>8, <1>13, Returned
<1>15. SizeInv'
  <2>1. 4 * (count + 1) <= 3 * capacity
    BY <1>1 DEF SizeInv
  <2> QED BY <1>1, <1>5, <2>1 DEF SizeInv, Idle
<1>16. FindInv'
  <2>1. ProbeEnds(k, {NoKey, k})
    BY <1>2 DEF Finding
  <2>2. PICK d \in 0..capacity - 1 :
            /\ FirstProbe(k, {NoKey, k}) = Probe(k, d)
            /\ \A e \in 0..d - 1 : ~ProbeStops(k, {NoKey, k}, e)
    BY <1>1, <2>1, FirstProbeIs
  <2>3. entry = Probe(k, d) /\ \A e \in 0..d - 1 : heap[Probe(k, e)].key # NoKey
    BY <1>3, <2>2 DEF find_entry, ProbeStops
  <2>4. \A a \in Table(capacity) : heap'[a].key = IF a = Probe(k, d) THEN k ELSE heap[a].key
    BY <1>1, <1>13, <2>3
  <2>5. \A a \in Table(capacity) : heap[a].key # k
    BY <1>1, <1>2
  <2>6. heap[Probe(k, d)].key = NoKey
    BY <1>10, <2>3
  <2> QED BY <1>1, <2>3, <2>4, <2>5, <2>6, FindInsert
<1>17. PICK c \in Nat : c = count
  BY <1>8
<1>18. PICK N : N = [n \in 1..c + 1 |-> IF n = c + 1 THEN entry ELSE L[n]]
  OBVIOUS
<1>19. /\ N \in [1..c + 1 -> DOMAIN heap]
       /\ \A n \in 1..c : N[n] = L[n] /\ n \in 1..c + 1
       /\ N[c + 1] = entry /\ c + 1 \in 1..c + 1
       /\ \A n \in 1..c + 1 : n = c + 1 \/ n \in 1..c
       /\ c + 1 \notin 1..c
  <2>1. \A n \in 1..c + 1 : n = c + 1 \/ n \in 1..c
    OBVIOUS
  <2>2. \A n \in 1..c + 1 : (IF n = c + 1 THEN entry ELSE L[n]) \in DOMAIN heap
    BY <1>9, <1>17, <2>1
  <2> QED BY <1>18, <2>1, <2>2
<1>20. ASSUME NEW n \in 1..c + 1
       PROVE  /\ heap'[N[n]].next = IF n = c + 1 THEN NULL ELSE N[n + 1]
              /\ heap'[N[n]].key = IF n = c + 1 THEN k ELSE heap[L[n]].key
              /\ heap'[N[n]].val = IF n = c + 1 THEN call.val ELSE heap[L[n]].val
              /\ N[n] \in Table(capacity)
  <2>1. CASE n = c + 1
    BY <1>1, <1>13, <1>19, <2>1
  <2>2. CASE n \in 1..c
    <3>1. N[n] = L[n] /\ L[n] # entry /\ L[n] \in DOMAIN heap /\ n # c + 1
      BY <1>9, <1>11, <1>17, <1>19, <2>2
    <3>2. L[n] = last <=> n = c
      <4>1. c # 0 /\ last = L[c] /\ c \in 1..c
        BY <1>9, <1>17, <2>2
      <4>2. L[n] = L[c] => n = c
        BY <1>9, <1>17, <2>2, <4>1
      <4> QED BY <4>1, <4>2
    <3>3. N[n + 1] = IF n = c THEN entry ELSE L[n + 1]
      <4>1. n # c => n + 1 \in 1..c
        BY <2>2
      <4> QED BY <1>19, <4>1
    <3>4. heap'[L[n]].next = IF n = c THEN entry ELSE L[n + 1]
      BY <1>9, <1>13, <1>17, <2>2, <3>1, <3>2
    <3> QED BY <1>1, <1>13, <3>1, <3>3, <3>4
  <2> QED BY <1>19, <2>1, <2>2
<1>21. ASSUME NEW m \in 1..c + 1, NEW n \in 1..c + 1,
              heap'[N[m]].key = heap'[N[n]].key
       PROVE  m = n
  <2>1. \A x \in 1..c : heap[L[x]].key # k /\ heap[L[x]].key \in Keys
    BY <1>1, <1>2, <1>9, <1>17
  <2>2. CASE m \in 1..c /\ n \in 1..c
    BY <1>9, <1>17, <1>19, <1>20, <1>21, <2>2
  <2>3. CASE m = c + 1 \/ n = c + 1
    BY <1>19, <1>20, <1>21, <2>1, <2>3
  <2> QED BY <1>19, <2>2, <2>3
<1>22. ASSUME NEW a \in Table(capacity)
       PROVE  IF heap'[a].key = NoKey THEN heap'[a].next = NULL
              ELSE \E n \in 1..c + 1 : a = N[n]
  <2>1. a \in DOMAIN heap
    BY <1>1
  <2>2. CASE a = entry
    BY <1>10, <1>13, <1>19, <2>1, <2>2
  <2>3. CASE a # entry /\ heap[a].key = NoKey
    <3>1. a # last
      <4>1. c # 0 => c \in 1..c
        OBVIOUS
      <4>2. a # HEAD
        BY <1>1, <2>1, Addresses
      <4> QED BY <1>9, <1>10, <1>17, <2>3, <4>1, <4>2
    <3> QED BY <1>9, <1>13, <2>1, <2>3, <3>1
  <2>4. CASE a # entry /\ heap[a].key # NoKey
    <3>1. PICK n \in 1..c : a = L[n]
      BY <1>9, <1>17, <2>4
    <3> QED BY <1>13, <1>19, <2>1, <2>4, <3>1
  <2> QED BY <2>2, <2>3, <2>4
<1>23. first' = FirstOf(N, c + 1)
  <2>1. last = HEAD <=> c = 0
    <3>1. c # 0 => c \in 1..c /\ L[c] \in DOMAIN heap
      BY <1>9, <1>17
    <3> QED BY <1>1, <1>9, <1>17, <3>1, Addresses
  <2>2. c # 0 => 1 \in 1..c
    OBVIOUS
  <2>3. N[1] = IF c = 0 THEN entry ELSE L[1]
    BY <1>19, <2>2
  <2> QED BY <1>5, <1>9, <1>17, <2>1, <2>3 DEF FirstOf
<1>24. Linked(N, c + 1)' /\ ExtendsList(call.key, call.val)
  <2>1. count' = c + 1 /\ DOMAIN heap' = DOMAIN heap /\ call'.at # "resize"
    BY <1>1, <1>5, <1>13, <1>17 DEF Idle
  <2>2. /\ N \in [1..count' -> DOMAIN heap'] /\ c + 1 \in 0..count'
        /\ first' = FirstOf(N, count')
        /\ last' = (IF c + 1 = 0 THEN HEAD ELSE N[c + 1])
    BY <1>5, <1>19, <1>23, <2>1
  <2>3. /\ \A n \in 1..count' :
              /\ heap'[N[n]].next = IF n = count' THEN NULL ELSE N[n + 1]
              /\ heap'[N[n]].key \in Keys
              /\ N[n] \in Table(capacity)' <=> n <= c + 1
        /\ \A m, n \in 1..count' : heap'[N[m]].key = heap'[N[n]].key => m = n
        /\ \A a \in Table(capacity)' :
               IF heap'[a].key = NoKey THEN heap'[a].next = NULL
               ELSE \E n \in 1..c + 1 : a = N[n]
        /\ c + 1 = count'
    <3>1. \A n \in 1..c + 1 : heap'[N[n]].key \in Keys
      BY <1>9, <1>17, <1>19, <1>20
    <3> QED BY <1>1, <1>20, <1>21, <1>22, <2>1, <3>1
  <2>4. FirstOf(N, count)' = FirstOf(N, count')
    BY DEF FirstOf, NULL
  <2>5. ExtendsList(call.key, call.val)
    <3>1. ListOf(heap, first, L, c)
      BY <1>9, <1>17 DEF ListOf
    <3>2. ListOf(heap', first', N, c + 1)
      BY <1>20, <1>21, <2>2, <2>1, <1>23 DEF ListOf
    <3>3. \A n \in 1..c : /\ heap'[N[n]].key = heap[L[n]].key
                          /\ heap'[N[n]].val = heap[L[n]].val
      BY <1>19, <1>20
    <3>4. heap'[N[c + 1]].key = k /\ heap'[N[c + 1]].val = call.val
      BY <1>19, <1>20
    <3> QED BY <1>2, <1>17, <2>1, <3>1, <3>2, <3>3, <3>4 DEF ExtendsList
  <2> QED BY <2>1, <2>2, <2>3, <2>4, <2>5 DEF Linked, HEAD, NULL
<1>25. ~sorted'
  BY <1>1
<1>26. FreeInv'
  <2>1. ASSUME NEW a \in Table(capacity), heap'[a].key = NoKey PROVE heap'[a].val = 0
    BY <1>1, <1>2, <1>10, <1>13, <2>1 DEF FreeInv
  <2> QED BY <1>1, <2>1 DEF FreeInv
<1> QED BY <1>14, <1>15, <1>16, <1>24, <1>25, <1>26 DEF MapInv

\* An operation that changes values only leaves the list as it is.
LEMMA ValueStep ==
    ASSUME MapInv, NEW op \in Ops, Finding(op), UNCHANGED <<first, last, count>>,
           heap' \in [DOMAIN heap -> Bucket(DOMAIN heap)],
           \A a \in DOMAIN heap : /\ heap'[a].key = heap[a].key
                                  /\ heap'[a].next = heap[a].next
                                  /\ heap[a].key = NoKey => heap'[a].val = heap[a].val
    PROVE  MapInv'
<1>1. /\ TypeInv /\ SizeInv /\ FindInv /\ FreeInv /\ ~sorted
      /\ call.at = "find" /\ DOMAIN heap = Table(capacity)
      /\ call' = Idle /\ UNCHANGED <<hash, capacity, sorted>>
      /\ Table(capacity)' = Table(capacity)
      /\ \E L : Linked(L, count)
  BY Found
<1>2. PICK L : Linked(L, count)
  BY <1>1
<1>3. TypeInv'
  BY <1>1, Returned DEF TypeInv
<1>4. SizeInv'
  BY <1>1 DEF SizeInv, Idle
<1>5. FindInv'
  BY <1>1, FindSame
<1>6. \E M, j : Linked(M, j)'
  <2>1. PICK c : c = count
    OBVIOUS
  <2>2. Linked(L, c)'
    <3>1. DOMAIN heap' = DOMAIN heap
      OBVIOUS
    <3>2. /\ L \in [1..count -> DOMAIN heap] /\ count \in 0..count
          /\ first = FirstOf(L, count)
          /\ last = IF count = 0 THEN HEAD ELSE L[count]
          /\ \A n \in 1..count :
                /\ L[n] \in DOMAIN heap
                /\ heap[L[n]].next = IF n = count THEN NULL ELSE L[n + 1]
                /\ heap[L[n]].key \in Keys
                /\ L[n] \in Table(capacity) <=> n <= count
          /\ \A m, n \in 1..count : heap[L[m]].key = heap[L[n]].key => m = n
          /\ \A a \in Table(capacity) :
                IF heap[a].key = NoKey THEN heap[a].next = NULL
                ELSE \E n \in 1..count : a = L[n]
      BY <1>2 DEF Linked
    <3>3. /\ L \in [1..count' -> DOMAIN heap'] /\ c \in 0..count'
          /\ first' = FirstOf(L, count)'
          /\ last' = IF c = 0 THEN HEAD ELSE L[c]
      BY <2>1, <3>1, <3>2 DEF FirstOf, NULL
    <3>4. /\ \A n \in 1..count' :
                /\ heap'[L[n]].next = IF n = count' THEN NULL ELSE L[n + 1]
                /\ heap'[L[n]].key \in Keys
                /\ L[n] \in Table(capacity)' <=> n <= c
          /\ \A m, n \in 1..count' : heap'[L[m]].key = heap'[L[n]].key => m = n
      BY <1>1, <2>1, <3>2
    <3>5. /\ \A a \in Table(capacity)' :
                IF heap'[a].key = NoKey THEN heap'[a].next = NULL
                ELSE \E n \in 1..c : a = L[n]
          /\ c = count' /\ call'.at # "resize"
      BY <1>1, <2>1, <3>2 DEF Idle
    <3> QED BY <3>3, <3>4, <3>5 DEF Linked, HEAD, NULL
  <2> QED BY <2>2
<1>7. ~sorted'
  BY <1>1
<1>8. FreeInv'
  <2>1. ASSUME NEW a \in Table(capacity), heap'[a].key = NoKey PROVE heap'[a].val = 0
    BY <1>1, <2>1 DEF FreeInv
  <2> QED BY <1>1, <2>1 DEF FreeInv
<1> QED BY <1>3, <1>4, <1>5, <1>6, <1>7, <1>8 DEF MapInv

\* The operations on one key.
LEMMA OperationStep ==
    ASSUME MapInv, hashmap_set \/ hashmap_get_set \/ hashmap_set_free \/ hashmap_get
    PROVE  MapInv'
<1>1. PICK op \in Ops :
         /\ Finding(op)
         /\ \/ /\ op # "get" /\ heap[find_entry(call.key)].key = NoKey
               /\ Insert(find_entry(call.key), call.key, call.val)
            \/ /\ heap[find_entry(call.key)].key # NoKey
               /\ Overwrite(find_entry(call.key), call.val)
            \/ UNCHANGED <<heap, first, last, count>>
  <2>1. CASE hashmap_set
    BY <2>1 DEF hashmap_set, Ops
  <2>2. CASE hashmap_get_set
    BY <2>2 DEF hashmap_get_set, Ops
  <2>3. CASE hashmap_set_free
    BY <2>3 DEF hashmap_set_free, Ops
  <2>4. CASE hashmap_get
    BY <2>4 DEF hashmap_get, Ops
  <2> QED BY <2>1, <2>2, <2>3, <2>4
<1>2. /\ heap \in [DOMAIN heap -> Bucket(DOMAIN heap)]
      /\ find_entry(call.key) \in DOMAIN heap /\ call.val \in Values \cup {0}
  BY <1>1, Found DEF TypeInv
<1>3. CASE UNCHANGED <<heap, first, last, count>>
  BY <1>1, <1>2, <1>3, ValueStep
<1>4. CASE heap[find_entry(call.key)].key # NoKey /\ Overwrite(find_entry(call.key), call.val)
  <2>1. PICK entry \in DOMAIN heap : entry = find_entry(call.key)
    BY <1>2
  <2>2. PICK v \in Values \cup {0} : v = call.val
    BY <1>2
  <2>3. UNCHANGED <<first, last, count>> /\ heap' = [heap EXCEPT ![entry].val = v]
    BY <1>4, <2>1, <2>2 DEF Overwrite
  <2>4. \A a \in DOMAIN heap :
           heap'[a] = IF a = entry THEN [heap[a] EXCEPT !.val = v] ELSE heap[a]
    BY <1>2, <2>3
  <2>5. \A a \in DOMAIN heap :
           LET b == [heap[a] EXCEPT !.val = v]
           IN  /\ b \in Bucket(DOMAIN heap)
               /\ b.key = heap[a].key /\ b.next = heap[a].next
    <3> SUFFICES ASSUME NEW a \in DOMAIN heap
                 PROVE  LET b == [heap[a] EXCEPT !.val = v]
                        IN  /\ b \in Bucket(DOMAIN heap)
                            /\ b.key = heap[a].key /\ b.next = heap[a].next
      OBVIOUS
    <3>1. heap[a] \in Bucket(DOMAIN heap)
      BY <1>2
    <3> QED BY <2>2, <3>1 DEF Bucket
  <2>6. \A a \in DOMAIN heap : /\ heap'[a] \in Bucket(DOMAIN heap)
                               /\ heap'[a].key = heap[a].key
                               /\ heap'[a].next = heap[a].next
                               /\ heap[a].key = NoKey => heap'[a].val = heap[a].val
    BY <1>2, <1>4, <2>1, <2>4, <2>5
  <2>7. heap' \in [DOMAIN heap -> Bucket(DOMAIN heap)]
    BY <1>2, <2>3, <2>6
  <2> QED BY <1>1, <2>3, <2>6, <2>7, ValueStep
<1> QED BY <1>1, <1>3, <1>4, InsertStep

-----------------------------------------------------------------------------
(* The sort: walking and swapping *)

\* The buckets that a walk of k steps along a list meets.
Walk(next, n, k) ==
    CHOOSE at : at = [j \in 0..k |->
                         IF j = 0 THEN n
                         ELSE IF next[at[j - 1]] # NULL THEN next[at[j - 1]]
                              ELSE at[j - 1]]

\* Advance is the last bucket of the walk.
LEMMA AdvanceIs ==
    ASSUME NEW next, NEW n, NEW k PROVE Advance(next, n, k) = Walk(next, n, k)[k]
  BY DEF Advance, Loop, Walk

\* A walk stays in a set that the next pointers do not lead out of.
LEMMA AdvanceIn ==
    ASSUME NEW S, NEW next, NEW n \in S, NEW k \in Nat,
           \A p \in S : next[p] # NULL => next[p] \in S
    PROVE  Advance(next, n, k) \in S
<1> DEFINE step == [p \in S |-> IF next[p] # NULL THEN next[p] ELSE p]
           Good(at) == at = [j \in 0..k |->
                                IF j = 0 THEN n
                                ELSE IF next[at[j - 1]] # NULL THEN next[at[j - 1]]
                                     ELSE at[j - 1]]
<1>1. step \in [S -> S]
  OBVIOUS
<1>2. PICK b \in [0..k -> S] : Steps(step, n, k, b)
  <2> HIDE DEF step
  <2> QED BY <1>1, Iterates
<1>3. Good(b)
  <2>1. \A j \in 0..k : j # 0 => j - 1 \in 0..k
    OBVIOUS
  <2>2. \A j \in 0..k : j # 0 => b[j - 1] \in S
    BY <2>1
  <2>3. \A j \in 0..k :
           (IF j = 0 THEN n ELSE step[b[j - 1]]) =
              IF j = 0 THEN n
              ELSE IF next[b[j - 1]] # NULL THEN next[b[j - 1]] ELSE b[j - 1]
    BY <2>2
  <2>4. b = [j \in 0..k |-> IF j = 0 THEN n ELSE step[b[j - 1]]]
    BY <1>2 DEF Steps
  <2> HIDE DEF step
  <2> QED BY <2>3, <2>4
<1>4. PICK at : at = Walk(next, n, k)
  OBVIOUS
<1>5. Good(at)
  <2>1. at = CHOOSE f : Good(f)
    BY <1>4 DEF Walk
  <2> HIDE DEF Good
  <2> QED BY <1>3, <2>1
<1>6. /\ at[0] = n
      /\ \A j \in 1..k : at[j] = IF next[at[j - 1]] # NULL THEN next[at[j - 1]]
                                 ELSE at[j - 1]
  BY <1>5
<1>7. at[k] \in S
  <2>1. at[0] \in S /\ \A j \in 1..k : at[j - 1] \in S => at[j] \in S
    BY <1>6
  <2>2. \A j \in 0..k : at[j] \in S
    BY <2>1, Kept
  <2> QED BY <2>2
<1> QED BY <1>4, <1>7, AdvanceIs

\* Buckets with contents of X and links.
Memory(D, X) == [data : [D -> X], next : [D -> D \cup {NULL}]]

\* The buckets of P exchange their contents at most.
SameData(P, old, new) ==
    /\ {new[a] : a \in P} = {old[a] : a \in P}
    /\ \A a \in DOMAIN old \ P : new[a] = old[a]

\* Two exchanges of contents one after the other are one.
LEMMA SameTwice ==
    ASSUME NEW P, NEW D, NEW X, NEW f \in [D -> X], NEW g \in [D -> X], NEW h \in [D -> X],
           SameData(P, f, g), SameData(P, g, h)
    PROVE  SameData(P, f, h)
<1>1. {h[a] : a \in P} = {f[a] : a \in P}
  BY DEF SameData
<1>2. \A a \in D \ P : h[a] = f[a]
  BY DEF SameData
<1> QED BY <1>1, <1>2 DEF SameData

\* r is m with the contents of P exchanged.
Exchanged(D, X, P, m, r) ==
    r \in Memory(D, X) /\ r.next = m.next /\ SameData(P, m.data, r.data)

\* A swap exchanges the contents of two buckets and leaves the links.
LEMMA SwapIs ==
    ASSUME NEW D, NEW X, NEW m \in Memory(D, X), NEW P, P \subseteq D, NEW x \in P, NEW y \in P,
           NEW r, r = _hashmap_swap_bucket(m, x, y)
    PROVE  Exchanged(D, X, P, m, r)
<1>1. m.data \in [D -> X] /\ m.next \in [D -> D \cup {NULL}]
      /\ m = [data |-> m.data, next |-> m.next]
  BY DEF Memory
<1>2. PICK d \in [D -> X] : d = m.data
  BY <1>1
<1>3. PICK e : e = [d EXCEPT ![x] = d[y], ![y] = d[x]]
  OBVIOUS
<1>4. e \in [D -> X]
      /\ \A a \in D : e[a] = IF a = y THEN d[x] ELSE IF a = x THEN d[y] ELSE d[a]
  <2>1. d[x] \in X /\ d[y] \in X /\ x \in D /\ y \in D
    OBVIOUS
  <2> QED BY <1>3, <2>1
<1>5. r = [data |-> e, next |-> m.next]
  BY <1>1, <1>2, <1>3 DEF _hashmap_swap_bucket
<1>6. {e[a] : a \in P} = {d[a] : a \in P}
  <2>1. \A a \in P : e[a] \in {d[b] : b \in P}
    BY <1>4
  <2>2. \A a \in P : d[a] \in {e[b] : b \in P}
    <3> SUFFICES ASSUME NEW a \in P PROVE \E b \in P : d[a] = e[b]
      OBVIOUS
    <3>1. CASE a = x
      BY <1>4, <3>1
    <3>2. CASE a = y
      <4>1. CASE x = y
        BY <1>4, <3>2, <4>1
      <4>2. CASE x # y
        BY <1>4, <3>2, <4>2
      <4> QED BY <4>1, <4>2
    <3>3. CASE a # x /\ a # y
      BY <1>4, <3>3
    <3> QED BY <3>1, <3>2, <3>3
  <2> QED BY <2>1, <2>2
<1>7. SameData(P, d, e)
  BY <1>4, <1>6 DEF SameData
<1> QED BY <1>1, <1>2, <1>4, <1>5, <1>7 DEF Memory, Exchanged

-----------------------------------------------------------------------------
(* The sort: merging two neighbouring parts of the list *)

\* One round of the loop that merges, and the states after 0..fuel rounds.
MergeRound(data, end1, after, s) ==
    IF s.astart # end1 /\ s.bstart # after
    THEN IF Gt(data[s.next[s.astart]], data[s.bstart])
         THEN [next |-> [s.next EXCEPT ![s.bstart] = s.next[s.astart],
                                       ![s.astart] = s.bstart],
               astart |-> s.bstart,
               bstart |-> s.next[s.bstart]]
         ELSE [s EXCEPT !.astart = s.next[s.astart]]
    ELSE s

MergeRounds(data, end1, after, start, fuel) ==
    CHOOSE at : at = [n \in 0..fuel |->
                         IF n = 0 THEN start
                         ELSE MergeRound(data, end1, after, at[n - 1])]

\* _hashmap_merge in terms of the rounds of its loop.
LEMMA MergeIs ==
    ASSUME NEW m, NEW start1, NEW end1, NEW start2, NEW end2, NEW len
    PROVE  _hashmap_merge(m, start1, end1, start2, end2, len) =
              LET m1 == IF Gt(m.data[start1], m.data[start2])
                        THEN _hashmap_swap_bucket(
                                 _hashmap_swap_bucket(m, start1, start2), end1, end2)
                        ELSE m
                  s == MergeRounds(m1.data, end1, m1.next[end2],
                                   [next |-> m1.next, astart |-> start1,
                                    bstart |-> start2], 2 * len)[2 * len]
              IN  IF s.astart = end1
                  THEN [m |-> [m1 EXCEPT !.next = [s.next EXCEPT ![end1] = s.bstart]],
                        end2 |-> end2]
                  ELSE [m |-> [m1 EXCEPT !.next = s.next], end2 |-> end1]
  BY DEF _hashmap_merge, Loop, MergeRounds, MergeRound

\* The parts p..x and x+1..y of the list Q, linked from p to the end.
Parts(D, next, Q, n, p, x, y) ==
    /\ n \in Nat /\ p \in 1..n /\ x \in p..n /\ y \in x + 1..n
    /\ NULL \notin D /\ next \in [D -> D \cup {NULL}]
    /\ Q \in [1..n -> D] /\ \A j, k \in 1..n : Q[j] = Q[k] => j = k
    /\ \A z \in p..n : next[Q[z]] = IF z = n THEN NULL ELSE Q[z + 1]

\* What comes after place y.
Behind(Q, n, y) == IF y = n THEN NULL ELSE Q[y + 1]

MergeStates(D) ==
    [next : [D -> D \cup {NULL}], astart : D, bstart : D \cup {NULL}]

\* The places of Q that are merged when the parts have been merged up to a and b.
Done(p, x, a, b) == (p..a - 1) \cup (x + 1..b - 1)

\* M is the merged list so far, at the places p..t.
MergedList(D, Q, p, x, y, a, b, t, M) ==
    /\ a \in p + 1..x + 1 /\ b \in x + 1..y + 1 /\ (a <= x \/ b <= y)
    /\ t = a + b - x - 2
    /\ M \in [p..t -> D] /\ \A j, k \in p..t : M[j] = M[k] => j = k
    /\ M[p] = Q[p] /\ (a = x + 1 => M[t] = Q[x])
    /\ \A j \in p..t : \E z \in Done(p, x, a, b) : M[j] = Q[z]
    /\ \A z \in Done(p, x, a, b) : \E j \in p..t : M[j] = Q[z]

\* Its links, those of what is left of the two parts, and those of the others.
MergedLinks(D, next, Q, n, p, x, y, s, a, b, t, M) ==
    /\ s \in MergeStates(D) /\ s.astart = M[t]
    /\ s.bstart = (IF b <= y THEN Q[b] ELSE Behind(Q, n, y))
    /\ \A j \in p..t - 1 : s.next[M[j]] = M[j + 1]
    /\ a <= x => s.next[M[t]] = Q[a]
    /\ \A z \in a..x - 1 : s.next[Q[z]] = Q[z + 1]
    /\ \A z \in b..y : s.next[Q[z]] = IF z = y THEN Behind(Q, n, y) ELSE Q[z + 1]
    /\ \A c \in D : (\A z \in p..y : c # Q[z]) => s.next[c] = next[c]

Merged(D, next, Q, n, p, x, y, s, a, b, t, M) ==
    /\ MergedList(D, Q, p, x, y, a, b, t, M)
    /\ MergedLinks(D, next, Q, n, p, x, y, s, a, b, t, M)

\* At the start only the first bucket is merged.
LEMMA MergeStart ==
    ASSUME NEW D, NEW next, NEW Q, NEW n, NEW p, NEW x, NEW y, Parts(D, next, Q, n, p, x, y),
           NEW s, s = [next |-> next, astart |-> Q[p], bstart |-> Q[x + 1]]
    PROVE  \E M : Merged(D, next, Q, n, p, x, y, s, p + 1, x + 1, p, M)
<1>1. /\ n \in Nat /\ p \in 1..n /\ x \in p..n /\ y \in x + 1..n
      /\ next \in [D -> D \cup {NULL}] /\ Q \in [1..n -> D]
      /\ \A z \in p..n : next[Q[z]] = IF z = n THEN NULL ELSE Q[z + 1]
  BY DEF Parts
<1>2. /\ n \in Nat /\ p \in Nat /\ x \in Nat /\ y \in Nat
      /\ p <= x /\ x < y /\ y <= n /\ 1 <= p
  BY <1>1
<1>3. PICK M : M = [j \in p..p |-> Q[p]]
  OBVIOUS
<1>4. p..p = {p} /\ M[p] = Q[p]
  BY <1>2, <1>3
<1>5. s \in MergeStates(D) /\ s.next = next /\ s.astart = Q[p] /\ s.bstart = Q[x + 1]
  <2>1. Q[p] \in D /\ Q[x + 1] \in D
    BY <1>1, <1>2
  <2> QED BY <1>1, <2>1 DEF MergeStates
<1>6. p = p + 1 + (x + 1) - x - 2 /\ p + 1 \in p + 1..x + 1 /\ x + 1 \in x + 1..y + 1
      /\ x + 1 <= y /\ p..p - 1 = {} /\ Done(p, x, p + 1, x + 1) = {p}
  BY <1>2 DEF Done
<1>7. M \in [p..p -> D]
  BY <1>1, <1>3, <1>4
<1>8. /\ p + 1 <= x => next[Q[p]] = Q[p + 1]
      /\ \A z \in p + 1..x - 1 : next[Q[z]] = Q[z + 1]
      /\ \A z \in x + 1..y : next[Q[z]] = IF z = y THEN Behind(Q, n, y) ELSE Q[z + 1]
  <2>1. p + 1 <= x => p # n /\ p \in p..n
    BY <1>2
  <2>2. \A z \in p + 1..x - 1 : z \in p..n /\ z # n
    BY <1>2
  <2>3. \A z \in x + 1..y : z \in p..n /\ (z # y => z # n)
    BY <1>2
  <2> QED BY <1>1, <2>1, <2>2, <2>3 DEF Behind
<1>9. p + 1 = x + 1 => Q[p] = Q[x]
  BY <1>2
<1>10. MergedList(D, Q, p, x, y, p + 1, x + 1, p, M)
  BY <1>4, <1>6, <1>7, <1>9 DEF MergedList
<1>11. MergedLinks(D, next, Q, n, p, x, y, s, p + 1, x + 1, p, M)
  BY <1>4, <1>5, <1>6, <1>8 DEF MergedLinks
<1> QED BY <1>10, <1>11 DEF Merged

\* What a merge has not come to is none of what it has merged.
LEMMA NotMerged ==
    ASSUME NEW D, NEW next, NEW Q, NEW n, NEW p, NEW x, NEW y, Parts(D, next, Q, n, p, x, y),
           NEW a, NEW b, NEW t, NEW M, MergedList(D, Q, p, x, y, a, b, t, M)
    PROVE  /\ a \in Nat /\ b \in Nat /\ t \in Nat /\ p \in Nat /\ x \in Nat /\ y \in Nat
           /\ n \in Nat /\ 1 <= p /\ p < a /\ a <= x + 1 /\ x < b /\ b <= y + 1
           /\ y <= n /\ p <= x /\ x < y /\ p <= t /\ t = a + b - x - 2
           /\ \A z \in a..x : z \in 1..n /\ \A j \in p..t : M[j] # Q[z]
           /\ \A z \in b..y : z \in 1..n /\ \A j \in p..t : M[j] # Q[z]
<1>1. /\ n \in Nat /\ p \in 1..n /\ x \in p..n /\ y \in x + 1..n
      /\ Q \in [1..n -> D] /\ \A j, k \in 1..n : Q[j] = Q[k] => j = k
  BY DEF Parts
<1>2. /\ a \in p + 1..x + 1 /\ b \in x + 1..y + 1 /\ t = a + b - x - 2
      /\ \A j \in p..t : \E z \in Done(p, x, a, b) : M[j] = Q[z]
  BY DEF MergedList
<1>3. /\ n \in Nat /\ p \in Nat /\ x \in Nat /\ y \in Nat
      /\ p <= x /\ x < y /\ y <= n /\ 1 <= p
  BY <1>1
<1>4. a \in Nat /\ b \in Nat /\ p < a /\ a <= x + 1 /\ x < b /\ b <= y + 1
  BY <1>2, <1>3
<1>5. t \in Nat /\ p <= t
  BY <1>2, <1>3, <1>4
<1>6. \A w \in Done(p, x, a, b) : w \in 1..n
  BY <1>3, <1>4 DEF Done
<1>7. \A z \in a..x : z \in 1..n /\ z \notin Done(p, x, a, b)
  BY <1>3, <1>4 DEF Done
<1>8. \A z \in b..y : z \in 1..n /\ z \notin Done(p, x, a, b)
  BY <1>3, <1>4 DEF Done
<1>9. ASSUME NEW z \in 1..n, z \notin Done(p, x, a, b), NEW j \in p..t
      PROVE  M[j] # Q[z]
  <2>1. PICK w \in Done(p, x, a, b) : M[j] = Q[w]
    BY <1>2
  <2> QED BY <1>1, <1>6, <1>9, <2>1
<1>10. /\ \A z \in a..x : \A j \in p..t : M[j] # Q[z]
       /\ \A z \in b..y : \A j \in p..t : M[j] # Q[z]
  BY <1>7, <1>8, <1>9
<1> QED BY <1>2, <1>3, <1>4, <1>5, <1>7, <1>8, <1>10

\* N is M, which has the places p..t, with v behind it.
Longer(M, N, p, t, v) == N = [j \in p..t + 1 |-> IF j = t + 1 THEN v ELSE M[j]]

\* The next bucket is at place w: that of the first or of the second part.
Takes(a, b, w, c, d) == (w = a /\ c = a + 1 /\ d = b) \/ (w = b /\ c = a /\ d = b + 1)

\* M with one more bucket, at place w of Q.
LEMMA MergeMore ==
    ASSUME NEW D, NEW next, NEW Q, NEW n, NEW p, NEW x, NEW y, Parts(D, next, Q, n, p, x, y),
           NEW a, NEW b, NEW t, NEW M, MergedList(D, Q, p, x, y, a, b, t, M),
           a <= x, b <= y, NEW w, NEW c, NEW d, Takes(a, b, w, c, d),
           NEW N, Longer(M, N, p, t, Q[w])
    PROVE  /\ MergedList(D, Q, p, x, y, c, d, t + 1, N)
           /\ N[t + 1] = Q[w] /\ \A j \in p..t : N[j] = M[j]
<1>1. /\ Q \in [1..n -> D] /\ M \in [p..t -> D] /\ \A j, k \in p..t : M[j] = M[k] => j = k
      /\ M[p] = Q[p]
      /\ \A j \in p..t : \E z \in Done(p, x, a, b) : M[j] = Q[z]
      /\ \A z \in Done(p, x, a, b) : \E j \in p..t : M[j] = Q[z]
  BY DEF Parts, MergedList
<1>2. /\ a \in Nat /\ b \in Nat /\ t \in Nat /\ p \in Nat /\ x \in Nat /\ y \in Nat
      /\ n \in Nat /\ 1 <= p /\ p < a /\ a <= x + 1 /\ x < b /\ b <= y + 1
      /\ y <= n /\ p <= x /\ x < y /\ p <= t /\ t = a + b - x - 2
      /\ \A z \in a..x : z \in 1..n /\ \A j \in p..t : M[j] # Q[z]
      /\ \A z \in b..y : z \in 1..n /\ \A j \in p..t : M[j] # Q[z]
  BY NotMerged
<1>12. /\ (w = a /\ c = a + 1 /\ d = b) \/ (w = b /\ c = a /\ d = b + 1)
       /\ N = [j \in p..t + 1 |-> IF j = t + 1 THEN Q[w] ELSE M[j]]
  BY DEF Takes, Longer
<1>3. w \in 1..n /\ Q[w] \in D /\ \A j \in p..t : M[j] # Q[w]
  <2>1. (w = a \/ w = b) /\ a \in a..x /\ b \in b..y
    BY <1>2, <1>12
  <2>2. w \in 1..n /\ \A j \in p..t : M[j] # Q[w]
    BY <1>2, <2>1
  <2> QED BY <1>1, <2>2
<1>4. /\ \A j \in p..t + 1 : j = t + 1 \/ j \in p..t
      /\ \A j \in p..t : j \in p..t + 1 /\ j # t + 1
      /\ t + 1 \in p..t + 1 /\ p \in p..t
  BY <1>2
<1>5. N[t + 1] = Q[w] /\ \A j \in p..t : N[j] = M[j]
  BY <1>4, <1>12
<1>6. N \in [p..t + 1 -> D]
  <2>1. \A j \in p..t + 1 : (IF j = t + 1 THEN Q[w] ELSE M[j]) \in D
    BY <1>1, <1>3, <1>4
  <2> QED BY <1>12, <2>1
<1>7. \A j, k \in p..t + 1 : N[j] = N[k] => j = k
  <2> SUFFICES ASSUME NEW j \in p..t + 1, NEW k \in p..t + 1, N[j] = N[k] PROVE j = k
    OBVIOUS
  <2>1. CASE j = t + 1 /\ k = t + 1
    BY <2>1
  <2>2. CASE j \in p..t /\ k \in p..t
    BY <1>1, <1>5, <2>2
  <2>3. CASE (j = t + 1 /\ k \in p..t) \/ (k = t + 1 /\ j \in p..t)
    BY <1>3, <1>5, <2>3
  <2> QED BY <1>4, <2>1, <2>2, <2>3
<1>8. /\ c \in p + 1..x + 1 /\ d \in x + 1..y + 1 /\ (c <= x \/ d <= y)
      /\ t + 1 = c + d - x - 2 /\ Done(p, x, c, d) = Done(p, x, a, b) \cup {w}
      /\ c = x + 1 => w = x
  <2>1. CASE w = a /\ c = a + 1 /\ d = b
    <3>1. p..a + 1 - 1 = (p..a - 1) \cup {a}
      BY <1>2
    <3> QED BY <1>2, <2>1, <3>1 DEF Done
  <2>2. CASE w = b /\ c = a /\ d = b + 1
    <3>1. x + 1..b + 1 - 1 = (x + 1..b - 1) \cup {b}
      BY <1>2
    <3> QED BY <1>2, <2>2, <3>1 DEF Done
  <2> QED BY <1>12, <2>1, <2>2
<1>9. /\ \A j \in p..t + 1 : \E z \in Done(p, x, c, d) : N[j] = Q[z]
      /\ \A z \in Done(p, x, c, d) : \E j \in p..t + 1 : N[j] = Q[z]
  <2>1. w \in Done(p, x, c, d) /\ \A z \in Done(p, x, a, b) : z \in Done(p, x, c, d)
    BY <1>8
  <2>2. \A z \in Done(p, x, c, d) : z = w \/ z \in Done(p, x, a, b)
    BY <1>8
  <2>3. \A j \in p..t + 1 : \E z \in Done(p, x, c, d) : N[j] = Q[z]
    BY <1>1, <1>4, <1>5, <2>1
  <2>4. \A z \in Done(p, x, c, d) : \E j \in p..t + 1 : N[j] = Q[z]
    BY <1>1, <1>4, <1>5, <2>2
  <2> QED BY <2>3, <2>4
<1>10. N[p] = Q[p] /\ (c = x + 1 => N[t + 1] = Q[x])
  BY <1>1, <1>4, <1>5, <1>8
<1>11. MergedList(D, Q, p, x, y, c, d, t + 1, N)
  BY <1>6, <1>7, <1>8, <1>9, <1>10 DEF MergedList
<1> QED BY <1>5, <1>11

\* The merge goes on while both parts have buckets left.
LEMMA MergeGoesOn ==
    ASSUME NEW D, NEW next, NEW Q, NEW n, NEW p, NEW x, NEW y, Parts(D, next, Q, n, p, x, y),
           NEW s, NEW a, NEW b, NEW t, NEW M, Merged(D, next, Q, n, p, x, y, s, a, b, t, M)
    PROVE  /\ s.astart # Q[x] <=> a <= x
           /\ s.bstart # Behind(Q, n, y) <=> b <= y
<1>1. MergedList(D, Q, p, x, y, a, b, t, M) /\ s.astart = M[t]
      /\ s.bstart = (IF b <= y THEN Q[b] ELSE Behind(Q, n, y))
      /\ (a = x + 1 => M[t] = Q[x])
  BY DEF Merged, MergedLinks, MergedList
<1>2. /\ a \in Nat /\ b \in Nat /\ t \in Nat /\ p \in Nat /\ x \in Nat /\ y \in Nat
      /\ n \in Nat /\ 1 <= p /\ p < a /\ a <= x + 1 /\ x < b /\ b <= y + 1
      /\ y <= n /\ p <= x /\ x < y /\ p <= t /\ t = a + b - x - 2
      /\ \A z \in a..x : z \in 1..n /\ \A j \in p..t : M[j] # Q[z]
      /\ \A z \in b..y : z \in 1..n /\ \A j \in p..t : M[j] # Q[z]
  BY <1>1, NotMerged
<1>3. s.astart # Q[x] <=> a <= x
  <2>1. CASE a <= x
    <3>1. x \in a..x /\ t \in p..t
      BY <1>2, <2>1
    <3> QED BY <1>1, <1>2, <2>1, <3>1
  <2>2. CASE a = x + 1
    BY <1>1, <1>2, <2>2
  <2> QED BY <1>2, <2>1, <2>2
<1>4. s.bstart # Behind(Q, n, y) <=> b <= y
  <2>1. CASE b <= y
    <3>1. NULL \notin D /\ Q \in [1..n -> D] /\ \A j, k \in 1..n : Q[j] = Q[k] => j = k
      BY DEF Parts
    <3>2. b \in 1..n /\ b # y + 1 /\ (y # n => y + 1 \in 1..n)
      BY <1>2, <2>1
    <3> QED BY <1>1, <2>1, <3>1, <3>2 DEF Behind
  <2>2. CASE b = y + 1
    <3>1. ~(b <= y)
      BY <1>2, <2>2
    <3> QED BY <1>1, <3>1
  <2> QED BY <1>2, <2>1, <2>2
<1> QED BY <1>3, <1>4

\* The two kinds of a round.
FirstRound(s, r) == r = [s EXCEPT !.astart = s.next[s.astart]]

SecondRound(s, r) ==
    r = [next |-> [s.next EXCEPT ![s.bstart] = s.next[s.astart], ![s.astart] = s.bstart],
         astart |-> s.bstart, bstart |-> s.next[s.bstart]]

\* A round that takes the next bucket of the first part.
LEMMA MergeFirst ==
    ASSUME NEW D, NEW next, NEW Q, NEW n, NEW p, NEW x, NEW y, Parts(D, next, Q, n, p, x, y),
           NEW s, NEW a, NEW b, NEW t, NEW M, Merged(D, next, Q, n, p, x, y, s, a, b, t, M),
           a <= x, b <= y, NEW r, FirstRound(s, r)
    PROVE  \E N : Merged(D, next, Q, n, p, x, y, r, a + 1, b, t + 1, N)
<1>1. MergedList(D, Q, p, x, y, a, b, t, M)
  BY DEF Merged
<1>2. /\ a \in Nat /\ b \in Nat /\ t \in Nat /\ p \in Nat /\ x \in Nat /\ y \in Nat
      /\ n \in Nat /\ 1 <= p /\ p < a /\ a <= x + 1 /\ x < b /\ b <= y + 1
      /\ y <= n /\ p <= x /\ x < y /\ p <= t /\ t = a + b - x - 2
      /\ \A z \in a..x : z \in 1..n /\ \A j \in p..t : M[j] # Q[z]
  BY <1>1, NotMerged
<1>3. /\ s \in MergeStates(D) /\ s.astart = M[t]
      /\ s.bstart = (IF b <= y THEN Q[b] ELSE Behind(Q, n, y))
      /\ \A j \in p..t - 1 : s.next[M[j]] = M[j + 1]
      /\ s.next[M[t]] = Q[a]
      /\ \A z \in a..x - 1 : s.next[Q[z]] = Q[z + 1]
      /\ \A z \in b..y : s.next[Q[z]] = IF z = y THEN Behind(Q, n, y) ELSE Q[z + 1]
      /\ \A c \in D : (\A z \in p..y : c # Q[z]) => s.next[c] = next[c]
  BY DEF Merged, MergedLinks
<1>4. PICK N : Longer(M, N, p, t, Q[a])
  BY DEF Longer
<1>5. /\ MergedList(D, Q, p, x, y, a + 1, b, t + 1, N)
      /\ N[t + 1] = Q[a] /\ \A j \in p..t : N[j] = M[j]
  <2>1. Takes(a, b, a, a + 1, b)
    BY DEF Takes
  <2> QED BY <1>1, <1>4, <2>1, MergeMore
<1>6. Q[a] \in D
  <2>1. a \in 1..n
    BY <1>2
  <2> QED BY <2>1 DEF Parts
<1>7. r \in MergeStates(D) /\ r.next = s.next /\ r.astart = Q[a] /\ r.bstart = s.bstart
  <2>1. s.next[s.astart] = Q[a]
    BY <1>3
  <2> QED BY <1>3, <1>6, <2>1 DEF MergeStates, FirstRound
<1>8. \A j \in p..t : s.next[N[j]] = N[j + 1]
  <2> SUFFICES ASSUME NEW j \in p..t PROVE s.next[N[j]] = N[j + 1]
    OBVIOUS
  <2>1. CASE j = t
    BY <1>3, <1>5, <2>1
  <2>2. CASE j # t
    <3>1. j \in p..t - 1 /\ j + 1 \in p..t
      BY <1>2, <2>2
    <3> QED BY <1>3, <1>5, <3>1
  <2> QED BY <2>1, <2>2
<1>9. /\ a + 1 <= x => s.next[Q[a]] = Q[a + 1]
      /\ \A z \in a + 1..x - 1 : s.next[Q[z]] = Q[z + 1]
  <2>1. a + 1 <= x => a \in a..x - 1
    BY <1>2
  <2>2. \A z \in a + 1..x - 1 : z \in a..x - 1
    BY <1>2
  <2> QED BY <1>3, <2>1, <2>2
<1>10. p..(t + 1) - 1 = p..t
  BY <1>2
<1>11. MergedLinks(D, next, Q, n, p, x, y, r, a + 1, b, t + 1, N)
  <2>1. r \in MergeStates(D) /\ r.astart = N[t + 1]
        /\ r.bstart = (IF b <= y THEN Q[b] ELSE Behind(Q, n, y))
    BY <1>3, <1>5, <1>7
  <2>2. \A j \in p..(t + 1) - 1 : r.next[N[j]] = N[j + 1]
    BY <1>7, <1>8, <1>10
  <2>3. /\ a + 1 <= x => r.next[N[t + 1]] = Q[a + 1]
        /\ \A z \in a + 1..x - 1 : r.next[Q[z]] = Q[z + 1]
    BY <1>5, <1>7, <1>9
  <2>4. /\ \A z \in b..y : r.next[Q[z]] = IF z = y THEN Behind(Q, n, y) ELSE Q[z + 1]
        /\ \A c \in D : (\A z \in p..y : c # Q[z]) => r.next[c] = next[c]
    BY <1>3, <1>7
  <2> QED BY <2>1, <2>2, <2>3, <2>4 DEF MergedLinks
<1> QED BY <1>5, <1>11 DEF Merged

\* A round that puts the next bucket of the second part before that of the first.
LEMMA MergeSecond ==
    ASSUME NEW D, NEW next, NEW Q, NEW n, NEW p, NEW x, NEW y, Parts(D, next, Q, n, p, x, y),
           NEW s, NEW a, NEW b, NEW t, NEW M, Merged(D, next, Q, n, p, x, y, s, a, b, t, M),
           a <= x, b <= y,
           NEW r, SecondRound(s, r)
    PROVE  \E N : Merged(D, next, Q, n, p, x, y, r, a, b + 1, t + 1, N)
<1>1. MergedList(D, Q, p, x, y, a, b, t, M)
  BY DEF Merged
<1>2. /\ a \in Nat /\ b \in Nat /\ t \in Nat /\ p \in Nat /\ x \in Nat /\ y \in Nat
      /\ n \in Nat /\ 1 <= p /\ p < a /\ a <= x + 1 /\ x < b /\ b <= y + 1
      /\ y <= n /\ p <= x /\ x < y /\ p <= t /\ t = a + b - x - 2
  BY <1>1, NotMerged
<1>13. /\ \A z \in a..x : z \in 1..n /\ \A j \in p..t : M[j] # Q[z]
       /\ \A z \in b..y : z \in 1..n /\ \A j \in p..t : M[j] # Q[z]
  BY <1>1, NotMerged
<1>3. /\ s \in MergeStates(D) /\ s.astart = M[t] /\ s.bstart = Q[b]
      /\ \A j \in p..t - 1 : s.next[M[j]] = M[j + 1]
      /\ s.next[M[t]] = Q[a]
      /\ \A z \in a..x - 1 : s.next[Q[z]] = Q[z + 1]
      /\ \A z \in b..y : s.next[Q[z]] = IF z = y THEN Behind(Q, n, y) ELSE Q[z + 1]
      /\ \A c \in D : (\A z \in p..y : c # Q[z]) => s.next[c] = next[c]
  BY DEF Merged, MergedLinks
<1>4. PICK N : Longer(M, N, p, t, Q[b])
  BY DEF Longer
<1>5. /\ MergedList(D, Q, p, x, y, a, b + 1, t + 1, N)
      /\ N[t + 1] = Q[b] /\ \A j \in p..t : N[j] = M[j]
  <2>1. Takes(a, b, b, a, b + 1)
    BY DEF Takes
  <2> QED BY <1>1, <1>4, <2>1, MergeMore
<1>6. /\ Q \in [1..n -> D] /\ \A j, k \in 1..n : Q[j] = Q[k] => j = k
      /\ M \in [p..t -> D] /\ \A j, k \in p..t : M[j] = M[k] => j = k
      /\ \A j \in p..t : \E z \in Done(p, x, a, b) : M[j] = Q[z]
  BY <1>1 DEF Parts, MergedList
<1>7. a \in 1..n /\ b \in 1..n /\ b \in b..y /\ t \in p..t
  BY <1>2
<1>8. Q[a] \in D /\ Q[b] \in D /\ M[t] \in D /\ M[t] # Q[b]
  BY <1>6, <1>7, <1>13
<1>9. s.next[Q[b]] = IF b = y THEN Behind(Q, n, y) ELSE Q[b + 1]
  BY <1>3, <1>7
<1>10. PICK f \in [D -> D \cup {NULL}] : f = s.next
  BY <1>3 DEF MergeStates
<1>11. PICK g : g = [f EXCEPT ![Q[b]] = Q[a], ![M[t]] = Q[b]]
  OBVIOUS
<1>12. /\ g \in [D -> D \cup {NULL}] /\ g[M[t]] = Q[b] /\ g[Q[b]] = Q[a]
       /\ \A c \in D : c # M[t] /\ c # Q[b] => g[c] = f[c]
  BY <1>8, <1>11
<1>14. r = [next |-> g, astart |-> Q[b],
            bstart |-> IF b = y THEN Behind(Q, n, y) ELSE Q[b + 1]]
  BY <1>3, <1>9, <1>10, <1>11 DEF SecondRound
<1>15. Behind(Q, n, y) \in D \cup {NULL}
  <2>1. y # n => y + 1 \in 1..n
    BY <1>2
  <2> QED BY <1>6, <2>1 DEF Behind
<1>16. r \in MergeStates(D) /\ r.next = g /\ r.astart = Q[b]
       /\ r.bstart = IF b + 1 <= y THEN Q[b + 1] ELSE Behind(Q, n, y)
  <2>1. b # y => b + 1 \in 1..n
    BY <1>2
  <2>2. (IF b = y THEN Behind(Q, n, y) ELSE Q[b + 1]) \in D \cup {NULL}
    BY <1>6, <1>15, <2>1
  <2>3. b + 1 <= y <=> b # y
    BY <1>2
  <2>4. PICK v \in D \cup {NULL} : v = IF b = y THEN Behind(Q, n, y) ELSE Q[b + 1]
    BY <2>2
  <2>5. r = [next |-> g, astart |-> Q[b], bstart |-> v]
    BY <1>14, <2>4
  <2>6. r \in MergeStates(D) /\ r.next = g /\ r.astart = Q[b] /\ r.bstart = v
    BY <1>8, <1>12, <2>4, <2>5 DEF MergeStates
  <2> QED BY <2>3, <2>4, <2>6
<1>17. \A j \in p..t : g[N[j]] = N[j + 1]
  <2> SUFFICES ASSUME NEW j \in p..t PROVE g[N[j]] = N[j + 1]
    OBVIOUS
  <2>1. CASE j = t
    BY <1>5, <1>12, <2>1
  <2>2. CASE j # t
    <3>1. j \in p..t - 1 /\ j + 1 \in p..t
      BY <1>2, <2>2
    <3>2. M[j] \in D /\ M[j] # M[t] /\ M[j] # Q[b]
      BY <1>6, <1>7, <1>13, <2>2
    <3> QED BY <1>3, <1>5, <1>10, <1>12, <3>1, <3>2
  <2> QED BY <2>1, <2>2
<1>18. \A z \in a..x - 1 : g[Q[z]] = Q[z + 1]
  <2> SUFFICES ASSUME NEW z \in a..x - 1 PROVE g[Q[z]] = Q[z + 1]
    OBVIOUS
  <2>1. z \in a..x /\ z \in 1..n /\ z # b
    BY <1>2
  <2>2. Q[z] \in D /\ Q[z] # M[t] /\ Q[z] # Q[b]
    BY <1>6, <1>7, <1>13, <2>1
  <2> QED BY <1>3, <1>10, <1>12, <2>2
<1>19. \A z \in b + 1..y : g[Q[z]] = IF z = y THEN Behind(Q, n, y) ELSE Q[z + 1]
  <2> SUFFICES ASSUME NEW z \in b + 1..y
               PROVE  g[Q[z]] = IF z = y THEN Behind(Q, n, y) ELSE Q[z + 1]
    OBVIOUS
  <2>1. z \in b..y /\ z \in 1..n /\ z # b
    BY <1>2
  <2>2. Q[z] \in D /\ Q[z] # M[t] /\ Q[z] # Q[b]
    BY <1>6, <1>7, <1>13, <2>1
  <2> QED BY <1>3, <1>10, <1>12, <2>1, <2>2
<1>20. \A c \in D : (\A z \in p..y : c # Q[z]) => g[c] = next[c]
  <2> SUFFICES ASSUME NEW c \in D, \A z \in p..y : c # Q[z] PROVE g[c] = next[c]
    OBVIOUS
  <2>1. b \in p..y
    BY <1>2
  <2>2. PICK z \in Done(p, x, a, b) : M[t] = Q[z]
    BY <1>6, <1>7
  <2>3. z \in p..y
    BY <1>2, <2>2 DEF Done
  <2>4. c # M[t] /\ c # Q[b]
    BY <2>1, <2>2, <2>3
  <2> QED BY <1>3, <1>10, <1>12, <2>4
<1>21. p..(t + 1) - 1 = p..t
  BY <1>2
<1>22. MergedLinks(D, next, Q, n, p, x, y, r, a, b + 1, t + 1, N)
  <2>1. r \in MergeStates(D) /\ r.astart = N[t + 1]
        /\ r.bstart = (IF b + 1 <= y THEN Q[b + 1] ELSE Behind(Q, n, y))
    BY <1>5, <1>16
  <2>2. \A j \in p..(t + 1) - 1 : r.next[N[j]] = N[j + 1]
    BY <1>16, <1>17, <1>21
  <2>3. /\ a <= x => r.next[N[t + 1]] = Q[a]
        /\ \A z \in a..x - 1 : r.next[Q[z]] = Q[z + 1]
    BY <1>5, <1>12, <1>16, <1>18
  <2>4. /\ \A z \in b + 1..y :
              r.next[Q[z]] = IF z = y THEN Behind(Q, n, y) ELSE Q[z + 1]
        /\ \A c \in D : (\A z \in p..y : c # Q[z]) => r.next[c] = next[c]
    BY <1>16, <1>19, <1>20
  <2> QED BY <2>1, <2>2, <2>3, <2>4 DEF MergedLinks
<1> QED BY <1>5, <1>22 DEF Merged

\* A round merges one bucket more, until one of the parts is done.
LEMMA RoundMoves ==
    ASSUME NEW D, NEW next, NEW Q, NEW n, NEW p, NEW x, NEW y, Parts(D, next, Q, n, p, x, y),
           NEW s, NEW a, NEW b, NEW t, NEW M, Merged(D, next, Q, n, p, x, y, s, a, b, t, M),
           NEW data, NEW r, r = MergeRound(data, Q[x], Behind(Q, n, y), s)
    PROVE  /\ a <= x /\ b <= y =>
                \E c, d, u, N : /\ Merged(D, next, Q, n, p, x, y, r, c, d, u, N)
                                /\ c + d = a + b + 1
           /\ ~(a <= x /\ b <= y) => r = s
<1>1. (s.astart # Q[x] <=> a <= x) /\ (s.bstart # Behind(Q, n, y) <=> b <= y)
  BY MergeGoesOn
<1>2. a \in Nat /\ b \in Nat
  <2>1. MergedList(D, Q, p, x, y, a, b, t, M)
    BY DEF Merged
  <2> QED BY <2>1, NotMerged
<1>3. ~(a <= x /\ b <= y) => r = s
  BY <1>1 DEF MergeRound
<1>4. ASSUME a <= x, b <= y
      PROVE  \E c, d, u, N : /\ Merged(D, next, Q, n, p, x, y, r, c, d, u, N)
                             /\ c + d = a + b + 1
  <2>1. s.astart # Q[x] /\ s.bstart # Behind(Q, n, y)
    BY <1>1, <1>4
  <2>2. CASE SecondRound(s, r)
    <3>1. \E N : Merged(D, next, Q, n, p, x, y, r, a, b + 1, t + 1, N)
      BY <1>4, <2>2, MergeSecond
    <3>2. a + (b + 1) = a + b + 1
      BY <1>2
    <3> QED BY <3>1, <3>2
  <2>3. CASE FirstRound(s, r)
    <3>1. \E N : Merged(D, next, Q, n, p, x, y, r, a + 1, b, t + 1, N)
      BY <1>4, <2>3, MergeFirst
    <3>2. (a + 1) + b = a + b + 1
      BY <1>2
    <3> QED BY <3>1, <3>2
  <2> QED BY <2>1, <2>2, <2>3 DEF MergeRound, FirstRound, SecondRound
<1> QED BY <1>3, <1>4

\* After enough rounds one of the parts is done.
LEMMA MergeEnds ==
    ASSUME NEW D, NEW next, NEW Q, NEW n, NEW p, NEW x, NEW y, Parts(D, next, Q, n, p, x, y),
           NEW data, NEW start, start = [next |-> next, astart |-> Q[p], bstart |-> Q[x + 1]],
           NEW fuel \in Nat, n <= fuel
    PROVE  \E a, b, t, M :
              /\ Merged(D, next, Q, n, p, x, y,
                        MergeRounds(data, Q[x], Behind(Q, n, y), start, fuel)[fuel], a, b, t, M)
              /\ ~(a <= x /\ b <= y)
<1> DEFINE S == {s \in MergeStates(D) :
                    \E a, b, t, M : Merged(D, next, Q, n, p, x, y, s, a, b, t, M)}
           step == [s \in S |-> MergeRound(data, Q[x], Behind(Q, n, y), s)]
           Good(at) == at = [k \in 0..fuel |->
                                IF k = 0 THEN start
                                ELSE MergeRound(data, Q[x], Behind(Q, n, y), at[k - 1])]
<1>1. /\ n \in Nat /\ p \in Nat /\ x \in Nat /\ y \in Nat
      /\ 1 <= p /\ p <= x /\ x < y /\ y <= n
  <2>1. n \in Nat /\ p \in 1..n /\ x \in p..n /\ y \in x + 1..n
    BY DEF Parts
  <2> QED BY <2>1
<1>2. \A s, a, b, t, M :
         Merged(D, next, Q, n, p, x, y, s, a, b, t, M) =>
            s \in S /\ a \in Nat /\ b \in Nat /\ a <= x + 1 /\ b <= y + 1
  <2> SUFFICES ASSUME NEW s, NEW a, NEW b, NEW t, NEW M,
                      Merged(D, next, Q, n, p, x, y, s, a, b, t, M)
               PROVE  s \in S /\ a \in Nat /\ b \in Nat /\ a <= x + 1 /\ b <= y + 1
    OBVIOUS
  <2>1. MergedList(D, Q, p, x, y, a, b, t, M) /\ s \in MergeStates(D)
    BY DEF Merged, MergedLinks
  <2>2. a \in Nat /\ b \in Nat /\ a <= x + 1 /\ b <= y + 1
    BY <2>1, NotMerged
  <2> QED BY <2>1, <2>2
<1>3. \E M : Merged(D, next, Q, n, p, x, y, start, p + 1, x + 1, p, M)
  BY MergeStart
<1>4. start \in S
  BY <1>2, <1>3
<1>5. step \in [S -> S]
  <2> SUFFICES ASSUME NEW s \in S PROVE MergeRound(data, Q[x], Behind(Q, n, y), s) \in S
    OBVIOUS
  <2>1. PICK a, b, t, M : Merged(D, next, Q, n, p, x, y, s, a, b, t, M)
    OBVIOUS
  <2>2. PICK r : r = MergeRound(data, Q[x], Behind(Q, n, y), s)
    OBVIOUS
  <2>3. CASE a <= x /\ b <= y
    <3>1. PICK c, d, u, N : Merged(D, next, Q, n, p, x, y, r, c, d, u, N)
      BY <2>1, <2>2, <2>3, RoundMoves
    <3>2. r \in S
      BY <1>2, <3>1
    <3> QED BY <2>2, <3>2
  <2>4. CASE ~(a <= x /\ b <= y)
    <3>1. r = s
      BY <2>1, <2>2, <2>4, RoundMoves
    <3> QED BY <2>2, <3>1
  <2> QED BY <2>3, <2>4
<1>6. PICK at : Good(at)
  <2>1. PICK f \in [0..fuel -> S] : Steps(step, start, fuel, f)
    <3> HIDE DEF S, step
    <3> QED BY <1>4, <1>5, Iterates
  <2>2. \A k \in 0..fuel : k # 0 => k - 1 \in 0..fuel
    OBVIOUS
  <2>3. \A k \in 0..fuel : k # 0 => f[k - 1] \in S
    BY <2>2
  <2>4. \A k \in 0..fuel :
           (IF k = 0 THEN start ELSE step[f[k - 1]]) =
              IF k = 0 THEN start ELSE MergeRound(data, Q[x], Behind(Q, n, y), f[k - 1])
    BY <2>3
  <2>5. f = [k \in 0..fuel |-> IF k = 0 THEN start ELSE step[f[k - 1]]]
    BY <2>1 DEF Steps
  <2>6. Good(f)
    <3> HIDE DEF step
    <3> QED BY <2>4, <2>5
  <2> QED BY <2>6
<1>7. PICK rounds : rounds = MergeRounds(data, Q[x], Behind(Q, n, y), start, fuel)
  OBVIOUS
<1>8. Good(rounds)
  <2>1. rounds = CHOOSE f : Good(f)
    BY <1>7 DEF MergeRounds
  <2> HIDE DEF Good
  <2> QED BY <1>6, <2>1
<1>9. /\ rounds[0] = start
      /\ \A k \in Nat : k + 1 <= fuel =>
            rounds[k + 1] = MergeRound(data, Q[x], Behind(Q, n, y), rounds[k])
  <2>1. \A k \in Nat : k + 1 <= fuel => k + 1 \in 0..fuel /\ k + 1 # 0 /\ (k + 1) - 1 = k
    OBVIOUS
  <2> QED BY <1>8, <2>1
<1> DEFINE Moved(s, k) == \E a, b, t, M : /\ Merged(D, next, Q, n, p, x, y, s, a, b, t, M)
                                          /\ a <= x /\ b <= y => a + b >= p + x + 2 + k
<1>10. Moved(rounds[0], 0)
  <2>1. PICK M : Merged(D, next, Q, n, p, x, y, start, p + 1, x + 1, p, M)
    BY <1>3
  <2>2. p + 1 + (x + 1) >= p + x + 2 + 0
    BY <1>1
  <2> QED BY <1>9, <2>1, <2>2
<1>11. ASSUME NEW k \in Nat, k + 1 <= fuel, Moved(rounds[k], k)
       PROVE  Moved(rounds[k + 1], k + 1)
  <2>1. PICK a, b, t, M : /\ Merged(D, next, Q, n, p, x, y, rounds[k], a, b, t, M)
                          /\ a <= x /\ b <= y => a + b >= p + x + 2 + k
    BY <1>11
  <2>5. PICK s : s = rounds[k]
    OBVIOUS
  <2>6. Merged(D, next, Q, n, p, x, y, s, a, b, t, M)
    BY <2>1, <2>5
  <2>2. PICK r : r = MergeRound(data, Q[x], Behind(Q, n, y), s) /\ r = rounds[k + 1]
    BY <1>9, <1>11, <2>5
  <2>7. r = MergeRound(data, Q[x], Behind(Q, n, y), s)
    BY <2>2
  <2>8. /\ a <= x /\ b <= y =>
                \E c, d, u, N : /\ Merged(D, next, Q, n, p, x, y, r, c, d, u, N)
                                /\ c + d = a + b + 1
        /\ ~(a <= x /\ b <= y) => r = s
    <3> HIDE DEF S, step, Good, Moved
    <3> QED BY <2>6, <2>7, RoundMoves
  <2>3. CASE a <= x /\ b <= y
    <3>1. PICK c, d, u, N : /\ Merged(D, next, Q, n, p, x, y, r, c, d, u, N)
                            /\ c + d = a + b + 1
      BY <2>3, <2>8
    <3>2. a \in Nat /\ b \in Nat /\ c \in Nat /\ d \in Nat
      BY <1>2, <2>1, <3>1
    <3>3. c + d >= p + x + 2 + (k + 1)
      BY <1>1, <2>1, <2>3, <3>1, <3>2
    <3> QED BY <2>2, <3>1, <3>3
  <2>4. CASE ~(a <= x /\ b <= y)
    <3>1. r = rounds[k]
      BY <2>4, <2>5, <2>8
    <3> QED BY <2>1, <2>2, <2>4, <3>1
  <2> QED BY <2>3, <2>4
<1>12. Moved(rounds[fuel], fuel)
  <2> DEFINE I == {k \in Nat : k <= fuel => Moved(rounds[k], k)}
  <2> HIDE DEF Moved
  <2>1. 0 \in I
    BY <1>10
  <2>2. \A k \in Nat : k \in I => k + 1 \in I
    <3> SUFFICES ASSUME NEW k \in Nat, k \in I, k + 1 <= fuel PROVE Moved(rounds[k + 1], k + 1)
      OBVIOUS
    <3> QED BY <1>11
  <2>3. fuel \in I
    <3> HIDE DEF I
    <3> QED BY <2>1, <2>2, SetInduction
  <2> QED BY <2>3
<1>13. PICK a, b, t, M : /\ Merged(D, next, Q, n, p, x, y, rounds[fuel], a, b, t, M)
                         /\ a <= x /\ b <= y => a + b >= p + x + 2 + fuel
  BY <1>12
<1>14. a \in Nat /\ b \in Nat
  BY <1>2, <1>13
<1>15. ~(a <= x /\ b <= y)
  BY <1>1, <1>13, <1>14
<1> QED BY <1>7, <1>13, <1>15

\* R is Q with the places p..y rearranged, the first of them left where it is.
Rearranged(D, Q, R, n, p, y) ==
    /\ R \in [1..n -> D] /\ \A j, k \in 1..n : R[j] = R[k] => j = k
    /\ \A z \in 1..n : z <= p \/ z > y => R[z] = Q[z]
    /\ \A z \in p..y : \E w \in p..y : R[z] = Q[w]
    /\ \A w \in p..y : \E z \in p..y : R[z] = Q[w]

\* The links "old" have become "new" so that p..y follow one another.
Relinked(D, old, new, Q, R, n, p, y) ==
    /\ new \in [D -> D \cup {NULL}]
    /\ \A z \in p..y - 1 : new[R[z]] = R[z + 1]
    /\ \A c \in D : (\A z \in p..y : c # Q[z]) => new[c] = old[c]

\* The first part is done: its end is linked to the rest of the second part.
LEMMA JoinSecond ==
    ASSUME NEW D, NEW next, NEW Q, NEW n, NEW p, NEW x, NEW y, Parts(D, next, Q, n, p, x, y),
           NEW s, NEW a, NEW b, NEW t, NEW M, Merged(D, next, Q, n, p, x, y, s, a, b, t, M),
           ~(a <= x), NEW f, f = [s.next EXCEPT ![Q[x]] = s.bstart]
    PROVE  \E R : /\ Rearranged(D, Q, R, n, p, y) /\ Relinked(D, next, f, Q, R, n, p, y)
                  /\ R[y] = Q[y]
<1>1. MergedList(D, Q, p, x, y, a, b, t, M)
  BY DEF Merged
<1>2. /\ a \in Nat /\ b \in Nat /\ t \in Nat /\ p \in Nat /\ x \in Nat /\ y \in Nat
      /\ n \in Nat /\ 1 <= p /\ p < a /\ a <= x + 1 /\ x < b /\ b <= y + 1
      /\ y <= n /\ p <= x /\ x < y /\ p <= t /\ t = a + b - x - 2
  BY <1>1, NotMerged
<1>3. b <= y
  BY <1>1 DEF MergedList
<1>4. a = x + 1 /\ t = b - 1
  BY <1>2
<1>5. Done(p, x, a, b) = p..t
  <2>1. Done(p, x, a, b) = (p..x) \cup (x + 1..b - 1)
    <3>1. (x + 1) - 1 = x
      BY <1>2
    <3> QED BY <1>4, <3>1 DEF Done
  <2>2. (p..x) \cup (x + 1..b - 1) = p..b - 1
    BY <1>2
  <2> QED BY <1>4, <2>1, <2>2
<1>6. /\ Q \in [1..n -> D] /\ \A j, k \in 1..n : Q[j] = Q[k] => j = k
      /\ M \in [p..t -> D] /\ \A j, k \in p..t : M[j] = M[k] => j = k
      /\ M[p] = Q[p] /\ M[t] = Q[x]
      /\ \A j \in p..t : \E z \in p..t : M[j] = Q[z]
      /\ \A z \in p..t : \E j \in p..t : M[j] = Q[z]
  BY <1>1, <1>4, <1>5 DEF Parts, MergedList
<1>7. /\ s \in MergeStates(D) /\ s.bstart = Q[b]
      /\ \A j \in p..t - 1 : s.next[M[j]] = M[j + 1]
      /\ \A z \in b..y : s.next[Q[z]] = IF z = y THEN Behind(Q, n, y) ELSE Q[z + 1]
      /\ \A c \in D : (\A z \in p..y : c # Q[z]) => s.next[c] = next[c]
  BY <1>3 DEF Merged, MergedLinks
<1>8. PICK g \in [D -> D \cup {NULL}] : g = s.next
  BY <1>7 DEF MergeStates
<1>9. x \in 1..n /\ b \in 1..n /\ Q[x] \in D /\ Q[b] \in D
  <2>1. x \in 1..n /\ b \in 1..n
    BY <1>2, <1>3
  <2> QED BY <1>6, <2>1
<1>10. f = [g EXCEPT ![Q[x]] = Q[b]]
  BY <1>7, <1>8
<1>11. f \in [D -> D \cup {NULL}] /\ f[Q[x]] = Q[b] /\ \A c \in D : c # Q[x] => f[c] = g[c]
  BY <1>9, <1>10
<1>12. PICK R : R = [z \in 1..n |-> IF z \in p..t THEN M[z] ELSE Q[z]]
  OBVIOUS
<1>13. \A z \in 1..n : R[z] = IF z \in p..t THEN M[z] ELSE Q[z]
  BY <1>12
<1>14. R \in [1..n -> D]
  <2>1. \A z \in 1..n : (IF z \in p..t THEN M[z] ELSE Q[z]) \in D
    BY <1>6
  <2> QED BY <1>12, <2>1
<1>15. \A j, k \in 1..n : R[j] = R[k] => j = k
  <2> SUFFICES ASSUME NEW j \in 1..n, NEW k \in 1..n, R[j] = R[k] PROVE j = k
    OBVIOUS
  <2>1. p..t \subseteq 1..n
    BY <1>2, <1>4
  <2>2. ASSUME NEW v \in p..t, NEW w \in 1..n, w \notin p..t PROVE M[v] # Q[w]
    <3>1. PICK u \in p..t : M[v] = Q[u]
      BY <1>6
    <3>2. u \in 1..n /\ u # w
      BY <2>1, <2>2
    <3> QED BY <1>6, <3>1, <3>2
  <2>3. CASE j \in p..t /\ k \in p..t
    BY <1>6, <1>13, <2>3
  <2>4. CASE j \in p..t /\ k \notin p..t
    BY <1>13, <2>2, <2>4
  <2>5. CASE j \notin p..t /\ k \in p..t
    BY <1>13, <2>2, <2>5
  <2>6. CASE j \notin p..t /\ k \notin p..t
    BY <1>6, <1>13, <2>6
  <2> QED BY <2>3, <2>4, <2>5, <2>6
<1>16. Rearranged(D, Q, R, n, p, y)
  <2>1. \A z \in 1..n : z <= p \/ z > y => R[z] = Q[z]
    <3>1. \A z \in 1..n : z <= p \/ z > y => z = p \/ z \notin p..t
      BY <1>2, <1>3, <1>4
    <3> QED BY <1>6, <1>13, <3>1
  <2>2. \A z \in p..y : z \in 1..n
    BY <1>2
  <2>3. \A z \in p..t : z \in p..y
    BY <1>2, <1>3, <1>4
  <2>4. \A z \in p..y : \E w \in p..y : R[z] = Q[w]
    BY <1>6, <1>13, <2>2, <2>3
  <2>5. \A w \in p..y : \E z \in p..y : R[z] = Q[w]
    <3> SUFFICES ASSUME NEW w \in p..y PROVE \E z \in p..y : R[z] = Q[w]
      OBVIOUS
    <3>1. CASE w \in p..t
      <4>1. PICK z \in p..t : M[z] = Q[w]
        BY <1>6, <3>1
      <4> QED BY <1>13, <2>2, <2>3, <4>1
    <3>2. CASE w \notin p..t
      BY <1>13, <2>2, <3>2
    <3> QED BY <3>1, <3>2
  <2> QED BY <1>14, <1>15, <2>1, <2>4, <2>5 DEF Rearranged
<1>17. \A z \in p..y - 1 : f[R[z]] = R[z + 1]
  <2> SUFFICES ASSUME NEW z \in p..y - 1 PROVE f[R[z]] = R[z + 1]
    OBVIOUS
  <2>1. z \in 1..n /\ z + 1 \in 1..n
    BY <1>2
  <2>2. CASE z < t
    <3>1. z \in p..t /\ z + 1 \in p..t /\ z \in p..t - 1 /\ t \in p..t /\ z # t
      BY <1>2, <2>2
    <3>2. R[z] = M[z] /\ R[z + 1] = M[z + 1] /\ M[z] \in D /\ M[z] # Q[x]
      BY <1>6, <1>13, <2>1, <3>1
    <3> QED BY <1>7, <1>8, <1>11, <3>1, <3>2
  <2>3. CASE z = t
    <3>1. z \in p..t /\ z + 1 \notin p..t /\ z + 1 = b
      BY <1>2, <1>4, <2>3
    <3> QED BY <1>6, <1>11, <1>13, <2>1, <2>3, <3>1
  <2>4. CASE z > t
    <3>1. z \notin p..t /\ z + 1 \notin p..t /\ z \in b..y /\ z # y /\ z # x
      BY <1>2, <1>4, <2>4
    <3>2. R[z] = Q[z] /\ R[z + 1] = Q[z + 1] /\ Q[z] \in D /\ Q[z] # Q[x]
      BY <1>6, <1>9, <1>13, <2>1, <3>1
    <3> QED BY <1>7, <1>8, <1>11, <3>1, <3>2
  <2> QED BY <1>2, <2>2, <2>3, <2>4
<1>18. \A c \in D : (\A z \in p..y : c # Q[z]) => f[c] = next[c]
  <2>1. x \in p..y
    BY <1>2
  <2> QED BY <1>7, <1>8, <1>11, <2>1
<1>19. Relinked(D, next, f, Q, R, n, p, y)
  BY <1>11, <1>17, <1>18 DEF Relinked
<1>20. R[y] = Q[y]
  <2>1. y \in 1..n /\ y \notin p..t
    BY <1>2, <1>3, <1>4
  <2> QED BY <1>13, <2>1
<1> QED BY <1>16, <1>19, <1>20

\* The second part is done: the rest of the first one follows.
LEMMA JoinFirst ==
    ASSUME NEW D, NEW next, NEW Q, NEW n, NEW p, NEW x, NEW y, Parts(D, next, Q, n, p, x, y),
           NEW s, NEW a, NEW b, NEW t, NEW M, Merged(D, next, Q, n, p, x, y, s, a, b, t, M),
           a <= x, ~(b <= y)
    PROVE  \E R : /\ Rearranged(D, Q, R, n, p, y) /\ Relinked(D, next, s.next, Q, R, n, p, y)
                  /\ R[y] = Q[x]
<1>1. MergedList(D, Q, p, x, y, a, b, t, M)
  BY DEF Merged
<1>2. /\ a \in Nat /\ b \in Nat /\ t \in Nat /\ p \in Nat /\ x \in Nat /\ y \in Nat
      /\ n \in Nat /\ 1 <= p /\ p < a /\ a <= x + 1 /\ x < b /\ b <= y + 1
      /\ y <= n /\ p <= x /\ x < y /\ p <= t /\ t = a + b - x - 2
  BY <1>1, NotMerged
<1>3. b = y + 1 /\ t = a + y - x - 1 /\ t < y
  BY <1>2
<1>4. PICK i \in Nat : i = y - x
  BY <1>2
<1>5. \A z \in p..t : \E w \in 1..n : (w < a \/ w > x) /\ w \in p..y /\ M[z] = Q[w]
  <2>1. \A w \in Done(p, x, a, b) : w \in 1..n /\ (w < a \/ w > x) /\ w \in p..y
    BY <1>2, <1>3 DEF Done
  <2>2. \A z \in p..t : \E w \in Done(p, x, a, b) : M[z] = Q[w]
    BY <1>1 DEF MergedList
  <2> QED BY <2>1, <2>2
<1>6. /\ Q \in [1..n -> D] /\ \A j, k \in 1..n : Q[j] = Q[k] => j = k
      /\ M \in [p..t -> D] /\ \A j, k \in p..t : M[j] = M[k] => j = k
      /\ M[p] = Q[p]
      /\ \A z \in Done(p, x, a, b) : \E j \in p..t : M[j] = Q[z]
  BY <1>1 DEF Parts, MergedList
<1>7. /\ s \in MergeStates(D)
      /\ \A j \in p..t - 1 : s.next[M[j]] = M[j + 1]
      /\ s.next[M[t]] = Q[a]
      /\ \A z \in a..x - 1 : s.next[Q[z]] = Q[z + 1]
      /\ \A c \in D : (\A z \in p..y : c # Q[z]) => s.next[c] = next[c]
  BY DEF Merged, MergedLinks
<1>8. PICK R : R = [z \in 1..n |-> IF z \in p..t THEN M[z]
                                   ELSE IF z \in t + 1..y THEN Q[z - i] ELSE Q[z]]
  OBVIOUS
<1>9. \A z \in 1..n : R[z] = IF z \in p..t THEN M[z]
                             ELSE IF z \in t + 1..y THEN Q[z - i] ELSE Q[z]
  BY <1>8
<1>10. /\ \A z \in t + 1..y : z - i \in a..x /\ z - i \in 1..n /\ z \in 1..n /\ z - i \in p..y
                              /\ z \notin p..t
       /\ \A z \in p..t : z \in 1..n
       /\ \A z \in 1..n : (z \notin p..t /\ z \notin t + 1..y) <=> z \notin p..y
  BY <1>2, <1>3, <1>4
<1>11. R \in [1..n -> D]
  <2>1. \A z \in 1..n : (IF z \in p..t THEN M[z]
                         ELSE IF z \in t + 1..y THEN Q[z - i] ELSE Q[z]) \in D
    BY <1>6, <1>10
  <2> QED BY <1>8, <2>1
<1>12. \A j, k \in 1..n : R[j] = R[k] => j = k
  <2> SUFFICES ASSUME NEW j \in 1..n, NEW k \in 1..n, R[j] = R[k] PROVE j = k
    OBVIOUS
  <2>1. ASSUME NEW v \in p..t, NEW w \in 1..n, w \notin p..y \/ w \in a..x PROVE M[v] # Q[w]
    <3>1. PICK u \in 1..n : (u < a \/ u > x) /\ u \in p..y /\ M[v] = Q[u]
      BY <1>5
    <3>2. u # w
      BY <1>2, <2>1, <3>1
    <3> QED BY <1>6, <3>1, <3>2
  <2>2. ASSUME NEW v \in 1..n, NEW w \in 1..n, v \in p..t, w \notin p..t PROVE R[v] # R[w]
    <3>1. CASE w \in t + 1..y
      BY <1>9, <1>10, <2>1, <2>2, <3>1
    <3>2. CASE w \notin t + 1..y
      BY <1>9, <1>10, <2>1, <2>2, <3>2
    <3> QED BY <3>1, <3>2
  <2>3. ASSUME NEW v \in t + 1..y, NEW w \in 1..n, w \notin p..y PROVE R[v] # R[w]
    <3>1. R[v] = Q[v - i] /\ R[w] = Q[w] /\ v - i \in 1..n
      BY <1>9, <1>10, <2>3
    <3>2. v - i # w
      BY <1>10, <2>3
    <3> QED BY <1>6, <3>1, <3>2
  <2>4. CASE j \in p..t /\ k \in p..t
    BY <1>6, <1>9, <2>4
  <2>5. CASE (j \in p..t /\ k \notin p..t) \/ (j \notin p..t /\ k \in p..t)
    BY <2>2, <2>5
  <2>6. CASE j \in t + 1..y /\ k \in t + 1..y
    <3>1. Q[j - i] = Q[k - i] /\ j - i \in 1..n /\ k - i \in 1..n
      BY <1>9, <1>10, <2>6
    <3>2. j - i = k - i
      BY <1>6, <3>1
    <3> QED BY <1>4, <3>2
  <2>7. CASE (j \in t + 1..y /\ k \notin p..y) \/ (j \notin p..y /\ k \in t + 1..y)
    BY <2>3, <2>7
  <2>8. CASE j \notin p..y /\ k \notin p..y
    BY <1>6, <1>9, <1>10, <2>8
  <2> QED BY <1>10, <2>4, <2>5, <2>6, <2>7, <2>8
<1>13. Rearranged(D, Q, R, n, p, y)
  <2>1. \A z \in 1..n : z <= p \/ z > y => R[z] = Q[z]
    <3>1. \A z \in 1..n : z <= p \/ z > y => (z = p /\ z \in p..t) \/ z \notin p..y
      BY <1>2, <1>3
    <3> QED BY <1>6, <1>9, <1>10, <3>1
  <2>2. \A z \in p..y : z \in p..t \/ z \in t + 1..y
    BY <1>2, <1>3
  <2>3. \A z \in p..y : \E w \in p..y : R[z] = Q[w]
    <3> SUFFICES ASSUME NEW z \in p..y PROVE \E w \in p..y : R[z] = Q[w]
      OBVIOUS
    <3>1. CASE z \in p..t
      BY <1>5, <1>9, <1>10, <3>1
    <3>2. CASE z \in t + 1..y
      BY <1>9, <1>10, <3>2
    <3> QED BY <2>2, <3>1, <3>2
  <2>4. \A w \in p..y : \E z \in p..y : R[z] = Q[w]
    <3> SUFFICES ASSUME NEW w \in p..y PROVE \E z \in p..y : R[z] = Q[w]
      OBVIOUS
    <3>1. CASE w \in a..x
      <4>1. w + i \in t + 1..y /\ (w + i) - i = w /\ w + i \in p..y
        BY <1>2, <1>3, <1>4, <3>1
      <4>2. R[w + i] = Q[w]
        BY <1>9, <1>10, <4>1
      <4> QED BY <4>1, <4>2
    <3>2. CASE w \notin a..x
      <4>1. w \in Done(p, x, a, b)
        BY <1>2, <1>3, <3>2 DEF Done
      <4>2. PICK z \in p..t : M[z] = Q[w]
        BY <1>6, <4>1
      <4>3. z \in p..y
        BY <1>2, <1>3
      <4> QED BY <1>9, <1>10, <4>2, <4>3
    <3> QED BY <3>1, <3>2
  <2> QED BY <1>11, <1>12, <2>1, <2>3, <2>4 DEF Rearranged
<1>14. \A z \in p..y - 1 : s.next[R[z]] = R[z + 1]
  <2> SUFFICES ASSUME NEW z \in p..y - 1 PROVE s.next[R[z]] = R[z + 1]
    OBVIOUS
  <2>1. z \in 1..n /\ z + 1 \in 1..n
    BY <1>2
  <2>2. CASE z < t
    <3>1. z \in p..t /\ z + 1 \in p..t /\ z \in p..t - 1
      BY <1>2, <2>2
    <3> QED BY <1>7, <1>9, <2>1, <3>1
  <2>3. CASE z = t
    <3>1. z \in p..t /\ z + 1 \notin p..t /\ z + 1 \in t + 1..y /\ (z + 1) - i = a
      BY <1>2, <1>3, <1>4, <2>3
    <3> QED BY <1>7, <1>9, <2>1, <2>3, <3>1
  <2>4. CASE z > t
    <3>1. /\ z \notin p..t /\ z + 1 \notin p..t /\ z \in t + 1..y /\ z + 1 \in t + 1..y
          /\ z - i \in a..x - 1 /\ (z + 1) - i = (z - i) + 1
      BY <1>2, <1>3, <1>4, <2>4
    <3>2. R[z] = Q[z - i] /\ R[z + 1] = Q[(z - i) + 1]
      BY <1>9, <2>1, <3>1
    <3> QED BY <1>7, <3>1, <3>2
  <2> QED BY <1>2, <2>2, <2>3, <2>4
<1>15. Relinked(D, next, s.next, Q, R, n, p, y)
  BY <1>7, <1>14 DEF Relinked, MergeStates
<1>16. R[y] = Q[x]
  <2>1. y \in 1..n /\ y \in t + 1..y /\ y - i = x
    BY <1>2, <1>3, <1>4
  <2> QED BY <1>9, <1>10, <2>1
<1> QED BY <1>13, <1>15, <1>16

\* What a merge of the parts up to place y does: the result r of m has the
\* contents exchanged and the places p..y rearranged.
MergeDoes(D, X, Q, n, p, y, m, r) ==
    /\ r.m \in Memory(D, X) /\ SameData({Q[z] : z \in 1..n}, m.data, r.m.data)
    /\ \E R : /\ Rearranged(D, Q, R, n, p, y)
              /\ Relinked(D, m.next, r.m.next, Q, R, n, p, y)
              /\ r.end2 = R[y]

\* _hashmap_merge exchanges contents in the list and rearranges the places of the
\* two parts it merges, whatever the comparisons said.
LEMMA MergeEffect ==
    ASSUME NEW D, NEW X, NEW m \in Memory(D, X), NEW Q, NEW n, NEW p, NEW x, NEW y,
           Parts(D, m.next, Q, n, p, x, y), NEW len \in Nat, n <= len,
           NEW r, r = _hashmap_merge(m, Q[p], Q[x], Q[x + 1], Q[y], len)
    PROVE  MergeDoes(D, X, Q, n, p, y, m, r)
<1>1. /\ n \in Nat /\ p \in Nat /\ x \in Nat /\ y \in Nat
      /\ 1 <= p /\ p <= x /\ x < y /\ y <= n
  <2>1. n \in Nat /\ p \in 1..n /\ x \in p..n /\ y \in x + 1..n
    BY DEF Parts
  <2> QED BY <2>1
<1>2. Q \in [1..n -> D] /\ \A z \in p..n : m.next[Q[z]] = IF z = n THEN NULL ELSE Q[z + 1]
  BY DEF Parts
<1>3. m.data \in [D -> X] /\ m.next \in [D -> D \cup {NULL}]
  BY DEF Memory
<1>4. PICK P : P = {Q[z] : z \in 1..n}
  OBVIOUS
<1>5. P \in SUBSET D /\ Q[p] \in P /\ Q[x] \in P /\ Q[x + 1] \in P /\ Q[y] \in P
  <2>1. p \in 1..n /\ x \in 1..n /\ x + 1 \in 1..n /\ y \in 1..n
    BY <1>1
  <2> QED BY <1>2, <1>4, <2>1
<1>6. PICK m1 : m1 = IF Gt(m.data[Q[p]], m.data[Q[x + 1]])
                     THEN _hashmap_swap_bucket(
                              _hashmap_swap_bucket(m, Q[p], Q[x + 1]), Q[x], Q[y])
                     ELSE m
  OBVIOUS
<1>7. m1 \in Memory(D, X) /\ m1.next = m.next /\ SameData(P, m.data, m1.data)
  <2>1. CASE m1 = m
    BY <2>1 DEF SameData
  <2>2. CASE m1 = _hashmap_swap_bucket(
                      _hashmap_swap_bucket(m, Q[p], Q[x + 1]), Q[x], Q[y])
    <3>1. PICK h : h = _hashmap_swap_bucket(m, Q[p], Q[x + 1])
      OBVIOUS
    <3>2. P \subseteq D
      BY <1>5
    <3>3. Exchanged(D, X, P, m, h)
      BY <1>5, <3>1, <3>2, SwapIs
    <3>4. h \in Memory(D, X) /\ m1 = _hashmap_swap_bucket(h, Q[x], Q[y])
      BY <2>2, <3>1, <3>3 DEF Exchanged
    <3>5. Exchanged(D, X, P, h, m1)
      BY <1>5, <3>2, <3>4, SwapIs
    <3>6. /\ h.next = m.next /\ SameData(P, m.data, h.data)
          /\ m1 \in Memory(D, X) /\ m1.next = h.next /\ SameData(P, h.data, m1.data)
      BY <3>3, <3>5 DEF Exchanged
    <3>7. h.data \in [D -> X] /\ m1.data \in [D -> X]
      BY <3>4, <3>6 DEF Memory
    <3>8. SameData(P, m.data, m1.data)
      BY <1>3, <3>6, <3>7, SameTwice
    <3> QED BY <3>6, <3>8
  <2> QED BY <1>6, <2>1, <2>2
<1>8. m1.data \in [D -> X] /\ m1 = [data |-> m1.data, next |-> m.next]
  BY <1>7 DEF Memory
<1>9. m1.next[Q[y]] = Behind(Q, n, y)
  <2>1. y \in p..n
    BY <1>1
  <2> QED BY <1>2, <1>7, <2>1 DEF Behind
<1>10. PICK start : start = [next |-> m.next, astart |-> Q[p], bstart |-> Q[x + 1]]
  OBVIOUS
<1>11. PICK s : s = MergeRounds(m1.data, Q[x], Behind(Q, n, y), start, 2 * len)[2 * len]
  OBVIOUS
<1>12. r = IF s.astart = Q[x]
           THEN [m |-> [m1 EXCEPT !.next = [s.next EXCEPT ![Q[x]] = s.bstart]],
                 end2 |-> Q[y]]
           ELSE [m |-> [m1 EXCEPT !.next = s.next], end2 |-> Q[x]]
  BY <1>6, <1>7, <1>9, <1>10, <1>11, MergeIs
<1>13. PICK a, b, t, M : Merged(D, m.next, Q, n, p, x, y, s, a, b, t, M) /\ ~(a <= x /\ b <= y)
  <2>1. PICK fuel \in Nat : fuel = 2 * len
    OBVIOUS
  <2>2. n <= fuel
    BY <1>1, <2>1
  <2>3. s = MergeRounds(m1.data, Q[x], Behind(Q, n, y), start, fuel)[fuel]
    BY <1>11, <2>1
  <2> QED BY <1>10, <2>2, <2>3, MergeEnds
<1>14. s.astart # Q[x] <=> a <= x
  BY <1>13, MergeGoesOn
<1>15. CASE a <= x
  <2>1. PICK R : /\ Rearranged(D, Q, R, n, p, y)
                 /\ Relinked(D, m.next, s.next, Q, R, n, p, y) /\ R[y] = Q[x]
    BY <1>13, <1>15, JoinFirst
  <2>2. s.next \in [D -> D \cup {NULL}]
    BY <2>1 DEF Relinked
  <2>3. r = [m |-> [data |-> m1.data, next |-> s.next], end2 |-> Q[x]]
    BY <1>8, <1>12, <1>14, <1>15
  <2>4. r.m \in Memory(D, X) /\ r.m.data = m1.data /\ r.m.next = s.next /\ r.end2 = Q[x]
    BY <1>8, <2>2, <2>3 DEF Memory
  <2> QED BY <1>4, <1>7, <2>1, <2>4 DEF MergeDoes
<1>16. CASE ~(a <= x)
  <2>1. PICK f : f = [s.next EXCEPT ![Q[x]] = s.bstart]
    OBVIOUS
  <2>2. PICK R : /\ Rearranged(D, Q, R, n, p, y)
                 /\ Relinked(D, m.next, f, Q, R, n, p, y) /\ R[y] = Q[y]
    BY <1>13, <1>16, <2>1, JoinSecond
  <2>3. f \in [D -> D \cup {NULL}]
    BY <2>2 DEF Relinked
  <2>4. r = [m |-> [data |-> m1.data, next |-> f], end2 |-> Q[y]]
    BY <1>8, <1>12, <1>14, <1>16, <2>1
  <2>5. r.m \in Memory(D, X) /\ r.m.data = m1.data /\ r.m.next = f /\ r.end2 = Q[y]
    BY <1>8, <2>3, <2>4 DEF Memory
  <2> QED BY <1>4, <1>7, <2>2, <2>5 DEF MergeDoes
<1> QED BY <1>15, <1>16

-----------------------------------------------------------------------------
(* The sort: one pass over the list *)

\* The links of the list Q, except that of place e.
LinkedBut(next, Q, n, e) ==
    \A z \in 1..n : z # e => next[Q[z]] = IF z = n THEN NULL ELSE Q[z + 1]

\* f is "new" with the place before p, if there is one, linked to place p.
LinkedBefore(new, Q, p, f) == f = IF p = 1 THEN new ELSE [new EXCEPT ![Q[p - 1]] = Q[p]]

\* The list after two parts were merged and the bucket before them linked.
PairIs(D, next, Q, n, y, R, f) ==
    /\ f \in [D -> D \cup {NULL}] /\ LinkedBut(f, R, n, y)
    /\ {R[z] : z \in 1..n} = {Q[z] : z \in 1..n} /\ R[1] = Q[1]
    /\ next[Q[y]] = IF y = n THEN NULL ELSE R[y + 1]

\* Linking the bucket before a merged pair of parts to its start leaves a list that
\* is broken at most behind the end of the pair.
LEMMA PairLinks ==
    ASSUME NEW D, NEW next, NEW Q, NEW n, NEW p, NEW x, NEW y, Parts(D, next, Q, n, p, x, y),
           LinkedBut(next, Q, n, p - 1), NEW R, NEW new,
           Rearranged(D, Q, R, n, p, y), Relinked(D, next, new, Q, R, n, p, y),
           NEW f, LinkedBefore(new, Q, p, f)
    PROVE  PairIs(D, next, Q, n, y, R, f)
<1>1. /\ n \in Nat /\ p \in Nat /\ x \in Nat /\ y \in Nat
      /\ 1 <= p /\ p <= x /\ x < y /\ y <= n
  <2>1. n \in Nat /\ p \in 1..n /\ x \in p..n /\ y \in x + 1..n
    BY DEF Parts
  <2> QED BY <2>1
<1>2. /\ Q \in [1..n -> D] /\ \A j, k \in 1..n : Q[j] = Q[k] => j = k
      /\ R \in [1..n -> D] /\ \A j, k \in 1..n : R[j] = R[k] => j = k
      /\ \A z \in 1..n : z <= p \/ z > y => R[z] = Q[z]
      /\ \A z \in p..y : \E w \in p..y : R[z] = Q[w]
      /\ \A w \in p..y : \E z \in p..y : R[z] = Q[w]
  BY DEF Parts, Rearranged
<1>3. /\ \A z \in 1..n : z # p - 1 => next[Q[z]] = IF z = n THEN NULL ELSE Q[z + 1]
      /\ new \in [D -> D \cup {NULL}] /\ \A z \in p..y - 1 : new[R[z]] = R[z + 1]
      /\ \A c \in D : (\A z \in p..y : c # Q[z]) => new[c] = next[c]
  BY DEF LinkedBut, Relinked
<1>4. p \in 1..n /\ (p # 1 => p - 1 \in 1..n) /\ R[p] = Q[p] /\ (p # 1 => R[p - 1] = Q[p - 1])
  <2>1. p \in 1..n /\ (p # 1 => p - 1 \in 1..n /\ p - 1 <= p)
    BY <1>1
  <2> QED BY <1>1, <1>2, <2>1
<1>5. f \in [D -> D \cup {NULL}] /\ (p # 1 => f[Q[p - 1]] = Q[p])
      /\ \A c \in D : (p # 1 => c # Q[p - 1]) => f[c] = new[c]
  <2>1. CASE p = 1
    BY <1>3, <2>1 DEF LinkedBefore
  <2>2. CASE p # 1
    <3>1. Q[p - 1] \in D /\ Q[p] \in D
      BY <1>2, <1>4, <2>2
    <3>2. f = [new EXCEPT ![Q[p - 1]] = Q[p]]
      BY <2>2 DEF LinkedBefore
    <3> QED BY <1>3, <2>2, <3>1, <3>2
  <2> QED BY <2>1, <2>2
<1>6. \A z \in 1..n : z < p \/ z > y =>
         R[z] = Q[z] /\ Q[z] \in D /\ new[Q[z]] = next[Q[z]]
  <2> SUFFICES ASSUME NEW z \in 1..n, z < p \/ z > y
               PROVE  R[z] = Q[z] /\ Q[z] \in D /\ new[Q[z]] = next[Q[z]]
    OBVIOUS
  <2>1. \A w \in p..y : w \in 1..n /\ w # z
    BY <1>1
  <2>2. Q[z] \in D /\ \A w \in p..y : Q[z] # Q[w]
    BY <1>2, <2>1
  <2>3. new[Q[z]] = next[Q[z]]
    BY <1>3, <2>2
  <2>4. R[z] = Q[z]
    BY <1>1, <1>2
  <2> QED BY <2>2, <2>3, <2>4
<1>7. \A z \in 1..n : z # y => f[R[z]] = IF z = n THEN NULL ELSE R[z + 1]
  <2> SUFFICES ASSUME NEW z \in 1..n, z # y PROVE f[R[z]] = IF z = n THEN NULL ELSE R[z + 1]
    OBVIOUS
  <2>1. R[z] \in D /\ (z # p - 1 => (p # 1 => R[z] # Q[p - 1]))
    BY <1>2, <1>4
  <2>2. CASE z < p - 1
    <3>1. z < p /\ z # n /\ z + 1 \in 1..n /\ z + 1 <= p /\ z # p - 1
      BY <1>1, <2>2
    <3>2. f[R[z]] = next[Q[z]] /\ next[Q[z]] = Q[z + 1]
      BY <1>3, <1>5, <1>6, <2>1, <3>1
    <3> QED BY <1>2, <3>1, <3>2
  <2>3. CASE z = p - 1
    <3>1. p # 1 /\ z + 1 = p /\ z # n
      BY <1>1, <2>3
    <3> QED BY <1>4, <1>5, <2>3, <3>1
  <2>4. CASE z \in p..y - 1
    <3>1. z # n /\ z # p - 1
      BY <1>1, <2>4
    <3> QED BY <1>3, <1>5, <2>1, <2>4, <3>1
  <2>5. CASE z > y
    <3>1. z # p - 1 /\ (z # n => z + 1 \in 1..n /\ z + 1 > y)
      BY <1>1, <2>5
    <3>2. f[R[z]] = next[Q[z]]
      BY <1>5, <1>6, <2>1, <2>5, <3>1
    <3> QED BY <1>2, <1>3, <3>1, <3>2
  <2> QED BY <1>1, <2>2, <2>3, <2>4, <2>5
<1>8. {R[z] : z \in 1..n} = {Q[z] : z \in 1..n}
  <2>1. \A z \in p..y : z \in 1..n
    BY <1>1
  <2>2. \A z \in 1..n : z \notin p..y => R[z] = Q[z]
    BY <1>1, <1>2
  <2>3. \A z \in 1..n : \E w \in 1..n : R[z] = Q[w]
    BY <1>2, <2>1, <2>2
  <2>4. \A w \in 1..n : \E z \in 1..n : R[z] = Q[w]
    BY <1>2, <2>1, <2>2
  <2> QED BY <2>3, <2>4
<1>9. R[1] = Q[1]
  <2>1. 1 \in 1..n /\ 1 <= p
    BY <1>1
  <2> QED BY <1>2, <2>1
<1>10. next[Q[y]] = IF y = n THEN NULL ELSE R[y + 1]
  <2>1. y \in 1..n /\ y # p - 1 /\ (y # n => y + 1 \in 1..n /\ y + 1 > y)
    BY <1>1
  <2> QED BY <1>2, <1>3, <2>1
<1> QED BY <1>5, <1>7, <1>8, <1>9, <1>10 DEF LinkedBut, PairIs

\* A state of the pass, and one round of its loop.
PassStates(D, X) ==
    [m : Memory(D, X), prevend : D \cup {NULL}, start1 : D \cup {NULL}, stop : BOOLEAN]

PassRound(head, gap, len, s) ==
    LET end1 == Advance(s.m.next, s.start1, gap - 1)
        start2 == s.m.next[end1]
        end2 == Advance(s.m.next, start2, gap - 1)
        temp == s.m.next[end2]
        merged == _hashmap_merge(s.m, s.start1, end1, start2, end2, len)
    IN  IF ~s.stop /\ s.start1 # NULL
        THEN IF start2 = NULL
             THEN [s EXCEPT !.stop = TRUE]
             ELSE [m |-> IF s.start1 = head THEN merged.m
                         ELSE [merged.m EXCEPT !.next = [@ EXCEPT ![s.prevend] = s.start1]],
                   prevend |-> merged.end2, start1 |-> temp, stop |-> FALSE]
        ELSE s

PassRounds(head, gap, len, start, fuel) ==
    CHOOSE at : at = [k \in 0..fuel |->
                         IF k = 0 THEN start ELSE PassRound(head, gap, len, at[k - 1])]

\* The end of the pass links the last merged bucket to what is left.
Closed(s) == [s.m EXCEPT !.next = [@ EXCEPT ![s.prevend] = s.start1]]

\* MergePass in terms of the rounds of its loop.
LEMMA PassIs ==
    ASSUME NEW m, NEW head, NEW gap, NEW len, NEW s,
           s = PassRounds(head, gap, len, [m |-> m, prevend |-> NULL, start1 |-> head,
                                           stop |-> FALSE], len)[len]
    PROVE  MergePass(m, head, gap, len) = Closed(s)
  BY DEF MergePass, Loop, PassRounds, PassRound, Closed

\* The list L of m, as far as place p of its rearrangement Q, has been merged.
PassAt(D, X, L, n, m, s, Q, p) ==
    /\ s \in PassStates(D, X) /\ SameData({L[z] : z \in 1..n}, m.data, s.m.data)
    /\ Q \in [1..n -> D] /\ \A j, k \in 1..n : Q[j] = Q[k] => j = k
    /\ {Q[z] : z \in 1..n} = {L[z] : z \in 1..n} /\ Q[1] = L[1]
    /\ p \in 1..n + 1 /\ LinkedBut(s.m.next, Q, n, p - 1)
    /\ s.start1 = (IF p = n + 1 THEN NULL ELSE Q[p])
    /\ s.prevend = (IF p = 1 THEN NULL ELSE Q[p - 1])

\* Walking on from place k ends at a place that is not before k.
EndsBehind(next, Q, n, k, j) == \E x \in k..n : Advance(next, Q[k], j) = Q[x]

\* Advance from place k meets only places from k on, as the links after k are whole.
LEMMA AdvanceAlong ==
    ASSUME NEW next, NEW Q, NEW n \in Nat, NEW k \in 1..n, NEW e \in Int, e < k,
           LinkedBut(next, Q, n, e), NEW j \in Nat
    PROVE  EndsBehind(next, Q, n, k, j)
<1>1. PICK S : S = {Q[z] : z \in k..n}
  OBVIOUS
<1>2. Q[k] \in S
  BY <1>1
<1>3. \A p \in S : next[p] # NULL => next[p] \in S
  <2> SUFFICES ASSUME NEW p \in S, next[p] # NULL PROVE next[p] \in S
    OBVIOUS
  <2>1. PICK z \in k..n : p = Q[z]
    BY <1>1
  <2>2. z \in 1..n /\ z # e /\ (z # n => z + 1 \in k..n)
    OBVIOUS
  <2>3. next[p] = IF z = n THEN NULL ELSE Q[z + 1]
    BY <2>1, <2>2 DEF LinkedBut
  <2> QED BY <1>1, <2>2, <2>3
<1>4. Advance(next, Q[k], j) \in S
  BY <1>2, <1>3, AdvanceIn
<1> QED BY <1>1, <1>4 DEF EndsBehind

\* A round of the pass.
LEMMA PassMoves ==
    ASSUME NEW D, NULL \notin D, NEW X, NEW L, NEW n \in Nat, NEW m, NEW s, NEW Q, NEW p,
           PassAt(D, X, L, n, m, s, Q, p), m.data \in [D -> X], L \in [1..n -> D],
           NEW gap \in Nat, 1 <= gap, NEW len \in Nat, n <= len,
           NEW r, r = PassRound(L[1], gap, len, s)
    PROVE  \E R, q : PassAt(D, X, L, n, m, r, R, q)
<1>1. /\ s \in PassStates(D, X) /\ SameData({L[z] : z \in 1..n}, m.data, s.m.data)
      /\ Q \in [1..n -> D] /\ \A j, k \in 1..n : Q[j] = Q[k] => j = k
      /\ {Q[z] : z \in 1..n} = {L[z] : z \in 1..n} /\ Q[1] = L[1]
      /\ p \in 1..n + 1 /\ LinkedBut(s.m.next, Q, n, p - 1)
      /\ s.start1 = (IF p = n + 1 THEN NULL ELSE Q[p])
      /\ s.prevend = (IF p = 1 THEN NULL ELSE Q[p - 1])
  BY DEF PassAt
<1>2. s.m \in Memory(D, X) /\ s.stop \in BOOLEAN
      /\ s = [m |-> s.m, prevend |-> s.prevend, start1 |-> s.start1, stop |-> s.stop]
      /\ s.prevend \in D \cup {NULL} /\ s.start1 \in D \cup {NULL}
  BY <1>1 DEF PassStates
<1>3. PICK end1 : end1 = Advance(s.m.next, s.start1, gap - 1)
  OBVIOUS
<1>4. PICK start2 : start2 = s.m.next[end1]
  OBVIOUS
<1>5. CASE s.stop \/ s.start1 = NULL
  <2>1. r = s
    BY <1>5 DEF PassRound
  <2> QED BY <2>1
<1>6. CASE ~s.stop /\ s.start1 # NULL /\ start2 = NULL
  <2>1. r = [s EXCEPT !.stop = TRUE]
    BY <1>3, <1>4, <1>6 DEF PassRound
  <2>2. r = [m |-> s.m, prevend |-> s.prevend, start1 |-> s.start1, stop |-> TRUE]
    BY <1>2, <2>1
  <2>3. r \in PassStates(D, X) /\ r.m = s.m /\ r.start1 = s.start1 /\ r.prevend = s.prevend
    BY <1>2, <2>2 DEF PassStates
  <2>4. PassAt(D, X, L, n, m, r, Q, p)
    BY <1>1, <2>3 DEF PassAt
  <2> QED BY <2>4
<1>7. CASE ~s.stop /\ s.start1 # NULL /\ start2 # NULL
  <2>1. p \in 1..n /\ s.start1 = Q[p] /\ gap - 1 \in Nat /\ p - 1 < p /\ p - 1 \in Int
    BY <1>1, <1>7
  <2>25. \A k \in 1..n : p <= k => \E x \in k..n : Advance(s.m.next, Q[k], gap - 1) = Q[x]
    <3> SUFFICES ASSUME NEW k \in 1..n, p <= k
                 PROVE  \E x \in k..n : Advance(s.m.next, Q[k], gap - 1) = Q[x]
      OBVIOUS
    <3>1. PICK e \in Int, j \in Nat : e = p - 1 /\ j = gap - 1
      BY <2>1
    <3>2. PICK nx : nx = s.m.next
      OBVIOUS
    <3>3. LinkedBut(nx, Q, n, e) /\ e < k
      BY <1>1, <2>1, <3>1, <3>2
    <3>4. EndsBehind(nx, Q, n, k, j)
      BY <3>1, <3>3, AdvanceAlong
    <3> QED BY <3>1, <3>2, <3>4 DEF EndsBehind
  <2>2. PICK x \in p..n : end1 = Q[x]
    <3>1. p <= p
      BY <2>1
    <3> QED BY <1>3, <2>1, <2>25, <3>1
  <2>3. x \in Nat /\ p <= x /\ x < n /\ start2 = Q[x + 1] /\ x + 1 \in 1..n
    <3>1. x \in 1..n /\ x # p - 1
      BY <2>1
    <3>2. start2 = IF x = n THEN NULL ELSE Q[x + 1]
      BY <1>1, <1>4, <2>2, <3>1 DEF LinkedBut
    <3> QED BY <1>7, <2>1, <3>1, <3>2
  <2>4. PICK end2 : end2 = Advance(s.m.next, start2, gap - 1)
    OBVIOUS
  <2>5. PICK y \in x + 1..n : end2 = Q[y]
    <3>1. p <= x + 1
      BY <2>1, <2>3
    <3> QED BY <2>3, <2>4, <2>25, <3>1
  <2>6. Parts(D, s.m.next, Q, n, p, x, y)
    <3>1. \A z \in p..n : z \in 1..n /\ z # p - 1
      BY <2>1
    <3>2. \A z \in p..n : s.m.next[Q[z]] = IF z = n THEN NULL ELSE Q[z + 1]
      BY <1>1, <3>1 DEF LinkedBut
    <3>3. s.m.next \in [D -> D \cup {NULL}]
      BY <1>2 DEF Memory
    <3> QED BY <1>1, <2>1, <3>2, <3>3 DEF Parts
  <2>7. PICK g : g = _hashmap_merge(s.m, Q[p], Q[x], Q[x + 1], Q[y], len)
    OBVIOUS
  <2>8. MergeDoes(D, X, Q, n, p, y, s.m, g)
    BY <1>2, <2>6, <2>7, MergeEffect
  <2>9. PICK R : /\ Rearranged(D, Q, R, n, p, y)
                 /\ Relinked(D, s.m.next, g.m.next, Q, R, n, p, y) /\ g.end2 = R[y]
    BY <2>8 DEF MergeDoes
  <2>10. PICK h : h = g.m
    OBVIOUS
  <2>11. h \in Memory(D, X) /\ SameData({Q[z] : z \in 1..n}, s.m.data, h.data)
         /\ Relinked(D, s.m.next, h.next, Q, R, n, p, y)
    BY <2>8, <2>9, <2>10 DEF MergeDoes
  <2>12. PICK f : LinkedBefore(h.next, Q, p, f)
    BY DEF LinkedBefore
  <2>13. /\ f \in [D -> D \cup {NULL}] /\ LinkedBut(f, R, n, y)
         /\ {R[z] : z \in 1..n} = {Q[z] : z \in 1..n} /\ R[1] = Q[1]
         /\ s.m.next[Q[y]] = IF y = n THEN NULL ELSE R[y + 1]
    <3>1. PICK nx, hx : nx = s.m.next /\ hx = h.next
      OBVIOUS
    <3>2. /\ Parts(D, nx, Q, n, p, x, y) /\ LinkedBut(nx, Q, n, p - 1)
          /\ Rearranged(D, Q, R, n, p, y) /\ Relinked(D, nx, hx, Q, R, n, p, y)
          /\ LinkedBefore(hx, Q, p, f)
      BY <1>1, <2>6, <2>9, <2>11, <2>12, <3>1
    <3>3. PairIs(D, nx, Q, n, y, R, f)
      BY <3>2, PairLinks
    <3> QED BY <3>1, <3>3 DEF PairIs
  <2>14. h = [data |-> h.data, next |-> h.next] /\ h.data \in [D -> X]
    BY <2>11 DEF Memory
  <2>15. Q[p] = L[1] <=> p = 1
    <3>1. 1 \in 1..n
      BY <2>1
    <3> QED BY <1>1, <2>1, <3>1
  <2>16. r = [m |-> [data |-> h.data, next |-> f], prevend |-> R[y],
              start1 |-> s.m.next[Q[y]], stop |-> FALSE]
    <3>1. r = [m |-> IF s.start1 = L[1] THEN g.m
                     ELSE [g.m EXCEPT !.next = [@ EXCEPT ![s.prevend] = s.start1]],
               prevend |-> g.end2, start1 |-> s.m.next[end2], stop |-> FALSE]
      BY <1>3, <1>4, <1>7, <2>1, <2>2, <2>3, <2>4, <2>5, <2>7 DEF PassRound
    <3>2. PICK u : u = IF s.start1 = L[1] THEN h
                       ELSE [h EXCEPT !.next = [@ EXCEPT ![s.prevend] = s.start1]]
      OBVIOUS
    <3>3. u = [data |-> h.data, next |-> f]
      <4>1. CASE p = 1
        BY <2>1, <2>12, <2>14, <2>15, <3>2, <4>1 DEF LinkedBefore
      <4>2. CASE p # 1
        <5>1. s.start1 = Q[p] /\ s.prevend = Q[p - 1] /\ s.start1 # L[1]
          BY <1>1, <2>1, <2>15, <4>2
        <5>2. u = [h EXCEPT !.next = [@ EXCEPT ![Q[p - 1]] = Q[p]]]
          BY <3>2, <5>1
        <5>3. u = [data |-> h.data, next |-> [h.next EXCEPT ![Q[p - 1]] = Q[p]]]
          BY <2>14, <5>2
        <5> QED BY <2>12, <4>2, <5>3 DEF LinkedBefore
      <4> QED BY <4>1, <4>2
    <3>4. r = [m |-> u, prevend |-> g.end2, start1 |-> s.m.next[end2], stop |-> FALSE]
      BY <2>10, <3>1, <3>2
    <3> QED BY <2>5, <2>9, <3>3, <3>4
  <2>17. y \in 1..n /\ y + 1 \in 1..n + 1 /\ (y + 1) - 1 = y /\ y + 1 # 1
         /\ (y + 1 = n + 1 <=> y = n)
    BY <2>1, <2>3
  <2>18. R \in [1..n -> D] /\ \A j, k \in 1..n : R[j] = R[k] => j = k
    BY <2>9 DEF Rearranged
  <2>19. SameData({L[z] : z \in 1..n}, m.data, h.data)
    <3>1. PICK P : P = {L[z] : z \in 1..n}
      OBVIOUS
    <3>2. SameData(P, m.data, s.m.data) /\ SameData(P, s.m.data, h.data)
      BY <1>1, <2>11, <3>1
    <3>3. s.m.data \in [D -> X]
      BY <1>2 DEF Memory
    <3>4. SameData(P, m.data, h.data)
      BY <2>14, <3>2, <3>3, SameTwice
    <3> QED BY <3>1, <3>4
  <2>20. PICK v \in D \cup {NULL} : v = s.m.next[Q[y]] /\ v = IF y = n THEN NULL ELSE R[y + 1]
    <3>1. y # n => y + 1 \in 1..n
      BY <2>17
    <3> QED BY <2>13, <2>18, <3>1
  <2>21. r = [m |-> [data |-> h.data, next |-> f], prevend |-> R[y], start1 |-> v, stop |-> FALSE]
    BY <2>16, <2>20
  <2>22. R[y] \in D
    BY <2>17, <2>18
  <2>23. r \in PassStates(D, X) /\ r.m.data = h.data /\ r.m.next = f
         /\ r.prevend = R[y] /\ r.start1 = v
    BY <2>13, <2>14, <2>20, <2>21, <2>22 DEF PassStates, Memory
  <2>24. PassAt(D, X, L, n, m, r, R, y + 1)
    <3>1. SameData({L[z] : z \in 1..n}, m.data, r.m.data) /\ LinkedBut(r.m.next, R, n, (y + 1) - 1)
      BY <2>13, <2>17, <2>19, <2>23
    <3>2. r.start1 = (IF y + 1 = n + 1 THEN NULL ELSE R[y + 1])
          /\ r.prevend = (IF y + 1 = 1 THEN NULL ELSE R[(y + 1) - 1])
      BY <2>17, <2>20, <2>23
    <3>3. {R[z] : z \in 1..n} = {L[z] : z \in 1..n} /\ R[1] = L[1]
      BY <1>1, <2>13
    <3> QED BY <2>17, <2>18, <2>23, <3>1, <3>2, <3>3 DEF PassAt
  <2> QED BY <2>24
<1> QED BY <1>2, <1>5, <1>6, <1>7

\* r is m with the places of the list L in another order, the first one still the
\* first, and with their contents exchanged.
Resorted(D, X, L, n, m, r) ==
    /\ r \in Memory(D, X) /\ SameData({L[z] : z \in 1..n}, m.data, r.data)
    /\ \E R : /\ Chain(r.next, R, n) /\ R[1] = L[1]
              /\ {R[z] : z \in 1..n} = {L[z] : z \in 1..n}

\* The end of a pass closes the list.
LEMMA PassCloses ==
    ASSUME NEW D, NULL \notin D, NEW X, NEW L, NEW n \in Nat, NEW m, NEW s, NEW Q, NEW p,
           PassAt(D, X, L, n, m, s, Q, p),
           NEW r, r = Closed(s)
    PROVE  Resorted(D, X, L, n, m, r)
<1>1. /\ s \in PassStates(D, X) /\ SameData({L[z] : z \in 1..n}, m.data, s.m.data)
      /\ Q \in [1..n -> D] /\ \A j, k \in 1..n : Q[j] = Q[k] => j = k
      /\ {Q[z] : z \in 1..n} = {L[z] : z \in 1..n} /\ Q[1] = L[1]
      /\ p \in 1..n + 1 /\ LinkedBut(s.m.next, Q, n, p - 1)
      /\ s.start1 = (IF p = n + 1 THEN NULL ELSE Q[p])
      /\ s.prevend = (IF p = 1 THEN NULL ELSE Q[p - 1])
  BY DEF PassAt
<1>2. s.m \in Memory(D, X) /\ s.start1 \in D \cup {NULL} /\ s.prevend \in D \cup {NULL}
  BY <1>1 DEF PassStates
<1>3. s.m.data \in [D -> X] /\ s.m.next \in [D -> D \cup {NULL}]
      /\ s.m = [data |-> s.m.data, next |-> s.m.next]
  BY <1>2 DEF Memory
<1>4. PICK g \in [D -> D \cup {NULL}] : g = s.m.next
  BY <1>3
<1>5. PICK u, v \in D \cup {NULL} : u = s.prevend /\ v = s.start1
  BY <1>2
<1>6. PICK f : f = [g EXCEPT ![u] = v]
  OBVIOUS
<1>7. r = [data |-> s.m.data, next |-> f]
  <2>1. PICK a, b : a = s.m /\ b = s.m.data
    OBVIOUS
  <2>2. a = [data |-> b, next |-> g] /\ r = [a EXCEPT !.next = [@ EXCEPT ![u] = v]]
    BY <1>3, <1>4, <1>5, <2>1 DEF Closed
  <2>3. r = [data |-> b, next |-> [g EXCEPT ![u] = v]]
    BY <2>2
  <2> QED BY <1>6, <2>1, <2>3
<1>8. f \in [D -> D \cup {NULL}] /\ \A c \in D : f[c] = IF c = u THEN v ELSE g[c]
  BY <1>5, <1>6
<1>9. r \in Memory(D, X) /\ r.data = s.m.data /\ r.next = f
  BY <1>3, <1>7, <1>8 DEF Memory
<1>10. \A z \in 1..n : f[Q[z]] = IF z = n THEN NULL ELSE Q[z + 1]
  <2> SUFFICES ASSUME NEW z \in 1..n PROVE f[Q[z]] = IF z = n THEN NULL ELSE Q[z + 1]
    OBVIOUS
  <2>1. CASE z = p - 1
    <3>1. p # 1 /\ (p = n + 1 <=> z = n) /\ z + 1 = p
      BY <1>1, <2>1
    <3> QED BY <1>1, <1>5, <1>8, <2>1, <3>1
  <2>2. CASE z # p - 1
    <3>1. Q[z] \in D /\ Q[z] # u
      <4>1. CASE p = 1
        BY <1>1, <1>5, <4>1
      <4>2. CASE p # 1
        <5>1. p - 1 \in 1..n
          BY <1>1, <4>2
        <5> QED BY <1>1, <1>5, <2>2, <4>2, <5>1
      <4> QED BY <4>1, <4>2
    <3> QED BY <1>1, <1>4, <1>8, <2>2, <3>1 DEF LinkedBut
  <2> QED BY <2>1, <2>2
<1>11. DOMAIN f = D
  BY <1>8
<1>12. Chain(f, Q, n)
  BY <1>1, <1>10, <1>11 DEF Chain
<1>13. SameData({L[z] : z \in 1..n}, m.data, r.data)
  BY <1>1, <1>9
<1>14. \E R : /\ Chain(r.next, R, n) /\ R[1] = L[1]
              /\ {R[z] : z \in 1..n} = {L[z] : z \in 1..n}
  <2>1. Chain(r.next, Q, n)
    BY <1>9, <1>12
  <2>2. Q[1] = L[1] /\ {Q[z] : z \in 1..n} = {L[z] : z \in 1..n}
    BY <1>1
  <2> QED BY <2>1, <2>2, ZenonT(30)
<1> QED BY <1>9, <1>13, <1>14 DEF Resorted

\* What a pass does.
LEMMA PassEffect ==
    ASSUME NEW D, NULL \notin D, NEW X, NEW L, NEW n \in Nat, 1 <= n, NEW m, NEW u,
           Resorted(D, X, L, n, m, u), m.data \in [D -> X], L \in [1..n -> D],
           NEW gap \in Nat, 1 <= gap, NEW len \in Nat, n <= len
    PROVE  Resorted(D, X, L, n, m, MergePass(u, L[1], gap, len))
<1> DEFINE S == {s \in PassStates(D, X) : \E Q, p : PassAt(D, X, L, n, m, s, Q, p)}
           step == [s \in S |-> PassRound(L[1], gap, len, s)]
           Good(at, start) == at = [k \in 0..len |->
                                       IF k = 0 THEN start
                                       ELSE PassRound(L[1], gap, len, at[k - 1])]
<1>1. \A s, Q, p : PassAt(D, X, L, n, m, s, Q, p) => s \in S
  BY DEF PassAt
<1>2. PICK start : start = [m |-> u, prevend |-> NULL, start1 |-> L[1], stop |-> FALSE]
  OBVIOUS
<1>3. start \in S
  <2>1. PICK R : /\ Chain(u.next, R, n) /\ R[1] = L[1]
                 /\ {R[z] : z \in 1..n} = {L[z] : z \in 1..n}
    BY DEF Resorted
  <2>2. u \in Memory(D, X) /\ SameData({L[z] : z \in 1..n}, m.data, u.data) /\ L[1] \in D
    BY DEF Resorted
  <2>3. start \in PassStates(D, X) /\ start.m = u /\ start.start1 = L[1] /\ start.prevend = NULL
    BY <1>2, <2>2 DEF PassStates
  <2>4. DOMAIN u.next = D
    BY <2>2 DEF Memory
  <2>5. /\ R \in [1..n -> D] /\ \A j, k \in 1..n : R[j] = R[k] => j = k
        /\ LinkedBut(u.next, R, n, 1 - 1)
    BY <2>1, <2>4 DEF Chain, LinkedBut
  <2>6. 1 \in 1..n + 1 /\ 1 # n + 1
    OBVIOUS
  <2>7. PassAt(D, X, L, n, m, start, R, 1)
    BY <2>1, <2>2, <2>3, <2>5, <2>6 DEF PassAt
  <2> QED BY <1>1, <2>7
<1>4. step \in [S -> S]
  <2> SUFFICES ASSUME NEW s \in S PROVE PassRound(L[1], gap, len, s) \in S
    OBVIOUS
  <2>1. PICK Q, p : PassAt(D, X, L, n, m, s, Q, p)
    OBVIOUS
  <2>2. PICK r : r = PassRound(L[1], gap, len, s)
    OBVIOUS
  <2>3. \E R, q : PassAt(D, X, L, n, m, r, R, q)
    <3> HIDE DEF S, step, Good
    <3> QED BY <2>1, <2>2, PassMoves
  <2> QED BY <1>1, <2>2, <2>3
<1>5. PICK at \in [0..len -> S] : Good(at, start)
  <2>1. PICK f \in [0..len -> S] : Steps(step, start, len, f)
    <3> HIDE DEF S, step
    <3> QED BY <1>3, <1>4, Iterates
  <2>2. \A k \in 0..len : k # 0 => k - 1 \in 0..len
    OBVIOUS
  <2>3. \A k \in 0..len : k # 0 => f[k - 1] \in S
    BY <2>2
  <2>4. \A k \in 0..len :
           (IF k = 0 THEN start ELSE step[f[k - 1]]) =
              IF k = 0 THEN start ELSE PassRound(L[1], gap, len, f[k - 1])
    BY <2>3
  <2>5. f = [k \in 0..len |-> IF k = 0 THEN start ELSE step[f[k - 1]]]
    BY <2>1 DEF Steps
  <2>6. Good(f, start)
    <3> HIDE DEF step
    <3> QED BY <2>4, <2>5
  <2> QED BY <2>6
<1>6. PICK rounds : rounds = PassRounds(L[1], gap, len, start, len)
  OBVIOUS
<1>7. Good(rounds, start)
  <2>1. rounds = CHOOSE f : Good(f, start)
    BY <1>6 DEF PassRounds
  <2> HIDE DEF Good
  <2> QED BY <1>5, <2>1
<1>8. rounds[len] \in S
  <2>1. rounds[0] = start
    BY <1>7
  <2>2. \A k \in 1..len : rounds[k] = PassRound(L[1], gap, len, rounds[k - 1])
    BY <1>7
  <2>3. \A k \in 1..len : rounds[k - 1] \in S => rounds[k] \in S
    <3> SUFFICES ASSUME NEW k \in 1..len, rounds[k - 1] \in S PROVE rounds[k] \in S
      OBVIOUS
    <3>1. step[rounds[k - 1]] = PassRound(L[1], gap, len, rounds[k - 1])
      OBVIOUS
    <3> HIDE DEF S, step
    <3> QED BY <1>4, <2>2, <3>1
  <2>4. \A k \in 0..len : rounds[k] \in S
    <3> HIDE DEF S
    <3> QED BY <1>3, <2>1, <2>3, Kept
  <2>5. len \in 0..len
    OBVIOUS
  <2> HIDE DEF S
  <2> QED BY <2>4, <2>5
<1>9. PICK s, Q, p : s = rounds[len] /\ PassAt(D, X, L, n, m, s, Q, p)
  BY <1>8
<1>10. PICK r : r = Closed(s)
  OBVIOUS
<1>11. Resorted(D, X, L, n, m, r)
  <2> HIDE DEF S, step, Good
  <2> QED BY <1>9, <1>10, PassCloses
<1>12. s = PassRounds(L[1], gap, len, [m |-> u, prevend |-> NULL, start1 |-> L[1],
                                       stop |-> FALSE], len)[len]
  BY <1>2, <1>6, <1>9
<1>13. MergePass(u, L[1], gap, len) = r
  BY <1>10, <1>12, PassIs
<1> QED BY <1>11, <1>13

-----------------------------------------------------------------------------
(* The sort *)

\* One pass with the gap doubled after it, and the states after 0..fuel passes.
SortRound(head, len, s) ==
    IF s.gap < len
    THEN [m |-> MergePass(s.m, head, s.gap, len), gap |-> s.gap * 2]
    ELSE s

SortRounds(head, len, start, fuel) ==
    CHOOSE at : at = [k \in 0..fuel |->
                         IF k = 0 THEN start ELSE SortRound(head, len, at[k - 1])]

\* _hashmap_msort in terms of its passes.
LEMMA SortIs ==
    ASSUME NEW m, NEW head, NEW len, head # NULL
    PROVE  _hashmap_msort(m, head, len) =
              SortRounds(head, len, [m |-> m, gap |-> 1], len)[len].m
  BY DEF _hashmap_msort, Loop, SortRounds, SortRound

\* What the sort does.
LEMMA SortEffect ==
    ASSUME NEW D, NULL \notin D, NEW X, NEW L, NEW n \in Nat, NEW m \in Memory(D, X),
           Chain(m.next, L, n)
    PROVE  Resorted(D, X, L, n, m, _hashmap_msort(m, FirstOf(L, n), n))
<1>1. /\ m.data \in [D -> X] /\ m.next \in [D -> D \cup {NULL}] /\ DOMAIN m.next = D
      /\ L \in [1..n -> D]
  BY DEF Memory, Chain
<1>2. Resorted(D, X, L, n, m, m)
  <2>1. SameData({L[z] : z \in 1..n}, m.data, m.data)
    BY DEF SameData
  <2>2. \E R : /\ Chain(m.next, R, n) /\ R[1] = L[1]
               /\ {R[z] : z \in 1..n} = {L[z] : z \in 1..n}
    OBVIOUS
  <2> QED BY <2>1, <2>2 DEF Resorted
<1>3. CASE n = 0
  <2>1. _hashmap_msort(m, FirstOf(L, n), n) = m
    BY <1>3 DEF _hashmap_msort, FirstOf
  <2> QED BY <1>2, <2>1
<1>4. CASE n # 0
  <2> DEFINE S == {s \in [m : Memory(D, X), gap : Nat] :
                      1 <= s.gap /\ Resorted(D, X, L, n, m, s.m)}
             step == [s \in S |-> SortRound(L[1], n, s)]
             Good(at, start) == at = [k \in 0..n |->
                                         IF k = 0 THEN start ELSE SortRound(L[1], n, at[k - 1])]
  <2>1. 1 <= n /\ 1 \in 1..n /\ L[1] \in D /\ L[1] # NULL /\ FirstOf(L, n) = L[1]
    BY <1>1, <1>4 DEF FirstOf
  <2>2. PICK start : start = [m |-> m, gap |-> 1]
    OBVIOUS
  <2>3. start \in S
    BY <1>2, <2>2
  <2>4. step \in [S -> S]
    <3> SUFFICES ASSUME NEW s \in S PROVE SortRound(L[1], n, s) \in S
      OBVIOUS
    <3>1. CASE s.gap < n
      <4>1. PICK u \in Memory(D, X), gap \in Nat : u = s.m /\ gap = s.gap
        OBVIOUS
      <4>2. Resorted(D, X, L, n, m, u) /\ 1 <= gap
        BY <4>1
      <4>3. PICK v : v = MergePass(u, L[1], gap, n)
        OBVIOUS
      <4>4. Resorted(D, X, L, n, m, v)
        <5>1. n <= n
          OBVIOUS
        <5> HIDE DEF S, step, Good
        <5> QED BY <1>1, <2>1, <4>1, <4>2, <4>3, <5>1, PassEffect
      <4>5. v \in Memory(D, X)
        BY <4>4 DEF Resorted
      <4>6. SortRound(L[1], n, s) = [m |-> v, gap |-> gap * 2]
        BY <3>1, <4>1, <4>3 DEF SortRound
      <4>7. gap * 2 \in Nat /\ 1 <= gap * 2
        BY <4>1, <4>2
      <4> QED BY <4>4, <4>5, <4>6, <4>7
    <3>2. CASE ~(s.gap < n)
      BY <3>2 DEF SortRound
    <3> QED BY <3>1, <3>2
  <2>5. PICK at \in [0..n -> S] : Good(at, start)
    <3>1. PICK f \in [0..n -> S] : Steps(step, start, n, f)
      <4> HIDE DEF S, step
      <4> QED BY <2>3, <2>4, Iterates
    <3>2. \A k \in 0..n : k # 0 => k - 1 \in 0..n
      OBVIOUS
    <3>3. \A k \in 0..n : k # 0 => f[k - 1] \in S
      BY <3>2
    <3>4. \A k \in 0..n : (IF k = 0 THEN start ELSE step[f[k - 1]]) =
                             IF k = 0 THEN start ELSE SortRound(L[1], n, f[k - 1])
      BY <3>3
    <3>5. f = [k \in 0..n |-> IF k = 0 THEN start ELSE step[f[k - 1]]]
      BY <3>1 DEF Steps
    <3>6. Good(f, start)
      <4> HIDE DEF step
      <4> QED BY <3>4, <3>5
    <3> QED BY <3>6
  <2>6. PICK rounds : rounds = SortRounds(L[1], n, start, n)
    OBVIOUS
  <2>7. Good(rounds, start)
    <3>1. rounds = CHOOSE f : Good(f, start)
      BY <2>6 DEF SortRounds
    <3> HIDE DEF Good
    <3> QED BY <2>5, <3>1
  <2>8. rounds[n] \in S
    <3>1. rounds[0] = start
      BY <2>7
    <3>2. \A k \in 1..n : rounds[k] = SortRound(L[1], n, rounds[k - 1])
      BY <2>7
    <3>3. \A k \in 1..n : rounds[k - 1] \in S => rounds[k] \in S
      <4> SUFFICES ASSUME NEW k \in 1..n, rounds[k - 1] \in S PROVE rounds[k] \in S
        OBVIOUS
      <4>1. step[rounds[k - 1]] = SortRound(L[1], n, rounds[k - 1])
        OBVIOUS
      <4> HIDE DEF S, step
      <4> QED BY <2>4, <3>2, <4>1
    <3>4. \A k \in 0..n : rounds[k] \in S
      <4> HIDE DEF S
      <4> QED BY <2>3, <3>1, <3>3, Kept
    <3>5. n \in 0..n
      OBVIOUS
    <3> HIDE DEF S
    <3> QED BY <3>4, <3>5
  <2>9. _hashmap_msort(m, L[1], n) = rounds[n].m
    BY <2>1, <2>2, <2>6, SortIs
  <2>10. Resorted(D, X, L, n, m, rounds[n].m)
    BY <2>8
  <2> QED BY <2>1, <2>9, <2>10
<1> QED BY <1>3, <1>4

-----------------------------------------------------------------------------
(* hashmap_sort *)

\* A list that fills less than the table leaves a bucket free.
LEMMA FreeBucket ==
    ASSUME TypeInv, SizeInv, NEW L, NEW j, Linked(L, j)
    PROVE  \E a \in Table(capacity) : heap[a].key = NoKey
<1> SUFFICES ASSUME \A a \in Table(capacity) : heap[a].key # NoKey PROVE FALSE
  OBVIOUS
<1>1. capacity \in Nat \ {0, 1} /\ count \in Nat /\ 4 * count <= 3 * capacity
  BY DEF TypeInv, SizeInv
<1>2. j \in 0..count
  BY DEF Linked
<1>3. \A a \in Table(capacity) : \E n \in 1..count : a = L[n]
  <2>1. \A a \in Table(capacity) : \E n \in 1..j : a = L[n]
    BY DEF Linked
  <2>2. \A n \in 1..j : n \in 1..count
    BY <1>1, <1>2
  <2> QED BY <2>1, <2>2
<1>4. PICK f : f = [a \in Table(capacity) |-> CHOOSE n \in 1..count : a = L[n]]
  OBVIOUS
<1>5. f \in [Table(capacity) -> 1..count] /\ \A a \in Table(capacity) : a = L[f[a]]
  <2>1. \A a \in Table(capacity) : (CHOOSE n \in 1..count : a = L[n]) \in 1..count
                                   /\ a = L[CHOOSE n \in 1..count : a = L[n]]
    BY <1>3
  <2> QED BY <1>4, <2>1
<1>6. IsFiniteSet(Table(capacity)) /\ Cardinality(Table(capacity)) = capacity
  <2>1. PICK u \in Int, v \in Int : u = capacity /\ v = 2 * capacity - 1
    BY <1>1
  <2>2. IsFiniteSet(u..v) /\ Cardinality(u..v) = IF u > v THEN 0 ELSE v - u + 1
    BY FS_Interval
  <2>3. Table(capacity) = u..v
    BY <2>1 DEF Table
  <2> QED BY <1>1, <2>1, <2>2, <2>3
<1>7. IsFiniteSet(1..count) /\ Cardinality(1..count) = count
  <2>1. IsFiniteSet(1..count) /\ Cardinality(1..count) = IF 1 > count THEN 0 ELSE count - 1 + 1
    BY <1>1, FS_Interval
  <2> QED BY <1>1, <2>1
<1>8. Cardinality(1..count) < Cardinality(Table(capacity))
  BY <1>1, <1>6, <1>7
<1>9. \E x, y \in Table(capacity) : x # y /\ f[x] = f[y]
  BY <1>5, <1>6, <1>7, <1>8, FS_PigeonHole
<1> QED BY <1>5, <1>9

\* The next pointers of the buckets.
NextPointers == [a \in DOMAIN heap |-> heap[a].next]

\* The list of a map between two calls.
LEMMA ChainOf ==
    ASSUME TypeInv, NEW L, NEW j, Linked(L, j)
    PROVE  /\ Chain(NextPointers, L, count) /\ first = FirstOf(L, count)
           /\ \A n \in 1..count : heap[L[n]].key \in Keys
<1>1. /\ L \in [1..count -> DOMAIN heap] /\ first = FirstOf(L, count)
      /\ \A n \in 1..count : heap[L[n]].next = (IF n = count THEN NULL ELSE L[n + 1])
                             /\ heap[L[n]].key \in Keys
      /\ \A k, n \in 1..count : heap[L[k]].key = heap[L[n]].key => k = n
  BY DEF Linked
<1>2. PICK g : g = NextPointers
  OBVIOUS
<1>3. DOMAIN g = DOMAIN heap /\ \A a \in DOMAIN heap : g[a] = heap[a].next
  BY <1>2 DEF NextPointers
<1>4. \A k, n \in 1..count : L[k] = L[n] => k = n
  BY <1>1
<1>5. \A n \in 1..count : g[L[n]] = IF n = count THEN NULL ELSE L[n + 1]
  BY <1>1, <1>3
<1>6. Chain(g, L, count)
  BY <1>1, <1>3, <1>4, <1>5 DEF Chain
<1> QED BY <1>1, <1>2, <1>6

\* The entry that bucket a holds.
EntryAt(a) == <<heap[a].key, heap[a].val>>

\* Only the places of the list have been rearranged and their entries exchanged.
SortDone(L, R) ==
    /\ Chain(NextPointers, L, count) /\ first = FirstOf(L, count)
    /\ Chain(NextPointers', R, count) /\ first = FirstOf(R, count)
    /\ {R[z] : z \in 1..count} = {L[z] : z \in 1..count}
    /\ {EntryAt(a)' : a \in {L[z] : z \in 1..count}} =
       {EntryAt(a) : a \in {L[z] : z \in 1..count}}
    /\ heap' \in [DOMAIN heap -> Bucket(DOMAIN heap)]
    /\ \A a \in DOMAIN heap \ {L[z] : z \in 1..count} : heap'[a].key = heap[a].key

\* hashmap_sort only rearranges the list and exchanges the entries of its buckets.
LEMMA SortDoes ==
    ASSUME MapInv, hashmap_sort
    PROVE  \E L, R : SortDone(L, R)
<1>1. /\ call.op = "none" /\ ~sorted
      /\ UNCHANGED <<hash, capacity, first, last, count, call, out>>
  BY DEF hashmap_sort
<1>2. PICK L, j : Linked(L, j)
  BY <1>1 DEF MapInv
<1>3. PICK D : D = DOMAIN heap
  OBVIOUS
<1>4. /\ D \subseteq Nat \ {0} /\ heap \in [D -> Bucket(D)] /\ count \in Nat
      /\ NULL \notin D
  <2>1. D \subseteq Nat \ {0} /\ heap \in [D -> Bucket(D)] /\ count \in Nat
    BY <1>3 DEF MapInv, TypeInv
  <2> QED BY <2>1 DEF NULL
<1>5. PICK X : X = [key : Keys \cup {NoKey}, val : Values \cup {0}]
  OBVIOUS
<1>6. PICK d : d = [a \in D |-> [key |-> heap[a].key, val |-> heap[a].val]]
  OBVIOUS
<1>7. PICK g : g = NextPointers
  OBVIOUS
<1>8. PICK m : m = [data |-> d, next |-> g]
  OBVIOUS
<1>9. \A a \in D : /\ heap[a] \in Bucket(D) /\ heap[a].next \in D \cup {NULL}
                   /\ [key |-> heap[a].key, val |-> heap[a].val] \in X
  <2> SUFFICES ASSUME NEW a \in D
               PROVE  /\ heap[a] \in Bucket(D) /\ heap[a].next \in D \cup {NULL}
                      /\ [key |-> heap[a].key, val |-> heap[a].val] \in X
    OBVIOUS
  <2>1. heap[a] \in Bucket(D)
    BY <1>4
  <2> QED BY <1>5, <2>1 DEF Bucket
<1>10. d \in [D -> X] /\ g \in [D -> D \cup {NULL}]
  <2>1. d \in [D -> X]
    BY <1>6, <1>9
  <2>2. g = [a \in D |-> heap[a].next]
    BY <1>3, <1>7 DEF NextPointers
  <2> QED BY <1>9, <2>1, <2>2
<1>11. m \in Memory(D, X) /\ m.data = d /\ m.next = g
  BY <1>8, <1>10 DEF Memory
<1>12. /\ Chain(g, L, count) /\ first = FirstOf(L, count)
       /\ \A n \in 1..count : heap[L[n]].key \in Keys
  BY <1>2, <1>7, ChainOf DEF MapInv
<1>13. PICK r : r = _hashmap_msort(m, first, count)
  OBVIOUS
<1>14. Resorted(D, X, L, count, m, r)
  <2>1. PICK n, f : n \in Nat /\ n = count /\ f = first
    BY <1>4
  <2>2. Chain(m.next, L, n) /\ f = FirstOf(L, n)
    BY <1>11, <1>12, <2>1
  <2>3. Resorted(D, X, L, n, m, _hashmap_msort(m, FirstOf(L, n), n))
    <3>1. n \in Nat /\ NULL \notin D /\ m \in Memory(D, X) /\ Chain(m.next, L, n)
      BY <1>4, <1>11, <2>1, <2>2
    <3> QED BY <3>1, SortEffect
  <2> QED BY <1>13, <2>1, <2>2, <2>3
<1>15. heap' = [a \in D |-> [key |-> r.data[a].key, val |-> r.data[a].val, next |-> r.next[a]]]
  <2>1. heap' = LET u == [data |-> [a \in DOMAIN heap |->
                                      [key |-> heap[a].key, val |-> heap[a].val]],
                          next |-> [a \in DOMAIN heap |-> heap[a].next]]
                    v == _hashmap_msort(u, first, count)
                IN  [a \in DOMAIN heap |-> [key |-> v.data[a].key,
                                            val |-> v.data[a].val, next |-> v.next[a]]]
    BY DEF hashmap_sort
  <2>2. m = [data |-> [a \in DOMAIN heap |-> [key |-> heap[a].key, val |-> heap[a].val]],
             next |-> [a \in DOMAIN heap |-> heap[a].next]]
    BY <1>3, <1>6, <1>7, <1>8 DEF NextPointers
  <2> QED BY <1>3, <1>13, <2>1, <2>2
<1>16. PICK e, h : e = r.data /\ h = r.next
  OBVIOUS
<1>17. e \in [D -> X] /\ h \in [D -> D \cup {NULL}]
  BY <1>14, <1>16 DEF Resorted, Memory
<1>18. PICK P : P = {L[z] : z \in 1..count}
  OBVIOUS
<1>19. SameData(P, d, e)
  BY <1>11, <1>14, <1>16, <1>18 DEF Resorted
<1>20. PICK R : Chain(h, R, count) /\ R[1] = L[1] /\ {R[z] : z \in 1..count} = P
  BY <1>14, <1>16, <1>18 DEF Resorted
<1>21. heap' = [a \in D |-> [key |-> e[a].key, val |-> e[a].val, next |-> h[a]]]
  BY <1>15, <1>16
<1>22. \A a \in D : /\ heap'[a].key = e[a].key /\ heap'[a].val = e[a].val
                    /\ heap'[a].next = h[a] /\ heap'[a] \in Bucket(D)
  <2> SUFFICES ASSUME NEW a \in D
               PROVE  /\ heap'[a].key = e[a].key /\ heap'[a].val = e[a].val
                      /\ heap'[a].next = h[a] /\ heap'[a] \in Bucket(D)
    OBVIOUS
  <2>1. e[a] \in X /\ h[a] \in D \cup {NULL}
    BY <1>17
  <2>2. e[a].key \in Keys \cup {NoKey} /\ e[a].val \in Values \cup {0}
    BY <1>5, <2>1
  <2>3. heap'[a] = [key |-> e[a].key, val |-> e[a].val, next |-> h[a]]
    BY <1>21
  <2> QED BY <2>1, <2>2, <2>3 DEF Bucket
<1>23. heap' \in [D -> Bucket(D)] /\ DOMAIN heap' = D
  BY <1>21, <1>22
<1>24. NextPointers' = h
  <2>1. NextPointers' = [a \in DOMAIN heap' |-> heap'[a].next]
    BY DEF NextPointers
  <2>2. h = [a \in D |-> h[a]]
    BY <1>17
  <2> QED BY <1>22, <1>23, <2>1, <2>2
<1>25. Chain(NextPointers', R, count) /\ first = FirstOf(R, count)
  BY <1>12, <1>20, <1>24 DEF FirstOf
<1>26. P \subseteq D
  <2>1. DOMAIN g = D
    BY <1>10
  <2> QED BY <1>12, <1>18, <2>1 DEF Chain
<1>27. \A a \in D : EntryAt(a)' = <<e[a].key, e[a].val>> /\ EntryAt(a) = <<d[a].key, d[a].val>>
  BY <1>6, <1>22 DEF EntryAt
<1>28. {EntryAt(a)' : a \in P} = {EntryAt(a) : a \in P}
  <2>1. {e[a] : a \in P} = {d[a] : a \in P}
    BY <1>19 DEF SameData
  <2>2. ASSUME NEW a \in P PROVE \E b \in P : EntryAt(a)' = EntryAt(b)
    <3>1. PICK b \in P : e[a] = d[b]
      BY <2>1, <2>2
    <3> QED BY <1>26, <1>27, <2>2, <3>1
  <2>3. ASSUME NEW a \in P PROVE \E b \in P : EntryAt(b)' = EntryAt(a)
    <3>1. PICK b \in P : d[a] = e[b]
      BY <2>1, <2>3
    <3> QED BY <1>26, <1>27, <2>3, <3>1
  <2> QED BY <2>2, <2>3
<1>29. \A a \in D \ P : heap'[a].key = heap[a].key
  <2>1. DOMAIN d = D
    BY <1>10
  <2>2. \A a \in D \ P : e[a] = d[a]
    BY <1>19, <2>1 DEF SameData
  <2> QED BY <1>6, <1>22, <2>2
<1>30. SortDone(L, R)
  <2>1. Chain(NextPointers, L, count)
    BY <1>7, <1>12
  <2>2. heap' \in [DOMAIN heap -> Bucket(DOMAIN heap)]
    BY <1>3, <1>23
  <2>3. {R[z] : z \in 1..count} = {L[z] : z \in 1..count}
    BY <1>18, <1>20
  <2>4. {EntryAt(a)' : a \in {L[z] : z \in 1..count}} =
        {EntryAt(a) : a \in {L[z] : z \in 1..count}}
    BY <1>18, <1>28
  <2>5. \A a \in DOMAIN heap \ {L[z] : z \in 1..count} : heap'[a].key = heap[a].key
    BY <1>3, <1>18, <1>29
  <2> QED BY <1>12, <1>25, <2>1, <2>2, <2>3, <2>4, <2>5 DEF SortDone
<1> QED BY <1>30

\* hashmap_sort leaves a table of which a free bucket is known.
LEMMA SortStep ==
    ASSUME MapInv, hashmap_sort PROVE MapInv'
<1>1. /\ call.op = "none" /\ ~sorted /\ sorted' = TRUE
      /\ UNCHANGED <<hash, capacity, first, last, count, call, out>>
  BY DEF hashmap_sort
<1>2. PICK L, j : Linked(L, j)
  BY <1>1 DEF MapInv
<1>3. PICK S, R : SortDone(S, R)
  BY SortDoes
<1>4. TypeInv /\ SizeInv
  BY DEF MapInv
<1>5. heap' \in [DOMAIN heap -> Bucket(DOMAIN heap)]
      /\ \A a \in DOMAIN heap \ {S[z] : z \in 1..count} : heap'[a].key = heap[a].key
  BY <1>3 DEF SortDone
<1>6. DOMAIN heap' = DOMAIN heap
  BY <1>5
<1>7. TypeInv'
  <2>1. /\ hash \in HashFunctions
        /\ capacity \in Nat \ {0, 1} /\ count \in Nat
        /\ DOMAIN heap \subseteq Nat \ {0} /\ Table(capacity) \subseteq DOMAIN heap
        /\ call.at # "resize" => DOMAIN heap = Table(capacity)
        /\ call \in [op : Ops \cup {"none"}, key : Keys \cup {NoKey},
                     val : Values \cup {0}, at : {"resize", "find", "done"}]
        /\ call.op = "none" <=> call.at = "done"
    BY <1>4 DEF TypeInv
  <2>2. /\ hash' \in HashFunctions /\ sorted' \in BOOLEAN
        /\ capacity' \in Nat \ {0, 1} /\ count' \in Nat
    BY <1>1, <2>1
  <2>3. Table(capacity)' = Table(capacity)
    BY <1>1 DEF Table
  <2>4. DOMAIN heap' \subseteq Nat \ {0} /\ Table(capacity)' \subseteq DOMAIN heap'
        /\ heap' \in [DOMAIN heap' -> Bucket(DOMAIN heap')]
        /\ (call'.at # "resize" => DOMAIN heap' = Table(capacity)')
    BY <1>1, <1>5, <1>6, <2>1, <2>3
  <2>5. /\ call' \in [op : Ops \cup {"none"}, key : Keys \cup {NoKey},
                      val : Values \cup {0}, at : {"resize", "find", "done"}]
        /\ call'.op = "none" <=> call'.at = "done"
        /\ call'.op # "none" => call'.key \in Keys /\ ~sorted'
    BY <1>1, <2>1
  <2>6. Bucket(DOMAIN heap)' = Bucket(DOMAIN heap')
    BY DEF Bucket
  <2> QED BY <2>2, <2>4, <2>5, <2>6 DEF TypeInv
<1>8. SizeInv'
  BY <1>1, <1>4 DEF SizeInv
<1>9. SomeFree'
  <2>1. PICK a \in Table(capacity) : heap[a].key = NoKey
    BY <1>2, <1>4, FreeBucket
  <2>2. {S[z] : z \in 1..count} \subseteq {L[z] : z \in 1..count}
    <3>1. Chain(NextPointers, L, count) /\ first = FirstOf(L, count)
      BY <1>2, <1>4, ChainOf
    <3>2. Chain(NextPointers, S, count) /\ first = FirstOf(S, count)
      BY <1>3 DEF SortDone
    <3>3. PICK n, g : n \in Nat /\ n = count /\ g = NextPointers
      BY <1>4 DEF TypeInv
    <3>4. NULL \notin DOMAIN g
      <4>1. NULL \notin DOMAIN heap
        BY <1>4 DEF TypeInv, NULL
      <4> QED BY <3>3, <4>1 DEF NextPointers
    <3>5. ListFrom(g, FirstOf(L, n), n + 1) = L
      BY <3>1, <3>3, <3>4, WalkIsList
    <3>6. ListFrom(g, FirstOf(S, n), n + 1) = S
      BY <3>2, <3>3, <3>4, WalkIsList
    <3>7. L = S
      BY <3>1, <3>2, <3>3, <3>5, <3>6
    <3> QED BY <3>7
  <2>3. \A n \in 1..count : heap[L[n]].key \in Keys
    BY <1>2, <1>4, ChainOf
  <2>4. a \notin {S[z] : z \in 1..count}
    BY <2>1, <2>2, <2>3, KeyType
  <2>5. a \in DOMAIN heap
    BY <1>4 DEF TypeInv
  <2>6. heap'[a].key = NoKey
    BY <1>5, <2>1, <2>4, <2>5
  <2>7. \E b \in Table(capacity') : heap'[b].key = NoKey
    BY <1>1, <2>6
  <2> QED BY <2>7 DEF SomeFree
<1>10. first \in DOMAIN heap \cup {NULL} /\ last \in Table(capacity) \cup {HEAD}
  <2>1. count \in Nat
    BY <1>4 DEF TypeInv
  <2>2. /\ L \in [1..count -> DOMAIN heap] /\ j \in 0..count
        /\ first = FirstOf(L, count) /\ last = (IF j = 0 THEN HEAD ELSE L[j])
        /\ \A n \in 1..count : L[n] \in Table(capacity) <=> n <= j
    BY <1>2 DEF Linked
  <2>3. first \in DOMAIN heap \cup {NULL}
    BY <2>1, <2>2 DEF FirstOf
  <2>4. j # 0 => j \in 1..count /\ j <= j
    BY <2>1, <2>2
  <2> QED BY <2>2, <2>3, <2>4
<1>11. first' \in DOMAIN heap' \cup {NULL} /\ last' \in Table(capacity') \cup {HEAD}
  BY <1>1, <1>6, <1>10
<1> QED BY <1>1, <1>7, <1>8, <1>9, <1>11 DEF MapInv

-----------------------------------------------------------------------------
(* The theorems *)

\* Every step preserves the invariant.
LEMMA StepInv == MapInv /\ [Next]_vars => MapInv'
<1> SUFFICES ASSUME MapInv, [Next]_vars PROVE MapInv'
  OBVIOUS
<1>1. ASSUME NEW op \in Ops \ {"get"}, NEW k \in Keys, NEW v \in Values, Enter(op, k, v)
      PROVE  MapInv'
  BY <1>1, EnterStep
<1>2. ASSUME NEW k \in Keys, Enter("get", k, 0) PROVE MapInv'
  BY <1>2, EnterStep DEF Ops
<1>3. CASE hashmap_resize
  BY <1>3, ResizeStep
<1>4. CASE hashmap_set \/ hashmap_get_set \/ hashmap_set_free \/ hashmap_get
  BY <1>4, OperationStep
<1>5. CASE hashmap_sort
  BY <1>5, SortStep
<1>6. CASE UNCHANGED vars
  <2>1. UNCHANGED <<hash, capacity, heap, first, last, count, call, out, sorted>>
    BY <1>6 DEF vars
  <2>2. TypeInv' = TypeInv /\ SizeInv' = SizeInv /\ SomeFree' = SomeFree
    BY <2>1 DEF TypeInv, SizeInv, SomeFree, Table, Bucket
  <2>3. FindInv' = FindInv /\ FreeInv' = FreeInv
    BY <2>1 DEF FindInv, FreeInv, Reached, Probe, Table
  <2>4. \A L, j : Linked(L, j) => Linked(L, j)'
    BY <2>1 DEF Linked, FirstOf, Table
  <2>5. (\E L, j : Linked(L, j)) => (\E L, j : Linked(L, j))'
    BY <2>4
  <2>6. /\ ~sorted' => FindInv' /\ FreeInv' /\ (\E L, j : Linked(L, j))'
        /\ sorted' => SomeFree' /\ first' \in DOMAIN heap' \cup {NULL}
                      /\ last' \in Table(capacity') \cup {HEAD}
    BY <2>1, <2>2, <2>3, <2>5 DEF MapInv
  <2> QED BY <2>2, <2>6 DEF MapInv
<1>7. CASE Finished
  BY <1>6, <1>7 DEF Finished
<1> QED BY <1>1, <1>2, <1>3, <1>4, <1>5, <1>6, <1>7 DEF Next

\* The inductive invariant: the list of a map that has not been sorted runs
\* through the current table and, during a resize, on through the old one; its
\* buckets are those that probes find.
THEOREM Invariant == Spec => []MapInv
<1>1. MapInv /\ [Next]_vars => MapInv'
  BY StepInv
<1> QED BY <1>1, InitInv, PTL DEF Spec

\* A probe always meets a free bucket: the loops of find_entry and resize_entry
\* of map.c end, also after the sort and while a table is being resized.
THEOREM AlwaysFreeBucketRemains == Spec => []FreeBucketRemains
<1>1. MapInv => FreeBucketRemains
  <2> SUFFICES ASSUME MapInv PROVE FreeBucketRemains
    OBVIOUS
  <2>1. TypeInv /\ SizeInv
    BY DEF MapInv
  <2>2. \E a \in Table(capacity) : heap[a].key = NoKey
    <3>1. CASE sorted
      BY <3>1 DEF MapInv, SomeFree
    <3>2. CASE ~sorted
      <4>1. PICK L, j : Linked(L, j)
        BY <3>2 DEF MapInv
      <4> QED BY <2>1, <4>1, FreeBucket
    <3> QED BY <3>1, <3>2
  <2>3. call.at = "find" /\ call.op # "get" => ~Overloaded(count + 1, capacity)
    <3>1. count \in Nat /\ capacity \in Nat
      BY <2>1 DEF TypeInv
    <3>2. call.at = "find" /\ call.op # "get" => 4 * (count + 1) <= 3 * capacity
      BY <2>1 DEF SizeInv
    <3> QED BY <3>1, <3>2 DEF Overloaded
  <2>4. first \in DOMAIN heap \cup {NULL} /\ last \in Table(capacity) \cup {HEAD}
    <3>1. CASE sorted
      BY <3>1 DEF MapInv
    <3>2. CASE ~sorted
      <4>1. PICK L, j : Linked(L, j)
        BY <3>2 DEF MapInv
      <4>2. count \in Nat
        BY <2>1 DEF TypeInv
      <4>3. /\ L \in [1..count -> DOMAIN heap] /\ j \in 0..count
            /\ first = FirstOf(L, count) /\ last = (IF j = 0 THEN HEAD ELSE L[j])
            /\ \A n \in 1..count : L[n] \in Table(capacity) <=> n <= j
        BY <4>1 DEF Linked
      <4>4. first \in DOMAIN heap \cup {NULL}
        BY <4>2, <4>3 DEF FirstOf
      <4>5. j # 0 => j \in 1..count /\ j <= j
        BY <4>2, <4>3
      <4> QED BY <4>3, <4>4, <4>5
    <3> QED BY <3>1, <3>2
  <2>5. TypeOK
    <3>1. /\ hash \in HashFunctions /\ capacity \in Nat /\ count \in Nat
          /\ Table(capacity) \subseteq DOMAIN heap
          /\ heap \in [DOMAIN heap -> Bucket(DOMAIN heap)]
          /\ call.op \in Ops \cup {"none"} /\ call.at \in {"resize", "find", "done"}
      BY <2>1 DEF TypeInv
    <3>2. \A a \in DOMAIN heap : /\ heap[a].key \in Keys \cup {NoKey}
                                 /\ heap[a].val \in Values \cup {0}
                                 /\ heap[a].next \in DOMAIN heap \cup {NULL}
      <4>1. \A a \in DOMAIN heap : heap[a] \in Bucket(DOMAIN heap)
        BY <3>1
      <4> QED BY <4>1 DEF Bucket
    <3> QED BY <2>4, <3>1, <3>2 DEF TypeOK
  <2> QED BY <2>2, <2>3, <2>5 DEF FreeBucketRemains
<1> QED BY <1>1, Invariant, PTL

\* What foreach_hashmap_bucket visits is the list.
LEMMA VisitedIs ==
    ASSUME TypeInv, NEW L, Chain(NextPointers, L, count), first = FirstOf(L, count)
    PROVE  Visited = L
<1>1. PICK n, g : n \in Nat /\ n = count /\ g = NextPointers
  BY DEF TypeInv
<1>2. NULL \notin DOMAIN g
  <2>1. NULL \notin DOMAIN heap
    BY DEF TypeInv, NULL
  <2> QED BY <1>1, <2>1 DEF NextPointers
<1>3. ListFrom(g, FirstOf(L, n), n + 1) = L
  BY <1>1, <1>2, WalkIsList
<1>4. Visited = ListFrom(g, first, count + 1)
  BY <1>1 DEF Visited, NextPointers
<1> QED BY <1>1, <1>3, <1>4

\* The places of a list of n buckets.
LEMMA ListSet ==
    ASSUME NEW n \in Nat, NEW D, NEW L \in [1..n -> D]
    PROVE  Len(L) = n /\ ToSet(L) = {L[z] : z \in 1..n}
<1>1. L \in Seq(D) /\ Len(L) = n
  OBVIOUS
<1>2. DOMAIN L = 1..n
  OBVIOUS
<1> QED BY <1>1, <1>2 DEF ToSet

\* Between two calls foreach_hashmap_bucket visits the occupied buckets of the
\* table once each and ends at last.
THEOREM AlwaysListIsTable == Spec => []ListIsTable
<1>1. MapInv => ListIsTable
  <2> SUFFICES ASSUME MapInv, call.at # "resize", ~sorted
               PROVE  /\ Len(Visited) = count
                      /\ ToSet(Visited) = Occupied
                      /\ IF count = 0 THEN last = HEAD
                         ELSE last = Visited[count] /\ heap[last].next = NULL
    BY DEF ListIsTable
  <2>1. TypeInv
    BY DEF MapInv
  <2>2. PICK L, j : Linked(L, j)
    BY DEF MapInv
  <2>3. Chain(NextPointers, L, count) /\ first = FirstOf(L, count)
    BY <2>1, <2>2, ChainOf
  <2>4. Visited = L
    BY <2>1, <2>3, VisitedIs
  <2>5. count \in Nat
    BY <2>1 DEF TypeInv
  <2>6. /\ L \in [1..count -> DOMAIN heap] /\ j \in 0..count /\ j = count
        /\ last = (IF j = 0 THEN HEAD ELSE L[j])
        /\ \A n \in 1..count : /\ heap[L[n]].next = (IF n = count THEN NULL ELSE L[n + 1])
                               /\ heap[L[n]].key \in Keys
                               /\ L[n] \in Table(capacity) <=> n <= j
        /\ \A a \in Table(capacity) :
              IF heap[a].key = NoKey THEN heap[a].next = NULL ELSE \E n \in 1..j : a = L[n]
    BY <2>2 DEF Linked
  <2>7. Len(L) = count /\ ToSet(L) = {L[z] : z \in 1..count}
    BY <2>5, <2>6, ListSet
  <2>8. {L[z] : z \in 1..count} = Occupied
    <3>1. \A z \in 1..count : L[z] \in Table(capacity) /\ heap[L[z]].key # NoKey
      BY <2>5, <2>6, KeyType
    <3>2. \A a \in Table(capacity) : heap[a].key # NoKey => \E z \in 1..count : a = L[z]
      BY <2>6
    <3> QED BY <3>1, <3>2 DEF Occupied
  <2>9. IF count = 0 THEN last = HEAD ELSE last = L[count] /\ heap[last].next = NULL
    <3>1. count # 0 => count \in 1..count
      BY <2>5
    <3> QED BY <2>6, <3>1
  <2> QED BY <2>4, <2>7, <2>8, <2>9
<1> QED BY <1>1, Invariant, PTL

\* find_entry returns the bucket of every key that is in the map.
THEOREM AlwaysEveryKeyFindable == Spec => []EveryKeyFindable
<1>1. MapInv => EveryKeyFindable
  <2> SUFFICES ASSUME MapInv, ~sorted, NEW a \in Occupied
               PROVE  find_entry(heap[a].key) = a
    BY DEF EveryKeyFindable
  <2>1. TypeInv /\ FindInv
    BY DEF MapInv
  <2>2. a \in Table(capacity) /\ heap[a].key # NoKey
    BY DEF Occupied
  <2>3. heap[a].key \in Keys
    <3>1. a \in DOMAIN heap /\ heap[a] \in Bucket(DOMAIN heap)
      BY <2>1, <2>2 DEF TypeInv
    <3> QED BY <2>2, <3>1 DEF Bucket
  <2> QED BY <2>1, <2>2, <2>3, FindEntry
<1> QED BY <1>1, Invariant, PTL

\* hashmap_sort of map.c keeps the length of the list and its set of entries,
\* whatever the comparisons return.
THEOREM SortKeeps == Spec => SortKeepsEntries
<1> DEFINE Keeps ==
       /\ Len(Visited') = count
       /\ {<<heap'[a].key, heap'[a].val>> : a \in ToSet(Visited')} =
          {<<heap[a].key, heap[a].val>> : a \in ToSet(Visited)}
<1>1. ASSUME MapInv, hashmap_sort PROVE Keeps
  <2>1. PICK L, R : SortDone(L, R)
    BY <1>1, SortDoes
  <2>2. TypeInv /\ TypeInv' /\ count' = count /\ first' = first
    BY <1>1, SortStep DEF MapInv, hashmap_sort
  <2>3. /\ Chain(NextPointers, L, count) /\ first = FirstOf(L, count)
        /\ Chain(NextPointers', R, count') /\ first' = FirstOf(R, count')
        /\ {R[z] : z \in 1..count} = {L[z] : z \in 1..count}
        /\ {EntryAt(a)' : a \in {L[z] : z \in 1..count}} =
           {EntryAt(a) : a \in {L[z] : z \in 1..count}}
    BY <2>1, <2>2 DEF SortDone
  <2>4. Visited = L
    BY <2>2, <2>3, VisitedIs
  <2>5. Visited' = R
    <3>1. PICK n, g : n \in Nat /\ n = count' /\ g = NextPointers'
      BY <2>2 DEF TypeInv
    <3>2. NULL \notin DOMAIN g
      <4>1. NULL \notin DOMAIN heap'
        BY <2>2 DEF TypeInv, NULL
      <4> QED BY <3>1, <4>1 DEF NextPointers
    <3>3. ListFrom(g, FirstOf(R, n), n + 1) = R
      BY <2>3, <3>1, <3>2, WalkIsList
    <3>4. Visited' = ListFrom(g, first', count' + 1)
      BY <3>1 DEF Visited, NextPointers
    <3> QED BY <2>3, <3>1, <3>3, <3>4
  <2>6. count \in Nat
    BY <2>2 DEF TypeInv
  <2>7. PICK D, E : L \in [1..count -> D] /\ R \in [1..count -> E]
    BY <2>2, <2>3 DEF Chain
  <2>8. Len(L) = count /\ ToSet(L) = {L[z] : z \in 1..count}
    BY <2>6, <2>7, ListSet
  <2>9. Len(R) = count /\ ToSet(R) = {R[z] : z \in 1..count}
    BY <2>6, <2>7, ListSet
  <2>10. PICK P : P = {L[z] : z \in 1..count}
    OBVIOUS
  <2>11. ToSet(Visited) = P /\ ToSet(Visited') = P /\ Len(Visited') = count
    BY <2>3, <2>4, <2>5, <2>8, <2>9, <2>10
  <2>12. {EntryAt(a)' : a \in P} = {EntryAt(a) : a \in P}
    BY <2>3, <2>10
  <2>13. {<<heap'[a].key, heap'[a].val>> : a \in P} = {<<heap[a].key, heap[a].val>> : a \in P}
    BY <2>12 DEF EntryAt
  <2> QED BY <2>11, <2>13
<1>2. MapInv /\ [Next]_vars => [hashmap_sort => Keeps]_vars
  BY <1>1
<1> QED BY <1>2, Invariant, PTL DEF Spec, SortKeepsEntries

-----------------------------------------------------------------------------
(* The refinement *)

\* The entries of a list of n buckets of the table h.
EntriesIn(h, L, n) == [p \in 1..n |-> [key |-> h[L[p]].key, val |-> h[L[p]].val]]

\* What a walk from f through the table h with n + 1 steps meets.
EntriesFrom(h, f, n) ==
    LET list == ListFrom([a \in DOMAIN h |-> h[a].next], f, n + 1)
    IN  [p \in DOMAIN list |-> [key |-> h[list[p]].key, val |-> h[list[p]].val]]

\* A walk meets the entries of the chain of buckets.
LEMMA ChainMeets ==
    ASSUME NEW h, NEW f, NEW n \in Nat, NULL \notin DOMAIN h, NEW L,
           Chain([a \in DOMAIN h |-> h[a].next], L, n), f = FirstOf(L, n)
    PROVE  EntriesFrom(h, f, n) = EntriesIn(h, L, n)
<1>1. PICK g : g = [a \in DOMAIN h |-> h[a].next]
  OBVIOUS
<1>2. Chain(g, L, n) /\ NULL \notin DOMAIN g
  BY <1>1
<1>3. ListFrom(g, f, n + 1) = L
  BY <1>2, WalkIsList
<1>4. DOMAIN L = 1..n
  BY <1>2 DEF Chain
<1> QED BY <1>1, <1>3, <1>4 DEF EntriesFrom, EntriesIn

\* A walk meets the entries of the list.
LEMMA WalkMeets ==
    ASSUME NEW h, NEW f, NEW n \in Nat, NULL \notin DOMAIN h, NEW L, ListOf(h, f, L, n)
    PROVE  EntriesFrom(h, f, n) = EntriesIn(h, L, n)
<1>1. PICK g : g = [a \in DOMAIN h |-> h[a].next]
  OBVIOUS
<1>2. /\ L \in [1..n -> DOMAIN h] /\ f = FirstOf(L, n)
      /\ \A k \in 1..n : h[L[k]].next = IF k = n THEN NULL ELSE L[k + 1]
      /\ \A j, k \in 1..n : h[L[j]].key = h[L[k]].key => j = k
  BY DEF ListOf
<1>3. Chain(g, L, n)
  <2>1. DOMAIN g = DOMAIN h /\ \A a \in DOMAIN h : g[a] = h[a].next
    BY <1>1
  <2>2. \A k \in 1..n : g[L[k]] = IF k = n THEN NULL ELSE L[k + 1]
    BY <1>2, <2>1
  <2>3. \A j, k \in 1..n : L[j] = L[k] => j = k
    BY <1>2
  <2> QED BY <1>2, <2>1, <2>2, <2>3 DEF Chain
<1> QED BY <1>1, <1>2, <1>3, ChainMeets

\* The entries of the map, before and after a step.
LEMMA EntriesAre ==
    ASSUME TypeInv, NEW L, ListOf(heap, first, L, count)
    PROVE  Entries = EntriesIn(heap, L, count)
<1>1. count \in Nat /\ NULL \notin DOMAIN heap
  BY DEF TypeInv, NULL
<1>2. Entries = EntriesFrom(heap, first, count)
  BY DEF Entries, EntriesFrom, Visited
<1> QED BY <1>1, <1>2, WalkMeets

\* The same after a step.
LEMMA EntriesAreNext ==
    ASSUME TypeInv', NEW L, ListOf(heap', first', L, count')
    PROVE  Entries' = EntriesIn(heap', L, count')
<1>1. count' \in Nat /\ NULL \notin DOMAIN heap'
  BY DEF TypeInv, NULL
<1>2. Entries' = EntriesFrom(heap', first', count')
  BY DEF Entries, EntriesFrom, Visited
<1>3. PICK h, f, n : h = heap' /\ f = first' /\ n = count'
  OBVIOUS
<1>4. EntriesFrom(h, f, n) = EntriesIn(h, L, n)
  BY <1>1, <1>3, WalkMeets
<1> QED BY <1>2, <1>3, <1>4

\* A step that keeps the list keeps the entries.
LEMMA EntriesStay ==
    ASSUME TypeInv, TypeInv', KeepsList PROVE Entries' = Entries
<1>1. PICK L, M :
        /\ ListOf(heap, first, L, count) /\ ListOf(heap', first', M, count')
        /\ count' = count
        /\ \A n \in 1..count : /\ heap'[M[n]].key = heap[L[n]].key
                              /\ heap'[M[n]].val = heap[L[n]].val
  BY DEF KeepsList
<1>2. Entries = EntriesIn(heap, L, count)
  BY <1>1, EntriesAre
<1>3. Entries' = EntriesIn(heap', M, count')
  BY <1>1, EntriesAreNext
<1>4. EntriesIn(heap', M, count') = EntriesIn(heap, L, count)
  BY <1>1 DEF EntriesIn
<1> QED BY <1>2, <1>3, <1>4

\* A step that extends the list adds an entry to the entries.
LEMMA EntriesGrow ==
    ASSUME TypeInv, TypeInv', NEW k, NEW v, ExtendsList(k, v)
    PROVE  Entries' = Append(Entries, [key |-> k, val |-> v])
<1>1. PICK L, M :
        /\ ListOf(heap, first, L, count) /\ ListOf(heap', first', M, count')
        /\ count' = count + 1
        /\ \A n \in 1..count : /\ heap'[M[n]].key = heap[L[n]].key
                              /\ heap'[M[n]].val = heap[L[n]].val
        /\ heap'[M[count + 1]].key = k /\ heap'[M[count + 1]].val = v
  BY DEF ExtendsList
<1>2. PICK c \in Nat : c = count
  BY DEF TypeInv
<1>3. Entries = EntriesIn(heap, L, c)
  BY <1>1, <1>2, EntriesAre
<1>4. Entries' = EntriesIn(heap', M, c + 1)
  BY <1>1, <1>2, EntriesAreNext
<1>5. PICK e, b : e = EntriesIn(heap, L, c) /\ b = [key |-> k, val |-> v]
  OBVIOUS
<1>6. EntriesIn(heap', M, c + 1) = [p \in 1..c + 1 |-> IF p = c + 1 THEN b ELSE e[p]]
  <2>1. \A p \in 1..c + 1 : p = c + 1 \/ p \in 1..c
    OBVIOUS
  <2>2. \A p \in 1..c : p # c + 1 /\ e[p] = [key |-> heap[L[p]].key, val |-> heap[L[p]].val]
    BY <1>5 DEF EntriesIn
  <2> QED BY <1>1, <1>2, <1>5, <2>1, <2>2 DEF EntriesIn
<1>7. PICK S : S = {e[p] : p \in 1..c} \cup {b}
  OBVIOUS
<1>8. e \in Seq(S) /\ Len(e) = c /\ b \in S
  <2>1. e \in [1..c -> S]
    BY <1>5, <1>7 DEF EntriesIn
  <2> QED BY <1>7, <2>1
<1>9. PICK f : f = Append(e, b)
  OBVIOUS
<1>10. f \in Seq(S) /\ Len(f) = c + 1 /\ \A p \in 1..c + 1 : f[p] = IF p = c + 1 THEN b ELSE e[p]
  BY <1>8, <1>9
<1>11. f = [p \in 1..c + 1 |-> IF p = c + 1 THEN b ELSE e[p]]
  BY <1>10
<1> QED BY <1>3, <1>4, <1>5, <1>6, <1>9, <1>11

\* What is known of the call and its result besides MapInv.
CallInv == IF call.op = "none" THEN call = Idle ELSE out = NoResult

\* A new map is the empty one.
LEMMA MapInit == hashmap_create => CallInv /\ Abstract!Init
<1> SUFFICES ASSUME hashmap_create PROVE CallInv /\ Abstract!Init
  OBVIOUS
<1>1. /\ first = NULL /\ count = 0 /\ call = Idle /\ out = NoResult
  BY DEF hashmap_create
<1>2. CallInv
  BY <1>1 DEF CallInv, Idle
<1>3. TypeInv
  BY InitInv DEF MapInv
<1>4. PICK L : L = [n \in 1..0 |-> NULL]
  OBVIOUS
<1>5. ListOf(heap, first, L, count)
  BY <1>1, <1>4 DEF ListOf, FirstOf
<1>6. Entries = EntriesIn(heap, L, count)
  BY <1>3, <1>5, EntriesAre
<1>7. EntriesIn(heap, L, count) = <<>>
  BY <1>1 DEF EntriesIn
<1>8. Request = Abstract!NoRequest
  BY <1>1 DEF Request, Idle, Abstract!NoRequest
<1>9. out = Abstract!NoResult
  BY <1>1 DEF NoResult, Abstract!NoResult
<1> QED BY <1>2, <1>6, <1>7, <1>8, <1>9 DEF Abstract!Init

\* Entering an operation is its call, also when the table grows.
LEMMA EnterMaps ==
    ASSUME MapInv, CallInv, NEW op \in Ops, NEW k \in Keys, NEW v,
           v \in (IF op = "get" THEN {0} ELSE Values), Enter(op, k, v)
    PROVE  CallInv' /\ Abstract!Call
<1>1. MapInv' /\ KeepsList
  <2>1. v \in Values \cup {0}
    OBVIOUS
  <2> QED BY <2>1, EnterStep
<1>2. Entries' = Entries
  BY <1>1, EntriesStay DEF MapInv
<1>3. /\ call.op = "none" /\ out' = NoResult
      /\ call'.op = op /\ call'.key = k /\ call'.val = v
  BY DEF Enter
<1>4. Request = Abstract!NoRequest
  BY <1>3 DEF CallInv, Request, Idle, Abstract!NoRequest
<1>5. Request' = [op |-> op, key |-> k, val |-> v]
  BY <1>3 DEF Request
<1>6. Request' \in [op : {"set", "get_set", "set_free"}, key : Keys, val : Values]
                     \cup [op : {"get"}, key : Keys, val : {0}]
  BY <1>5 DEF Ops
<1>7. CallInv'
  BY <1>3 DEF CallInv, Ops
<1>8. out' = Abstract!NoResult
  BY <1>3 DEF NoResult, Abstract!NoResult
<1> QED BY <1>2, <1>4, <1>6, <1>7, <1>8 DEF Abstract!Call

\* Nothing is seen of a resize.
LEMMA ResizeMaps ==
    ASSUME MapInv, CallInv, hashmap_resize
    PROVE  CallInv' /\ UNCHANGED Abstract!mapVars
<1>1. MapInv' /\ KeepsList
  BY ResizeStep
<1>2. Entries' = Entries
  BY <1>1, EntriesStay DEF MapInv
<1>3. /\ call.at = "resize" /\ out' = out
      /\ \E at \in {"find", "resize"} : call' = [call EXCEPT !.at = at]
  BY DEF hashmap_resize
<1>4. call \in [op : Ops \cup {"none"}, key : Keys \cup {NoKey},
                val : Values \cup {0}, at : {"resize", "find", "done"}]
      /\ call.op # "none"
  BY <1>3 DEF MapInv, TypeInv
<1>5. call'.op = call.op /\ call'.key = call.key /\ call'.val = call.val
  BY <1>3, <1>4
<1>6. Request' = Request
  BY <1>5 DEF Request
<1>7. CallInv'
  BY <1>3, <1>4, <1>5 DEF CallInv
<1> QED BY <1>2, <1>3, <1>6, <1>7 DEF Abstract!mapVars

\* What the operation finds is what the abstract map has: with entry the bucket
\* that find_entry returns.
Finds(entry) ==
    IF heap[entry].key = NoKey
    THEN ~Abstract!Has(call.key) /\ heap[entry].val = 0
    ELSE /\ Abstract!Has(call.key) /\ heap[entry].key = call.key
         /\ Abstract!Lookup(call.key) = [found |-> TRUE, val |-> heap[entry].val]

\* What find returns, by its result, is what the abstract map looks up.
LEMMA FindMaps ==
    ASSUME MapInv, NEW op \in Ops, Finding(op)
    PROVE  Finds(find_entry(call.key))
<1>1. /\ TypeInv /\ FreeInv /\ call.key \in Keys /\ DOMAIN heap = Table(capacity)
      /\ find_entry(call.key) \in Table(capacity)
      /\ heap[find_entry(call.key)].key \in {NoKey, call.key}
      /\ heap[find_entry(call.key)].key = NoKey =>
            \A a \in Table(capacity) : heap[a].key # call.key
      /\ \E L : Linked(L, count)
  BY Found
<1>2. PICK entry \in Table(capacity) : entry = find_entry(call.key)
  BY <1>1
<1>3. PICK L : Linked(L, count)
  BY <1>1
<1>4. /\ L \in [1..count -> DOMAIN heap] /\ ListOf(heap, first, L, count)
      /\ \A m, n \in 1..count : heap[L[m]].key = heap[L[n]].key => m = n
      /\ \A a \in Table(capacity) : heap[a].key # NoKey => \E n \in 1..count : a = L[n]
  BY <1>3 DEF Linked, ListOf
<1>5. PICK e, k : e = Entries /\ k = call.key
  OBVIOUS
<1>6. DOMAIN e = 1..count /\ \A p \in 1..count : /\ e[p].key = heap[L[p]].key
                                              /\ e[p].val = heap[L[p]].val
  <2>1. Entries = EntriesIn(heap, L, count)
    BY <1>1, <1>4, EntriesAre
  <2>2. e = EntriesIn(heap, L, count)
    BY <1>5, <2>1
  <2>3. DOMAIN e = 1..count
    BY <2>2 DEF EntriesIn
  <2>4. ASSUME NEW p \in 1..count
        PROVE  e[p].key = heap[L[p]].key /\ e[p].val = heap[L[p]].val
    <3>1. e[p] = [key |-> heap[L[p]].key, val |-> heap[L[p]].val]
      BY <2>2 DEF EntriesIn
    <3> QED BY <3>1
  <2> QED BY <2>3, <2>4
<1>7. Abstract!Has(k) <=> \E p \in DOMAIN e : e[p].key = k
  BY <1>5 DEF Abstract!Has
<1>8. CASE heap[entry].key = NoKey
  <2>1. \A a \in Table(capacity) : heap[a].key # k
    BY <1>1, <1>2, <1>5, <1>8
  <2>2. ~Abstract!Has(k)
    BY <1>1, <1>4, <1>6, <1>7, <2>1
  <2>3. heap[entry].val = 0
    BY <1>1, <1>2, <1>8 DEF FreeInv
  <2> QED BY <1>2, <1>5, <1>8, <2>2, <2>3 DEF Finds
<1>9. CASE heap[entry].key # NoKey
  <2>1. heap[entry].key = k
    BY <1>1, <1>2, <1>5, <1>9
  <2>2. PICK n \in 1..count : entry = L[n]
    BY <1>4, <1>9
  <2>3. n \in DOMAIN e /\ e[n].key = k /\ e[n].val = heap[entry].val
    BY <1>6, <2>1, <2>2
  <2>4. \A p \in DOMAIN e : e[p].key = k => p = n
    BY <1>4, <1>6, <2>1, <2>2
  <2>5. Abstract!Has(k)
    BY <1>7, <2>3
  <2>6. (CHOOSE p \in DOMAIN e : e[p].key = k) = n
    BY <2>3, <2>4
  <2>7. Abstract!Lookup(k) = [found |-> TRUE, val |-> e[n].val]
    BY <1>5, <2>5, <2>6 DEF Abstract!Lookup
  <2> QED BY <1>2, <1>5, <1>9, <2>1, <2>3, <2>5, <2>7 DEF Finds
<1> QED BY <1>8, <1>9

\* Inserting a key that is not there is adding it.
LEMMA InsertMaps ==
    ASSUME MapInv, NEW op \in Ops \ {"get"}, Finding(op),
           heap[find_entry(call.key)].key = NoKey,
           Insert(find_entry(call.key), call.key, call.val)
    PROVE  Abstract!Add(call.key, call.val) /\ ~Abstract!Has(call.key)
<1>1. MapInv' /\ ExtendsList(call.key, call.val)
  BY InsertStep
<1>2. PICK k, v : k = call.key /\ v = call.val
  OBVIOUS
<1>3. Entries' = Append(Entries, [key |-> k, val |-> v])
  BY <1>1, <1>2, EntriesGrow DEF MapInv
<1>4. ~Abstract!Has(call.key)
  BY FindMaps DEF Finds
<1> QED BY <1>2, <1>3, <1>4 DEF Abstract!Add

\* Overwriting the entry of a key is putting it.
LEMMA OverwriteMaps ==
    ASSUME MapInv, NEW op \in Ops, Finding(op),
           heap[find_entry(call.key)].key # NoKey,
           Overwrite(find_entry(call.key), call.val)
    PROVE  Abstract!Put(call.key, call.val)
<1>1. /\ TypeInv /\ call.key \in Keys /\ call.val \in Values \cup {0}
      /\ DOMAIN heap = Table(capacity) /\ find_entry(call.key) \in Table(capacity)
  BY Found
<1>2. PICK entry \in DOMAIN heap, v \in Values \cup {0}, k \in Keys :
         entry = find_entry(call.key) /\ v = call.val /\ k = call.key
  BY <1>1
<1>3. /\ UNCHANGED <<first, last, count>> /\ heap' = [heap EXCEPT ![entry].val = v]
      /\ heap[entry].key # NoKey
  BY <1>2 DEF Overwrite
<1>4. Abstract!Has(k) /\ heap[entry].key = k
  BY <1>2, <1>3, FindMaps DEF Finds
<1>5. heap \in [DOMAIN heap -> Bucket(DOMAIN heap)]
  BY <1>1 DEF TypeInv
<1>6. ASSUME NEW a \in DOMAIN heap
      PROVE  /\ heap'[a].key = heap[a].key
             /\ heap'[a].val = IF a = entry THEN v ELSE heap[a].val
             /\ heap'[a].next = heap[a].next
             /\ heap'[a] \in Bucket(DOMAIN heap)
  <2>1. heap[a] \in Bucket(DOMAIN heap)
    BY <1>5
  <2>2. heap'[a] = IF a = entry THEN [heap[a] EXCEPT !.val = v] ELSE heap[a]
    BY <1>3, <1>5
  <2> QED BY <1>2, <2>1, <2>2 DEF Bucket
<1>7. heap' \in [DOMAIN heap -> Bucket(DOMAIN heap)]
  <2>1. PICK h : h = [heap EXCEPT ![entry].val = v]
    OBVIOUS
  <2>2. h = [a \in DOMAIN heap |-> h[a]]
    BY <1>5, <2>1
  <2>3. h = heap'
    BY <1>3, <2>1
  <2>4. \A a \in DOMAIN heap : h[a] \in Bucket(DOMAIN heap)
    BY <1>6, <2>3
  <2>5. h \in [DOMAIN heap -> Bucket(DOMAIN heap)]
    BY <2>2, <2>4
  <2> QED BY <2>3, <2>5
<1>8. MapInv'
  BY <1>3, <1>6, <1>7, ValueStep
<1>9. PICK L : Linked(L, count)
  BY Found
<1>10. PICK e : e = Entries
  OBVIOUS
<1>11. /\ ListOf(heap, first, L, count)
       /\ L \in [1..count -> DOMAIN heap]
       /\ \A j, n \in 1..count : heap[L[j]].key = heap[L[n]].key => j = n
       /\ \A a \in Table(capacity) : heap[a].key # NoKey => \E n \in 1..count : a = L[n]
  BY <1>9 DEF Linked, ListOf
<1>12. e = EntriesIn(heap, L, count)
  BY <1>1, <1>10, <1>11, EntriesAre
<1>13. Entries' = EntriesIn(heap', L, count)
  <2>1. DOMAIN heap' = DOMAIN heap
    BY <1>7
  <2>2. ListOf(heap', first', L, count')
    BY <1>3, <1>6, <1>11, <2>1 DEF ListOf
  <2> QED BY <1>3, <1>8, <2>2, EntriesAreNext DEF MapInv
<1>14. PICK b : b = [key |-> k, val |-> v]
  OBVIOUS
<1>15. \A p \in 1..count :
          [key |-> heap'[L[p]].key, val |-> heap'[L[p]].val] =
             IF e[p].key = k THEN b ELSE e[p]
  <2> SUFFICES ASSUME NEW p \in 1..count
               PROVE  [key |-> heap'[L[p]].key, val |-> heap'[L[p]].val] =
                         IF e[p].key = k THEN b ELSE e[p]
    OBVIOUS
  <2>1. e[p] = [key |-> heap[L[p]].key, val |-> heap[L[p]].val]
    BY <1>12 DEF EntriesIn
  <2>2. L[p] = entry <=> heap[L[p]].key = k
    <3>1. PICK q \in 1..count : L[q] = entry
      BY <1>1, <1>3, <1>11
    <3> QED BY <1>4, <1>11, <3>1
  <2>3. PICK a \in DOMAIN heap : a = L[p]
    BY <1>11
  <2>4. heap'[a].key = heap[a].key /\ heap'[a].val = IF a = entry THEN v ELSE heap[a].val
    BY <1>6
  <2>5. e[p].key = heap[a].key
    BY <2>1, <2>3
  <2>6. CASE a = entry
    <3>1. e[p].key = k /\ heap'[a].key = k /\ heap'[a].val = v
      BY <1>4, <2>4, <2>5, <2>6
    <3> QED BY <1>14, <2>3, <3>1
  <2>7. CASE a # entry
    <3>1. e[p].key # k /\ heap'[a].key = heap[a].key /\ heap'[a].val = heap[a].val
      BY <2>2, <2>3, <2>4, <2>5, <2>7
    <3> QED BY <2>1, <2>3, <3>1
  <2> QED BY <2>6, <2>7
<1>16. DOMAIN e = 1..count
  BY <1>12 DEF EntriesIn
<1>17. Entries' = [p \in DOMAIN e |-> IF e[p].key = k THEN b ELSE e[p]]
  BY <1>13, <1>15, <1>16 DEF EntriesIn
<1> QED BY <1>2, <1>4, <1>10, <1>14, <1>17 DEF Abstract!Put

\* The operations that have found their bucket return what the map promises.
LEMMA ReturnMaps ==
    ASSUME MapInv, CallInv, hashmap_set \/ hashmap_get_set \/ hashmap_set_free \/ hashmap_get
    PROVE  CallInv' /\ Abstract!Return
<1>1. PICK op \in Ops : Finding(op)
  BY DEF hashmap_set, hashmap_get_set, hashmap_set_free, hashmap_get, Ops
<1>2. PICK k, v, entry : k = call.key /\ v = call.val /\ entry = find_entry(call.key)
  OBVIOUS
<1>3. call.op = op /\ op # "none" /\ call' = Idle
  BY <1>1 DEF Finding, Ops
<1>4. CallInv'
  BY <1>3 DEF CallInv, Idle
<1>5. Request' = Abstract!NoRequest /\ Request.op = op /\ Request.key = k /\ Request.val = v
  BY <1>2, <1>3 DEF Request, Idle, Abstract!NoRequest
<1>6. out = Abstract!NoResult
  BY <1>3 DEF CallInv, NoResult, Abstract!NoResult
<1>7. /\ heap[entry].key = NoKey =>
             ~Abstract!Has(k) /\ heap[entry].val = 0 /\ Abstract!Lookup(k) = Abstract!NoResult
      /\ heap[entry].key # NoKey =>
             /\ Abstract!Has(k)
             /\ Abstract!Lookup(k) = [found |-> TRUE, val |-> heap[entry].val]
  <2>1. Finds(entry)
    BY <1>1, <1>2, FindMaps
  <2>2. ~Abstract!Has(k) => Abstract!Lookup(k) = Abstract!NoResult
    BY DEF Abstract!Lookup
  <2> QED BY <1>2, <2>1, <2>2 DEF Finds
<1>8. ASSUME heap[entry].key = NoKey, op # "get", Insert(entry, k, v)
      PROVE  Abstract!Add(k, v) /\ Abstract!Put(k, v)
  <2>1. Abstract!Add(call.key, call.val) /\ ~Abstract!Has(call.key)
    BY <1>1, <1>2, <1>8, InsertMaps
  <2> QED BY <1>2, <2>1 DEF Abstract!Put
<1>9. ASSUME heap[entry].key # NoKey, Overwrite(entry, v)
      PROVE  Abstract!Put(k, v)
  BY <1>1, <1>2, <1>9, OverwriteMaps
<1>10. ASSUME UNCHANGED <<heap, first, last, count>> PROVE Entries' = Entries
  BY <1>10 DEF Entries, Visited
<1>11. CASE hashmap_set
  <2>1. op = "set" /\ out' = out
    BY <1>3, <1>11 DEF hashmap_set, Finding
  <2>2. Abstract!Put(k, v)
    BY <1>2, <1>8, <1>9, <1>11, <2>1 DEF hashmap_set
  <2>3. Abstract!Set
    BY <1>5, <2>1, <2>2 DEF Abstract!Set
  <2> QED BY <1>4, <1>5, <2>3 DEF Abstract!Return
<1>12. CASE hashmap_get_set
  <2>1. op = "get_set"
    BY <1>3, <1>12 DEF hashmap_get_set, Finding
  <2>2. CASE heap[entry].key = NoKey
    <3>1. Insert(entry, k, v) /\ out' = [found |-> FALSE, val |-> v]
      BY <1>2, <1>12, <2>2 DEF hashmap_get_set
    <3>2. Abstract!Add(k, v) /\ ~Abstract!Has(k)
      BY <1>7, <1>8, <2>1, <2>2, <3>1
    <3>3. Abstract!GetSet
      BY <1>5, <2>1, <3>1, <3>2 DEF Abstract!GetSet
    <3> QED BY <1>4, <1>5, <3>3 DEF Abstract!Return
  <2>3. CASE heap[entry].key # NoKey
    <3>1. /\ UNCHANGED <<heap, first, last, count>>
          /\ out' = [found |-> TRUE, val |-> heap[entry].val]
      BY <1>2, <1>12, <2>3 DEF hashmap_get_set
    <3>2. Entries' = Entries /\ Abstract!Has(k) /\ out' = Abstract!Lookup(k)
      BY <1>7, <1>10, <2>3, <3>1
    <3>3. Abstract!GetSet
      BY <1>5, <2>1, <3>2 DEF Abstract!GetSet
    <3> QED BY <1>4, <1>5, <3>3 DEF Abstract!Return
  <2> QED BY <2>2, <2>3
<1>13. CASE hashmap_set_free
  <2>1. op = "set_free"
    BY <1>3, <1>13 DEF hashmap_set_free, Finding
  <2>2. /\ heap[entry].key = NoKey => Insert(entry, k, v) /\ out' = out
        /\ heap[entry].key # NoKey => /\ Overwrite(entry, v)
                                      /\ out' = [found |-> TRUE, val |-> heap[entry].val]
    BY <1>2, <1>13 DEF hashmap_set_free
  <2>3. Abstract!Put(k, v)
    BY <1>8, <1>9, <2>1, <2>2
  <2>4. out' = Abstract!Lookup(k)
    BY <1>6, <1>7, <2>2
  <2>5. Abstract!SetFree
    BY <1>5, <2>1, <2>3, <2>4 DEF Abstract!SetFree
  <2> QED BY <1>4, <1>5, <2>5 DEF Abstract!Return
<1>14. CASE hashmap_get
  <2>1. op = "get"
    BY <1>3, <1>14 DEF hashmap_get, Finding
  <2>2. /\ UNCHANGED <<heap, first, last, count>>
        /\ out' = [found |-> heap[entry].key # NoKey, val |-> heap[entry].val]
    BY <1>2, <1>14 DEF hashmap_get
  <2>3. Entries' = Entries
    BY <1>10, <2>2
  <2>4. out' = Abstract!Lookup(k)
    BY <1>7, <2>2 DEF Abstract!NoResult
  <2>5. Abstract!Get
    BY <1>5, <2>1, <2>3, <2>4 DEF Abstract!Get
  <2> QED BY <1>4, <1>5, <2>5 DEF Abstract!Return
<1> QED BY <1>11, <1>12, <1>13, <1>14

\* The entries of the sorted list are the old ones in another order.
Reordered(old, new) ==
    \E p \in Bijection(DOMAIN old, DOMAIN old) : new = [n \in DOMAIN old |-> old[p[n]]]

\* The sort rearranges the entries.
LEMMA SortReorders ==
    ASSUME MapInv, hashmap_sort
    PROVE  Reordered(Entries, Entries')
<1>1. MapInv' /\ UNCHANGED <<first, count>> /\ ~sorted
  BY SortStep DEF hashmap_sort
<1>2. TypeInv /\ TypeInv'
  BY <1>1 DEF MapInv
<1>3. PICK L, R : SortDone(L, R)
  BY SortDoes
<1>4. PICK c \in Nat : c = count
  BY <1>2 DEF TypeInv
<1>5. PICK e, f : e = Entries /\ f = Entries'
  OBVIOUS
<1>6. /\ Chain(NextPointers, L, c) /\ first = FirstOf(L, c)
      /\ Chain(NextPointers', R, c) /\ first = FirstOf(R, c)
      /\ {R[z] : z \in 1..c} = {L[z] : z \in 1..c}
      /\ {EntryAt(a)' : a \in {L[z] : z \in 1..c}} =
         {EntryAt(a) : a \in {L[z] : z \in 1..c}}
  BY <1>3, <1>4 DEF SortDone
<1>7. \A j, n \in 1..c : heap[L[j]].key = heap[L[n]].key => j = n
  <2>1. PICK M, j : Linked(M, j)
    BY <1>1 DEF MapInv
  <2>2. Chain(NextPointers, M, count) /\ first = FirstOf(M, count)
    BY <1>2, <2>1, ChainOf
  <2>3. Visited = M /\ Visited = L
    BY <1>2, <1>4, <1>6, <2>2, VisitedIs
  <2>4. \A i, n \in 1..count : heap[M[i]].key = heap[M[n]].key => i = n
    BY <2>1 DEF Linked
  <2> QED BY <1>4, <2>3, <2>4
<1>8. e = EntriesIn(heap, L, c)
  <2>1. e = EntriesFrom(heap, first, c)
    BY <1>4, <1>5 DEF Entries, EntriesFrom, Visited
  <2>2. NULL \notin DOMAIN heap
    BY <1>2 DEF TypeInv, NULL
  <2>3. Chain([a \in DOMAIN heap |-> heap[a].next], L, c)
    BY <1>6 DEF NextPointers
  <2> QED BY <1>6, <2>1, <2>2, <2>3, ChainMeets
<1>9. f = EntriesIn(heap', R, c)
  <2>1. f = EntriesFrom(heap', first, c)
    BY <1>1, <1>4, <1>5 DEF Entries, EntriesFrom, Visited
  <2>2. NULL \notin DOMAIN heap'
    BY <1>2 DEF TypeInv, NULL
  <2>3. Chain([a \in DOMAIN heap' |-> heap'[a].next], R, c)
    BY <1>6 DEF NextPointers
  <2>4. PICK h : h = heap'
    OBVIOUS
  <2> QED BY <1>6, <2>1, <2>2, <2>3, <2>4, ChainMeets
<1>10. PICK old, new : /\ old = [n \in 1..c |-> EntryAt(L[n])]
                       /\ new = [n \in 1..c |-> EntryAt(R[n])']
  OBVIOUS
<1>11. \A n \in 1..c : \E m \in 1..c : old[m] = new[n]
  <2> SUFFICES ASSUME NEW n \in 1..c PROVE \E m \in 1..c : old[m] = new[n]
    OBVIOUS
  <2>1. R[n] \in {L[z] : z \in 1..c}
    BY <1>6
  <2>2. PICK a \in {L[z] : z \in 1..c} : EntryAt(R[n])' = EntryAt(a)
    BY <1>6, <2>1
  <2>3. PICK m \in 1..c : a = L[m]
    OBVIOUS
  <2> QED BY <1>10, <2>2, <2>3
<1>12. \A m \in 1..c : \E n \in 1..c : new[n] = old[m]
  <2> SUFFICES ASSUME NEW m \in 1..c PROVE \E n \in 1..c : new[n] = old[m]
    OBVIOUS
  <2>1. PICK a \in {R[z] : z \in 1..c} : EntryAt(a)' = EntryAt(L[m])
    BY <1>6
  <2>2. PICK n \in 1..c : a = R[n]
    OBVIOUS
  <2> QED BY <1>10, <2>1, <2>2
<1>13. \A j, n \in 1..c : old[j] = old[n] => j = n
  BY <1>7, <1>10 DEF EntryAt
<1>14. PICK p : p = [n \in 1..c |-> CHOOSE m \in 1..c : old[m] = new[n]]
  OBVIOUS
<1>15. p \in [1..c -> 1..c] /\ \A n \in 1..c : old[p[n]] = new[n]
  BY <1>11, <1>14
<1>16. ASSUME NEW m \in 1..c PROVE \E n \in 1..c : p[n] = m
  <2>1. PICK n \in 1..c : new[n] = old[m]
    BY <1>12
  <2>2. p[n] \in 1..c /\ old[p[n]] = old[m]
    BY <1>15, <2>1
  <2> QED BY <1>13, <2>2
<1>17. p \in Bijection(1..c, 1..c)
  <2>1. p \in Surjection(1..c, 1..c)
    BY <1>15, <1>16 DEF Surjection
  <2>2. p \in Injection(1..c, 1..c)
    BY <2>1, FS_Interval, FS_SurjSameCardinalityImpliesInj
  <2> QED BY <2>1, <2>2 DEF Bijection
<1>18. DOMAIN e = 1..c
  BY <1>8 DEF EntriesIn
<1>19. f = [n \in 1..c |-> e[p[n]]]
  <2>1. ASSUME NEW n \in 1..c
        PROVE  [key |-> heap'[R[n]].key, val |-> heap'[R[n]].val] = e[p[n]]
    <3>1. p[n] \in 1..c /\ EntryAt(L[p[n]]) = EntryAt(R[n])'
      BY <1>10, <1>15
    <3>2. e[p[n]] = [key |-> heap[L[p[n]]].key, val |-> heap[L[p[n]]].val]
      BY <1>8, <3>1 DEF EntriesIn
    <3> QED BY <3>1, <3>2 DEF EntryAt
  <2> QED BY <1>9, <2>1 DEF EntriesIn
<1> QED BY <1>5, <1>17, <1>18, <1>19 DEF Reordered

\* hashmap_sort is a rearrangement of the abstract map.
LEMMA SortMaps ==
    ASSUME MapInv, CallInv, hashmap_sort
    PROVE  CallInv' /\ Abstract!Rearrange
<1>1. call.op = "none" /\ UNCHANGED <<call, out>>
  BY DEF hashmap_sort
<1>2. CallInv' /\ Request' = Request
  BY <1>1 DEF CallInv, Request
<1>3. Request = Abstract!NoRequest
  BY <1>1 DEF CallInv, Request, Idle, Abstract!NoRequest
<1>4. Reordered(Entries, Entries')
  BY SortReorders
<1> QED BY <1>1, <1>2, <1>3, <1>4
        DEF Abstract!Rearrange, Reordered, Abstract!Bijection, Abstract!Injection,
            Abstract!Surjection, Abstract!IsInjective, Bijection, Injection, Surjection,
            IsInjective

\* Every step of the map is a step of the abstract one, or not seen.
LEMMA MapStep ==
    ASSUME MapInv, CallInv, [Next]_vars
    PROVE  CallInv' /\ [Abstract!Call \/ Abstract!Return \/ Abstract!Rearrange]_Abstract!mapVars
<1>1. ASSUME NEW op \in Ops \ {"get"}, NEW k \in Keys, NEW v \in Values, Enter(op, k, v)
      PROVE  CallInv' /\ Abstract!Call
  BY <1>1, EnterMaps
<1>2. ASSUME NEW k \in Keys, Enter("get", k, 0) PROVE CallInv' /\ Abstract!Call
  <2>1. PICK op, v : op = "get" /\ v = 0 /\ op \in Ops
    BY DEF Ops
  <2> QED BY <1>2, <2>1, EnterMaps
<1>3. CASE hashmap_resize
  BY <1>3, ResizeMaps
<1>4. CASE hashmap_set \/ hashmap_get_set \/ hashmap_set_free \/ hashmap_get
  BY <1>4, ReturnMaps
<1>5. CASE hashmap_sort
  BY <1>5, SortMaps
<1>6. CASE UNCHANGED vars
  <2>1. UNCHANGED <<heap, first, count, call, out>>
    BY <1>6 DEF vars
  <2> QED BY <2>1 DEF CallInv, Abstract!mapVars, Entries, Visited, Request
<1>7. CASE Finished
  BY <1>6, <1>7 DEF Finished
<1> QED BY <1>1, <1>2, <1>3, <1>4, <1>5, <1>6, <1>7 DEF Next

\* A hashmap is the insertion-ordered map that map.h describes.
THEOREM MapIsOrdered == Spec => RefinesOrderedMap
<1>1. hashmap_create => CallInv /\ Abstract!Init
  BY MapInit
<1>2. MapInv /\ CallInv /\ [Next]_vars =>
         CallInv' /\ [Abstract!Call \/ Abstract!Return \/ Abstract!Rearrange]_Abstract!mapVars
  BY MapStep
<1> QED BY <1>1, <1>2, Invariant, PTL DEF Spec, RefinesOrderedMap, Abstract!Spec

-----------------------------------------------------------------------------
(* The sort of a list of keys *)

\* The keys 1..n of the buckets that hashmap_sort gets from SortKeys.
KeyMemory(keys) ==
    [data |-> [k \in 1..Len(keys) |-> [key |-> keys[k]]],
     next |-> [k \in 1..Len(keys) |-> IF k = Len(keys) THEN NULL ELSE k + 1]]

\* SortKeys in terms of the list that the sort leaves.
LEMMA SortKeysIs ==
    ASSUME NEW keys, NEW r, NEW head, NEW list,
           head = (IF Len(keys) = 0 THEN NULL ELSE 1),
           r = _hashmap_msort(KeyMemory(keys), head, Len(keys)),
           list = ListFrom(r.next, head, Len(keys) + 1)
    PROVE  SortKeys(keys) = [k \in DOMAIN list |-> r.data[list[k]].key]
  BY DEF SortKeys, KeyMemory

\* hashmap_sort of map.c, with whatever the comparisons return, only rearranges
\* a list of different keys: what the planner of replay.c takes it to do.
THEOREM SortRearranges ==
    ASSUME NEW S, NEW keys \in Seq(S), IsInjective(keys)
    PROVE  \E p \in Bijection(DOMAIN keys, DOMAIN keys) :
               SortKeys(keys) = [k \in DOMAIN keys |-> keys[p[k]]]
<1>1. PICK n \in Nat : n = Len(keys)
  OBVIOUS
<1>2. DOMAIN keys = 1..n /\ \A k \in 1..n : keys[k] \in S
  BY <1>1
<1>3. \A j, k \in 1..n : keys[j] = keys[k] => j = k
  BY <1>2 DEF IsInjective
<1>4. PICK D, X, L : D = 1..n /\ X = [key : S] /\ L = [k \in 1..n |-> k]
  OBVIOUS
<1>5. NULL \notin D
  BY <1>4 DEF NULL
<1>6. PICK d, g : /\ d = [k \in 1..n |-> [key |-> keys[k]]]
                  /\ g = [k \in 1..n |-> IF k = n THEN NULL ELSE k + 1]
  OBVIOUS
<1>7. d \in [D -> X]
  BY <1>2, <1>4, <1>6
<1>8. g \in [D -> D \cup {NULL}]
  <2>1. \A k \in 1..n : k # n => k + 1 \in 1..n
    OBVIOUS
  <2> QED BY <1>4, <1>6, <2>1
<1>9. PICK m : m = [data |-> d, next |-> g]
  OBVIOUS
<1>10. m \in Memory(D, X) /\ m.data = d /\ m.next = g
  BY <1>7, <1>8, <1>9 DEF Memory
<1>11. Chain(m.next, L, n)
  <2>1. DOMAIN g = 1..n /\ L \in [1..n -> 1..n] /\ \A k \in 1..n : L[k] = k
    BY <1>4, <1>6
  <2>2. \A k \in 1..n : g[L[k]] = IF k = n THEN NULL ELSE L[k + 1]
    <3>1. \A k \in 1..n : k # n => k + 1 \in 1..n
      OBVIOUS
    <3> QED BY <1>6, <2>1, <3>1
  <2> QED BY <1>10, <2>1, <2>2 DEF Chain
<1>12. PICK head : head = FirstOf(L, n)
  OBVIOUS
<1>13. head = IF n = 0 THEN NULL ELSE 1
  <2>1. n # 0 => 1 \in 1..n
    OBVIOUS
  <2> QED BY <1>4, <1>12, <2>1 DEF FirstOf
<1>14. PICK r : r = _hashmap_msort(m, head, n)
  OBVIOUS
<1>15. Resorted(D, X, L, n, m, r)
  BY <1>5, <1>10, <1>11, <1>12, <1>14, SortEffect
<1>16. PICK R : /\ Chain(r.next, R, n) /\ R[1] = L[1]
                /\ {R[z] : z \in 1..n} = {L[z] : z \in 1..n}
  BY <1>15 DEF Resorted
<1>17. r \in Memory(D, X) /\ SameData({L[z] : z \in 1..n}, m.data, r.data)
  BY <1>15 DEF Resorted
<1>18. {L[z] : z \in 1..n} = 1..n
  BY <1>4
<1>19. {r.data[a] : a \in 1..n} = {d[a] : a \in 1..n}
  BY <1>10, <1>17, <1>18 DEF SameData
<1>20. PICK list : list = ListFrom(r.next, head, n + 1)
  OBVIOUS
<1>21. list = R
  <2>1. FirstOf(R, n) = head
    BY <1>12, <1>16 DEF FirstOf
  <2>2. NULL \notin DOMAIN r.next
    BY <1>5, <1>17 DEF Memory
  <2> QED BY <1>16, <1>20, <2>1, <2>2, WalkIsList
<1>22. SortKeys(keys) = [k \in 1..n |-> r.data[R[k]].key]
  <2>1. m = KeyMemory(keys)
    BY <1>1, <1>6, <1>9 DEF KeyMemory
  <2>2. DOMAIN R = 1..n
    BY <1>16 DEF Chain
  <2> QED BY <1>1, <1>13, <1>14, <1>20, <1>21, <2>1, <2>2, SortKeysIs
<1>23. PICK t : t = [k \in 1..n |-> r.data[R[k]].key]
  OBVIOUS
<1>24. \A k \in 1..n : \E a \in 1..n : keys[a] = t[k]
  <2> SUFFICES ASSUME NEW k \in 1..n PROVE \E a \in 1..n : keys[a] = t[k]
    OBVIOUS
  <2>1. R[k] \in 1..n
    BY <1>16, <1>18
  <2>2. PICK a \in 1..n : r.data[R[k]] = d[a]
    BY <1>19, <2>1
  <2>3. t[k] = d[a].key
    BY <1>23, <2>2
  <2>4. d[a].key = keys[a]
    BY <1>6
  <2> QED BY <2>3, <2>4
<1>25. \A a \in 1..n : \E k \in 1..n : t[k] = keys[a]
  <2> SUFFICES ASSUME NEW a \in 1..n PROVE \E k \in 1..n : t[k] = keys[a]
    OBVIOUS
  <2>1. PICK q \in 1..n : r.data[q] = d[a]
    BY <1>19
  <2>2. PICK k \in 1..n : R[k] = q
    BY <1>16, <1>18
  <2>3. t[k] = d[a].key
    BY <1>23, <2>1, <2>2
  <2>4. d[a].key = keys[a]
    BY <1>6
  <2> QED BY <2>3, <2>4
<1>26. PICK p : p = [k \in 1..n |-> CHOOSE a \in 1..n : keys[a] = t[k]]
  OBVIOUS
<1>27. p \in [1..n -> 1..n] /\ \A k \in 1..n : keys[p[k]] = t[k]
  BY <1>24, <1>26
<1>28. p \in Bijection(1..n, 1..n)
  <2>1. ASSUME NEW a \in 1..n PROVE \E k \in 1..n : p[k] = a
    <3>1. PICK k \in 1..n : t[k] = keys[a]
      BY <1>25
    <3>2. p[k] \in 1..n /\ keys[p[k]] = keys[a]
      BY <1>27, <3>1
    <3> QED BY <1>3, <3>2
  <2>2. p \in Surjection(1..n, 1..n)
    BY <1>27, <2>1 DEF Surjection
  <2>3. p \in Injection(1..n, 1..n)
    BY <2>2, FS_Interval, FS_SurjSameCardinalityImpliesInj
  <2> QED BY <2>2, <2>3 DEF Bijection
<1>29. SortKeys(keys) = [k \in 1..n |-> keys[p[k]]]
  BY <1>22, <1>23, <1>27
<1> QED BY <1>2, <1>28, <1>29
=============================================================================
