------------------------------ MODULE Hashmap ------------------------------
(***************************************************************************)
(* map.c, the hashmap replay.c collects a trace in: open addressing with   *)
(* linear probing, and a linked list through the occupied buckets.  The    *)
(* removable variant is not compiled in and not modelled.                  *)
(*                                                                         *)
(* Memory.  "heap" maps the address of every allocated bucket to its       *)
(* contents.  A table of capacity c lives at the addresses c..2c-1, so the *)
(* tables of two capacities never overlap and a pointer left over from     *)
(* before a resize is recognisable.  HEAD is &m->first, the "imaginary     *)
(* bucket" whose next pointer is m->first.                                 *)
(*                                                                         *)
(* A call is one operation, but hashmap_resize moves one entry per step.   *)
(***************************************************************************)
EXTENDS Integers, Sequences, HashmapSort

CONSTANTS
    Keys,                       \* numbers, compared as numbers by the sort
    Values, NoKey,
    HashFunctions,              \* hash_data is one of these
    HASHMAP_DEFAULT_CAPACITY

\* A map of capacity 1 would resize while empty, which hashmap_resize excludes.
ASSUME HashmapAssumption ==
    /\ Keys \subseteq Nat /\ NoKey \in Int \ Keys
    /\ Values \subseteq Int /\ HashFunctions \subseteq [Keys -> Nat]
    /\ HASHMAP_DEFAULT_CAPACITY \in Nat \ {0, 1}

VARIABLES
    hash,               \* hash_data of every key
    capacity, heap, first, last, count,
    call,               \* the operation in progress
    out,                \* what the operation gave back
    sorted              \* has hashmap_sort been called?

vars == <<hash, capacity, heap, first, last, count, call, out, sorted>>

HEAD == 0
HASHMAP_RESIZE_FACTOR == 2

\* Mutant: fills the whole table before it grows.
OverloadedWhenFull(n, c) == n > c

Overloaded(n, c) == 4 * n > 3 * c        \* n > HASHMAP_MAX_LOAD * c

Table(c) == c..2 * c - 1

EmptyBucket == [key |-> NoKey, val |-> 0, next |-> NULL]
calloc(c) == [a \in Table(c) |-> EmptyBucket]

NoResult == [found |-> FALSE, val |-> 0]
Idle == [op |-> "none", key |-> NoKey, val |-> 0, at |-> "done"]
Ops == {"set", "get_set", "set_free", "get"}

hashmap_create ==
    /\ hash \in HashFunctions
    /\ capacity = HASHMAP_DEFAULT_CAPACITY
    /\ heap = calloc(HASHMAP_DEFAULT_CAPACITY)
    /\ first = NULL /\ last = HEAD /\ count = 0
    /\ call = Idle /\ out = NoResult /\ sorted = FALSE

\* The bucket that probe number d for key k looks at.
Probe(k, d) == capacity + ((hash[k] + d) % capacity)

\* The first bucket of k's probe sequence whose key is one of "stop".  The
\* loop of the code never ends when there is none.
ProbeStops(k, stop, d) == heap[Probe(k, d)].key \in stop
ProbeEnds(k, stop) == \E d \in 0..capacity - 1 : ProbeStops(k, stop, d)
FirstProbe(k, stop) ==
    Probe(k, CHOOSE d \in 0..capacity - 1 :
                 /\ ProbeStops(k, stop, d)
                 /\ \A e \in 0..d - 1 : ~ProbeStops(k, stop, e))

\* Mutant: probes the new table from its start, whatever the hash.
resize_entry_from_0(k) ==
    CHOOSE a \in Table(capacity) :
        heap[a].key = NoKey /\ \A c \in capacity..a - 1 : heap[c].key # NoKey

resize_entry(k) == FirstProbe(k, {NoKey})
find_entry(k) == FirstProbe(k, {NoKey, k})

\* Mutant: an entry is not linked behind its predecessor.
SetNextForgets(h, p, q) == h

\* The table h with p->next = q; for HEAD, the caller sets first.
SetNext(h, p, q) == IF p = HEAD THEN h ELSE [h EXCEPT ![p].next = q]
NextOf(p) == IF p = HEAD THEN first ELSE heap[p].next

-----------------------------------------------------------------------------
\* A caller enters an operation; replay.c does so only before it sorts, and the
\* sort leaves last where it was and keys where no probe finds them.  All but
\* hashmap_get make room first.
Enter(op, k, v) ==
    /\ call.op = "none"
    /\ ~sorted
    /\ IF op # "get" /\ Overloaded(count + 1, capacity)
       THEN /\ capacity' = capacity * HASHMAP_RESIZE_FACTOR
            /\ heap' = [a \in DOMAIN heap \cup Table(capacity') |->
                           IF a \in DOMAIN heap THEN heap[a] ELSE EmptyBucket]
            /\ last' = HEAD
            /\ call' = [op |-> op, key |-> k, val |-> v, at |-> "resize"]
       ELSE /\ call' = [op |-> op, key |-> k, val |-> v, at |-> "find"]
            /\ UNCHANGED <<capacity, heap, last>>
    /\ out' = NoResult
    /\ UNCHANGED <<hash, first, count, sorted>>

\* One round of the do-while loop: copy the next entry of the list into the
\* new table, relink it, and free the old table after the last one.
hashmap_resize ==
    /\ call.at = "resize"
    /\ LET old == NextOf(last)
           k == heap[old].key
           entry == resize_entry(k)
           copied == SetNext([heap EXCEPT ![entry] = heap[old]], last, entry)
           over == copied[entry].next = NULL
       IN  /\ ProbeEnds(k, {NoKey})
           /\ first' = IF last = HEAD THEN entry ELSE first
           /\ last' = entry
           /\ heap' = IF over THEN [a \in Table(capacity) |-> copied[a]]
                              ELSE copied
           /\ call' = [call EXCEPT !.at = IF over THEN "find" ELSE "resize"]
    /\ UNCHANGED <<hash, capacity, count, out, sorted>>

\* The tail that hashmap_set, hashmap_get_set and hashmap_set_free share:
\* link a new entry at the end of the list.
Insert(entry, k, v) ==
    /\ first' = IF last = HEAD THEN entry ELSE first
    /\ heap' = [SetNext(heap, last, entry) EXCEPT
                    ![entry] = [key |-> k, val |-> v, next |-> NULL]]
    /\ last' = entry
    /\ count' = count + 1

\* Mutant: the loop is not left when the entry is found.
FindingAgain(op) ==
    /\ call.at = "find" /\ call.op = op
    /\ ProbeEnds(call.key, {NoKey, call.key})
    /\ UNCHANGED <<call, hash, capacity, sorted>>

Finding(op) ==
    /\ call.at = "find" /\ call.op = op
    /\ ProbeEnds(call.key, {NoKey, call.key})
    /\ call' = Idle
    /\ UNCHANGED <<hash, capacity, sorted>>

\* Mutant: an entry that exists keeps its value.
OverwriteNothing(entry, v) == UNCHANGED <<heap, first, last, count>>

Overwrite(entry, v) ==
    /\ heap' = [heap EXCEPT ![entry].val = v]
    /\ UNCHANGED <<first, last, count>>

hashmap_set ==
    /\ Finding("set")
    /\ LET entry == find_entry(call.key)
       IN  IF heap[entry].key = NoKey THEN Insert(entry, call.key, call.val)
                                      ELSE Overwrite(entry, call.val)
    /\ UNCHANGED out

hashmap_get_set ==
    /\ Finding("get_set")
    /\ LET entry == find_entry(call.key)
       IN  IF heap[entry].key = NoKey
           THEN /\ Insert(entry, call.key, call.val)
                /\ out' = [found |-> FALSE, val |-> call.val]
           ELSE /\ out' = [found |-> TRUE, val |-> heap[entry].val]
                /\ UNCHANGED <<heap, first, last, count>>

\* The callback receives the entry that is about to be overwritten.
hashmap_set_free ==
    /\ Finding("set_free")
    /\ LET entry == find_entry(call.key)
       IN  IF heap[entry].key = NoKey
           THEN Insert(entry, call.key, call.val) /\ UNCHANGED out
           ELSE /\ out' = [found |-> TRUE, val |-> heap[entry].val]
                /\ Overwrite(entry, call.val)

hashmap_get ==
    /\ Finding("get")
    /\ LET entry == find_entry(call.key)
       IN  out' = [found |-> heap[entry].key # NoKey, val |-> heap[entry].val]
    /\ UNCHANGED <<heap, first, last, count>>

\* hashmap_sort: m->last stays as it was.
hashmap_sort ==
    /\ call.op = "none"
    /\ ~sorted
    /\ LET m == [data |-> [a \in DOMAIN heap |->
                              [key |-> heap[a].key, val |-> heap[a].val]],
                 next |-> [a \in DOMAIN heap |-> heap[a].next]]
           r == _hashmap_msort(m, first, count)
       IN  heap' = [a \in DOMAIN heap |-> [key |-> r.data[a].key,
                                           val |-> r.data[a].val,
                                           next |-> r.next[a]]]
    /\ sorted' = TRUE
    /\ UNCHANGED <<hash, capacity, first, last, count, call, out>>

\* hashmap_free, or no caller left.
Finished == call.op = "none" /\ sorted /\ UNCHANGED vars

Next ==
    \/ \E op \in Ops \ {"get"}, k \in Keys, v \in Values : Enter(op, k, v)
    \/ \E k \in Keys : Enter("get", k, 0)
    \/ hashmap_resize
    \/ hashmap_set \/ hashmap_get_set \/ hashmap_set_free \/ hashmap_get
    \/ hashmap_sort
    \/ Finished

\* A call that was entered goes on: there is one thread and nothing to wait for.
Spec == hashmap_create /\ [][Next]_vars
        /\ WF_vars(hashmap_resize \/ hashmap_set \/ hashmap_get_set
                     \/ hashmap_set_free \/ hashmap_get)

-----------------------------------------------------------------------------
(* Properties *)

Occupied == {a \in Table(capacity) : heap[a].key # NoKey}

\* What foreach_hashmap_bucket visits; one step more than there are entries
\* would show a cycle.
Visited == ListFrom([a \in DOMAIN heap |-> heap[a].next], first, count + 1)

TypeOK ==
    /\ hash \in HashFunctions
    /\ capacity \in Nat /\ count \in Nat
    /\ Table(capacity) \subseteq DOMAIN heap
    /\ \A a \in DOMAIN heap :
          /\ heap[a].key \in Keys \cup {NoKey}
          /\ heap[a].val \in Values \cup {0}
          /\ heap[a].next \in DOMAIN heap \cup {NULL}
    /\ first \in DOMAIN heap \cup {NULL}
    /\ last \in Table(capacity) \cup {HEAD}
    /\ call.op \in Ops \cup {"none"} /\ call.at \in {"resize", "find", "done"}

\* A probe for any key, present or not, meets a free bucket before it comes
\* round, so the for (;;) loops of find_entry and resize_entry end.  Entering an
\* operation that adds a key leaves a quarter of the table free.  (All variables
\* keep their types.)
FreeBucketRemains ==
    /\ TypeOK
    /\ \E a \in Table(capacity) : heap[a].key = NoKey
    /\ call.at = "find" /\ call.op # "get" => ~Overloaded(count + 1, capacity)

\* Between two calls the list starts at first, visits every occupied bucket of
\* the current table once, and ends at last: no entry is lost and no pointer
\* into a freed table survives a resize.
ListIsTable ==
    call.at # "resize" /\ ~sorted =>
        LET list == Visited
        IN  /\ Len(list) = count
            /\ ToSet(list) = Occupied
            /\ IF count = 0 THEN last = HEAD
               ELSE last = list[count] /\ heap[last].next = NULL

\* Every key in the map is where find_entry looks for it.  (hashmap_sort moves
\* the keys to other buckets; replay.c looks nothing up after it.)
EveryKeyFindable ==
    call.at # "resize" /\ ~sorted =>
        \A a \in Occupied : find_entry(heap[a].key) = a

\* hashmap_sort loses no entry and duplicates none, also where the difference
\* trace_container_cmp returns wraps around and the comparisons contradict each
\* other (1 before 3, 3 before 6, 6 before 1).
SortKeepsEntries ==
    [][hashmap_sort =>
         /\ Len(Visited') = count
         /\ {<<heap'[a].key, heap'[a].val>> : a \in ToSet(Visited')} =
            {<<heap[a].key, heap[a].val>> : a \in ToSet(Visited)}]_vars

\* Every call returns: the probe and resize loops end.
CallsReturn == call.op # "none" ~> call.op = "none"

\* A hashmap used as replay.c does (any operations, then one sort) is the
\* insertion-ordered map of map.h; during a resize the list runs through the
\* new table and on through the old one.
Entries == LET list == Visited
           IN  [p \in DOMAIN list |-> [key |-> heap[list[p]].key,
                                       val |-> heap[list[p]].val]]
Request == [op |-> call.op, key |-> call.key, val |-> call.val]
Abstract == INSTANCE OrderedMap WITH entries <- Entries, req <- Request
RefinesOrderedMap == Abstract!Spec

\* hashmap_sort with the compare contract of map.h (a < b => -1): the list is
\* in ascending order of the keys afterwards.
SortSorts == [][hashmap_sort =>
    \A p \in 1..count - 1 :
        heap'[Visited'[p]].key <= heap'[Visited'[p + 1]].key]_vars
=============================================================================
