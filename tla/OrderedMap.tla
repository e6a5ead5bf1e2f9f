----------------------------- MODULE OrderedMap -----------------------------
(***************************************************************************)
(* What map.h promises of a hashmap: a map whose entries stay in the order *)
(* they were added, which is the order hashmap_iterate and                 *)
(* foreach_hashmap_bucket visit them in, until hashmap_sort rearranges     *)
(* them.  A call takes effect at one moment, whatever the map does inside. *)
(***************************************************************************)
EXTENDS Integers, Sequences, Functions

CONSTANTS Keys, Values, NoKey

VARIABLES entries,      \* the sequence of [key, val], in order
          req,          \* the call under way
          out           \* what it gave back

mapVars == <<entries, req, out>>

NoRequest == [op |-> "none", key |-> NoKey, val |-> 0]
NoResult == [found |-> FALSE, val |-> 0]

Init == entries = <<>> /\ req = NoRequest /\ out = NoResult

Call ==
    /\ req = NoRequest
    /\ req' \in [op : {"set", "get_set", "set_free"}, key : Keys, val : Values]
                  \cup [op : {"get"}, key : Keys, val : {0}]
    /\ out' = NoResult
    /\ UNCHANGED entries

Has(k) == \E p \in DOMAIN entries : entries[p].key = k
Lookup(k) ==
    LET p == CHOOSE p \in DOMAIN entries : entries[p].key = k
    IN  IF Has(k) THEN [found |-> TRUE, val |-> entries[p].val] ELSE NoResult

Add(k, v) == entries' = Append(entries, [key |-> k, val |-> v])
Put(k, v) ==
    LET old == entries
        Written(e) == IF e.key = k THEN [key |-> k, val |-> v] ELSE e
    IN  IF Has(k) THEN entries' = [p \in DOMAIN old |-> Written(old[p])]
                  ELSE Add(k, v)

\* The entry is there afterwards, with the new value; hashmap_set_free hands
\* out the value it overwrites.
Set == req.op = "set" /\ Put(req.key, req.val) /\ UNCHANGED out
SetFree == req.op = "set_free" /\ Put(req.key, req.val) /\ out' = Lookup(req.key)

\* The value of the entry, "regardless of whether or not it existed in the
\* first place".
GetSet ==
    /\ req.op = "get_set"
    /\ IF Has(req.key)
       THEN out' = Lookup(req.key) /\ UNCHANGED entries
       ELSE out' = [found |-> FALSE, val |-> req.val] /\ Add(req.key, req.val)

Get == req.op = "get" /\ out' = Lookup(req.key) /\ UNCHANGED entries

Return == (Set \/ SetFree \/ GetSet \/ Get) /\ req' = NoRequest

\* hashmap_sort keeps every entry, in some order.
Rearrange ==
    /\ req = NoRequest
    /\ UNCHANGED <<req, out>>
    /\ LET old == entries
           new == entries'
       IN  \E p \in Bijection(DOMAIN old, DOMAIN old) :
              new = [n \in DOMAIN old |-> old[p[n]]]

Spec == Init /\ [][Call \/ Return \/ Rearrange]_mapVars
=============================================================================
