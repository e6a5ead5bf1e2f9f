----------------------------- MODULE TraceSort -----------------------------
(***************************************************************************)
(* trace_container_sort_infomap_by_ts of replay.c, the merge sort of the   *)
(* records of a worker.  Positions start at 1 where the code's start at 0. *)
(* infos_map is a sequence of records [ts, line]: the line of the trace    *)
(* tells records of equal time apart.                                      *)
(***************************************************************************)
EXTENDS Integers, Sequences

RECURSIVE MergeUnstable(_, _), Merge(_, _), _trace_infomap_msort_by_ts(_, _, _)

\* Mutant: "<" for "<=".
MergeUnstable(x, y) ==
    IF x = <<>> THEN y
    ELSE IF y = <<>> THEN x
    ELSE IF Head(x).ts < Head(y).ts THEN <<Head(x)>> \o MergeUnstable(Tail(x), y)
    ELSE <<Head(y)>> \o MergeUnstable(x, Tail(y))

\* temp, after the three while loops over the two halves.
Merge(x, y) ==
    IF x = <<>> THEN y
    ELSE IF y = <<>> THEN x
    ELSE IF Head(x).ts <= Head(y).ts THEN <<Head(x)>> \o Merge(Tail(x), y)
    ELSE <<Head(y)>> \o Merge(x, Tail(y))

\* temp is copied back over begin..end.
_merge_array_by_ts(a, begin, mid, end) ==
    LET temp == Merge(SubSeq(a, begin, mid), SubSeq(a, mid + 1, end))
    IN  [k \in DOMAIN a |-> IF k \in begin..end THEN temp[k - begin + 1] ELSE a[k]]

\* mid is computed on the code's positions, which are one less.
_trace_infomap_msort_by_ts(a, begin, end) ==
    IF begin >= end THEN a
    ELSE LET mid == (begin + end - 2) \div 2 + 1
             left == _trace_infomap_msort_by_ts(a, begin, mid)
             both == _trace_infomap_msort_by_ts(left, mid + 1, end)
         IN  _merge_array_by_ts(both, begin, mid, end)

\* For containers of at least one record; an empty one is
\* ReplayPlan!SortEmptyContainer.
trace_container_sort_infomap_by_ts(a) == _trace_infomap_msort_by_ts(a, 1, Len(a))
=============================================================================
