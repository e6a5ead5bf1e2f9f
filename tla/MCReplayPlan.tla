---------------------------- MODULE MCReplayPlan ----------------------------
EXTENDS ReplayPlan, HashmapSort
\* The list that hashmap_sort(map, trace_container_cmp) leaves behind,
\* tabulated once for all lists of keys.
MCSorted == {<<s, SortKeys(s)>> : s \in KeyLists}
MCSort(s) == (CHOOSE pair \in MCSorted : pair[1] = s)[2]
=============================================================================
