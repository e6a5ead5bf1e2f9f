SPECIFICATION Spec
CONSTANTS
    Keys = {1, 2, 3, 6}
    Values = {1, 2}
    NoKey <- MCNoKey
    HashFunctions <- MCHashFunctions
    HASHMAP_DEFAULT_CAPACITY = 2
    INT_BITS = 3
INVARIANTS FreeBucketRemains ListIsTable EveryKeyFindable
PROPERTIES SortKeepsEntries CallsReturn RefinesOrderedMap
