SPECIFICATION Spec
CONSTANTS
    Keys = {1, 2}
    Values = {1, 2}
    NoKey <- MCNoKey
    HashFunctions <- MCHashFunctions
    HASHMAP_DEFAULT_CAPACITY = 2
    INT_BITS = 16
PROPERTY SortSorts
