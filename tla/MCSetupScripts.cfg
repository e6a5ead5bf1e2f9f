SPECIFICATION Spec
CONSTANTS
    NovaBranches = {"master", "denova", "regulate"}
    NvdedupBranches = {"nv-master"}
    Swapping = {"regulate"}
    Versions = {1, 2}
INVARIANT PmemIsTested
 
PROPERTY FirstSetupWins
