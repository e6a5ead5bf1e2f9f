SPECIFICATION Spec
CONSTANTS
    TotalPages = {2, 3}
    BlockPages = {1, 2}
    HolePercents = {67, 100, 150}
    Capacity = 3
    MaxInvocations = 3
INVARIANTS HolesExact FitsInHoles 
PROPERTY AgingEnds
