SPECIFICATION Spec
CONSTANTS
    Root = "/"
    None = NoNode
    Nodes <- MCNodes
    Parent <- MCParent
    Name <- MCName
    Kind <- MCKind
    Sizes = {0, 1, 2}
    LinkSizes = {1, 256}
    ThreadNums = {0, 2}
    BufLens = {0, 2}
INVARIANTS  DestinationIsPrefix LoadIsBalanced
PROPERTY CopyEnds
