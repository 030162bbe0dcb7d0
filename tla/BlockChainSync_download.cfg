SPECIFICATION Spec
CONSTANTS
    p1 = p1
    p2 = p2
    Label = {"m", "x"}
    Peer <- MCPeer
    Served <- MCServed
    First <- MCFirst
    Own <- MCOwn
    Bad <- MCBad
    MaxRequestHeaders = 2
    MaxRequestBodies = 2
    MaxUnknownNewBlocks = 1
    MaxKnown = 1
    MaxUnknown = 1
    MaxDowns = 1
    MaxCommits = 2
    NoBlock = NoBlock
INVARIANTS
    TypeOK
    NoOrphans
    BodiesMatch
    HeadersAbove
    RemovesFirst
CHECK_DEADLOCK FALSE
