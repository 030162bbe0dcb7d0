SPECIFICATION Spec
CONSTANTS
    p1 = p1
    p2 = p2
    Label = {"m", "x"}
    Peer <- MCPeer
    Served <- MCServed
    First <- MCFirst
    Own <- MCOwn
    Bad = {}
    MaxRequestHeaders = 2
    MaxRequestBodies = 2
    MaxUnknownNewBlocks = 1
    MaxKnown = 1
    MaxUnknown = 1
    MaxDowns = 0
    MaxCommits = 1
    NoBlock = NoBlock
INVARIANT NoStall
CHECK_DEADLOCK FALSE
