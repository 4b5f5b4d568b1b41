SPECIFICATION FairSpec
CONSTANTS
    p1 = p1
    p2 = p2
    Peer = {p1, p2}
    Backlog = 2
    Limit = 2
    MaxThreads = 3
    None = None
INVARIANTS
    TypeOK
    DescriptorsOwned
    ProcessInv
PROPERTIES
    EveryoneServed
    DescriptorsReturn
