CONSTANTS
    n1 = n1  n2 = n2
    Nodes = {n1, n2}
    Me = me
    NoNode = NoNode
    Reports <- EachOther
    MaxPeers = 1
    ChCap = 1
    MaxTries = 2
SPECIFICATION FairSpec
INVARIANT TypeOK
PROPERTIES SaveKeepsLoaded WarmStart StopFinishes
CHECK_DEADLOCK FALSE
