CONSTANTS
    s1 = s1  s2 = s2  s3 = s3  n1 = n1  n2 = n2
    Sessions = {s1, s2, s3}
    Ids = {n1, n2}
    IdOf <- SharedId
    Trusted = {n2}
    MaxPeers = 1
    NoSession = NoSession
    SubscribeMayFail = TRUE
    Loops = {"peerInfo", "backend"}
SPECIFICATION Spec
INVARIANTS LifecycleInv PeerSetOwned ClosedDisconnects StoppedIsEmpty
PROPERTY ImplementsRegistry
