CONSTANTS
    s1 = s1  s2 = s2  n1 = n1  n2 = n2
    Sessions = {s1, s2}
    Ids = {n1, n2}
    IdOf <- OwnId
    Trusted = {n2}
    MaxPeers = 1
    NoSession = NoSession
    SubscribeMayFail = FALSE
    Loops = {"peerInfo", "backend"}
    Interrupts = 2
    EndpointsMayFail = TRUE
SPECIFICATION LaunchFairSpec
INVARIANT ReturnedIsQuiet
PROPERTIES StopReturns ShutdownCompletes
CHECK_DEADLOCK FALSE
