CONSTANTS
    s1 = s1  s2 = s2  h1 = h1  h2 = h2  h3 = h3
    Senders = {s1, s2}
    Hashes = {h1, h2, h3}
    Size <- Sizes
    MaxItems = 2
    MaxSize = 3
    Capacity = 2
    MaxSends = 3
    NoHash = NoHash
SPECIFICATION FairSpec
INVARIANTS PermitsAccounted RoomForHolders KnownIsJustified RingMatchesSet
PROPERTIES CloseReleases ImplementsFifo ImplementsOutbox
CHECK_DEADLOCK FALSE
