CONSTANTS
    p1 = p1  p2 = p2
    Peers = {p1, p2}
    Offers <- SomeOnFirst
    Sent <- EachKind
    MaxMsgSize = 2
    Limit <- TwoBytes
    NoMsg = NoMsg
SPECIFICATION FairSpec
INVARIANTS RoomAccounted OkIsVerified
PROPERTIES GoroutinesEnd SessionEnds
CHECK_DEADLOCK FALSE
