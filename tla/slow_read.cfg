CONSTANTS
    p1 = p1  p2 = p2
    Peers = {p1}
    Offers <- SomeOnFirst
    Sent <- EachKind
    MaxMsgSize = 2
    Limit <- TwoBytes
    NoMsg = NoMsg
SPECIFICATION Spec
INVARIANT ReadingTakesNoRoom
CHECK_DEADLOCK FALSE
