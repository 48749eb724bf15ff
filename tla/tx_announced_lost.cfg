CONSTANTS
    p1 = p1  p2 = p2  t1 = t1  t2 = t2  a1 = a1
    Peers = {p1, p2}
    Txs = {t1, t2}
    Subs = {a1}
    Price <- EdgePrice
    MinGasPrice = 1
    Signed = {t1, t2}
    CacheCap = 2
    ChCap = 1
    SubCap = 1
    MaxSubs = 1
    SoftLimit = 1
    MaxMsgLen = 2
    MaxMsgs = 1
    NoTx = NoTx
SPECIFICATION Spec
INVARIANT ReceivedIsHooked
CHECK_DEADLOCK FALSE
