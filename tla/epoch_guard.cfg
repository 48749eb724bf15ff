CONSTANTS
    p1 = p1
    Peers = {p1}
    Grace = 1
    MaxEpoch = 3
    NotStale = NotStale
SPECIFICATION FairSpec
INVARIANT GuardInv
PROPERTIES LocalNeverBack AgreementForgives LaggardsLeave LocalCatchesUp
