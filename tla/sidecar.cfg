CONSTANTS
    sentry = sentry  std1 = std1  std2 = std2  h1 = h1  h2 = h2
    Sources = {sentry, std1, std2}
    Sonic = {sentry}
    Hashes = {h1}
    Window = 4
    Period = 2
    MaxHold = 3
    MaxAnnounced = 2
    NoHash = NoHash
    NoEntry = NoEntry
SPECIFICATION FairSpec
INVARIANTS AnnouncementsAccounted TrackedNotLong
PROPERTY ReceivedIsRecorded
