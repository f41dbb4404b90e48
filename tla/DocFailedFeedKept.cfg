\* A documented promise: FailedFeedKept.
CONSTANTS
    ann = ann
    bob = bob
    feedA = feedA
    IP <- MCIP
    Fail2ban = TRUE
    Inline <- MCInline
    BanFiles <- MCBanFiles
    Feed <- MCFeed
    FeedLines <- MCFeedLines
    BadZone = {}
    Periodic = TRUE
    MaxEdits = 2
    MaxTime = 2
SPECIFICATION Spec
PROPERTY FailedFeedKept
CHECK_DEADLOCK FALSE
