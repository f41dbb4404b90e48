\* A documented promise: TermHonoured.
CONSTANTS
    ann = ann
    bob = bob
    feedA = feedA
    IP <- MCIP
    Fail2ban = TRUE
    Inline <- MCInline
    BanFiles <- MCOneBanFile
    Feed <- MCFeed
    FeedLines <- MCFeedLines
    BadZone = {}
    Periodic = TRUE
    MaxEdits = 1
    MaxTime = 0
SPECIFICATION FairSpec
PROPERTY TermHonoured
CHECK_DEADLOCK FALSE
