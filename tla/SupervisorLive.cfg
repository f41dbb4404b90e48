\* Liveness: one edit, any signals, a feed that may fail.
CONSTANTS
    ann = ann
    bob = bob
    feedA = feedA
    IP <- MCIP
    Fail2ban = TRUE
    Inline <- MCInline
    BanFiles <- MCOneBanFile
    Feed <- MCFeed
    FeedLines <- MCFeedLines
    BadZone = {}
    Periodic = TRUE
    MaxEdits = 1
    MaxTime = 0
SPECIFICATION FairSpec
PROPERTIES
    ReloadEventually
    ExitAfterCancel
CHECK_DEADLOCK FALSE
