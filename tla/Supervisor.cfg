\* Reload, bans and shutdown with two edits.
CONSTANTS
    ann = ann
    bob = bob
    feedA = feedA
    IP <- MCIP
    Fail2ban = TRUE
    Inline <- MCInline
    BanFiles <- MCBanFiles
    Feed <- MCFeed
    FeedLines <- MCFeedLines
    BadZone = {1}
    Periodic = TRUE
    MaxEdits = 2
    MaxTime = 2
SPECIFICATION Spec
INVARIANTS
    ApplyAllOrNothing
    ReloadTookEffect
    BansInForce
    HangupSurvived
PROPERTIES
    MaintenanceIsInvisible
CHECK_DEADLOCK FALSE
