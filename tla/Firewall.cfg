\* One request against a supervisor with one edit, bans that expire and a reload.
CONSTANTS
    edge = edge
    ann = ann
    bob = bob
    IP <- MCIP
    Fail2ban = TRUE
    Inline <- MCInline
    BanFiles <- MCBanFiles
    Feed = {}
    FeedLines <- MCFeedLines
    BadZone = {}
    Periodic = FALSE
    MaxEdits = 1
    MaxTime = 1
    Request = {r1}
    IpLists <- MCIpLists
    Configs <- MCConfigs
    RuleSets <- MCRuleSets
    Attrs <- MCAttrs
    Replies <- MCReplies
    Early <- MCEarly
    Late <- MCLate
    ConfigOf <- MCConfigOf
    RulesOf <- MCRulesOf
    AllowOf <- MCAllowOf
SPECIFICATION Spec
INVARIANTS
    BanKeepsOut
    ReloadReachesRequests
    BodyRuleReachesReplies
PROPERTIES
    ImplementsRequestPath
CHECK_DEADLOCK FALSE
