\* One request of every kind, the full pipeline, every reload.
CONSTANTS
    Request = {r1}
    edge = edge
    alice = alice
    mallory = mallory
    IP <- MCIP
    IpLists <- MCIpLists
    Configs <- MCConfigs
    RuleSets <- MCRuleSets
    Attrs <- MCAttrs
    Replies <- MCReplies
    Early <- MCEarly
    Late <- MCLate
SPECIFICATION FairSpec
INVARIANTS
    TypeOK
    ForwardedWasCleared
    WholeBodyInspected
    BypassIsTotal
    PathInv
    OneModePerRequest
    ReemittedWhole
PROPERTIES
    OnlyPeersStall
