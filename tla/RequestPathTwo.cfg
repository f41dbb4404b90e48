\* Two requests in flight, one stage of each kind, every reload.
CONSTANTS
    Request = {r1, r2}
    edge = edge
    alice = alice
    mallory = mallory
    IP <- MCIP
    IpLists <- MCIpListsPair
    Configs <- MCConfigs
    RuleSets <- MCRuleSetsPair
    Attrs <- MCAttrsPair
    Replies <- MCRepliesPair
    Early <- MCEarlyShort
    Late <- MCLateShort
SPECIFICATION Spec
INVARIANTS
    EveryRequestTallied
    AuditMatchesMetrics
PROPERTIES
    ImplementsGate
