--------------------------- MODULE MCRequestPath ---------------------------
(* Instances of RequestPath for TLC. *)
EXTENDS RequestPath, TLC

CONSTANTS edge, alice, mallory

MCIP == {edge, alice, mallory}
MCIpLists == {{}, {alice}}

MCConfigs == {[detect |-> d, trusted |-> {edge}, cap |-> 1] : d \in BOOLEAN}
MCRuleSets == {[needsBody |-> b] : b \in BOOLEAN}

Req(peer, header, inspect, declared, size) ==
    [peer |-> peer, header |-> header, inspect |-> inspect, declared |-> declared, size |-> size]

\* A GET through the edge, a spoofed header, a body that fits, one that is
\* declared too large, one that turns out too large and one that is declared to fit
\* and does not.
MCAttrs == {
    Req(edge, {alice}, FALSE, {}, 0),
    Req(mallory, {alice}, TRUE, {1}, 1),
    Req(edge, {alice}, TRUE, {2}, 2),
    Req(edge, {mallory}, TRUE, {}, 2),
    Req(edge, {mallory}, TRUE, {1}, 2) }

MCReplies == {
    [inspect |-> FALSE, declared |-> {}, size |-> 2],
    [inspect |-> TRUE, declared |-> {}, size |-> 2],
    [inspect |-> TRUE, declared |-> {1}, size |-> 1],
    [inspect |-> TRUE, declared |-> {2}, size |-> 2] }

MCEarly == <<"reputation", "geoip", "ratelimit", "sanity", "normalize">>
MCLate == <<"rules", "signatures">>

\* The two-request instance keeps one stage on each side of the gate; alice is
\* allowlisted and mallory is not, and what is reloaded is the mode.
MCEarlyShort == <<"ratelimit">>
MCLateShort == <<"rules">>
MCIpListsPair == {{alice}}
MCRuleSetsPair == {[needsBody |-> TRUE]}
MCAttrsPair == {Req(edge, {alice}, FALSE, {}, 0), Req(edge, {mallory}, TRUE, {}, 1)}
MCRepliesPair == {[inspect |-> TRUE, declared |-> {}, size |-> 1]}
=============================================================================
