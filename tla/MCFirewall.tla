----------------------------- MODULE MCFirewall -----------------------------
(* An instance of Firewall for TLC. *)
EXTENDS Firewall

CONSTANTS edge, ann, bob

MCIP == {edge, ann, bob}
Line(net, until) == [net |-> net, until |-> until, bad |-> {}]
MCBanFiles == {{}, {Line({ann}, {1})}}

\* Generation 0: detect mode, bob trusted.  Later ones: block mode, nobody, a
\* response-body rule.
MCInline == [g \in 0..MaxEdits |-> {}]
MCConfigOf == [g \in 0..MaxEdits |-> [detect |-> g = 0, trusted |-> {edge}, cap |-> 1]]
MCRulesOf == [g \in 0..MaxEdits |-> [needsBody |-> g # 0]]
MCAllowOf == [g \in 0..MaxEdits |-> IF g = 0 THEN {bob} ELSE {}]

MCConfigs == {MCConfigOf[g] : g \in 0..MaxEdits}
MCRuleSets == {MCRulesOf[g] : g \in 0..MaxEdits}
MCIpLists == SUBSET MCIP

MCAttrs == {[peer |-> edge, header |-> {h}, inspect |-> FALSE, declared |-> {}, size |-> 0] : h \in {ann, bob}}
MCReplies == {[inspect |-> TRUE, declared |-> {}, size |-> 1]}
MCEarly == <<"reputation">>
MCLate == <<>>
MCFeedLines == [f \in {} |-> {}]
=============================================================================
