---------------------------- MODULE MCSupervisor ----------------------------
(* Instances of Supervisor for TLC. *)
EXTENDS Supervisor

CONSTANTS ann, bob, feedA

MCIP == {ann, bob}

\* Config generation 0 blocks nobody inline, later ones block bob.
MCInline == [g \in Gen |-> IF g = 0 THEN {} ELSE {{bob}}]

Line(net, until, bad) == [net |-> net, until |-> until, bad |-> bad]

\* No bans; ann until time 1 (with a line that does not parse); ann for good.
MCBanFiles == {
    {},
    {Line({ann}, {1}, {}), Line({}, {}, {"net"})},
    {Line({ann}, {}, {}), Line({bob}, {}, {"until"})} }

MCOneBanFile == {{Line({ann}, {1}, {})}}

MCFeed == {feedA}
MCFeedLines == [f \in MCFeed |-> {Line({bob}, {2}, {})}]
=============================================================================
