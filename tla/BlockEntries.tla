---------------------------- MODULE BlockEntries ----------------------------
(***************************************************************************)
(* Block and allow lists of budu-reputation: what a line of a list file    *)
(* means, when an entry is in force, and what pruning keeps.  A list is the *)
(* set of its entries: it is only ever scanned with any().  A network is    *)
(* the set of addresses it contains, an optional expiry a set of at most    *)
(* one time.                                                                *)
(***************************************************************************)
EXTENDS Naturals

CONSTANT Fail2ban   \* is the fail2ban feature (timed entries) compiled in?

ASSUME Fail2banAssumption == Fail2ban \in BOOLEAN

\* BlockEntry::active: no expiry, or one that is later than now.
Active(e, now) == \A u \in e.until : u > now

\* contains / ReputationStage::inspect: some entry in force covers the address.
Matched(list, ip, now) == \E e \in list : Active(e, now) /\ ip \in e.net

\* BlockEntry::perm over an inline list of networks.
Perm(nets) == {[net |-> n, until |-> {}] : n \in nets}

\* A line is kept when its network parses and, with the fail2ban feature, its
\* until= parses and is still to come (line_until).  One bad line drops itself.
Kept(line, now) ==
    /\ "net" \notin line.bad
    /\ Fail2ban => "until" \notin line.bad /\ Active(line, now)

\* parse_blocklist.  Without the feature every entry is permanent.
ParseBlocklist(lines, now) ==
    {[net |-> l.net, until |-> IF Fail2ban THEN l.until ELSE {}] :
        l \in {k \in lines : Kept(k, now)}}

\* Fault: an entry is pruned a second before it expires.
PrunedEarly(list, now) == {e \in list : Active(e, now + 1)}

\* prune_expired: the entries still in force.
Pruned(list, now) == {e \in list : Active(e, now)}
=============================================================================
