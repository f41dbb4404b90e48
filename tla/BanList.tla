------------------------------- MODULE BanList -------------------------------
(***************************************************************************)
(* What `budu ban` and `budu unban` promise: the ban list changes in one    *)
(* step, by exactly the entry that was named.  A line is the network it     *)
(* names (none for a comment) and whether it expires.  A list that cannot   *)
(* be read counts as empty: the next ban then replaces it.                  *)
(***************************************************************************)
EXTENDS Naturals, Sequences

CONSTANTS Net, Kind, Initial

VARIABLES
    list,
    flaky       \* may reading the list fail?

\* The lines that are not about a network.
Without(lines, net) ==
    LET kept[k \in 0..Len(lines)] ==
            IF k = 0 THEN <<>>
            ELSE IF lines[k].net = {net} THEN kept[k - 1]
            ELSE Append(kept[k - 1], lines[k])
    IN kept[Len(lines)]

Banned(lines, net, kind) == Append(Without(lines, net), [net |-> {net}, kind |-> kind])

BanInit == list \in Initial /\ flaky \in BOOLEAN

BanNext ==
    /\ \E n \in Net : \/ \E k \in Kind : \E read \in {list} \cup {l \in {<<>>} : flaky} :
                            list' = Banned(read, n, k)
                      \/ list' = Without(list, n)
    /\ UNCHANGED flaky

banVars == <<list, flaky>>

BanSpec == BanInit /\ [][BanNext]_banVars
=============================================================================
