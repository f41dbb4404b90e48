----------------------------- MODULE MCBanFile -----------------------------
(* Instances of BanFile for TLC. *)
EXTENDS BanFile, TLC

CONSTANTS n1, n2

Comment == [net |-> {}, kind |-> "permanent"]
Entry(n, k) == [net |-> {n}, kind |-> k]

\* An empty list, a list with a comment, one with a duplicate.
MCInitial == {
    <<>>,
    <<Comment, Entry(n1, "timed")>>,
    <<Entry(n1, "timed"), Entry(n2, "permanent"), Entry(n1, "permanent")>> }

\* Commands are interchangeable.
MCSymmetry == Permutations(Editor)
=============================================================================
