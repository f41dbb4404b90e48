--------------------------- MODULE CrsImportProofs ---------------------------
(***************************************************************************)
(* What `budu import-crs` guarantees for rule files of any length, with any *)
(* chains, comments, continuations and broken rules: every SecRule is       *)
(* accounted for once, and what is imported means what the source means.    *)
(***************************************************************************)
EXTENDS CrsImport, FiniteSetTheorems, SequenceTheorems, TLAPS

-----------------------------------------------------------------------------
(* Induction by the least counterexample. *)

\* A set of naturals that is not empty has a least element.
LEMMA LeastNat ==
    ASSUME NEW T \in SUBSET Nat, T # {}
    PROVE  \E m \in T : \A n \in T : m <= n
<1> DEFINE Less == {ss \in Nat \X Nat : ss[1] < ss[2]}
<1>1. IsWellFoundedOn(Less, Nat)
    BY NatLessThanWellFounded, Zenon DEF OpToRel
<1> HIDE DEF Less
<1>2. PICK m \in T : \A n \in T : <<n, m>> \notin Less
    BY <1>1, WFMin
<1>3. \A n \in T : ~(n < m)
    BY <1>2 DEF Less
<1> QED BY <1>3

\* A set that holds 0 and, with a number below n, the next one, holds all
\* numbers up to n.
LEMMA UpTo ==
    ASSUME NEW n \in Nat, NEW P, 0 \in P, \A k \in 1..n : k - 1 \in P => k \in P
    PROVE  n \in P /\ \A k \in 0..n : k \in P
<1> DEFINE T == (0..n) \ P
<1>0. n \in 0..n
    OBVIOUS
<1> SUFFICES ASSUME T # {} PROVE FALSE
    BY <1>0
<1>1. T \in SUBSET Nat
    OBVIOUS
<1>2. PICK m \in T : \A k \in T : m <= k
    BY <1>1, LeastNat
<1>3. m \in 1..n /\ m - 1 \in 0..n /\ m - 1 \notin T
    BY <1>2
<1> QED BY <1>2, <1>3

-----------------------------------------------------------------------------
(* Joining lines. *)

Line == [tokens : Seq(Tokens), continued : BOOLEAN]

\* What one more line makes of the lines joined so far.
JoinStep(acc, l) ==
    IF l.continued THEN [out |-> acc.out, cur |-> acc.cur \o l.tokens]
    ELSE [out |-> Append(acc.out, acc.cur \o l.tokens), cur |-> <<>>]

Joins(f, physical, n) ==
    f = [k \in 0..n |-> IF k = 0 THEN [out |-> <<>>, cur |-> <<>>] ELSE JoinStep(f[k - 1], physical[k])]

\* The loop of join_continuations is well defined.
LEMMA JoinExists ==
    ASSUME NEW physical, NEW n \in Nat
    PROVE  \E f : Joins(f, physical, n)
<1> DEFINE P == {m \in Nat : \E f : Joins(f, physical, m)}
<1>1. 0 \in P
    <2>1. Joins([k \in 0..0 |-> [out |-> <<>>, cur |-> <<>>]], physical, 0)
        BY DEF Joins
    <2> QED BY <2>1
<1>2. ASSUME NEW m \in 1..n, m - 1 \in P PROVE m \in P
    <2>1. PICK f : Joins(f, physical, m - 1)
        BY <1>2
    <2> DEFINE g == [k \in 0..m |-> IF k = m THEN JoinStep(f[m - 1], physical[m]) ELSE f[k]]
    <2>2. \A k \in 0..m : k # m => g[k] = f[k] /\ k \in 0..(m - 1)
        OBVIOUS
    <2>3. \A k \in 0..(m - 1) : f[k] = IF k = 0 THEN [out |-> <<>>, cur |-> <<>>]
                                       ELSE JoinStep(f[k - 1], physical[k])
        BY <2>1 DEF Joins
    <2>4. ASSUME NEW k \in 0..m
          PROVE  g[k] = IF k = 0 THEN [out |-> <<>>, cur |-> <<>>] ELSE JoinStep(g[k - 1], physical[k])
        <3>1. CASE k = m
            <4>1. g[k] = JoinStep(f[k - 1], physical[k]) /\ g[k - 1] = f[k - 1]
                BY <3>1
            <4> HIDE DEF g
            <4> QED BY <3>1, <4>1
        <3>2. CASE k # m
            <4>1. k # 0 => g[k - 1] = f[k - 1]
                BY <3>2
            <4>2. g[k] = f[k] /\ k \in 0..(m - 1)
                BY <2>2, <3>2
            <4> HIDE DEF g
            <4> QED BY <2>3, <4>1, <4>2
        <3> QED BY <3>1, <3>2
    <2>5. DOMAIN g = 0..m /\ g = [k \in 0..m |-> g[k]]
        OBVIOUS
    <2> HIDE DEF g
    <2>6. Joins(g, physical, m)
        BY <2>4, <2>5 DEF Joins
    <2> QED BY <2>6
<1> HIDE DEF P
<1>3. n \in P
    BY <1>1, <1>2, UpTo
<1> QED BY <1>3 DEF P

\* Joined lines are sequences of the tokens of the physical ones.
LEMMA JoinType ==
    ASSUME NEW physical \in Seq(Line)
    PROVE  JoinContinuations(physical) \in Seq(Seq(Tokens))
<1> DEFINE n == Len(physical)
           upTo == CHOOSE f : Joins(f, physical, n)
           P == {k \in 0..n : upTo[k].out \in Seq(Seq(Tokens)) /\ upTo[k].cur \in Seq(Tokens)}
<1>1. n \in Nat /\ \A k \in 1..n : physical[k] \in Line
    OBVIOUS
<1>2. Joins(upTo, physical, n)
    BY <1>1, JoinExists
<1>3. JoinContinuations(physical) = IF upTo[n].cur = <<>> THEN upTo[n].out
                                    ELSE Append(upTo[n].out, upTo[n].cur)
    BY DEF JoinContinuations, Joins, JoinStep
<1> HIDE DEF upTo, n
<1>4. 0 \in P
    BY <1>1, <1>2 DEF Joins
<1>5. ASSUME NEW k \in 1..n, k - 1 \in P PROVE k \in P
    <2>0. k \in 0..n
        BY <1>1
    <2>1. upTo[k] = JoinStep(upTo[k - 1], physical[k])
        BY <1>1, <1>2 DEF Joins
    <2>2. physical[k].tokens \in Seq(Tokens)
        BY <1>1 DEF Line
    <2>3. upTo[k - 1].out \in Seq(Seq(Tokens)) /\ upTo[k - 1].cur \o physical[k].tokens \in Seq(Tokens)
        BY <1>5, <2>2
    <2>4. CASE physical[k].continued
        <3>1. upTo[k] = [out |-> upTo[k - 1].out, cur |-> upTo[k - 1].cur \o physical[k].tokens]
            BY <2>1, <2>4 DEF JoinStep
        <3>2. upTo[k].out \in Seq(Seq(Tokens)) /\ upTo[k].cur \in Seq(Tokens)
            BY <2>3, <3>1
        <3> QED BY <2>0, <3>2
    <2>5. CASE ~physical[k].continued
        <3>1. upTo[k] = [out |-> Append(upTo[k - 1].out, upTo[k - 1].cur \o physical[k].tokens), cur |-> <<>>]
            BY <2>1, <2>5 DEF JoinStep
        <3>2. Append(upTo[k - 1].out, upTo[k - 1].cur \o physical[k].tokens) \in Seq(Seq(Tokens))
            BY <2>3
        <3>3. upTo[k].out \in Seq(Seq(Tokens)) /\ upTo[k].cur \in Seq(Tokens)
            BY <3>1, <3>2
        <3> QED BY <2>0, <3>3
    <2> QED BY <2>4, <2>5
<1> HIDE DEF P
<1>6. n \in Nat
    BY <1>1
<1>7. n \in P
    BY <1>4, <1>5, <1>6, UpTo
<1> QED BY <1>3, <1>7 DEF P

-----------------------------------------------------------------------------
(* Sequences of anything. *)

IsSeq(s) == s \in Seq(ToSet(s))

\* What appending does.
LEMMA AppendAny ==
    ASSUME NEW s, IsSeq(s), NEW e
    PROVE  /\ IsSeq(Append(s, e)) /\ Len(s) \in Nat /\ DOMAIN s = 1..Len(s)
           /\ Len(Append(s, e)) = Len(s) + 1
           /\ DOMAIN Append(s, e) = 1..(Len(s) + 1)
           /\ \A k \in 1..Len(s) : Append(s, e)[k] = s[k]
           /\ Append(s, e)[Len(s) + 1] = e
           /\ ToSet(Append(s, e)) = ToSet(s) \cup {e}
<1> DEFINE S == ToSet(s) \cup {e}
           t == Append(s, e)
<1>1. s \in Seq(S)
    BY SeqMonotonic DEF IsSeq
<1>2. /\ t \in Seq(S) /\ Len(s) \in Nat /\ DOMAIN s = 1..Len(s)
      /\ Len(t) = Len(s) + 1
      /\ \A k \in 1..Len(s) : t[k] = s[k]
      /\ t[Len(s) + 1] = e
    BY <1>1, AppendProperties
<1>3. DOMAIN t = 1..(Len(s) + 1)
    BY <1>2, LenProperties
<1> HIDE DEF t, S
<1>4. ToSet(t) = ToSet(s) \cup {e}
    <2>1. \A k \in 1..(Len(s) + 1) : k \in 1..Len(s) \/ k = Len(s) + 1
        BY <1>2
    <2>2. 1..Len(s) \subseteq 1..(Len(s) + 1) /\ Len(s) + 1 \in 1..(Len(s) + 1)
        BY <1>2
    <2> QED BY <1>2, <1>3, <2>1, <2>2 DEF ToSet
<1>5. t \in Seq(ToSet(t))
    BY <1>2, <1>4 DEF S
<1> QED BY <1>2, <1>3, <1>4, <1>5 DEF t, IsSeq

\* What joining does.
LEMMA ConcatAny ==
    ASSUME NEW s, IsSeq(s), NEW t, IsSeq(t)
    PROVE  IsSeq(s \o t) /\ Len(s) \in Nat /\ Len(t) \in Nat /\ Len(s \o t) = Len(s) + Len(t)
<1> DEFINE S == ToSet(s) \cup ToSet(t)
           c == s \o t
<1>1. s \in Seq(S) /\ t \in Seq(S)
    BY SeqMonotonic DEF IsSeq
<1>2. c \in Seq(S) /\ Len(s) \in Nat /\ Len(t) \in Nat /\ Len(c) = Len(s) + Len(t)
    BY <1>1
<1>3. DOMAIN c = 1..Len(c) /\ \A k \in 1..Len(c) : c[k] \in ToSet(c)
    <2>1. DOMAIN c = 1..Len(c)
        BY <1>2, LenProperties
    <2> HIDE DEF c
    <2> QED BY <2>1 DEF ToSet
<1> HIDE DEF c, S
<1>4. c = [k \in 1..Len(c) |-> c[k]]
    BY <1>2, <1>3
<1>5. c \in Seq(ToSet(c))
    <2>1. Len(c) \in Nat
        BY <1>2
    <2>2. [k \in 1..Len(c) |-> c[k]] \in Seq(ToSet(c))
        BY <1>3, <2>1, IsASeq
    <2> QED BY <1>4, <2>2
<1> QED BY <1>2, <1>5 DEF c, IsSeq

-----------------------------------------------------------------------------
(* The scan. *)

\* The unit that ended with a line, and the malformed lines reported so far.
Uses(l) == {u \in DOMAIN units : l \in ToSet(units[u].members)}
IsMember(l) == l \in 1..(i - 1) /\ IsSecRule(lines[l]) /\ IsWellFormed(lines[l])
IsMalformed(l) == l \in 1..(i - 1) /\ IsSecRule(lines[l]) /\ ~IsWellFormed(lines[l])
Reported == {l \in 1..(i - 1) : IsMalformed(l) /\ \E k \in DOMAIN report.skipped :
                                    report.skipped[k] = [id |-> {}, at |-> l]}
Swallowed == {units[u].next - 1 : u \in {n \in DOMAIN units : units[n].broken}}

\* Nothing is scanned before all files are read.
ReadInv ==
    /\ pc \in {"read", "scan", "chain", "build", "done", "failed"}
    /\ files \in Seq(Seq(Line)) /\ text \in Seq(Line)
    /\ lines \in Seq(Seq(Tokens)) /\ i \in 1..(Len(lines) + 1)
    /\ pc = "read" => /\ lines = <<>> /\ i = 1 /\ members = <<>> /\ units = <<>>
                      /\ report = [converted |-> 0, skipped |-> <<>>, warnings |-> {}]

\* The chain being collected: well-formed SecRules already passed, the last of
\* which announced another while the chain is open.
ChainInv ==
    /\ IsSeq(members) /\ (pc \in {"chain", "build"}) = (members # <<>>)
    /\ \A m \in ToSet(members) : IsMember(m)
    /\ pc = "chain" => IsChained(members[Len(members)])

\* The chains built: no line is in two of them, or in one and in the open chain.
UnitsInv ==
    /\ IsSeq(units)
    /\ \A u \in DOMAIN units : \A l \in ToSet(units[u].members) :
            /\ IsMember(l) /\ l \notin ToSet(members)
            /\ \A v \in DOMAIN units : v # u => l \notin ToSet(units[v].members)

\* Every SecRule passed is in a chain, was reported as malformed, or was consumed
\* by a chain that broke at it, which may be about to be built.
CoverInv ==
    \A l \in 1..(i - 1) : IsSecRule(lines[l]) =>
        \/ Uses(l) # {} \/ l \in ToSet(members) \/ l \in Reported \/ l \in Swallowed
        \/ pc = "build" /\ l = i - 1 /\ IsChained(members[Len(members)])

\* The report has one entry for every chain built and for every malformed line.
ReportInv ==
    /\ report = [converted |-> report.converted, skipped |-> report.skipped, warnings |-> report.warnings]
    /\ report.converted \in Nat /\ IsSeq(report.skipped)
    /\ \A k \in DOMAIN report.skipped : LET l == report.skipped[k].at IN IsMalformed(l) \/ Uses(l) # {}
    /\ IsFiniteSet(Reported)
    /\ report.converted + Len(report.skipped) = Len(units) + Cardinality(Reported)

ScanInv == ReadInv /\ ChainInv /\ UnitsInv /\ CoverInv /\ ReportInv

\* A line is a sequence of tokens, and a SecRule is no comment.
LEMMA LineFacts ==
    ASSUME ReadInv
    PROVE  /\ Len(lines) \in Nat /\ i \in Nat /\ i >= 1
           /\ \A l \in DOMAIN lines : IsSkippable(lines[l]) => ~IsSecRule(lines[l])
<1>1. ASSUME NEW l \in DOMAIN lines, IsSkippable(lines[l]), IsSecRule(lines[l]) PROVE FALSE
    <2>1. lines[l] \in Seq(Tokens)
        BY DEF ReadInv
    <2>2. lines[l] # <<>>
        BY <1>1, <2>1 DEF IsSecRule
    <2> QED BY <1>1, <2>2 DEF IsSkippable, IsSecRule
<1> QED BY <1>1 DEF ReadInv

\* Reading files and joining their lines.
LEMMA ReadStep ==
    ASSUME ScanInv, ReadFile \/ ReadFails \/ JoinLines
    PROVE  ScanInv'
<1> USE DEF ScanInv
<1>1. pc = "read" /\ members = <<>> /\ units = <<>> /\ i = 1 /\ lines = <<>>
      /\ report = [converted |-> 0, skipped |-> <<>>, warnings |-> {}]
    BY DEF ReadInv, ReadFile, ReadFails, JoinLines
<1>2. members' = <<>> /\ units' = <<>> /\ i' = 1 /\ report' = report /\ pc' \notin {"chain", "build"}
    BY <1>1 DEF ReadFile, ReadFails, JoinLines
<1>3. (ChainInv /\ UnitsInv /\ CoverInv /\ ReportInv)'
    <2>1. IsSeq(<<>>) /\ ToSet(<<>>) = {} /\ 1..(i' - 1) = {}
        BY <1>2 DEF IsSeq, ToSet
    <2>2. Reported' = {}
        BY <2>1 DEF Reported
    <2>3. ChainInv'
        BY <1>2, <2>1 DEF ChainInv
    <2>4. UnitsInv'
        BY <1>2, <2>1 DEF UnitsInv
    <2>5. CoverInv'
        BY <2>1 DEF CoverInv
    <2>6. ReportInv'
        BY <1>1, <1>2, <2>1, <2>2, FS_EmptySet DEF ReportInv
    <2> QED BY <2>3, <2>4, <2>5, <2>6
<1>4. ReadInv'
    <2>1. CASE ReadFile
        <3>1. Head(files) \in Seq(Line) /\ Tail(files) \in Seq(Seq(Line))
            BY <2>1, HeadTailProperties DEF ReadFile, ReadInv
        <3>2. EmptyLine \in Line
            BY DEF EmptyLine, Line
        <3>3. Append(text \o Head(files), EmptyLine) \in Seq(Line)
            BY <3>1, <3>2 DEF ReadInv
        <3> QED BY <1>1, <2>1, <3>1, <3>3 DEF ReadFile, ReadInv
    <2>2. CASE ReadFails
        BY <1>1, <2>2 DEF ReadFails, ReadInv
    <2>3. CASE JoinLines
        <3>1. JoinContinuations(text) \in Seq(Seq(Tokens))
            BY JoinType DEF ReadInv
        <3>2. lines' = JoinContinuations(text) /\ i' = 1 /\ pc' = "scan" /\ UNCHANGED <<files, text>>
            BY <1>1, <2>3 DEF JoinLines
        <3>3. Len(lines') \in Nat /\ 1 \in 1..(Len(lines') + 1)
            BY <3>1, <3>2
        <3> QED BY <3>1, <3>2, <3>3 DEF ReadInv
    <2> QED BY <2>1, <2>2, <2>3
<1> QED BY <1>3, <1>4

\* Lines passed stay passed.
LEMMA Passed ==
    ASSUME ReadInv, UNCHANGED lines, i' \in {i, i + 1}, NEW l
    PROVE  (IsMember(l) => IsMember(l)') /\ (IsMalformed(l) => IsMalformed(l)')
           /\ (l \in 1..(i' - 1) => l \in 1..(i - 1) \/ (l = i /\ i' = i + 1))
<1>1. i \in Nat /\ i >= 1
    BY LineFacts
<1> QED BY <1>1 DEF IsMember, IsMalformed

\* A line that is no SecRule is passed over, outside a chain or in it.
LEMMA PassStep ==
    ASSUME ScanInv, PassOver \/ PassOverInChain
    PROVE  ScanInv'
<1> USE DEF ScanInv
<1>1. /\ pc' = pc /\ pc \in {"scan", "chain"} /\ i' = i + 1 /\ i \in 1..Len(lines) /\ ~IsSecRule(lines[i])
      /\ UNCHANGED <<files, text, lines, members, rules, report, units>>
    BY LineFacts DEF PassOver, PassOverInChain, AtEnd, ReadInv
<1>2. ReadInv'
    BY <1>1, LineFacts DEF ReadInv
<1>3. ChainInv'
    <2>1. \A m \in ToSet(members) : IsMember(m)'
        BY <1>1, Passed DEF ChainInv
    <2> QED BY <1>1, <2>1 DEF ChainInv, IsChained
<1>4. UnitsInv'
    <2>1. \A l : IsMember(l) => IsMember(l)'
        BY <1>1, Passed
    <2> QED BY <1>1, <2>1, SMTT(40) DEF UnitsInv
<1>5. Reported' = Reported
    <2>1. \A l : IsMalformed(l)' <=> IsMalformed(l)
        BY <1>1, LineFacts DEF IsMalformed
    <2>2. \A l : IsMalformed(l) => l \in 1..(i - 1) /\ l \in 1..(i' - 1)
        BY <1>1, <2>1 DEF IsMalformed
    <2> QED BY <1>1, <2>1, <2>2 DEF Reported
<1>6. CoverInv'
    <2> SUFFICES ASSUME NEW l \in 1..(i' - 1), IsSecRule(lines[l])
                 PROVE  (\/ Uses(l) # {} \/ l \in ToSet(members) \/ l \in Reported \/ l \in Swallowed)'
        BY <1>1 DEF CoverInv
    <2>1. l \in 1..(i - 1)
        BY <1>1, Passed
    <2> QED BY <1>1, <1>5, <2>1 DEF CoverInv, Uses, Swallowed
<1>7. ReportInv'
    <2>1. \A l : (IsMalformed(l) => IsMalformed(l)') /\ Uses(l)' = Uses(l)
        BY <1>1, Passed DEF Uses
    <2> QED BY <1>1, <1>5, <2>1 DEF ReportInv
<1> QED BY <1>2, <1>3, <1>4, <1>6, <1>7

\* A malformed SecRule outside a chain is reported.
LEMMA MalformedStep ==
    ASSUME ScanInv, Malformed
    PROVE  ScanInv'
<1> USE DEF ScanInv
<1>1. PICK s, c, w, e, j :
        /\ s = report.skipped /\ c = report.converted /\ w = report.warnings
        /\ j = i /\ e = [id |-> {}, at |-> j]
    OBVIOUS
<1> DEFINE n == Len(s)
<1>2. /\ pc' = "scan" /\ pc = "scan" /\ i' = j + 1 /\ j \in 1..Len(lines)
      /\ IsSecRule(lines[j]) /\ ~IsWellFormed(lines[j])
      /\ UNCHANGED <<files, text, lines, members, rules, units>>
    BY <1>1, LineFacts DEF Malformed, AtEnd, ReadInv
<1>3. report' = [converted |-> c, skipped |-> Append(s, e), warnings |-> w]
    <2>1. report = [converted |-> c, skipped |-> s, warnings |-> w]
        BY <1>1 DEF ReportInv
    <2>2. report' = [report EXCEPT !.skipped = Append(s, e)]
        BY <1>1 DEF Malformed
    <2> QED BY <2>1, <2>2
<1>4. ReadInv'
    BY <1>2, LineFacts DEF ReadInv
<1>5. ChainInv'
    BY <1>2 DEF ChainInv, ToSet
<1>6. j \notin 1..(i - 1) /\ j \in 1..(i' - 1) /\ 1..(i - 1) \subseteq 1..(i' - 1)
      /\ \A l \in 1..(i' - 1) : l \in 1..(i - 1) \/ l = j
    BY <1>1, <1>2, LineFacts
<1>7. UnitsInv'
    <2>1. \A l : IsMember(l) => IsMember(l)'
        BY <1>2, <1>6 DEF IsMember
    <2>2. UNCHANGED <<members, units>>
        BY <1>2
    <2> QED BY <2>1, <2>2 DEF UnitsInv
<1>8. /\ IsSeq(Append(s, e)) /\ n \in Nat /\ DOMAIN s = 1..n /\ Len(Append(s, e)) = n + 1
      /\ DOMAIN Append(s, e) = 1..(n + 1)
      /\ (\A k \in 1..n : Append(s, e)[k] = s[k]) /\ Append(s, e)[n + 1] = e
    BY <1>1, AppendAny DEF ReportInv
<1> HIDE DEF n
<1>9. /\ (\A k \in 1..(n + 1) : k \in 1..n \/ k = n + 1)
      /\ 1..n \subseteq 1..(n + 1) /\ n + 1 \in 1..(n + 1)
    BY <1>8
<1>10. \A l : IsMalformed(l)' <=> IsMalformed(l) \/ l = j
    BY <1>2, <1>6 DEF IsMalformed
<1>11. j \notin Reported /\ Reported' = Reported \cup {j}
    <2>1. \A l : (\E k \in 1..(n + 1) : Append(s, e)[k] = [id |-> {}, at |-> l])
                    <=> l = j \/ \E k \in 1..n : s[k] = [id |-> {}, at |-> l]
        <3>1. \A l : e = [id |-> {}, at |-> l] <=> l = j
            BY <1>1
        <3> QED BY <1>8, <1>9, <3>1
    <2>2. \A l : IsMalformed(l) => l \in 1..(i - 1)
        BY DEF IsMalformed
    <2>3. report.skipped = s /\ report'.skipped = Append(s, e)
        BY <1>1, <1>3
    <2>4. \A l : l \in Reported <=> IsMalformed(l) /\ \E k \in 1..n : s[k] = [id |-> {}, at |-> l]
        BY <1>8, <2>2, <2>3 DEF Reported
    <2>5. \A l : l \in Reported' <=> /\ IsMalformed(l) \/ l = j
                                    /\ \E k \in 1..(n + 1) : Append(s, e)[k] = [id |-> {}, at |-> l]
        <3>1. \A l : IsMalformed(l)' => l \in 1..(i' - 1)
            BY <1>6, <1>10, <2>2
        <3> QED BY <1>8, <1>10, <2>3, <3>1 DEF Reported
    <2>6. \A l : l \in Reported' <=> l \in Reported \/ l = j
        BY <2>1, <2>4, <2>5
    <2>7. j \notin Reported
        BY <1>6, <2>2, <2>4
    <2> QED BY <2>6, <2>7
<1>12. CoverInv'
    <2> SUFFICES ASSUME NEW l \in 1..(i' - 1), IsSecRule(lines[l])
                 PROVE  (\/ Uses(l) # {} \/ l \in ToSet(members) \/ l \in Reported \/ l \in Swallowed)'
        BY <1>2 DEF CoverInv
    <2>1. CASE l = j
        BY <1>11, <2>1
    <2>2. CASE l # j
        <3>1. l \in 1..(i - 1)
            BY <1>6, <2>2
        <3> QED BY <1>2, <1>11, <3>1 DEF CoverInv, Uses, Swallowed
    <2> QED BY <2>1, <2>2
<1>13. ReportInv'
    <2>1. \A l : Uses(l)' = Uses(l)
        BY <1>2 DEF Uses
    <2>2. ASSUME NEW k \in 1..(n + 1), NEW l, l = Append(s, e)[k].at
          PROVE  IsMalformed(l)' \/ Uses(l)' # {}
        <3>1. CASE k = n + 1
            BY <1>1, <1>8, <1>10, <2>2, <3>1
        <3>2. CASE k \in 1..n
            <4>1. l = s[k].at
                BY <1>8, <2>2, <3>2
            <4>2. IsMalformed(l) \/ Uses(l) # {}
                BY <1>1, <1>8, <3>2, <4>1 DEF ReportInv
            <4> QED BY <1>10, <2>1, <4>2
        <3> QED BY <1>9, <3>1, <3>2
    <2>3. IsFiniteSet(Reported') /\ Cardinality(Reported') = Cardinality(Reported) + 1
          /\ Cardinality(Reported) \in Nat
        BY <1>11, FS_AddElement, FS_CardinalityType DEF ReportInv
    <2>4. c + (n + 1) = Len(units') + Cardinality(Reported')
        <3>1. Len(units) \in Nat /\ units' = units
            BY <1>2, AppendAny DEF UnitsInv
        <3>2. c \in Nat /\ c + n = Len(units) + Cardinality(Reported)
            BY <1>1 DEF ReportInv, n
        <3> QED BY <1>8, <2>3, <3>1, <3>2
    <2>5. c \in Nat
        BY <1>1 DEF ReportInv
    <2>6. report'.converted = c /\ report'.skipped = Append(s, e) /\ report'.warnings = w
        BY <1>3
    <2> QED BY <1>3, <1>8, <2>2, <2>3, <2>4, <2>5, <2>6 DEF ReportInv
<1> QED BY <1>4, <1>5, <1>7, <1>12, <1>13

\* A well-formed SecRule joins the chain.
LEMMA TakeStep ==
    ASSUME ScanInv, NEW from \in {"scan", "chain"}, TakeMember(from)
    PROVE  ScanInv'
<1> USE DEF ScanInv
<1>1. PICK ms, j : ms = members /\ j = i
    OBVIOUS
<1> DEFINE n == Len(ms)
           ms2 == Append(ms, j)
<1>2. /\ pc' = (IF IsChained(j) THEN "chain" ELSE "build") /\ i' = j + 1 /\ j \in 1..Len(lines)
      /\ IsSecRule(lines[j]) /\ IsWellFormed(lines[j]) /\ members' = ms2
      /\ UNCHANGED <<files, text, lines, rules, report, units>>
    BY <1>1, LineFacts DEF TakeMember, AtEnd, ReadInv
<1>3. ReadInv'
    BY <1>2, LineFacts DEF ReadInv
<1>4. /\ j \notin 1..(i - 1) /\ j \in 1..(i' - 1) /\ 1..(i - 1) \subseteq 1..(i' - 1)
      /\ \A l \in 1..(i' - 1) : l \in 1..(i - 1) \/ l = j
    BY <1>1, <1>2, LineFacts
<1>5. /\ IsSeq(ms2) /\ n \in Nat /\ Len(ms2) = n + 1
      /\ ms2[n + 1] = j /\ ToSet(ms2) = ToSet(ms) \cup {j}
    BY <1>1, AppendAny DEF ChainInv
<1> HIDE DEF ms2, n
<1>6. \A l : IsMember(l)' <=> IsMember(l) \/ l = j
    BY <1>2, <1>4 DEF IsMember
<1>7. ms2 # <<>>
    BY <1>5
<1>8. ChainInv'
    <2>1. (pc' \in {"chain", "build"}) = (members' # <<>>)
        BY <1>2, <1>7
    <2>2. \A m \in ToSet(members') : IsMember(m)'
        BY <1>1, <1>2, <1>5, <1>6 DEF ChainInv
    <2>3. pc' = "chain" => IsChained(members[Len(members)])'
        <3>1. members'[Len(members')] = j
            BY <1>2, <1>5
        <3>2. pc' = "chain" => IsChained(j)
            BY <1>2
        <3>3. IsChained(members[Len(members)])' = ParseSecRule(lines[j]).acts.chain
            BY <1>2, <3>1 DEF IsChained
        <3> QED BY <3>2, <3>3 DEF IsChained
    <2> QED BY <1>2, <1>5, <2>1, <2>2, <2>3 DEF ChainInv
<1>9. UnitsInv'
    <2>1. ASSUME NEW u \in DOMAIN units, NEW l \in ToSet(units[u].members)
          PROVE  IsMember(l)' /\ l \notin ToSet(ms2) /\ l \notin ToSet(ms)
        <3>1. IsMember(l) /\ l \notin ToSet(ms)
            BY <1>1 DEF UnitsInv
        <3>2. l # j
            BY <1>4, <3>1 DEF IsMember
        <3> QED BY <1>5, <1>6, <3>1, <3>2
    <2>2. units' = units /\ members' = ms2
        BY <1>2
    <2> QED BY <2>1, <2>2 DEF UnitsInv
<1>10. \A l : (IsMalformed(l)' <=> IsMalformed(l)) /\ Uses(l)' = Uses(l)
    BY <1>2, <1>4 DEF IsMalformed, Uses
<1>11. Reported' = Reported
    <2>1. \A l : IsMalformed(l) => l \in 1..(i - 1) /\ l \in 1..(i' - 1)
        BY <1>4 DEF IsMalformed
    <2>2. report' = report
        BY <1>2
    <2> QED BY <1>10, <2>1, <2>2 DEF Reported
<1>12. CoverInv'
    <2> SUFFICES ASSUME NEW l \in 1..(i' - 1), IsSecRule(lines[l])
                 PROVE  (\/ Uses(l) # {} \/ l \in ToSet(members) \/ l \in Reported \/ l \in Swallowed)'
        BY <1>2 DEF CoverInv
    <2>1. CASE l = j
        BY <1>2, <1>5, <2>1
    <2>2. CASE l # j
        <3>1. l \in 1..(i - 1) /\ pc # "build"
            BY <1>4, <2>2 DEF TakeMember
        <3>2. Uses(l) # {} \/ l \in ToSet(ms) \/ l \in Reported \/ l \in Swallowed
            BY <1>1, <3>1 DEF CoverInv
        <3>3. Swallowed' = Swallowed
            BY <1>2 DEF Swallowed
        <3> QED BY <1>2, <1>5, <1>10, <1>11, <3>2, <3>3
    <2> QED BY <2>1, <2>2
<1>13. ReportInv'
    <2>1. report' = report /\ units' = units
        BY <1>2
    <2> QED BY <1>10, <1>11, <2>1 DEF ReportInv
<1> QED BY <1>3, <1>8, <1>9, <1>12, <1>13

\* A chain ends early, at the end of the input or at a line that it consumes.
LEMMA BreakStep ==
    ASSUME ScanInv, BreakChain
    PROVE  ScanInv'
<1> USE DEF ScanInv
<1>1. /\ pc = "chain" /\ pc' = "build" /\ i' \in {i, i + 1} /\ (i' = i + 1 => i \in 1..Len(lines))
      /\ (i' = i + 1 => ~(IsSecRule(lines[i]) /\ IsWellFormed(lines[i])))
      /\ UNCHANGED <<files, text, lines, members, rules, report, units>>
    BY LineFacts DEF BreakChain, AtEnd, ReadInv
<1>2. ReadInv'
    BY <1>1, LineFacts DEF ReadInv
<1>3. \A l : (IsMember(l) => IsMember(l)') /\ (IsMalformed(l) => IsMalformed(l)') /\ Uses(l)' = Uses(l)
    BY <1>1, Passed DEF Uses
<1>4. ChainInv'
    BY <1>1, <1>3 DEF ChainInv
<1>5. UnitsInv'
    <2>1. UNCHANGED <<members, units>>
        BY <1>1
    <2> QED BY <1>3, <2>1 DEF UnitsInv
<1>6. Reported' = Reported
    <2>1. \A k \in DOMAIN report.skipped : report.skipped[k].at # i
        <3>1. \A l : IsMalformed(l) \/ Uses(l) # {} => l # i
            BY LineFacts DEF IsMalformed, Uses, UnitsInv, IsMember
        <3> QED BY <3>1 DEF ReportInv
    <2>2. \A l : IsMalformed(l)' => IsMalformed(l) \/ l = i
        BY <1>1, LineFacts DEF IsMalformed
    <2>3. \A l : IsMalformed(l) => l \in 1..(i - 1) /\ l \in 1..(i' - 1)
        BY <1>1, LineFacts DEF IsMalformed
    <2>4. \A l : \A k \in DOMAIN report.skipped : report.skipped[k] = [id |-> {}, at |-> l] => l # i
        BY <2>1
    <2>5. report' = report
        BY <1>1
    <2> QED BY <1>3, <2>2, <2>3, <2>4, <2>5 DEF Reported
<1>7. CoverInv'
    <2> SUFFICES ASSUME NEW l \in 1..(i' - 1), IsSecRule(lines[l])
                 PROVE  (\/ Uses(l) # {} \/ l \in ToSet(members) \/ l \in Reported \/ l \in Swallowed
                         \/ pc = "build" /\ l = i - 1 /\ IsChained(members[Len(members)]))'
        BY <1>1 DEF CoverInv
    <2>1. CASE l \in 1..(i - 1)
        <3>1. Uses(l) # {} \/ l \in ToSet(members) \/ l \in Reported \/ l \in Swallowed
            BY <1>1, <2>1 DEF CoverInv
        <3>2. Swallowed' = Swallowed /\ members' = members
            BY <1>1 DEF Swallowed
        <3> QED BY <1>3, <1>6, <3>1, <3>2
    <2>2. CASE l \notin 1..(i - 1)
        <3>1. l = i' - 1
            BY <1>1, <2>2, LineFacts
        <3>2. IsChained(members[Len(members)])'
            BY <1>1 DEF ChainInv, IsChained
        <3> QED BY <1>1, <3>1, <3>2
    <2> QED BY <2>1, <2>2
<1>8. ReportInv'
    <2>1. report' = report /\ units' = units
        BY <1>1
    <2> QED BY <1>3, <1>6, <2>1 DEF ReportInv
<1> QED BY <1>2, <1>4, <1>5, <1>7, <1>8

\* The members of the open chain, parsed.
Parsed(ms) == [k \in DOMAIN ms |-> ParseSecRule(lines[ms[k]])]

\* What Build adds to the units and to the report.
LEMMA BuildAdds ==
    ASSUME ScanInv, Build
    PROVE  \E em, e, id :
             /\ em = BuildRules(Parsed(members)) /\ e = [id |-> id, at |-> members[1]]
             /\ members # <<>> /\ members' = <<>> /\ pc = "build" /\ pc' = "scan"
             /\ UNCHANGED <<files, text, lines, i>>
             /\ rules' = rules \o em
             /\ units' = Append(units, [members |-> members, broken |-> IsChained(members[Len(members)]),
                                        next |-> i, emitted |-> em])
             /\ report'.converted = report.converted + (IF em = <<>> THEN 0 ELSE 1)
             /\ report'.skipped = IF em # <<>> THEN report.skipped ELSE Append(report.skipped, e)
             /\ report' = [converted |-> report'.converted, skipped |-> report'.skipped,
                           warnings |-> report'.warnings]
<1> USE DEF ScanInv
<1> DEFINE ms == Parsed(members)
           em == BuildRules(ms)
           id == ms[1].acts.id
<1>1. members # <<>> /\ Len(members) \in Nat /\ DOMAIN members = 1..Len(members)
    BY AppendAny DEF Build, ChainInv
<1>2. Len(members) \in DOMAIN members
    <2>1. Len(members) # 0
        BY <1>1 DEF ChainInv, IsSeq
    <2> QED BY <1>1, <2>1
<1>3. Len(ms) = Len(members)
    BY <1>1 DEF Parsed
<1>4. ms[Len(ms)].acts.chain = IsChained(members[Len(members)])
    BY <1>2, <1>3 DEF Parsed, IsChained
<1>5. /\ rules' = rules \o em
      /\ report' = [converted |-> report.converted + (IF em = <<>> THEN 0 ELSE 1),
                    skipped |-> IF em # <<>> THEN report.skipped
                                ELSE Append(report.skipped, [id |-> id, at |-> members[1]]),
                    warnings |-> report.warnings \cup BuildWarnings(ms)]
      /\ units' = Append(units, [members |-> members, broken |-> ms[Len(ms)].acts.chain,
                                 next |-> i, emitted |-> em])
      /\ members' = <<>> /\ pc = "build" /\ pc' = "scan" /\ UNCHANGED <<files, text, lines, i>>
    BY DEF Build, Parsed
<1> HIDE DEF em, ms, id
<1>6. /\ report'.converted = report.converted + (IF em = <<>> THEN 0 ELSE 1)
      /\ report'.skipped = (IF em # <<>> THEN report.skipped
                            ELSE Append(report.skipped, [id |-> id, at |-> members[1]]))
      /\ report' = [converted |-> report'.converted, skipped |-> report'.skipped, warnings |-> report'.warnings]
    BY <1>5
<1> WITNESS em, [id |-> id, at |-> members[1]], id
<1> QED BY <1>1, <1>4, <1>5, <1>6 DEF em, ms

\* A collected chain becomes a unit, converted or reported as skipped.
LEMMA BuildStep ==
    ASSUME ScanInv, Build
    PROVE  ScanInv'
<1> USE DEF ScanInv
<1>1. PICK em, e, id :
        /\ em = BuildRules(Parsed(members)) /\ e = [id |-> id, at |-> members[1]]
        /\ members # <<>> /\ members' = <<>> /\ pc = "build" /\ pc' = "scan"
        /\ UNCHANGED <<files, text, lines, i>>
        /\ rules' = rules \o em
        /\ units' = Append(units, [members |-> members, broken |-> IsChained(members[Len(members)]),
                                   next |-> i, emitted |-> em])
        /\ report'.converted = report.converted + (IF em = <<>> THEN 0 ELSE 1)
        /\ report'.skipped = IF em # <<>> THEN report.skipped ELSE Append(report.skipped, e)
        /\ report' = [converted |-> report'.converted, skipped |-> report'.skipped,
                      warnings |-> report'.warnings]
    BY BuildAdds
<1>2. PICK us, ms, s, c, new :
        /\ us = units /\ ms = members /\ s = report.skipped /\ c = report.converted
        /\ new = [members |-> ms, broken |-> IsChained(ms[Len(ms)]), next |-> i, emitted |-> em]
    OBVIOUS
<1> DEFINE n == Len(us)
           us2 == Append(us, new)
<1>3. /\ IsSeq(us2) /\ n \in Nat /\ DOMAIN us = 1..n /\ Len(us2) = n + 1 /\ DOMAIN us2 = 1..(n + 1)
      /\ (\A k \in 1..n : us2[k] = us[k]) /\ us2[n + 1] = new
    BY <1>2, AppendAny DEF UnitsInv
<1>4. /\ (\A k \in 1..(n + 1) : k \in 1..n \/ k = n + 1)
      /\ 1..n \subseteq 1..(n + 1) /\ n + 1 \in 1..(n + 1) /\ n + 1 \notin 1..n
    BY <1>3
<1>5. units' = us2 /\ members' = <<>> /\ ToSet(<<>>) = {} /\ IsSeq(<<>>)
    BY <1>1, <1>2 DEF ToSet, IsSeq
<1>6. \A l : (IsMember(l)' <=> IsMember(l)) /\ (IsMalformed(l)' <=> IsMalformed(l))
    BY <1>1 DEF IsMember, IsMalformed
<1>7. new.members = ms /\ new.next = i /\ new.broken = IsChained(ms[Len(ms)])
    BY <1>2
<1> HIDE DEF us2, n
<1>8. ReadInv'
    BY <1>1 DEF ReadInv
<1>9. ChainInv'
    BY <1>1, <1>5 DEF ChainInv
<1>10. UnitsInv'
    <2>1. ASSUME NEW u \in 1..(n + 1), NEW l \in ToSet(us2[u].members)
          PROVE  IsMember(l) /\ \A v \in 1..(n + 1) : v # u => l \notin ToSet(us2[v].members)
        <3>1. CASE u = n + 1
            <4>1. l \in ToSet(ms)
                BY <1>3, <1>7, <2>1, <3>1
            <4>2. IsMember(l) /\ \A v \in 1..n : l \notin ToSet(us[v].members)
                BY <1>2, <1>3, <4>1 DEF ChainInv, UnitsInv
            <4> QED BY <1>3, <1>4, <3>1, <4>2
        <3>2. CASE u \in 1..n
            <4>1. l \in ToSet(us[u].members)
                BY <1>3, <2>1, <3>2
            <4>2. IsMember(l) /\ l \notin ToSet(ms) /\ \A v \in 1..n : v # u => l \notin ToSet(us[v].members)
                BY <1>2, <1>3, <3>2, <4>1 DEF UnitsInv
            <4> QED BY <1>3, <1>4, <1>7, <4>2
        <3> QED BY <1>4, <3>1, <3>2
    <2>2. IsSeq(units') /\ DOMAIN units' = 1..(n + 1) /\ ToSet(members') = {}
        BY <1>3, <1>5
    <2>3. ASSUME NEW u \in DOMAIN units', NEW l \in ToSet(units'[u].members)
          PROVE  /\ IsMember(l)' /\ l \notin ToSet(members')
                 /\ \A v \in DOMAIN units' : v # u => l \notin ToSet(units'[v].members)
        BY <1>5, <1>6, <2>1, <2>2
    <2> QED BY <2>2, <2>3 DEF UnitsInv
<1>11. \A l : Uses(l)' = Uses(l) \cup {u \in {n + 1} : l \in ToSet(ms)}
    <2>1. ASSUME NEW l, NEW u PROVE u \in Uses(l)' <=> u \in Uses(l) \/ (u = n + 1 /\ l \in ToSet(ms))
        <3>1. u \in Uses(l)' <=> u \in 1..(n + 1) /\ l \in ToSet(us2[u].members)
            BY <1>3, <1>5 DEF Uses
        <3>2. u \in Uses(l) <=> u \in 1..n /\ l \in ToSet(us[u].members)
            BY <1>2, <1>3 DEF Uses
        <3> QED BY <1>3, <1>4, <1>7, <3>1, <3>2
    <2> QED BY <2>1
<1>12. Swallowed' = Swallowed \cup {j \in {i - 1} : IsChained(ms[Len(ms)])}
    <2>1. Swallowed' = {us2[u].next - 1 : u \in {v \in 1..(n + 1) : us2[v].broken}}
        BY <1>3, <1>5 DEF Swallowed
    <2>2. Swallowed = {us[u].next - 1 : u \in {v \in 1..n : us[v].broken}}
        BY <1>2, <1>3 DEF Swallowed
    <2> QED BY <1>3, <1>4, <1>7, <2>1, <2>2
<1>13. members[1] \in ToSet(members)
    <2>1. 1 \in DOMAIN members
        BY <1>1 DEF ChainInv, IsSeq
    <2> QED BY <2>1 DEF ToSet
<1>14. IsMember(members[1])
    BY <1>13 DEF ChainInv
<1>15. ASSUME em = <<>>
       PROVE  LET s2 == Append(s, e)
              IN /\ report'.skipped = s2 /\ IsSeq(s2) /\ Len(s) \in Nat /\ DOMAIN s = 1..Len(s)
                 /\ Len(s2) = Len(s) + 1 /\ DOMAIN s2 = 1..(Len(s) + 1)
                 /\ (\A k \in 1..Len(s) : s2[k] = s[k]) /\ s2[Len(s) + 1] = e
    BY <1>1, <1>2, <1>15, AppendAny DEF ReportInv
<1>16. Reported' = Reported
    <2>1. CASE em # <<>>
        BY <1>1, <1>6, <2>1 DEF Reported
    <2>2. CASE em = <<>>
        <3> DEFINE s2 == Append(s, e)
        <3>1. /\ DOMAIN s = 1..Len(s) /\ DOMAIN s2 = 1..(Len(s) + 1) /\ Len(s) \in Nat
              /\ (\A k \in 1..Len(s) : s2[k] = s[k]) /\ s2[Len(s) + 1] = e /\ report'.skipped = s2
            BY <1>15, <2>2
        <3> HIDE DEF s2
        <3>2. /\ (\A k \in 1..(Len(s) + 1) : k \in 1..Len(s) \/ k = Len(s) + 1)
              /\ 1..Len(s) \subseteq 1..(Len(s) + 1)
            BY <3>1
        <3>3. \A l : IsMalformed(l) => e # [id |-> {}, at |-> l]
            <4>1. \A l : e = [id |-> {}, at |-> l] => l = members[1]
                BY <1>1
            <4>2. ~IsMalformed(members[1])
                BY <1>14 DEF IsMember, IsMalformed
            <4> QED BY <4>1, <4>2
        <3>4. \A l : IsMalformed(l) =>
                ((\E k \in DOMAIN s2 : s2[k] = [id |-> {}, at |-> l])
                    <=> \E k \in DOMAIN s : s[k] = [id |-> {}, at |-> l])
            BY <3>1, <3>2, <3>3
        <3>5. i' = i
            BY <1>1
        <3> QED BY <1>2, <1>6, <3>1, <3>4, <3>5 DEF Reported
    <2> QED BY <2>1, <2>2
<1>17. CoverInv'
    <2> SUFFICES ASSUME NEW l \in 1..(i - 1), IsSecRule(lines[l])
                 PROVE  (\/ Uses(l) # {} \/ l \in ToSet(members) \/ l \in Reported \/ l \in Swallowed)'
        BY <1>1 DEF CoverInv
    <2>1. \/ Uses(l) # {} \/ l \in ToSet(ms) \/ l \in Reported \/ l \in Swallowed
          \/ l = i - 1 /\ IsChained(ms[Len(ms)])
        BY <1>2 DEF CoverInv
    <2> QED BY <1>11, <1>12, <1>16, <2>1
<1>18. ReportInv'
    <2>1. c \in Nat /\ Len(s) \in Nat /\ Cardinality(Reported) \in Nat
          /\ c + Len(s) = n + Cardinality(Reported)
        BY <1>2, AppendAny, FS_CardinalityType DEF ReportInv, n
    <2>2. Len(units') = n + 1
        BY <1>3, <1>5
    <2>3. \A l : IsMalformed(l) \/ Uses(l) # {} => IsMalformed(l)' \/ Uses(l)' # {}
        BY <1>6, <1>11
    <2>6. n \in Nat
        BY <1>3
    <2>4. CASE em # <<>>
        <3>1. report'.skipped = s /\ report'.converted = c + 1
            BY <1>1, <1>2, <2>4
        <3>2. report'.converted \in Nat
              /\ report'.converted + Len(report'.skipped) = Len(units') + Cardinality(Reported')
            BY <1>16, <2>1, <2>2, <2>6, <3>1
        <3>3. \A k \in DOMAIN s : \A l : l = s[k].at => IsMalformed(l)' \/ Uses(l)' # {}
            BY <1>2, <2>3 DEF ReportInv
        <3> QED BY <1>1, <1>2, <1>16, <3>1, <3>2, <3>3 DEF ReportInv
    <2>5. CASE em = <<>>
        <3> DEFINE s2 == Append(s, e)
        <3>1. /\ IsSeq(s2) /\ DOMAIN s = 1..Len(s) /\ DOMAIN s2 = 1..(Len(s) + 1) /\ Len(s2) = Len(s) + 1
              /\ (\A k \in 1..Len(s) : s2[k] = s[k]) /\ s2[Len(s) + 1] = e /\ report'.skipped = s2
            BY <1>15, <2>5
        <3> HIDE DEF s2
        <3>2. report'.converted = c
            BY <1>1, <1>2, <2>1, <2>5
        <3>3. report'.converted \in Nat
              /\ report'.converted + Len(report'.skipped) = Len(units') + Cardinality(Reported')
            BY <1>16, <2>1, <2>2, <2>6, <3>1, <3>2
        <3>4. ASSUME NEW k \in DOMAIN s2, NEW l, l = s2[k].at
              PROVE  IsMalformed(l)' \/ Uses(l)' # {}
            <4>1. CASE k \in 1..Len(s)
                <5>1. l = s[k].at
                    BY <3>1, <3>4, <4>1
                <5>2. IsMalformed(l) \/ Uses(l) # {}
                    BY <1>2, <3>1, <4>1, <5>1 DEF ReportInv
                <5> QED BY <2>3, <5>2
            <4>2. CASE k = Len(s) + 1
                <5>1. l = members[1]
                    BY <1>1, <3>1, <3>4, <4>2
                <5>2. l \in ToSet(ms)
                    BY <1>2, <1>13, <5>1
                <5> QED BY <1>11, <5>2
            <4> QED BY <2>1, <3>1, <4>1, <4>2
        <3> QED BY <1>1, <1>16, <3>1, <3>3, <3>4 DEF ReportInv
    <2> QED BY <2>4, <2>5
<1> QED BY <1>8, <1>9, <1>10, <1>17, <1>18
\* Before the scan there is nothing to keep.
LEMMA NothingScanned ==
    ASSUME members = <<>>, units = <<>>, i = 1,
           report = [converted |-> 0, skipped |-> <<>>, warnings |-> {}], pc \notin {"chain", "build"}
    PROVE  ChainInv /\ UnitsInv /\ CoverInv /\ ReportInv
<1>1. IsSeq(<<>>) /\ ToSet(<<>>) = {} /\ 1..(i - 1) = {}
    BY DEF IsSeq, ToSet
<1>2. Reported = {}
    BY <1>1 DEF Reported
<1>3. ChainInv
    BY <1>1 DEF ChainInv
<1>4. UnitsInv
    BY <1>1 DEF UnitsInv
<1>5. CoverInv
    BY <1>1 DEF CoverInv
<1>6. ReportInv
    BY <1>1, <1>2, FS_EmptySet DEF ReportInv
<1> QED BY <1>3, <1>4, <1>5, <1>6

\* The scan keeps its invariant.
LEMMA ScanStep ==
    ASSUME ScanInv, [Next]_vars
    PROVE  ScanInv'
<1>1. CASE ReadFile \/ ReadFails \/ JoinLines
    BY <1>1, ReadStep
<1>2. CASE PassOver \/ PassOverInChain
    BY <1>2, PassStep
<1>3. CASE Malformed
    BY <1>3, MalformedStep
<1>4. CASE TakeMember("scan") \/ TakeMember("chain")
    BY <1>4, TakeStep
<1>5. CASE BreakChain
    BY <1>5, BreakStep
<1>6. CASE Build
    BY <1>6, BuildStep
<1>7. CASE Write \/ UNCHANGED vars
    <2>1. /\ UNCHANGED <<files, text, lines, i, members, rules, report, units>>
          /\ pc' = pc \/ (pc = "scan" /\ pc' \in {"done", "failed"})
        BY <1>7 DEF Write, vars
    <2>2. Reported' = Reported /\ Swallowed' = Swallowed
          /\ \A l : IsMember(l)' = IsMember(l) /\ IsMalformed(l)' = IsMalformed(l) /\ Uses(l)' = Uses(l)
        BY <2>1 DEF Reported, Swallowed, IsMember, IsMalformed, Uses
    <2>3. ReadInv'
        BY <2>1 DEF ScanInv, ReadInv
    <2>4. ChainInv'
        BY <2>1, <2>2 DEF ScanInv, ChainInv, IsChained
    <2>5. UnitsInv'
        BY <2>1, <2>2 DEF ScanInv, UnitsInv
    <2>6. CoverInv'
        BY <2>1, <2>2 DEF ScanInv, CoverInv, IsChained
    <2>7. ReportInv'
        BY <2>1, <2>2 DEF ScanInv, ReportInv
    <2> QED BY <2>3, <2>4, <2>5, <2>6, <2>7 DEF ScanInv
<1> QED
    BY <1>1, <1>2, <1>3, <1>4, <1>5, <1>6, <1>7 DEF Next

\* The scan starts with its invariant.
LEMMA ScanInit == Init => ScanInv
<1> SUFFICES ASSUME Init PROVE ScanInv
    OBVIOUS
<1>1. ReadInv
    <2>1. files \in Seq(Seq(Line))
        BY InputsAssumption DEF Init, Line
    <2>2. <<>> \in Seq(Line) /\ <<>> \in Seq(Seq(Tokens)) /\ 1 \in 1..(Len(<<>>) + 1)
        OBVIOUS
    <2> QED BY <2>1, <2>2 DEF Init, ReadInv
<1>2. ChainInv /\ UnitsInv /\ CoverInv /\ ReportInv
    BY NothingScanned DEF Init
<1> QED BY <1>1, <1>2 DEF ScanInv

\* The whole converter does.
LEMMA ScanInvariant == Spec => []ScanInv
BY ScanInit, ScanStep, PTL DEF Spec

\* The invariant accounts for every SecRule once the scan is over.
LEMMA AllAccounted ==
    ASSUME ScanInv, pc = "done" => AtEnd
    PROVE  EachRuleOnce
<1> USE DEF ScanInv
<1> SUFFICES ASSUME pc = "done" PROVE EachRuleOnce
    BY DEF EachRuleOnce
<1>1. DOMAIN lines = 1..Len(lines) /\ i = Len(lines) + 1 /\ Len(lines) \in Nat /\ DOMAIN lines = 1..(i - 1)
    BY LineFacts DEF ReadInv, AtEnd
<1>2. members = <<>> /\ ToSet(members) = {}
    BY DEF ChainInv, ToSet
<1> DEFINE malformed == {l \in SecRules : \E k \in DOMAIN report.skipped :
                            report.skipped[k] = [id |-> {}, at |-> l] /\ Uses(l) = {}}
<1>3. malformed = Reported
    <2>1. ASSUME NEW l \in malformed PROVE l \in Reported
        <3>1. PICK k \in DOMAIN report.skipped : report.skipped[k] = [id |-> {}, at |-> l] /\ Uses(l) = {}
            OBVIOUS
        <3>2. report.skipped[k].at = l
            BY <3>1
        <3>3. IsMalformed(l)
            BY <3>1, <3>2 DEF ReportInv
        <3>4. l \in 1..(i - 1)
            BY <3>3 DEF IsMalformed
        <3> QED BY <3>1, <3>3, <3>4 DEF Reported
    <2>2. ASSUME NEW l \in Reported PROVE l \in malformed
        <3>1. IsMalformed(l) /\ \E k \in DOMAIN report.skipped : report.skipped[k] = [id |-> {}, at |-> l]
            BY DEF Reported
        <3>2. Uses(l) = {}
            BY <3>1 DEF UnitsInv, Uses, IsMember, IsMalformed
        <3>3. l \in SecRules
            BY <1>1, <3>1 DEF IsMalformed, SecRules
        <3> QED BY <3>1, <3>2, <3>3
    <2> QED BY <2>1, <2>2
<1>4. \A l \in SecRules : Cardinality(Uses(l)) <= 1
    <2> SUFFICES ASSUME NEW l \in SecRules PROVE Cardinality(Uses(l)) <= 1
        OBVIOUS
    <2>1. \A u, v \in Uses(l) : u = v
        BY DEF Uses, UnitsInv
    <2>2. CASE Uses(l) = {}
        BY <2>2, FS_EmptySet
    <2>3. CASE Uses(l) # {}
        <3>1. PICK u : Uses(l) = {u}
            BY <2>1, <2>3
        <3> QED BY <3>1, FS_Singleton
    <2> QED BY <2>2, <2>3
<1>5. \A l \in SecRules : Uses(l) = {} => l \in malformed \cup Swallowed
    BY <1>1, <1>2, <1>3 DEF CoverInv, SecRules
<1>6. report.converted + Len(report.skipped) = Len(units) + Cardinality(malformed)
    BY <1>3 DEF ReportInv
<1> HIDE DEF malformed
<1> QED BY <1>4, <1>5, <1>6 DEF EachRuleOnce, Uses, Swallowed, malformed

\* The converter is done only after its last line.
EndInv == pc = "done" => AtEnd

\* Every SecRule of every input is reported once: it belongs to one chain that was
\* converted or skipped, or was reported as malformed, or was consumed by a chain
\* that broke at it; and the numbers of the report add up (convert).
THEOREM Accounted == Spec => []EachRuleOnce
<1>1. Init => EndInv
    BY DEF Init, EndInv
<1>2. ScanInv /\ EndInv /\ [Next]_vars => EndInv'
    BY DEF EndInv, AtEnd, Next, vars, ReadFile, ReadFails, JoinLines, PassOver, Malformed, TakeMember,
           PassOverInChain, BreakChain, Build, Write
<1>3. ScanInv /\ EndInv => EachRuleOnce
    BY AllAccounted DEF EndInv
<1> QED
    BY <1>1, <1>2, <1>3, ScanInvariant, PTL DEF Spec

-----------------------------------------------------------------------------
(* Parsing actions. *)

ActionsUpTo(f, as, n) ==
    f = [k \in 0..n |-> IF k = 0 THEN NoActions ELSE ParseAction(f[k - 1], as[k])]

\* The loop of parse_secrule over the actions is well defined.
LEMMA ActionsExist ==
    ASSUME NEW as, NEW n \in Nat
    PROVE  \E f : ActionsUpTo(f, as, n)
<1> DEFINE P == {m \in Nat : \E f : ActionsUpTo(f, as, m)}
<1>1. 0 \in P
    <2>1. ActionsUpTo([k \in 0..0 |-> NoActions], as, 0)
        BY DEF ActionsUpTo
    <2> QED BY <2>1
<1>2. ASSUME NEW m \in 1..n, m - 1 \in P PROVE m \in P
    <2>1. PICK f : ActionsUpTo(f, as, m - 1)
        BY <1>2
    <2> DEFINE g == [k \in 0..m |-> IF k = m THEN ParseAction(f[m - 1], as[m]) ELSE f[k]]
    <2>2. \A k \in 0..m : k # m => g[k] = f[k] /\ k \in 0..(m - 1)
        OBVIOUS
    <2>3. \A k \in 0..(m - 1) : f[k] = IF k = 0 THEN NoActions ELSE ParseAction(f[k - 1], as[k])
        BY <2>1 DEF ActionsUpTo
    <2>4. ASSUME NEW k \in 0..m
          PROVE  g[k] = IF k = 0 THEN NoActions ELSE ParseAction(g[k - 1], as[k])
        <3>1. CASE k = m
            <4>1. k # 0
                BY <3>1
            <4>2. g[k] = ParseAction(f[k - 1], as[k]) /\ g[k - 1] = f[k - 1]
                BY <3>1
            <4> HIDE DEF g
            <4> QED BY <4>1, <4>2
        <3>2. CASE k # m
            <4>1. k # 0 => g[k - 1] = f[k - 1]
                BY <3>2
            <4>2. g[k] = f[k] /\ k \in 0..(m - 1)
                BY <2>2, <3>2
            <4> HIDE DEF g
            <4> QED BY <2>3, <4>1, <4>2
        <3> QED BY <3>1, <3>2
    <2>5. g = [k \in 0..m |-> g[k]]
        OBVIOUS
    <2> HIDE DEF g
    <2>6. ActionsUpTo(g, as, m)
        BY <2>4, <2>5 DEF ActionsUpTo
    <2> QED BY <2>6
<1> HIDE DEF P
<1>3. n \in P
    BY <1>1, <1>2, UpTo
<1> QED BY <1>3 DEF P

\* What one more action makes of the transforms of the source.
SourceStep(ts, a) ==
    IF a.key # "t" THEN ts
    ELSE IF a.val = "none" THEN <<>>
    ELSE Append(ts, a.val)

SourceUpTo(f, as, n) == f = [k \in 0..n |-> IF k = 0 THEN <<>> ELSE SourceStep(f[k - 1], as[k])]

\* The transforms of the source are well defined.
LEMMA SourceExists ==
    ASSUME NEW as, NEW n \in Nat
    PROVE  \E f : SourceUpTo(f, as, n)
<1> DEFINE P == {m \in Nat : \E f : SourceUpTo(f, as, m)}
<1>1. 0 \in P
    <2>1. SourceUpTo([k \in 0..0 |-> <<>>], as, 0)
        BY DEF SourceUpTo
    <2> QED BY <2>1
<1>2. ASSUME NEW m \in 1..n, m - 1 \in P PROVE m \in P
    <2>1. PICK f : SourceUpTo(f, as, m - 1)
        BY <1>2
    <2> DEFINE g == [k \in 0..m |-> IF k = m THEN SourceStep(f[m - 1], as[m]) ELSE f[k]]
    <2>2. \A k \in 0..m : k # m => g[k] = f[k] /\ k \in 0..(m - 1)
        OBVIOUS
    <2>3. \A k \in 0..(m - 1) : f[k] = IF k = 0 THEN <<>> ELSE SourceStep(f[k - 1], as[k])
        BY <2>1 DEF SourceUpTo
    <2>4. ASSUME NEW k \in 0..m
          PROVE  g[k] = IF k = 0 THEN <<>> ELSE SourceStep(g[k - 1], as[k])
        <3>1. CASE k = m
            <4>1. k # 0
                BY <3>1
            <4>2. g[k] = SourceStep(f[k - 1], as[k]) /\ g[k - 1] = f[k - 1]
                BY <3>1
            <4> HIDE DEF g
            <4> QED BY <4>1, <4>2
        <3>2. CASE k # m
            <4>1. k # 0 => g[k - 1] = f[k - 1]
                BY <3>2
            <4>2. g[k] = f[k] /\ k \in 0..(m - 1)
                BY <2>2, <3>2
            <4> HIDE DEF g
            <4> QED BY <2>3, <4>1, <4>2
        <3> QED BY <3>1, <3>2
    <2>5. g = [k \in 0..m |-> g[k]]
        OBVIOUS
    <2> HIDE DEF g
    <2>6. SourceUpTo(g, as, m)
        BY <2>4, <2>5 DEF SourceUpTo
    <2> QED BY <2>6
<1> HIDE DEF P
<1>3. n \in P
    BY <1>1, <1>2, UpTo
<1> QED BY <1>3 DEF P

\* A record of actions has its fields.
IsActions(r) ==
    r = [id |-> r.id, phase |-> r.phase, disrupt |-> r.disrupt, allow |-> r.allow, status |-> r.status,
         score |-> r.score, transforms |-> r.transforms, chain |-> r.chain]

\* What one more action makes of the transforms that are imported.
ImportStep(ts, a) ==
    IF a.key # "t" THEN ts
    ELSE IF a.val = "none" THEN <<>>
    ELSE IF a.val \in DOMAIN Transforms THEN Append(ts, Transforms[a.val])
    ELSE ts

\* One action keeps the fields, and changes the transforms so.
LEMMA OneAction ==
    ASSUME NEW r, IsActions(r), NEW a
    PROVE  IsActions(ParseAction(r, a)) /\ ParseAction(r, a).transforms = ImportStep(r.transforms, a)
<1> DEFINE R(id, phase, disrupt, allow, status, score, transforms, chain) ==
        [id |-> id, phase |-> phase, disrupt |-> disrupt, allow |-> allow, status |-> status,
         score |-> score, transforms |-> transforms, chain |-> chain]
<1>1. r = R(r.id, r.phase, r.disrupt, r.allow, r.status, r.score, r.transforms, r.chain)
    BY DEF IsActions
<1>2. CASE a.key = "id"
    <2>1. ParseAction(r, a) = R({a.val}, r.phase, r.disrupt, r.allow, r.status, r.score, r.transforms, r.chain)
        BY <1>1, <1>2 DEF ParseAction
    <2> QED BY <1>2, <2>1 DEF IsActions, ImportStep
<1>3. CASE a.key = "phase"
    <2>1. ParseAction(r, a) = R(r.id, Phase(a.val), r.disrupt, r.allow, r.status, r.score, r.transforms, r.chain)
        BY <1>1, <1>3 DEF ParseAction
    <2> QED BY <1>3, <2>1 DEF IsActions, ImportStep
<1>4. CASE a.key \in {"deny", "block", "drop"}
    <2>1. ParseAction(r, a) = R(r.id, r.phase, TRUE, r.allow, r.status, r.score, r.transforms, r.chain)
        BY <1>1, <1>4 DEF ParseAction
    <2> QED BY <1>4, <2>1 DEF IsActions, ImportStep
<1>5. CASE a.key = "allow"
    <2>1. ParseAction(r, a) = R(r.id, r.phase, r.disrupt, TRUE, r.status, r.score, r.transforms, r.chain)
        BY <1>1, <1>5 DEF ParseAction
    <2> QED BY <1>5, <2>1 DEF IsActions, ImportStep
<1>6. CASE a.key = "status"
    <2>1. ParseAction(r, a) = R(r.id, r.phase, r.disrupt, r.allow, {a.val}, r.score, r.transforms, r.chain)
        BY <1>1, <1>6 DEF ParseAction
    <2> QED BY <1>6, <2>1 DEF IsActions, ImportStep
<1>7. CASE a.key = "t"
    <2> DEFINE ts == IF a.val = "none" THEN <<>>
                     ELSE IF a.val \in DOMAIN Transforms THEN Append(r.transforms, Transforms[a.val])
                     ELSE r.transforms
    <2>1. ParseAction(r, a) = R(r.id, r.phase, r.disrupt, r.allow, r.status, r.score, ts, r.chain)
        BY <1>1, <1>7 DEF ParseAction
    <2>2. ts = ImportStep(r.transforms, a)
        BY <1>7 DEF ImportStep
    <2> HIDE DEF ts
    <2> QED BY <2>1, <2>2 DEF IsActions
<1>8. CASE a.key = "setvar"
    <2> DEFINE sc == IF AnomalyScore(a.val) = {} THEN r.score ELSE AnomalyScore(a.val)
    <2>1. ParseAction(r, a) = R(r.id, r.phase, r.disrupt, r.allow, r.status, sc, r.transforms, r.chain)
        BY <1>1, <1>8 DEF ParseAction
    <2> HIDE DEF sc
    <2> QED BY <1>8, <2>1 DEF IsActions, ImportStep
<1>9. CASE a.key = "chain"
    <2>1. ParseAction(r, a) = R(r.id, r.phase, r.disrupt, r.allow, r.status, r.score, r.transforms, TRUE)
        BY <1>1, <1>9 DEF ParseAction
    <2> QED BY <1>9, <2>1 DEF IsActions, ImportStep
<1>10. CASE a.key \notin {"id", "phase", "deny", "block", "drop", "allow", "status", "t", "setvar", "chain"}
    <2>1. ParseAction(r, a) = r
        BY <1>10 DEF ParseAction
    <2> QED BY <1>10, <2>1 DEF ImportStep
<1> QED BY <1>2, <1>3, <1>4, <1>5, <1>6, <1>7, <1>8, <1>9, <1>10

\* One list of transforms is the other's, mapped by map_transform.
IsMapped(ts, out) ==
    IsSeq(out) /\ Len(out) = Len(ts) /\ \A k \in 1..Len(ts) : out[k] = Transforms[ts[k]]

\* Appending a transform and what it maps to keeps that.
LEMMA MappedAppend ==
    ASSUME NEW ts, IsSeq(ts), NEW out, IsMapped(ts, out), NEW t
    PROVE  IsMapped(Append(ts, t), Append(out, Transforms[t]))
<1> DEFINE n == Len(ts)
           T == Append(ts, t)
           O == Append(out, Transforms[t])
<1>1. /\ n \in Nat /\ Len(T) = n + 1 /\ T[n + 1] = t
      /\ \A k \in 1..n : T[k] = ts[k]
    BY AppendAny
<1>2. IsSeq(out) /\ Len(out) = n /\ \A k \in 1..n : out[k] = Transforms[ts[k]]
    BY DEF IsMapped
<1>3. /\ IsSeq(O) /\ Len(O) = n + 1 /\ O[n + 1] = Transforms[t]
      /\ \A k \in 1..n : O[k] = out[k]
    BY <1>2, AppendAny
<1> HIDE DEF T, O, n
<1>4. \A k \in 1..(n + 1) : k \in 1..n \/ k = n + 1
    BY <1>1
<1>5. \A k \in 1..(n + 1) : O[k] = Transforms[T[k]]
    BY <1>1, <1>2, <1>3, <1>4
<1> QED BY <1>1, <1>3, <1>5 DEF IsMapped, T, O

\* The transforms of an imported member are the source's, mapped, if all are
\* supported.
LEMMA TransformsKept ==
    ASSUME NEW as, IsSeq(as)
    PROVE  /\ IsSeq(SourceTransforms(as))
           /\ ToSet(SourceTransforms(as)) \subseteq DOMAIN Transforms =>
                IsMapped(SourceTransforms(as), ParseActions(as).transforms)
<1> DEFINE n == Len(as)
           f == CHOOSE g : ActionsUpTo(g, as, n)
           h == CHOOSE g : SourceUpTo(g, as, n)
           P == {k \in 0..n : /\ IsActions(f[k]) /\ IsSeq(h[k])
                              /\ ToSet(h[k]) \subseteq DOMAIN Transforms => IsMapped(h[k], f[k].transforms)}
<1>1. n \in Nat /\ DOMAIN as = 1..n
    BY AppendAny
<1>2. ActionsUpTo(f, as, n) /\ SourceUpTo(h, as, n)
    BY <1>1, ActionsExist, SourceExists
<1>3. ParseActions(as) = f[n]
    BY DEF ParseActions, ActionsUpTo
<1>4. SourceTransforms(as) = h[n]
    BY DEF SourceTransforms, SourceUpTo, SourceStep
<1>0. IsSeq(<<>>) /\ IsMapped(<<>>, <<>>)
    <2>1. IsSeq(<<>>) /\ Len(<<>>) = 0
        BY DEF IsSeq, ToSet
    <2> QED BY <2>1 DEF IsMapped
<1> HIDE DEF f, h, n
<1>5. 0 \in P
    <2>1. f[0] = NoActions /\ h[0] = <<>> /\ 0 \in 0..n
        BY <1>1, <1>2 DEF ActionsUpTo, SourceUpTo
    <2>2. IsActions(NoActions) /\ NoActions.transforms = <<>>
        BY DEF IsActions, NoActions
    <2> QED BY <1>0, <2>1, <2>2
<1>6. ASSUME NEW k \in 1..n, k - 1 \in P PROVE k \in P
    <2>1. k \in 0..n /\ k - 1 \in 0..n /\ k # 0
        BY <1>1
    <2>2. f[k] = ParseAction(f[k - 1], as[k])
        BY <1>2, <2>1 DEF ActionsUpTo
    <2>3. h[k] = SourceStep(h[k - 1], as[k])
        BY <1>2, <2>1 DEF SourceUpTo
    <2>4. IsActions(f[k]) /\ f[k].transforms = ImportStep(f[k - 1].transforms, as[k])
        BY <1>6, <2>2, OneAction
    <2>5. PICK ts, out : ts = h[k - 1] /\ out = f[k - 1].transforms
        OBVIOUS
    <2>6. IsSeq(ts) /\ (ToSet(ts) \subseteq DOMAIN Transforms => IsMapped(ts, out))
        BY <1>6, <2>5
    <2>7. /\ IsSeq(SourceStep(ts, as[k]))
          /\ ToSet(SourceStep(ts, as[k])) \subseteq DOMAIN Transforms =>
                IsMapped(SourceStep(ts, as[k]), ImportStep(out, as[k]))
        <3>1. CASE as[k].key # "t"
            BY <2>6, <3>1 DEF SourceStep, ImportStep
        <3>2. CASE as[k].key = "t" /\ as[k].val = "none"
            BY <1>0, <3>2 DEF SourceStep, ImportStep
        <3>3. CASE as[k].key = "t" /\ as[k].val # "none"
            <4>1. PICK t : t = as[k].val
                OBVIOUS
            <4>2. SourceStep(ts, as[k]) = Append(ts, t)
                BY <3>3, <4>1 DEF SourceStep
            <4>3. IsSeq(Append(ts, t)) /\ ToSet(Append(ts, t)) = ToSet(ts) \cup {t}
                BY <2>6, AppendAny
            <4>4. ASSUME ToSet(Append(ts, t)) \subseteq DOMAIN Transforms
                  PROVE  IsMapped(Append(ts, t), ImportStep(out, as[k]))
                <5>1. t \in DOMAIN Transforms /\ ToSet(ts) \subseteq DOMAIN Transforms
                    BY <4>3, <4>4
                <5>2. ImportStep(out, as[k]) = Append(out, Transforms[t])
                    BY <3>3, <4>1, <5>1 DEF ImportStep
                <5> QED BY <2>6, <5>1, <5>2, MappedAppend
            <4> QED BY <4>2, <4>3, <4>4
        <3> QED BY <3>1, <3>2, <3>3
    <2> QED BY <2>1, <2>3, <2>4, <2>5, <2>7
<1> HIDE DEF P
<1>7. n \in Nat
    BY <1>1
<1>8. n \in P
    BY <1>5, <1>6, <1>7, UpTo
<1> QED BY <1>3, <1>4, <1>8 DEF P

-----------------------------------------------------------------------------
(* Transforms, one after the other. *)

AppliedUpTo(f, ts, s, n) == f = [k \in 0..n |-> IF k = 0 THEN s ELSE ApplyTransform(ts[k], f[k - 1])]

\* The loop of eval_candidates over the transforms is well defined.
LEMMA AppliedExists ==
    ASSUME NEW ts, NEW s, NEW n \in Nat
    PROVE  \E f : AppliedUpTo(f, ts, s, n)
<1> DEFINE P == {m \in Nat : \E f : AppliedUpTo(f, ts, s, m)}
<1>1. 0 \in P
    <2>1. AppliedUpTo([k \in 0..0 |-> s], ts, s, 0)
        BY DEF AppliedUpTo
    <2> QED BY <2>1
<1>2. ASSUME NEW m \in 1..n, m - 1 \in P PROVE m \in P
    <2>1. PICK f : AppliedUpTo(f, ts, s, m - 1)
        BY <1>2
    <2> DEFINE g == [k \in 0..m |-> IF k = m THEN ApplyTransform(ts[m], f[m - 1]) ELSE f[k]]
    <2>2. \A k \in 0..m : k # m => g[k] = f[k] /\ k \in 0..(m - 1)
        OBVIOUS
    <2>3. \A k \in 0..(m - 1) : f[k] = IF k = 0 THEN s ELSE ApplyTransform(ts[k], f[k - 1])
        BY <2>1 DEF AppliedUpTo
    <2>4. ASSUME NEW k \in 0..m
          PROVE  g[k] = IF k = 0 THEN s ELSE ApplyTransform(ts[k], g[k - 1])
        <3>1. CASE k = m
            <4>1. k # 0
                BY <3>1
            <4>2. g[k] = ApplyTransform(ts[k], f[k - 1]) /\ g[k - 1] = f[k - 1]
                BY <3>1
            <4> HIDE DEF g
            <4> QED BY <4>1, <4>2
        <3>2. CASE k # m
            <4>1. k # 0 => g[k - 1] = f[k - 1]
                BY <3>2
            <4>2. g[k] = f[k] /\ k \in 0..(m - 1)
                BY <2>2, <3>2
            <4> HIDE DEF g
            <4> QED BY <2>3, <4>1, <4>2
        <3> QED BY <3>1, <3>2
    <2>5. g = [k \in 0..m |-> g[k]]
        OBVIOUS
    <2> HIDE DEF g
    <2>6. AppliedUpTo(g, ts, s, m)
        BY <2>4, <2>5 DEF AppliedUpTo
    <2> QED BY <2>6
<1> HIDE DEF P
<1>3. n \in P
    BY <1>1, <1>2, UpTo
<1> QED BY <1>3 DEF P

StagesUpTo(f, ts, s, n) == f = [k \in 0..n |-> IF k = 0 THEN s ELSE SourceTransform(ts[k], f[k - 1])]

\* So are the source's.
LEMMA StagesExist ==
    ASSUME NEW ts, NEW s, NEW n \in Nat
    PROVE  \E f : StagesUpTo(f, ts, s, n)
<1> DEFINE P == {m \in Nat : \E f : StagesUpTo(f, ts, s, m)}
<1>1. 0 \in P
    <2>1. StagesUpTo([k \in 0..0 |-> s], ts, s, 0)
        BY DEF StagesUpTo
    <2> QED BY <2>1
<1>2. ASSUME NEW m \in 1..n, m - 1 \in P PROVE m \in P
    <2>1. PICK f : StagesUpTo(f, ts, s, m - 1)
        BY <1>2
    <2> DEFINE g == [k \in 0..m |-> IF k = m THEN SourceTransform(ts[m], f[m - 1]) ELSE f[k]]
    <2>2. \A k \in 0..m : k # m => g[k] = f[k] /\ k \in 0..(m - 1)
        OBVIOUS
    <2>3. \A k \in 0..(m - 1) : f[k] = IF k = 0 THEN s ELSE SourceTransform(ts[k], f[k - 1])
        BY <2>1 DEF StagesUpTo
    <2>4. ASSUME NEW k \in 0..m
          PROVE  g[k] = IF k = 0 THEN s ELSE SourceTransform(ts[k], g[k - 1])
        <3>1. CASE k = m
            <4>1. k # 0
                BY <3>1
            <4>2. g[k] = SourceTransform(ts[k], f[k - 1]) /\ g[k - 1] = f[k - 1]
                BY <3>1
            <4> HIDE DEF g
            <4> QED BY <4>1, <4>2
        <3>2. CASE k # m
            <4>1. k # 0 => g[k - 1] = f[k - 1]
                BY <3>2
            <4>2. g[k] = f[k] /\ k \in 0..(m - 1)
                BY <2>2, <3>2
            <4> HIDE DEF g
            <4> QED BY <2>3, <4>1, <4>2
        <3> QED BY <3>1, <3>2
    <2>5. g = [k \in 0..m |-> g[k]]
        OBVIOUS
    <2> HIDE DEF g
    <2>6. StagesUpTo(g, ts, s, m)
        BY <2>4, <2>5 DEF StagesUpTo
    <2> QED BY <2>6
<1> HIDE DEF P
<1>3. n \in P
    BY <1>1, <1>2, UpTo
<1> QED BY <1>3 DEF P

\* ModSecurity's transform and the one it is mapped to do the same to such a text.
LEMMA TransformAlike ==
    ASSUME NEW t, NEW s, SameText(t, s)
    PROVE  t \in DOMAIN Transforms /\ ApplyTransform(Transforms[t], s) = SourceTransform(t, s)
<1> USE DEF SameText
<1>1. s \in Seq(0..127) /\ DOMAIN s = 1..Len(s) /\ Len(s) \in Nat
    OBVIOUS
<1>2. CASE t \in {"lowercase", "uppercase", "removeNulls", "trim", "urlDecode", "urlDecodeUni"}
    <2>1. CASE t = "lowercase"
        <3>1. t \in DOMAIN Transforms /\ Transforms[t] = "lowercase"
            BY <2>1 DEF Transforms
        <3> QED BY <2>1, <3>1 DEF ApplyTransform, SourceTransform
    <2>2. CASE t = "uppercase"
        <3>1. t \in DOMAIN Transforms /\ Transforms[t] = "uppercase"
            BY <2>2 DEF Transforms
        <3> QED BY <2>2, <3>1 DEF ApplyTransform, SourceTransform
    <2>3. CASE t = "removeNulls"
        <3>1. t \in DOMAIN Transforms /\ Transforms[t] = "remove_nulls"
            BY <2>3 DEF Transforms
        <3> QED BY <2>3, <3>1 DEF ApplyTransform, SourceTransform
    <2>4. CASE t = "trim"
        <3>1. t \in DOMAIN Transforms /\ Transforms[t] = "trim"
            BY <2>4 DEF Transforms
        <3> QED BY <2>4, <3>1 DEF ApplyTransform, SourceTransform
    <2>5. CASE t \in {"urlDecode", "urlDecodeUni"}
        <3>1. t \in DOMAIN Transforms /\ Transforms[t] = "url_decode"
            BY <2>5 DEF Transforms
        <3> QED BY <2>5, <3>1 DEF ApplyTransform, SourceTransform
    <2> QED BY <1>2, <2>1, <2>2, <2>3, <2>4, <2>5
<1>3. CASE t = "compressWhitespace"
    <2>1. ~BeginsBlank(s) /\ ~EndsBlank(s)
        BY <1>3
    <2>2. s = <<>> \/ 1 \in Ink(s)
        BY <1>1, <2>1 DEF BeginsBlank, Ink
    <2>3. CompressWhitespace(s) = <<>> \o CompressWs(s) \o <<>>
        BY <2>1, <2>2 DEF CompressWhitespace
    <2> QED BY <1>3, <2>3 DEF Transforms, ApplyTransform, SourceTransform
<1>4. CASE t = "trimLeft"
    <2>1. ~EndsBlank(s)
        BY <1>4
    <2>2. CASE s = <<>>
        <3>1. Ink(s) = {} /\ Trim(s) = <<>>
            BY <2>2 DEF Ink, Trim, TrimOf
        <3> QED BY <1>4, <3>1 DEF TrimLeft, Transforms, ApplyTransform, SourceTransform
    <2>3. CASE s # <<>>
        <3>1. Len(s) \in Ink(s)
            BY <1>1, <2>1, <2>3 DEF EndsBlank, Ink
        <3>2. Max(Ink(s)) = Len(s)
            <4>1. \A m \in Ink(s) : m \in Nat /\ m <= Len(s)
                BY <1>1 DEF Ink
            <4> HIDE DEF Ink
            <4> QED BY <1>1, <3>1, <4>1 DEF Max
        <3>3. Trim(s) = TrimLeft(s)
            BY <3>1, <3>2 DEF Trim, TrimOf, TrimLeft, Ink
        <3> QED BY <1>4, <3>3 DEF Transforms, ApplyTransform, SourceTransform
    <2> QED BY <2>2, <2>3
<1>5. CASE t = "trimRight"
    <2>1. ~BeginsBlank(s)
        BY <1>5
    <2>2. CASE s = <<>>
        <3>1. Ink(s) = {} /\ Trim(s) = <<>>
            BY <2>2 DEF Ink, Trim, TrimOf
        <3> QED BY <1>5, <3>1 DEF TrimRight, Transforms, ApplyTransform, SourceTransform
    <2>3. CASE s # <<>>
        <3>1. 1 \in Ink(s)
            BY <1>1, <2>1, <2>3 DEF BeginsBlank, Ink
        <3>2. Min(Ink(s)) = 1
            <4>1. \A m \in Ink(s) : m \in Nat /\ m >= 1
                BY <1>1 DEF Ink
            <4> HIDE DEF Ink
            <4> QED BY <3>1, <4>1 DEF Min
        <3>3. Trim(s) = TrimRight(s)
            BY <3>1, <3>2 DEF Trim, TrimOf, TrimRight, Ink
        <3> QED BY <1>5, <3>3 DEF Transforms, ApplyTransform, SourceTransform
    <2> QED BY <2>2, <2>3
<1>6. t \in {"lowercase", "uppercase", "removeNulls", "trim", "urlDecode", "urlDecodeUni", "compressWhitespace",
             "trimLeft", "trimRight"}
    OBVIOUS
<1> QED BY <1>2, <1>3, <1>4, <1>5, <1>6

\* The imported transforms make of a text what the source's make of it, if each
\* reads what it gets alike.
LEMMA AppliedAlike ==
    ASSUME NEW ts, IsSeq(ts), NEW out, IsMapped(ts, out), NEW s,
           \A k \in DOMAIN ts : SameText(ts[k], Stages(ts, s)[k - 1])
    PROVE  Applied(out, s) = Stages(ts, s)[Len(ts)]
<1> DEFINE n == Len(ts)
           f == CHOOSE g : AppliedUpTo(g, out, s, n)
           h == CHOOSE g : StagesUpTo(g, ts, s, n)
           P == {k \in 0..n : f[k] = h[k]}
<1>1. n \in Nat /\ DOMAIN ts = 1..n
    BY AppendAny
<1>2. AppliedUpTo(f, out, s, n) /\ StagesUpTo(h, ts, s, n)
    BY <1>1, AppliedExists, StagesExist
<1>3. Len(out) = n /\ \A k \in 1..n : out[k] = Transforms[ts[k]]
    BY DEF IsMapped
<1>4. Applied(out, s) = f[n]
    BY <1>3 DEF Applied, AppliedUpTo
<1>5. Stages(ts, s) = h
    BY DEF Stages, StagesUpTo
<1> HIDE DEF f, h, n
<1>6. 0 \in P
    BY <1>1, <1>2 DEF AppliedUpTo, StagesUpTo
<1>7. ASSUME NEW k \in 1..n, k - 1 \in P PROVE k \in P
    <2>1. k \in 0..n /\ k - 1 \in 0..n /\ k # 0
        BY <1>1
    <2>2. f[k] = ApplyTransform(out[k], f[k - 1])
        BY <1>2, <2>1 DEF AppliedUpTo
    <2>3. h[k] = SourceTransform(ts[k], h[k - 1])
        BY <1>2, <2>1 DEF StagesUpTo
    <2>4. PICK t, x : t = ts[k] /\ x = h[k - 1]
        OBVIOUS
    <2>5. SameText(t, x)
        BY <1>1, <1>5, <2>4
    <2>6. ApplyTransform(Transforms[t], x) = SourceTransform(t, x)
        BY <2>5, TransformAlike
    <2>7. f[k - 1] = x
        BY <1>7, <2>4
    <2> QED BY <1>3, <2>1, <2>2, <2>3, <2>4, <2>6, <2>7
<1> HIDE DEF P
<1>8. n \in P
    BY <1>1, <1>6, <1>7, UpTo
<1> QED BY <1>4, <1>5, <1>8 DEF P, n

-----------------------------------------------------------------------------
(* Mapping one member. *)

CondOf(m, v) == [target |-> The(MapVar(v)), op |-> The(MapOperator(m.op)),
                 negate |-> m.op.negate, transform |-> m.acts.transforms]
IsTarget(v) == ~v.exclude /\ MapVar(v) # {}
ConditionsStep(cs, m, v) == IF v.exclude \/ MapVar(v) = {} THEN cs ELSE Append(cs, CondOf(m, v))

ConditionsUpTo(f, m, n) == f = [k \in 0..n |-> IF k = 0 THEN <<>> ELSE ConditionsStep(f[k - 1], m, m.vars[k])]

\* The loop of map_member_conditions is well defined.
LEMMA ConditionsExist ==
    ASSUME NEW mem, NEW n \in Nat
    PROVE  \E f : ConditionsUpTo(f, mem, n)
<1> DEFINE P == {m \in Nat : \E f : ConditionsUpTo(f, mem, m)}
<1>1. 0 \in P
    <2>1. ConditionsUpTo([k \in 0..0 |-> <<>>], mem, 0)
        BY DEF ConditionsUpTo
    <2> QED BY <2>1
<1>2. ASSUME NEW m \in 1..n, m - 1 \in P PROVE m \in P
    <2>1. PICK f : ConditionsUpTo(f, mem, m - 1)
        BY <1>2
    <2> DEFINE g == [k \in 0..m |-> IF k = m THEN ConditionsStep(f[m - 1], mem, mem.vars[m]) ELSE f[k]]
    <2>2. \A k \in 0..m : k # m => g[k] = f[k] /\ k \in 0..(m - 1)
        OBVIOUS
    <2>3. \A k \in 0..(m - 1) : f[k] = IF k = 0 THEN <<>> ELSE ConditionsStep(f[k - 1], mem, mem.vars[k])
        BY <2>1 DEF ConditionsUpTo
    <2>4. ASSUME NEW k \in 0..m
          PROVE  g[k] = IF k = 0 THEN <<>> ELSE ConditionsStep(g[k - 1], mem, mem.vars[k])
        <3>1. CASE k = m
            <4>1. k # 0
                BY <3>1
            <4>2. g[k] = ConditionsStep(f[k - 1], mem, mem.vars[k]) /\ g[k - 1] = f[k - 1]
                BY <3>1
            <4> HIDE DEF g
            <4> QED BY <4>1, <4>2
        <3>2. CASE k # m
            <4>1. k # 0 => g[k - 1] = f[k - 1]
                BY <3>2
            <4>2. g[k] = f[k] /\ k \in 0..(m - 1)
                BY <2>2, <3>2
            <4> HIDE DEF g
            <4> QED BY <2>3, <4>1, <4>2
        <3> QED BY <3>1, <3>2
    <2>5. g = [k \in 0..m |-> g[k]]
        OBVIOUS
    <2> HIDE DEF g
    <2>6. ConditionsUpTo(g, mem, m)
        BY <2>4, <2>5 DEF ConditionsUpTo
    <2> QED BY <2>6
<1> HIDE DEF P
<1>3. n \in P
    BY <1>1, <1>2, UpTo
<1> QED BY <1>3 DEF P

\* map_member_conditions returns one condition for every variable that is not
\* excluded and can be mapped, and none if the operator cannot.
LEMMA ConditionsOf ==
    ASSUME NEW m, IsSeq(m.vars)
    PROVE  /\ IsSeq(MapMemberConditions(m))
           /\ ToSet(MapMemberConditions(m)) =
                IF MapOperator(m.op) = {} THEN {}
                ELSE {CondOf(m, v) : v \in {x \in ToSet(m.vars) : IsTarget(x)}}
<1> DEFINE n == Len(m.vars)
           f == CHOOSE g : ConditionsUpTo(g, m, n)
           Seen(k) == {m.vars[j] : j \in 1..k}
           Of(k) == {CondOf(m, v) : v \in {x \in Seen(k) : IsTarget(x)}}
           P == {k \in 0..n : IsSeq(f[k]) /\ ToSet(f[k]) = Of(k)}
<1>1. n \in Nat /\ DOMAIN m.vars = 1..n
    BY AppendAny
<1>2. ConditionsUpTo(f, m, n)
    BY <1>1, ConditionsExist
<1>3. MapMemberConditions(m) = IF MapOperator(m.op) = {} THEN <<>> ELSE f[n]
    BY DEF MapMemberConditions, ConditionsUpTo, ConditionsStep, CondOf
<1>4. ToSet(m.vars) = Seen(n)
    BY <1>1 DEF ToSet
<1> HIDE DEF f, n
<1>5. IsSeq(<<>>) /\ ToSet(<<>>) = {}
    BY DEF IsSeq, ToSet
<1>6. 0 \in P
    <2>1. f[0] = <<>> /\ 0 \in 0..n
        BY <1>1, <1>2 DEF ConditionsUpTo
    <2>2. Of(0) = {}
        OBVIOUS
    <2> QED BY <1>5, <2>1, <2>2
<1>7. ASSUME NEW k \in 1..n, k - 1 \in P PROVE k \in P
    <2>1. k \in 0..n /\ k - 1 \in 0..n /\ k # 0
        BY <1>1
    <2>2. f[k] = ConditionsStep(f[k - 1], m, m.vars[k])
        BY <1>2, <2>1 DEF ConditionsUpTo
    <2>3. Seen(k) = Seen(k - 1) \cup {m.vars[k]}
        <3>1. 1..k = 1..(k - 1) \cup {k}
            BY <1>1
        <3> QED BY <3>1
    <2> HIDE DEF Seen
    <2>4. CASE IsTarget(m.vars[k])
        <3>1. f[k] = Append(f[k - 1], CondOf(m, m.vars[k]))
            BY <2>2, <2>4 DEF ConditionsStep, IsTarget
        <3>2. IsSeq(f[k]) /\ ToSet(f[k]) = ToSet(f[k - 1]) \cup {CondOf(m, m.vars[k])}
            BY <1>7, <3>1, AppendAny
        <3>3. Of(k) = Of(k - 1) \cup {CondOf(m, m.vars[k])}
            BY <2>3, <2>4
        <3> QED BY <1>7, <2>1, <3>2, <3>3
    <2>5. CASE ~IsTarget(m.vars[k])
        <3>1. f[k] = f[k - 1]
            BY <2>2, <2>5 DEF ConditionsStep, IsTarget
        <3>2. Of(k) = Of(k - 1)
            BY <2>3, <2>5
        <3> QED BY <1>7, <2>1, <3>1, <3>2
    <2> QED BY <2>4, <2>5
<1> HIDE DEF P
<1>8. n \in Nat
    BY <1>1
<1>9. n \in P
    BY <1>6, <1>7, <1>8, UpTo
<1> QED BY <1>3, <1>4, <1>5, <1>9 DEF P

-----------------------------------------------------------------------------
(* What a member means. *)

\* A variable of a SecRule that is not lost, not widened and compared; and one of
\* several elements.
Comparable(v) ==
    /\ v.count \in BOOLEAN /\ v.regexSelector \in BOOLEAN /\ ~Lost(v)
    /\ ~(v.name \in {"ARGS_GET", "ARGS_POST"} \/ (v.selector # {} /\ (v.count \/ v.name = "ARGS_NAMES")))
IsCollection(v) == ~v.count /\ v.name \in Args \cup {"ARGS_NAMES"}

\* map_var has no target for the variables that are lost, and one for the others.
LEMMA LostIsUnmapped ==
    ASSUME NEW v, v.count \in BOOLEAN, v.regexSelector \in BOOLEAN, v.name \notin Uncarried
    PROVE  Lost(v) <=> MapVar(v) = {}
<1>1. CASE v.count
    <2>1. v.name \in Args <=> MapVar(v) # {}
        BY <1>1 DEF MapVar, Args
    <2> QED BY <1>1, <2>1 DEF Lost
<1>2. CASE ~v.count /\ v.name \in {"ARGS_NAMES", "REQUEST_FILENAME", "REQUEST_METHOD"}
    <2>1. v.name \in DOMAIN Plain /\ v.name \notin Args
        BY <1>2 DEF Plain, Args
    <2>2. MapVar(v) # {}
        BY <1>2, <2>1 DEF MapVar
    <2> QED BY <1>2, <2>1, <2>2 DEF Lost
<1>3. CASE ~v.count /\ v.name \in Args
    <2>1. v.name \notin DOMAIN Plain /\ v.name \in DOMAIN Selectable
        BY <1>3 DEF Plain, Selectable, Args
    <2>2. MapVar(v) = {} <=> v.selector # {} /\ v.regexSelector
        BY <1>3, <2>1 DEF MapVar
    <2> QED BY <1>3, <2>2 DEF Lost
<1>4. CASE ~v.count /\ v.name \notin Args \cup {"ARGS_NAMES", "REQUEST_FILENAME", "REQUEST_METHOD"}
    <2>1. v.name \notin DOMAIN Plain /\ v.name \notin DOMAIN Selectable
        BY <1>4 DEF Plain, Selectable, Args, Uncarried
    <2>2. MapVar(v) = {}
        BY <1>4, <2>1 DEF MapVar
    <2> QED BY <1>4, <2>2 DEF Lost
<1> QED BY <1>1, <1>2, <1>3, <1>4

\* The second components of one pair, and of pairs of equals.
LEMMA Seconds ==
    /\ \A x : {w[2] : w \in {<<"", x>>}} = {x}
    /\ \A S : {w[2] : w \in {<<p[1], p[1]>> : p \in S}} = {p[1] : p \in S}
<1>1. ASSUME NEW x PROVE {w[2] : w \in {<<"", x>>}} = {x}
    <2>1. <<"", x>>[2] = x
        OBVIOUS
    <2>2. \A p : {w[2] : w \in {p}} = {p[2]}
        OBVIOUS
    <2> QED BY <2>1, <2>2, Zenon
<1>2. ASSUME NEW S PROVE {w[2] : w \in {<<p[1], p[1]>> : p \in S}} = {p[1] : p \in S}
    <2> DEFINE A == {w[2] : w \in {<<p[1], p[1]>> : p \in S}}
               B == {p[1] : p \in S}
    <2>1. ASSUME NEW y \in A PROVE y \in B
        OBVIOUS
    <2>2. ASSUME NEW p \in S PROVE p[1] \in A
        <3>1. <<p[1], p[1]>>[2] = p[1]
            OBVIOUS
        <3> QED BY <3>1, Zenon
    <2> QED BY <2>1, <2>2
<1> QED BY <1>1, <1>2

\* The target that a variable maps to stands for the same values of a request as
\* the source's variable, unless it widens it.
LEMMA TargetExact ==
    ASSUME NEW v, Comparable(v), NEW r
    PROVE  /\ Candidates(The(MapVar(v)), r) = {w[2] : w \in Elements(v, r)}
           /\ ~IsCollection(v) => \E x : Elements(v, r) = {x}
<1> USE DEF Comparable, IsCollection
<1> DEFINE T(field, name) == [field |-> field, name |-> name]
           Selected(pairs) == {q \in pairs : v.selector \in {{}, {q[1]}}}
<1>0. ASSUME v.selector = {} PROVE \A S : Selected(S) = S
    BY <1>0
<1>1. CASE v.count
    <2>1. v.name = "ARGS" /\ v.selector = {}
        BY <1>1 DEF Lost, Args
    <2>2. MapVar(v) = {T("args_count", {})}
        BY <1>1, <2>1 DEF MapVar
    <2>3. The(MapVar(v)) = T("args_count", {})
        BY <2>2 DEF The
    <2>4. Elements(v, r) = {<<"", Render(Cardinality(Selected(r.get)) + Cardinality(Selected(r.post)))>>}
        BY <1>1, <2>1 DEF Elements, Args
    <2>5. Candidates(The(MapVar(v)), r) = {Render(Cardinality(r.get) + Cardinality(r.post))}
        BY <2>3 DEF Candidates
    <2>6. Selected(r.get) = r.get /\ Selected(r.post) = r.post
        BY <1>0, <2>1
    <2> HIDE DEF T, Selected
    <2>7. Elements(v, r) = {<<"", Render(Cardinality(r.get) + Cardinality(r.post))>>}
        BY <2>4, <2>6
    <2> QED BY <1>1, <2>5, <2>7, Seconds, Zenon
<1>2. CASE ~v.count /\ v.name = "ARGS"
    <2>1. Elements(v, r) = Selected(r.get) \cup Selected(r.post)
        BY <1>2 DEF Elements, Args
    <2>2. v.name \notin DOMAIN Plain /\ v.name \in DOMAIN Selectable /\ Selectable[v.name] = <<"arg", "args">>
        BY <1>2 DEF Plain, Selectable
    <2>3. CASE v.selector = {}
        <3>1. The(MapVar(v)) = T("args", {})
            BY <1>2, <2>2, <2>3 DEF MapVar, The
        <3>2. Candidates(The(MapVar(v)), r) = {p[2] : p \in r.get \cup r.post}
            BY <3>1 DEF Candidates
        <3>3. Elements(v, r) = r.get \cup r.post
            BY <2>1, <2>3
        <3> QED BY <1>2, <3>2, <3>3 DEF Args
    <2>4. CASE v.selector # {}
        <3>0. ~v.regexSelector
            BY <1>2, <2>4 DEF Lost, Args
        <3>1. The(MapVar(v)) = T("arg", v.selector)
            BY <1>2, <2>2, <2>4, <3>0 DEF MapVar, The
        <3>2. Candidates(The(MapVar(v)), r) = {p[2] : p \in {q \in r.get \cup r.post : {q[1]} = v.selector}}
            BY <3>1 DEF Candidates
        <3>3. Elements(v, r) = {q \in r.get \cup r.post : {q[1]} = v.selector}
            BY <2>1, <2>4
        <3> QED BY <1>2, <3>2, <3>3 DEF Args
    <2> QED BY <2>3, <2>4
<1>3. CASE ~v.count /\ v.name = "ARGS_NAMES"
    <2>1. Elements(v, r) = {<<p[1], p[1]>> : p \in Selected(r.get) \cup Selected(r.post)}
        BY <1>3 DEF Elements, Args
    <2>2. The(MapVar(v)) = T("arg_names", {})
        BY <1>3 DEF MapVar, The, Plain
    <2>3. Candidates(The(MapVar(v)), r) = {p[1] : p \in r.get \cup r.post}
        BY <2>2 DEF Candidates
    <2>4. v.selector = {}
        BY <1>3
    <2>5. Selected(r.get) = r.get /\ Selected(r.post) = r.post
        BY <1>0, <2>4
    <2> HIDE DEF Selected
    <2>6. Elements(v, r) = {<<p[1], p[1]>> : p \in r.get \cup r.post}
        BY <2>1, <2>5
    <2> QED BY <1>3, <2>3, <2>6, Seconds, Zenon
<1>4. CASE ~v.count /\ v.name = "REQUEST_FILENAME"
    <2>1. Elements(v, r) = {<<"", r.path>>}
        BY <1>4 DEF Elements, Args
    <2>2. The(MapVar(v)) = T("path", {})
        BY <1>4 DEF MapVar, The, Plain
    <2>3. Candidates(The(MapVar(v)), r) = {r.path}
        BY <2>2 DEF Candidates
    <2> QED BY <2>1, <2>3, Seconds, Zenon
<1>5. CASE ~v.count /\ v.name = "REQUEST_METHOD"
    <2>1. Elements(v, r) = {<<"", r.method>>}
        BY <1>5 DEF Elements, Args
    <2>2. The(MapVar(v)) = T("method", {})
        BY <1>5 DEF MapVar, The, Plain
    <2>3. Candidates(The(MapVar(v)), r) = {r.method}
        BY <2>2 DEF Candidates
    <2> QED BY <2>1, <2>3, Seconds, Zenon
<1> QED BY <1>1, <1>2, <1>3, <1>4, <1>5 DEF Lost, Args

\* A text is at most one number.
LEMMA OneNumber ==
    ASSUME NEW s, IsNumber(s)
    PROVE  ParseInt(s, NumMax) = {Number(s)} /\ Number(s) \in Nat
<1>1. PICK n : ParseInt(s, NumMax) = {n}
    BY DEF ParseInt, IsNumber
<1> HIDE DEF ParseInt
<1> QED BY <1>1 DEF Number, The, IsNumber

\* Comparing the only numbers of two sets.
LEMMA Compares ==
    ASSUME NEW a \in Nat, NEW b \in Nat
    PROVE  /\ (\E n \in {a} : \E m \in {b} : n > m) = (a > b)
           /\ (\E n \in {a} : \E m \in {b} : n < m) = (a < b)
           /\ (\E n \in {a} : \E m \in {b} : n >= m) = (a >= b)
           /\ (\E n \in {a} : \E m \in {b} : n <= m) = (a <= b)
<1>1. (\E n \in {a} : \E m \in {b} : n > m) <=> (a > b)
    OBVIOUS
<1>2. (\E n \in {a} : \E m \in {b} : n < m) <=> (a < b)
    OBVIOUS
<1>3. (\E n \in {a} : \E m \in {b} : n >= m) <=> (a >= b)
    OBVIOUS
<1>4. (\E n \in {a} : \E m \in {b} : n <= m) <=> (a <= b)
    OBVIOUS
<1>5. {a > b, a < b, a >= b, a <= b} \subseteq BOOLEAN
    OBVIOUS
<1> QED BY <1>1, <1>2, <1>3, <1>4, <1>5

\* The operator that one maps to, by the name in the source.
LEMMA OperatorOf ==
    ASSUME NEW o, MapOperator(o) # {}, o.name # "ipMatch"
    PROVE  \/ o.name \in DOMAIN OneToOne /\ The(MapOperator(o)) = Operator(OneToOne[o.name], o.arg, o.words, FALSE)
           \/ o.name \in DOMAIN Detectors /\ The(MapOperator(o)) = Operator(Detectors[o.name], <<>>, <<>>, FALSE)
           \/ /\ o.name = "pm"
              /\ The(MapOperator(o)) = Operator("regex", <<>>, IF o.words = <<>> THEN <<<<>>>> ELSE o.words, TRUE)
<1> HIDE DEF Operator
<1> DEFINE pm == Operator("regex", <<>>, IF o.words = <<>> THEN <<<<>>>> ELSE o.words, TRUE)
           one == Operator(OneToOne[o.name], o.arg, o.words, FALSE)
           det == Operator(Detectors[o.name], <<>>, <<>>, FALSE)
<1>1. \A x : The({x}) = x
    BY DEF The
<1>2. \/ o.name \in DOMAIN OneToOne /\ MapOperator(o) = {one}
      \/ o.name \in DOMAIN Detectors /\ MapOperator(o) = {det}
      \/ o.name = "pm" /\ MapOperator(o) = {pm}
    <2> HIDE DEF pm, one, det
    <2> QED BY DEF MapOperator, pm, one, det
<1> QED BY <1>1, <1>2

\* The operator it maps to matches the same texts, of those that both read alike.
LEMMA OperatorExact ==
    ASSUME NEW o, MapOperator(o) # {}, NEW x, SameOperand(o, x)
    PROVE  EvalOp(The(MapOperator(o)), x) = SourceOperator(o, x)
<1> DEFINE c == The(MapOperator(o))
<1>0. o.name # "ipMatch"
    BY DEF SameOperand
<1>1. CASE o.name \in DOMAIN OneToOne /\ c = Operator(OneToOne[o.name], o.arg, o.words, FALSE)
    <2>1. c.op = OneToOne[o.name] /\ c.arg = o.arg /\ c.words = o.words /\ c.fold = FALSE
        BY <1>1 DEF Operator
    <2> HIDE DEF c
    <2>2. CASE o.name = "rx"
        <3>1. c.op = "regex"
            BY <2>1, <2>2 DEF OneToOne
        <3> QED BY <2>1, <2>2, <3>1 DEF EvalOp, SourceOperator, c
    <2>3. CASE o.name = "contains"
        <3>1. c.op = "contains"
            BY <2>1, <2>3 DEF OneToOne
        <3> QED BY <2>1, <2>3, <3>1 DEF EvalOp, SourceOperator, c
    <2>4. CASE o.name = "beginsWith"
        <3>1. c.op = "starts_with"
            BY <2>1, <2>4 DEF OneToOne
        <3> QED BY <2>1, <2>4, <3>1 DEF EvalOp, SourceOperator, c
    <2>5. CASE o.name = "endsWith"
        <3>1. c.op = "ends_with"
            BY <2>1, <2>5 DEF OneToOne
        <3> QED BY <2>1, <2>5, <3>1 DEF EvalOp, SourceOperator, c
    <2>6. CASE o.name = "streq"
        <3>1. c.op = "eq"
            BY <2>1, <2>6 DEF OneToOne
        <3> QED BY <2>1, <2>6, <3>1 DEF EvalOp, SourceOperator, c
    <2>7. CASE o.name = "eq"
        <3>1. c.op = "eq"
            BY <2>1, <2>7 DEF OneToOne
        <3>2. IsWritten(x) /\ IsWritten(o.arg)
            BY <2>7 DEF SameOperand
        <3>3. \A s : IsWritten(s) => s = Render(Number(s))
            BY OneNumber DEF IsWritten
        <3>4. (x = o.arg) = (Number(x) = Number(o.arg))
            BY <3>2, <3>3
        <3> QED BY <2>1, <2>7, <3>1, <3>4 DEF EvalOp, SourceOperator, c
    <2>8. CASE o.name \in {"gt", "lt", "ge", "le"}
        <3>1. /\ ParseInt(x, NumMax) = {Number(x)} /\ ParseInt(o.arg, NumMax) = {Number(o.arg)}
              /\ Number(x) \in Nat /\ Number(o.arg) \in Nat
            BY <2>8, OneNumber DEF SameOperand
        <3>2. c.op = o.name
            BY <2>1, <2>8 DEF OneToOne
        <3>7. PICK a \in Nat, b \in Nat :
                /\ ParseInt(x, NumMax) = {a} /\ ParseInt(o.arg, NumMax) = {b}
                /\ a = Number(x) /\ b = Number(o.arg)
            BY <3>1
        <3> HIDE DEF ParseInt, Number
        <3>3. CASE o.name = "gt"
            <4>1. EvalOp(c, x) = \E n \in ParseInt(x, NumMax) : \E m \in ParseInt(o.arg, NumMax) : n > m
                BY <2>1, <3>2, <3>3 DEF EvalOp
            <4>2. SourceOperator(o, x) = (Number(x) > Number(o.arg))
                BY <3>3 DEF SourceOperator
            <4>3. (\E n \in {a} : \E m \in {b} : n > m) = (a > b)
                BY Compares
            <4> QED BY <3>7, <4>1, <4>2, <4>3 DEF c
        <3>4. CASE o.name = "lt"
            <4>1. EvalOp(c, x) = \E n \in ParseInt(x, NumMax) : \E m \in ParseInt(o.arg, NumMax) : n < m
                BY <2>1, <3>2, <3>4 DEF EvalOp
            <4>2. SourceOperator(o, x) = (Number(x) < Number(o.arg))
                BY <3>4 DEF SourceOperator
            <4>3. (\E n \in {a} : \E m \in {b} : n < m) = (a < b)
                BY Compares
            <4> QED BY <3>7, <4>1, <4>2, <4>3 DEF c
        <3>5. CASE o.name = "ge"
            <4>1. EvalOp(c, x) = \E n \in ParseInt(x, NumMax) : \E m \in ParseInt(o.arg, NumMax) : n >= m
                BY <2>1, <3>2, <3>5 DEF EvalOp
            <4>2. SourceOperator(o, x) = (Number(x) >= Number(o.arg))
                BY <3>5 DEF SourceOperator
            <4>3. (\E n \in {a} : \E m \in {b} : n >= m) = (a >= b)
                BY Compares
            <4> QED BY <3>7, <4>1, <4>2, <4>3 DEF c
        <3>6. CASE o.name = "le"
            <4>1. EvalOp(c, x) = \E n \in ParseInt(x, NumMax) : \E m \in ParseInt(o.arg, NumMax) : n <= m
                BY <2>1, <3>2, <3>6 DEF EvalOp
            <4>2. SourceOperator(o, x) = (Number(x) <= Number(o.arg))
                BY <3>6 DEF SourceOperator
            <4>3. (\E n \in {a} : \E m \in {b} : n <= m) = (a <= b)
                BY Compares
            <4> QED BY <3>7, <4>1, <4>2, <4>3 DEF c
        <3> QED BY <2>8, <3>3, <3>4, <3>5, <3>6
    <2> QED BY <1>1, <2>2, <2>3, <2>4, <2>5, <2>6, <2>7, <2>8 DEF OneToOne, c
<1>2. CASE o.name \in DOMAIN Detectors /\ c = Operator(Detectors[o.name], <<>>, <<>>, FALSE)
    <2>1. c.op = Detectors[o.name]
        BY <1>2 DEF Operator
    <2> HIDE DEF c
    <2>2. CASE o.name = "detectSQLi"
        <3>1. c.op = "detect_sqli"
            BY <2>1, <2>2 DEF Detectors
        <3> QED BY <2>2, <3>1 DEF EvalOp, SourceOperator, c
    <2>3. CASE o.name = "detectXSS"
        <3>1. c.op = "detect_xss"
            BY <2>1, <2>3 DEF Detectors
        <3> QED BY <2>3, <3>1 DEF EvalOp, SourceOperator, c
    <2> QED BY <1>2, <2>2, <2>3 DEF Detectors, c
<1>3. CASE o.name = "pm" /\ c = Operator("regex", <<>>, IF o.words = <<>> THEN <<<<>>>> ELSE o.words, TRUE)
    <2>1. o.words # <<>>
        BY <1>3 DEF SameOperand
    <2>2. c.op = "regex" /\ c.words = o.words /\ c.fold = TRUE
        BY <1>3, <2>1 DEF Operator
    <2> HIDE DEF c
    <2> QED BY <1>3, <2>2 DEF EvalOp, SourceOperator, c
<1> QED BY <1>0, <1>1, <1>2, <1>3, OperatorOf

\* eval_op says yes or no.
LEMMA EvalBoolean ==
    ASSUME NEW o, NEW x
    PROVE  EvalOp(o, x) \in BOOLEAN
<1>1. CASE o.op = "regex"
    <2>1. EvalOp(o, x) = \E k \in DOMAIN o.words : IF o.fold THEN Occurs(ToLower(o.words[k]), ToLower(x))
                                                        ELSE Occurs(o.words[k], x)
        BY <1>1 DEF EvalOp
    <2> QED BY <2>1
<1>2. CASE o.op = "contains"
    <2>1. EvalOp(o, x) = Occurs(o.arg, x)
        BY <1>2 DEF EvalOp
    <2> QED BY <2>1 DEF Occurs
<1>3. CASE o.op = "starts_with"
    <2>1. EvalOp(o, x) = IsPrefix(o.arg, x)
        BY <1>3 DEF EvalOp
    <2> QED BY <2>1 DEF IsPrefix
<1>4. CASE o.op = "ends_with"
    <2>1. EvalOp(o, x) = IsSuffix(o.arg, x)
        BY <1>4 DEF EvalOp
    <2> QED BY <2>1 DEF IsSuffix, IsPrefix
<1>5. CASE o.op = "eq"
    <2>1. EvalOp(o, x) = (x = o.arg)
        BY <1>5 DEF EvalOp
    <2> QED BY <2>1
<1>6. CASE o.op = "gt"
    <2>1. EvalOp(o, x) = \E n \in ParseInt(x, NumMax) : \E m \in ParseInt(o.arg, NumMax) : n > m
        BY <1>6 DEF EvalOp
    <2> QED BY <2>1
<1>7. CASE o.op = "lt"
    <2>1. EvalOp(o, x) = \E n \in ParseInt(x, NumMax) : \E m \in ParseInt(o.arg, NumMax) : n < m
        BY <1>7 DEF EvalOp
    <2> QED BY <2>1
<1>8. CASE o.op = "ge"
    <2>1. EvalOp(o, x) = \E n \in ParseInt(x, NumMax) : \E m \in ParseInt(o.arg, NumMax) : n >= m
        BY <1>8 DEF EvalOp
    <2> QED BY <2>1
<1>9. CASE o.op = "le"
    <2>1. EvalOp(o, x) = \E n \in ParseInt(x, NumMax) : \E m \in ParseInt(o.arg, NumMax) : n <= m
        BY <1>9 DEF EvalOp
    <2> QED BY <2>1
<1>10. CASE o.op = "detect_sqli"
    <2>1. EvalOp(o, x) = (x \in SqliTexts)
        BY <1>10 DEF EvalOp
    <2> QED BY <2>1
<1>11. CASE o.op = "detect_xss"
    <2>1. EvalOp(o, x) = (x \in XssTexts)
        BY <1>11 DEF EvalOp
    <2> QED BY <2>1
<1>12. CASE o.op \notin {"regex", "contains", "starts_with", "ends_with", "eq", "gt", "lt", "ge", "le", "detect_sqli", "detect_xss"}
    <2>1. EvalOp(o, x) = FALSE
        BY <1>12 DEF EvalOp
    <2> QED BY <2>1
<1> QED BY <1>1, <1>2, <1>3, <1>4, <1>5, <1>6, <1>7, <1>8, <1>9, <1>10, <1>11, <1>12

\* What one element of a variable has to do for a SecRule to match, and that
\* source and import read it alike.
ElementMatches(line, w) == SourceOperator(line[3], Shown(line, w[2])) # line[3].negate
ReadAlike(line, w) ==
    LET ts == SourceTransforms(Actions(line))
    IN /\ \A k \in DOMAIN ts : SameText(ts[k], Stages(ts, w[2])[k - 1])
       /\ SameOperand(line[3], Shown(line, w[2]))

\* A SecRule that has an operator to map to.
ComparableRule(line) ==
    line[3].negate \in BOOLEAN /\ MapOperator(line[3]) # {} /\ IsSeq(Actions(line))

\* The condition made of a variable holds on the requests in which some element
\* of the variable matches.
LEMMA ConditionMeaning ==
    ASSUME NEW line, ComparableRule(line), NEW v, Comparable(v), line[3].negate => ~IsCollection(v), NEW r,
           \A w \in Elements(v, r) : ReadAlike(line, w)
    PROVE  CondHolds(CondOf(ParseSecRule(line), v), r) <=> \E w \in Elements(v, r) : ElementMatches(line, w)
<1> DEFINE c == CondOf(ParseSecRule(line), v)
           o == The(MapOperator(line[3]))
           ts == ParseActions(Actions(line)).transforms
           neg == line[3].negate
           A(w) == EvalOp(o, Applied(ts, w[2]))
           S(w) == SourceOperator(line[3], Shown(line, w[2]))
           E == Elements(v, r)
<1>1. c.target = The(MapVar(v)) /\ c.op = o /\ c.negate = neg /\ c.transform = ts
    BY DEF CondOf, ParseSecRule, ComparableRule
<1>2. Candidates(The(MapVar(v)), r) = {w[2] : w \in E}
    BY TargetExact
<1>3. \A w \in E : A(w) = S(w)
    <2>1. ASSUME NEW w \in E PROVE A(w) = S(w)
        <3>1. PICK st, x : st = SourceTransforms(Actions(line)) /\ x = w[2]
            OBVIOUS
        <3>2. \A k \in DOMAIN st : SameText(st[k], Stages(st, x)[k - 1])
            BY <3>1 DEF ReadAlike
        <3>3. IsSeq(st) /\ IsMapped(st, ts)
            <4>1. ToSet(st) \subseteq DOMAIN Transforms
                BY <3>2, TransformAlike DEF ToSet
            <4> QED BY <3>1, <4>1, TransformsKept DEF ComparableRule
        <3> HIDE DEF ts
        <3>4. Applied(ts, x) = Shown(line, x)
            BY <3>1, <3>2, <3>3, AppliedAlike DEF Shown
        <3>5. SameOperand(line[3], Shown(line, x))
            BY <3>1 DEF ReadAlike
        <3>6. EvalOp(o, Shown(line, x)) = SourceOperator(line[3], Shown(line, x))
            BY <3>5, OperatorExact DEF ComparableRule
        <3> HIDE DEF o
        <3> QED BY <3>1, <3>4, <3>6
    <2> QED BY <2>1
<1>4. \A w \in E : S(w) \in BOOLEAN
    BY <1>3, EvalBoolean
<1>5. CondHolds(c, r) = ((\E w \in E : A(w)) # neg)
    <2> HIDE DEF c, ts, neg, o, E
    <2>1. CondHolds(c, r) = ((\E x \in Candidates(c.target, r) : EvalOp(c.op, Applied(c.transform, x))) # c.negate)
        BY DEF CondHolds
    <2>2. (\E x \in {w[2] : w \in E} : EvalOp(o, Applied(ts, x))) <=> \E w \in E : EvalOp(o, Applied(ts, w[2]))
        OBVIOUS
    <2> QED BY <1>1, <1>2, <2>1, <2>2
<1>6. \A w : ElementMatches(line, w) = (S(w) # neg)
    BY DEF ElementMatches
<1>7. ASSUME neg = TRUE PROVE \E e : E = {e}
    <2>1. ~IsCollection(v)
        BY <1>7
    <2> QED BY <2>1, TargetExact
<1>8. neg \in BOOLEAN
    BY DEF ComparableRule
<1> HIDE DEF c, ts, neg, A, S, E, o
<1>9. CASE neg = FALSE
    <2>1. \A w \in E : ElementMatches(line, w) = S(w)
        BY <1>4, <1>6, <1>9
    <2>2. CondHolds(c, r) <=> \E w \in E : S(w)
        BY <1>3, <1>5, <1>9
    <2> QED BY <2>1, <2>2 DEF c, E
<1>10. CASE neg = TRUE
    <2>1. PICK e : E = {e}
        BY <1>7, <1>10
    <2>2. ElementMatches(line, e) = ~S(e)
        BY <1>4, <1>6, <1>10, <2>1
    <2>3. CondHolds(c, r) <=> ~S(e)
        BY <1>3, <1>5, <1>10, <2>1
    <2> QED BY <2>1, <2>2, <2>3 DEF c, E
<1> QED BY <1>8, <1>9, <1>10

\* What MeaningKept asks of a line, and that some condition made of it holds.
Exact(l, r) == Compared(l) /\ ~NegatesCollection(l) /\ ~WidensTarget(l) /\ SameReading(l, r)
Holds(m, r) == \E c \in ToSet(MapMemberConditions(m)) : CondHolds(c, r)

\* A line that is a well-formed SecRule has its readings.
LEMMA RuleFacts ==
    ASSUME NEW line \in Seq(Tokens), IsWellFormed(line)
    PROVE  /\ IsSeq(line[2].vars) /\ IsSeq(Actions(line)) /\ line[3].negate \in BOOLEAN
           /\ \A v \in ToSet(line[2].vars) : {v.exclude, v.count, v.regexSelector} \subseteq BOOLEAN
<1>1. line[2] \in Tokens /\ line[3] \in Tokens /\ (Len(line) >= 4 => line[4] \in Tokens)
    BY DEF IsWellFormed
<1>2. IsSeq(<<>>)
    BY DEF IsSeq, ToSet
<1> QED BY <1>1, <1>2, InputsAssumption DEF Actions, IsSeq

\* The conditions of a member hold as the source's SecRule matches.
LEMMA MemberMeaning ==
    ASSUME ReadInv, NEW l \in DOMAIN lines, IsWellFormed(lines[l]), NEW r, Exact(l, r),
           MapMemberConditions(ParseSecRule(lines[l])) # <<>>
    PROVE  /\ ~DropsExclusion(l) => (Holds(ParseSecRule(lines[l]), r) => SourceMatches(lines[l], r))
           /\ ~DropsTarget(l) => (SourceMatches(lines[l], r) => Holds(ParseSecRule(lines[l]), r))
<1> DEFINE line == lines[l]
           m == ParseSecRule(line)
           Use(v) == \E w \in Elements(v, r) : ElementMatches(line, w)
<1>1. line \in Seq(Tokens)
    BY DEF ReadInv
<1>2. /\ IsSeq(line[2].vars) /\ IsSeq(Actions(line)) /\ line[3].negate \in BOOLEAN
      /\ \A v \in ToSet(line[2].vars) : {v.exclude, v.count, v.regexSelector} \subseteq BOOLEAN
    BY <1>1, RuleFacts
<1>3. m.vars = line[2].vars /\ m.op = line[3]
    BY DEF ParseSecRule
<1>4. MapOperator(line[3]) # {}
    BY <1>3 DEF MapMemberConditions
<1>5. ToSet(MapMemberConditions(m)) = {CondOf(m, v) : v \in {x \in ToSet(line[2].vars) : IsTarget(x)}}
    BY <1>2, <1>3, <1>4, ConditionsOf
<1>6. \A v \in Vars(line, FALSE) : \A w \in Elements(v, r) : ReadAlike(line, w)
    BY DEF Exact, SameReading, ReadAlike
<1>7. /\ \A v \in Vars(line, FALSE) : v \in ToSet(line[2].vars) /\ v.exclude = FALSE
      /\ \A v \in ToSet(line[2].vars) : v.exclude = FALSE => v \in Vars(line, FALSE)
    BY DEF Vars, ToSet
<1>8. \A v \in {x \in ToSet(line[2].vars) : IsTarget(x)} : v \in Vars(line, FALSE) /\ MapVar(v) # {}
    BY <1>2, <1>7 DEF IsTarget
<1>9. \A v \in Vars(line, FALSE) : Lost(v) <=> MapVar(v) = {}
    <2>1. \A v \in Vars(line, FALSE) : v.name \notin Uncarried /\ v.count \in BOOLEAN /\ v.regexSelector \in BOOLEAN
        BY <1>2, <1>7 DEF Exact, Compared
    <2>2. ASSUME NEW v \in Vars(line, FALSE) PROVE Lost(v) <=> MapVar(v) = {}
        <3>1. v.name \notin Uncarried /\ v.count \in BOOLEAN /\ v.regexSelector \in BOOLEAN
            BY <2>1
        <3> HIDE DEF line
        <3> QED BY <3>1, LostIsUnmapped
    <2> QED BY <2>2
<1>10. ASSUME NEW v \in Vars(line, FALSE), MapVar(v) # {}
       PROVE  CondHolds(CondOf(m, v), r) <=> Use(v)
    <2>1. Comparable(v)
        <3>1. ~Lost(v)
            BY <1>9, <1>10
        <3>2. ~(v.name \in {"ARGS_GET", "ARGS_POST"} \/ (v.selector # {} /\ (v.count \/ v.name = "ARGS_NAMES")))
            BY DEF Exact, WidensTarget
        <3>3. v.count \in BOOLEAN /\ v.regexSelector \in BOOLEAN
            BY <1>2, <1>7
        <3> QED BY <3>1, <3>2, <3>3 DEF Comparable
    <2>2. line[3].negate => ~IsCollection(v)
        BY DEF Exact, NegatesCollection, IsCollection
    <2>3. ComparableRule(line)
        BY <1>2, <1>4 DEF ComparableRule
    <2>4. \A w \in Elements(v, r) : ReadAlike(line, w)
        BY <1>6
    <2> HIDE DEF line
    <2> QED BY <2>1, <2>2, <2>3, <2>4, ConditionMeaning
<1>11. SourceMatches(line, r) <=>
        \E v \in Vars(line, FALSE) :
            \E w \in Elements(v, r) \ UNION {Elements(x, r) : x \in Vars(line, TRUE)} : ElementMatches(line, w)
    BY DEF SourceMatches, ElementMatches
<1>12. ASSUME Vars(line, TRUE) = {}, Holds(m, r) PROVE SourceMatches(line, r)
    <2>1. PICK v \in {x \in ToSet(line[2].vars) : IsTarget(x)} : CondHolds(CondOf(m, v), r)
        BY <1>5, <1>12 DEF Holds
    <2>2. v \in Vars(line, FALSE) /\ Use(v)
        BY <1>8, <1>10, <2>1
    <2> QED BY <1>11, <1>12, <2>2
<1>13. ASSUME \A v \in Vars(line, FALSE) : MapVar(v) # {}, SourceMatches(line, r) PROVE Holds(m, r)
    <2>1. PICK v \in Vars(line, FALSE) : Use(v)
        BY <1>11, <1>13
    <2>2. IsTarget(v) /\ v \in ToSet(line[2].vars)
        BY <1>7, <1>13 DEF IsTarget
    <2>3. CondHolds(CondOf(m, v), r)
        BY <1>10, <1>13, <2>1
    <2> QED BY <1>5, <2>2, <2>3 DEF Holds
<1> QED BY <1>9, <1>12, <1>13 DEF DropsExclusion, DropsTarget

\* A rule that is built fires when some condition of every member holds.
LEMMA BuildMeaning ==
    ASSUME NEW ms, IsSeq(ms), ms # <<>>, \A k \in DOMAIN ms : IsSeq(ms[k].vars),
           NEW unit, unit.emitted = BuildRules(ms), unit.emitted # <<>>, NEW r
    PROVE  /\ Fires(unit, r) <=> \A k \in DOMAIN ms : Holds(ms[k], r)
           /\ \A k \in DOMAIN ms : MapMemberConditions(ms[k]) # <<>>
<1> DEFINE conds == [k \in DOMAIN ms |-> MapMemberConditions(ms[k])]
           Rule(when) == [id |-> ms[1].acts.id, action |-> RuleAction(ms[1].acts), when |-> when]
<1>1. Len(ms) \in Nat /\ DOMAIN ms = 1..Len(ms) /\ Len(ms) >= 1
    <2>1. Len(ms) \in Nat /\ DOMAIN ms = 1..Len(ms)
        BY AppendAny
    <2>2. Len(ms) # 0
        BY EmptySeq DEF IsSeq
    <2> QED BY <2>1, <2>2
<1>2. \A k \in DOMAIN ms : IsSeq(conds[k]) /\ conds[k] # <<>>
    BY ConditionsOf DEF BuildRules
<1>3. \A k \in DOMAIN ms : Holds(ms[k], r) <=> \E j \in DOMAIN conds[k] : CondHolds(conds[k][j], r)
    BY DEF Holds, ToSet
<1>4. CASE Len(ms) = 1
    <2>1. unit.emitted = [j \in DOMAIN conds[1] |-> Rule(<<conds[1][j]>>)]
        BY <1>4 DEF BuildRules
    <2> HIDE DEF conds
    <2>2. \A x : DOMAIN Rule(<<x>>).when = {1} /\ Rule(<<x>>).when[1] = x
        <3>1. ASSUME NEW x PROVE DOMAIN Rule(<<x>>).when = {1} /\ Rule(<<x>>).when[1] = x
            <4>1. Rule(<<x>>).when = <<x>>
                OBVIOUS
            <4>2. DOMAIN <<x>> = {1} /\ <<x>>[1] = x
                OBVIOUS
            <4> HIDE DEF Rule
            <4> QED BY <4>1, <4>2
        <3> QED BY <3>1
    <2> HIDE DEF Rule
    <2>3. \A j \in DOMAIN unit.emitted : DOMAIN unit.emitted[j].when = {1} /\ unit.emitted[j].when[1] = conds[1][j]
        BY <2>1, <2>2
    <2>4. Fires(unit, r) <=> \E j \in DOMAIN conds[1] : CondHolds(conds[1][j], r)
        BY <2>1, <2>3 DEF Fires
    <2>5. DOMAIN ms = {1}
        BY <1>1, <1>4
    <2> QED BY <1>2, <1>3, <2>4, <2>5 DEF conds
<1>5. CASE Len(ms) # 1
    <2> DEFINE w == [k \in DOMAIN ms |-> conds[k][1]]
    <2>1. unit.emitted = <<Rule(w)>> /\ \A k \in DOMAIN ms : Len(conds[k]) = 1
        BY <1>5 DEF BuildRules
    <2>2. Rule(w).when = w
        OBVIOUS
    <2>3. DOMAIN w = DOMAIN ms /\ \A k \in DOMAIN ms : w[k] = conds[k][1]
        OBVIOUS
    <2> HIDE DEF w, Rule
    <2>4. \A x : DOMAIN <<x>> = {1} /\ <<x>>[1] = x
        OBVIOUS
    <2>5. Fires(unit, r) <=> \A k \in DOMAIN ms : CondHolds(conds[k][1], r)
        BY <2>1, <2>2, <2>3, <2>4 DEF Fires
    <2>6. \A k \in DOMAIN ms : DOMAIN conds[k] = {1}
        <3>1. ASSUME NEW k \in DOMAIN ms PROVE DOMAIN conds[k] = {1}
            <4>1. DOMAIN conds[k] = 1..Len(conds[k])
                BY <1>2, AppendAny
            <4>2. Len(conds[k]) = 1
                BY <2>1
            <4> HIDE DEF conds
            <4> QED BY <4>1, <4>2
        <3> QED BY <3>1
    <2> QED BY <1>2, <1>3, <2>5, <2>6
<1> QED BY <1>4, <1>5

-----------------------------------------------------------------------------
(* The meaning of the whole import. *)

\* A chain built emitted what build_rules makes of its members.
MeaningInv ==
    \A u \in DOMAIN units :
        /\ IsSeq(units[u].members) /\ units[u].members # <<>>
        /\ units[u].emitted = BuildRules(Parsed(units[u].members))

\* Only Build adds a chain, and no line changes once there is one.
LEMMA MeaningStep ==
    ASSUME ScanInv, MeaningInv, [Next]_vars
    PROVE  MeaningInv'
<1>1. CASE Build
    <2>1. PICK em, new :
            /\ em = BuildRules(Parsed(members)) /\ members # <<>> /\ lines' = lines
            /\ new = [members |-> members, broken |-> IsChained(members[Len(members)]), next |-> i, emitted |-> em]
            /\ units' = Append(units, new)
        BY <1>1, BuildAdds
    <2>2. new.members = members /\ new.emitted = em
        BY <2>1
    <2>3. /\ Len(units) \in Nat /\ DOMAIN units = 1..Len(units) /\ DOMAIN units' = 1..(Len(units) + 1)
          /\ \A u \in 1..Len(units) : units'[u] = units[u]
          /\ units'[Len(units) + 1] = new
        BY <2>1, AppendAny DEF ScanInv, UnitsInv
    <2>4. \A u \in DOMAIN units' : u \in DOMAIN units \/ u = Len(units) + 1
        BY <2>3
    <2>5. \A ms : Parsed(ms)' = Parsed(ms)
        BY <2>1 DEF Parsed, ParseSecRule
    <2>6. ASSUME NEW u \in DOMAIN units'
          PROVE  /\ IsSeq(units'[u].members) /\ units'[u].members # <<>>
                 /\ units'[u].emitted = BuildRules(Parsed(units'[u].members))
        <3>1. CASE u \in DOMAIN units
            BY <2>3, <3>1 DEF MeaningInv
        <3>2. CASE u = Len(units) + 1
            <4>1. IsSeq(members)
                BY DEF ScanInv, ChainInv
            <4> QED BY <2>1, <2>2, <2>3, <3>2, <4>1
        <3> QED BY <2>4, <3>1, <3>2
    <2> QED BY <2>1, <2>5, <2>6 DEF MeaningInv, Parsed
<1>2. CASE ReadFile \/ ReadFails \/ JoinLines
    <2>1. units' = <<>>
        BY <1>2 DEF ScanInv, ReadInv, ReadFile, ReadFails, JoinLines
    <2> QED BY <2>1 DEF MeaningInv
<1>3. CASE PassOver \/ PassOverInChain \/ Malformed \/ TakeMember("scan") \/ TakeMember("chain") \/ BreakChain
           \/ Write \/ UNCHANGED vars
    <2>1. units' = units /\ lines' = lines
        BY <1>3 DEF PassOver, PassOverInChain, Malformed, TakeMember, BreakChain, Write, vars
    <2> QED BY <2>1 DEF MeaningInv, Parsed, ParseSecRule
<1> QED BY <1>1, <1>2, <1>3 DEF Next

\* The invariants give the meaning of every chain.
LEMMA AllKept ==
    ASSUME ScanInv, MeaningInv
    PROVE  MeaningKept
<1> SUFFICES ASSUME NEW u \in DOMAIN units, NEW r \in Requests, units[u].emitted # <<>>,
                    \A l \in ToSet(units[u].members) : Exact(l, r)
             PROVE  /\ (\A l \in ToSet(units[u].members) : ~DropsExclusion(l)) =>
                            (Fires(units[u], r) => ChainMatches(units[u], r))
                    /\ (\A l \in ToSet(units[u].members) : ~DropsTarget(l)) =>
                            (ChainMatches(units[u], r) => Fires(units[u], r))
    BY DEF MeaningKept, Exact
<1> DEFINE ls == units[u].members
           ms == Parsed(ls)
<1>1. IsSeq(ls) /\ ls # <<>> /\ units[u].emitted = BuildRules(ms)
    BY DEF MeaningInv
<1>2. Len(ls) \in Nat /\ DOMAIN ls = 1..Len(ls)
    BY <1>1, AppendAny
<1>3. \A k \in DOMAIN ls : /\ ls[k] \in ToSet(ls) /\ ls[k] \in DOMAIN lines
                           /\ IsWellFormed(lines[ls[k]]) /\ lines[ls[k]] \in Seq(Tokens)
    <2>1. \A l \in ToSet(ls) : IsMember(l)
        BY DEF ScanInv, UnitsInv
    <2>2. ASSUME NEW l, IsMember(l) PROVE l \in DOMAIN lines
        <3>1. lines \in Seq(Seq(Tokens)) /\ i \in 1..(Len(lines) + 1) /\ l \in 1..(i - 1)
            BY <2>2 DEF IsMember, ScanInv, ReadInv
        <3> QED BY <3>1
    <2>3. \A l \in DOMAIN lines : lines[l] \in Seq(Tokens)
        BY DEF ScanInv, ReadInv
    <2> QED BY <2>1, <2>2, <2>3 DEF IsMember, ToSet
<1>4. DOMAIN ms = DOMAIN ls /\ \A k \in DOMAIN ls : ms[k] = ParseSecRule(lines[ls[k]])
    BY DEF Parsed
<1>5. IsSeq(ms) /\ ms # <<>>
    <2>1. ms = [k \in 1..Len(ls) |-> ms[k]] /\ \A k \in 1..Len(ls) : ms[k] \in ToSet(ms)
        BY <1>2 DEF Parsed, ToSet
    <2>2. Len(ls) # 0
        BY <1>1, EmptySeq DEF IsSeq
    <2> HIDE DEF ms, ls
    <2>3. IsSeq(ms)
        BY <1>2, <2>1, IsASeq DEF IsSeq
    <2>4. ms # <<>>
        <3>1. 1 \in DOMAIN ms
            BY <1>2, <1>4, <2>2
        <3> QED BY <3>1
    <2> QED BY <2>3, <2>4
<1>6. \A k \in DOMAIN ms : IsSeq(ms[k].vars)
    <2>1. ASSUME NEW k \in DOMAIN ls PROVE IsSeq(ms[k].vars)
        <3>1. ms[k].vars = lines[ls[k]][2].vars
            <4>1. \A x : ParseSecRule(x).vars = x[2].vars
                BY DEF ParseSecRule
            <4> HIDE DEF ms, ls
            <4> QED BY <1>4, <4>1
        <3> QED BY <1>3, <3>1, RuleFacts
    <2> QED BY <1>4, <2>1
<1> HIDE DEF ms, ls
<1>7. /\ Fires(units[u], r) <=> \A k \in DOMAIN ms : Holds(ms[k], r)
      /\ \A k \in DOMAIN ms : MapMemberConditions(ms[k]) # <<>>
    BY <1>1, <1>5, <1>6, BuildMeaning
<1>8. ChainMatches(units[u], r) <=> \A k \in DOMAIN ls : SourceMatches(lines[ls[k]], r)
    BY DEF ChainMatches, ls
<1>9. ASSUME NEW k \in DOMAIN ls
      PROVE  /\ ~DropsExclusion(ls[k]) => (Holds(ms[k], r) => SourceMatches(lines[ls[k]], r))
             /\ ~DropsTarget(ls[k]) => (SourceMatches(lines[ls[k]], r) => Holds(ms[k], r))
    <2>1. Exact(ls[k], r)
        BY <1>3 DEF ls
    <2>2. MapMemberConditions(ParseSecRule(lines[ls[k]])) # <<>>
        BY <1>4, <1>7
    <2>3. ReadInv
        BY DEF ScanInv
    <2>4. /\ ~DropsExclusion(ls[k]) =>
                (Holds(ParseSecRule(lines[ls[k]]), r) => SourceMatches(lines[ls[k]], r))
          /\ ~DropsTarget(ls[k]) => (SourceMatches(lines[ls[k]], r) => Holds(ParseSecRule(lines[ls[k]]), r))
        BY <1>3, <2>1, <2>2, <2>3, MemberMeaning
    <2> QED BY <1>4, <2>4
<1> QED BY <1>3, <1>4, <1>7, <1>8, <1>9 DEF ls

\* Every imported chain, of any input, fires on the requests its source matches,
\* but for the losses the property names (build_rules, map_member_conditions).
THEOREM Faithful == Spec => []MeaningKept
<1>1. Init => MeaningInv
    BY DEF Init, MeaningInv
<1>2. ScanInv /\ MeaningInv /\ [Next]_vars => MeaningInv'
    BY MeaningStep
<1>3. ScanInv /\ MeaningInv => MeaningKept
    BY AllKept
<1> QED
    BY <1>1, <1>2, <1>3, ScanInvariant, PTL DEF Spec

-----------------------------------------------------------------------------
(* Types. *)

\* build_rules returns a list.
LEMMA BuildIsSeq ==
    ASSUME NEW ms, \A k \in DOMAIN ms : IsSeq(ms[k].vars), Len(ms) = 1 => 1 \in DOMAIN ms
    PROVE  IsSeq(BuildRules(ms))
<1> DEFINE conds == [k \in DOMAIN ms |-> MapMemberConditions(ms[k])]
           Rule(when) == [id |-> ms[1].acts.id, action |-> RuleAction(ms[1].acts), when |-> when]
           many == [j \in DOMAIN conds[1] |-> Rule(<<conds[1][j]>>)]
           one == Rule([k \in DOMAIN ms |-> conds[k][1]])
<1>1. BuildRules(ms) \in {<<>>, <<one>>} \/ (Len(ms) = 1 /\ BuildRules(ms) = many)
    BY DEF BuildRules
<1>2. IsSeq(<<>>) /\ IsSeq(<<one>>)
    <2> HIDE DEF one
    <2>1. \A x : <<x>> \in Seq({x}) /\ ToSet(<<x>>) = {x}
        BY DEF ToSet
    <2> QED BY <2>1 DEF IsSeq, ToSet
<1>3. ASSUME Len(ms) = 1 PROVE IsSeq(many)
    <2> DEFINE n == Len(conds[1])
    <2>1. n \in Nat /\ DOMAIN conds[1] = 1..n
        BY <1>3, ConditionsOf, AppendAny
    <2>2. many = [j \in 1..n |-> many[j]] /\ \A j \in 1..n : many[j] \in ToSet(many)
        BY <2>1 DEF ToSet
    <2> HIDE DEF many, n, conds
    <2> QED BY <2>1, <2>2, IsASeq DEF IsSeq
<1> HIDE DEF conds, many, one
<1> QED BY <1>1, <1>2, <1>3

\* Every conversion counted emitted a rule.
OutputInv == IsSeq(rules) /\ report.converted <= Len(rules)

\* The converter counts what it emits.
LEMMA OutputStep ==
    ASSUME ScanInv, OutputInv, [Next]_vars
    PROVE  OutputInv'
<1>1. CASE Build
    <2>1. PICK em : /\ em = BuildRules(Parsed(members)) /\ rules' = rules \o em
                    /\ report'.converted = report.converted + (IF em = <<>> THEN 0 ELSE 1)
        BY <1>1, BuildAdds
    <2>2. IsSeq(em)
        <3> DEFINE ms == Parsed(members)
        <3>1. DOMAIN ms = DOMAIN members /\ \A k \in DOMAIN members : ms[k].vars = lines[members[k]][2].vars
            BY DEF Parsed, ParseSecRule
        <3>2. ASSUME NEW k \in DOMAIN members PROVE IsSeq(ms[k].vars)
            <4>1. IsMember(members[k])
                BY DEF ScanInv, ChainInv, ToSet
            <4>2. lines \in Seq(Seq(Tokens)) /\ i \in 1..(Len(lines) + 1)
                BY DEF ScanInv, ReadInv
            <4>3. lines[members[k]] \in Seq(Tokens) /\ IsWellFormed(lines[members[k]])
                BY <4>1, <4>2 DEF IsMember
            <4> QED BY <3>1, <4>3, RuleFacts
        <3>3. Len(ms) = 1 => 1 \in DOMAIN ms
            <4>1. Len(members) \in Nat /\ DOMAIN members = 1..Len(members)
                BY AppendAny DEF ScanInv, ChainInv
            <4>2. Len(ms) = Len(members)
                BY <4>1 DEF Parsed
            <4> HIDE DEF ms
            <4> QED BY <3>1, <4>1, <4>2
        <3> HIDE DEF ms
        <3> QED BY <2>1, <3>1, <3>2, <3>3, BuildIsSeq DEF ms
    <2>3. /\ Len(rules) \in Nat /\ Len(em) \in Nat
          /\ IsSeq(rules \o em) /\ Len(rules \o em) = Len(rules) + Len(em)
        BY <2>2, AppendAny, ConcatAny DEF OutputInv
    <2>4. em # <<>> => Len(em) >= 1
        BY <2>2, <2>3, EmptySeq DEF IsSeq
    <2>5. report.converted \in Nat
        BY DEF ScanInv, ReportInv
    <2> QED BY <2>1, <2>3, <2>4, <2>5 DEF OutputInv
<1>2. CASE Malformed
    <2>1. report'.converted = report.converted /\ rules' = rules
        BY <1>2 DEF Malformed, ScanInv, ReportInv
    <2> QED BY <2>1 DEF OutputInv
<1>3. CASE ReadFile \/ ReadFails \/ JoinLines \/ PassOver \/ PassOverInChain \/ TakeMember("scan") \/ TakeMember("chain")
           \/ BreakChain \/ Write \/ UNCHANGED vars
    <2>1. report' = report /\ rules' = rules
        BY <1>3 DEF ReadFile, ReadFails, JoinLines, PassOver, PassOverInChain, TakeMember, BreakChain, Write, vars
    <2> QED BY <2>1 DEF OutputInv
<1> QED BY <1>1, <1>2, <1>3 DEF Next

\* The converter keeps its types, and counts no conversion without a rule
\* (ConvertReport).
THEOREM TypeCorrect == Spec => []TypeOK
<1>1. Init => OutputInv
    <2>1. IsSeq(<<>>) /\ Len(<<>>) = 0
        BY DEF IsSeq, ToSet
    <2> QED BY <2>1 DEF Init, OutputInv
<1>2. ScanInv /\ OutputInv /\ [Next]_vars => OutputInv'
    BY OutputStep
<1>3. ScanInv /\ OutputInv => TypeOK
    <2> SUFFICES ASSUME ScanInv, OutputInv PROVE TypeOK
        OBVIOUS
    <2>1. ToSet(members) \subseteq SecRules
        <3>1. \A m \in ToSet(members) : m \in 1..(i - 1) /\ IsSecRule(lines[m])
            BY DEF ScanInv, ChainInv, IsMember
        <3>2. lines \in Seq(Seq(Tokens)) /\ i \in 1..(Len(lines) + 1)
            BY DEF ScanInv, ReadInv
        <3>3. DOMAIN lines = 1..Len(lines) /\ Len(lines) \in Nat
            BY <3>2
        <3> QED BY <3>1, <3>2, <3>3 DEF SecRules
    <2> QED BY <2>1 DEF TypeOK, ScanInv, ReadInv, ChainInv, ReportInv, OutputInv
<1> QED
    BY <1>1, <1>2, <1>3, ScanInvariant, PTL DEF Spec
=============================================================================
