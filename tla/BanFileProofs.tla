---------------------------- MODULE BanFileProofs ----------------------------
(***************************************************************************)
(* What `budu ban` and `budu unban` guarantee for any list, any number of   *)
(* commands and any files, as long as they run one after another: a command *)
(* that dies or fails anywhere leaves a whole list behind, and the file     *)
(* changes as the abstract ban list says.                                   *)
(***************************************************************************)
EXTENDS BanFile, FiniteSetTheorems, SequenceTheorems, TLAPS

-----------------------------------------------------------------------------
(* Induction by the least counterexample. *)

\* A set of naturals that is not empty has a least element.
LEMMA LeastNat ==
    ASSUME NEW T \in SUBSET Nat, T # {}
    PROVE  \E m \in T : \A n \in T : m <= n
<1> DEFINE Less == {ss \in Nat \X Nat : ss[1] < ss[2]}
<1>1. IsWellFoundedOn(Less, Nat)
    BY NatLessThanWellFounded, Zenon DEF OpToRel
<1> HIDE DEF Less
<1>2. PICK m \in T : \A n \in T : <<n, m>> \notin Less
    BY <1>1, WFMin
<1>3. \A n \in T : ~(n < m)
    BY <1>2 DEF Less
<1> QED BY <1>3

-----------------------------------------------------------------------------
(* Filtering a list. *)

\* f is the loop of `without` over the first n lines.
Filters(f, lines, net, n) ==
    f = [k \in 0..n |-> IF k = 0 THEN <<>>
                        ELSE IF lines[k].net = {net} THEN f[k - 1]
                        ELSE Append(f[k - 1], lines[k])]

\* The loop of `without` can be run over any number of lines.
LEMMA FilterExists ==
    ASSUME NEW lines, NEW net, NEW n \in Nat
    PROVE  \E f : Filters(f, lines, net, n)
<1> DEFINE T == {m \in Nat : ~ \E f : Filters(f, lines, net, m)}
<1> SUFFICES ASSUME T # {} PROVE FALSE
    OBVIOUS
<1>1. PICK m \in T : \A k \in T : m <= k
    BY LeastNat
<1>2. m # 0
    <2>1. Filters([k \in 0..0 |-> <<>>], lines, net, 0)
        BY DEF Filters
    <2> QED BY <1>1, <2>1
<1>3. m - 1 \in Nat /\ m - 1 \notin T
    BY <1>1, <1>2
<1>4. PICK f : Filters(f, lines, net, m - 1)
    BY <1>3
<1> DEFINE g == [k \in 0..m |-> IF k # m THEN f[k]
                                ELSE IF lines[k].net = {net} THEN f[k - 1]
                                ELSE Append(f[k - 1], lines[k])]
<1>5. \A k \in 0..(m - 1) : g[k] = f[k]
    BY <1>3
<1>6. \A k \in 0..m : k # 0 => k - 1 \in 0..(m - 1)
    BY <1>3
<1>7. \A k \in 0..m : g[k] = IF k = 0 THEN <<>>
                             ELSE IF lines[k].net = {net} THEN g[k - 1]
                             ELSE Append(g[k - 1], lines[k])
    <2> SUFFICES ASSUME NEW k \in 0..m
                 PROVE  g[k] = IF k = 0 THEN <<>>
                               ELSE IF lines[k].net = {net} THEN g[k - 1]
                               ELSE Append(g[k - 1], lines[k])
        OBVIOUS
    <2>1. CASE k = m
        <3>1. g[k - 1] = f[k - 1]
            BY <1>2, <1>5, <1>6, <2>1
        <3>2. g[k] = IF lines[k].net = {net} THEN f[k - 1] ELSE Append(f[k - 1], lines[k])
            BY <2>1
        <3> HIDE DEF g
        <3> QED BY <1>2, <2>1, <3>1, <3>2
    <2>2. CASE k # m
        <3>1. k \in 0..(m - 1)
            BY <1>3, <2>2
        <3>2. f[k] = IF k = 0 THEN <<>>
                     ELSE IF lines[k].net = {net} THEN f[k - 1]
                     ELSE Append(f[k - 1], lines[k])
            BY <1>4, <3>1 DEF Filters
        <3>3. k # 0 => g[k - 1] = f[k - 1]
            BY <1>5, <1>6, <3>1
        <3>4. g[k] = f[k]
            BY <1>5, <3>1
        <3> HIDE DEF g
        <3> QED BY <3>2, <3>3, <3>4
    <2> QED BY <2>1, <2>2
<1>8. g = [k \in 0..m |-> g[k]]
    OBVIOUS
<1> HIDE DEF g
<1>9. Filters(g, lines, net, m)
    BY <1>7, <1>8 DEF Filters
<1> QED BY <1>1, <1>9

\* `without` returns a list of lines again.
LEMMA WithoutType ==
    ASSUME NEW S, NEW lines \in Seq(S), NEW net
    PROVE  Without(lines, net) \in Seq(S)
<1> DEFINE n == Len(lines)
<1> DEFINE kept == CHOOSE f : Filters(f, lines, net, n)
<1>1. n \in Nat
    OBVIOUS
<1>2. Filters(kept, lines, net, n)
    BY <1>1, FilterExists
<1>3. Without(lines, net) = kept[n]
    BY DEF Without, Filters
<1> HIDE DEF kept
<1> DEFINE T == {k \in 0..n : kept[k] \notin Seq(S)}
<1>4. T = {}
    <2> SUFFICES ASSUME T # {} PROVE FALSE
        OBVIOUS
    <2>0. T \in SUBSET Nat
        BY <1>1
    <2>1. PICK m \in T : \A k \in T : m <= k
        BY <2>0, LeastNat
    <2>2. m \in 0..n /\ kept[m] \notin Seq(S)
        BY <2>1
    <2>3. kept[m] = IF m = 0 THEN <<>>
                    ELSE IF lines[m].net = {net} THEN kept[m - 1]
                    ELSE Append(kept[m - 1], lines[m])
        BY <1>2, <2>2 DEF Filters
    <2>4. m # 0
        BY <2>2, <2>3
    <2>5. m - 1 \in 0..n /\ kept[m - 1] \in Seq(S)
        BY <1>1, <2>1, <2>2, <2>4
    <2>6. lines[m] \in S
        BY <2>2, <2>4
    <2>7. Append(kept[m - 1], lines[m]) \in Seq(S)
        BY <2>5, <2>6
    <2> QED BY <2>2, <2>3, <2>4, <2>5, <2>7
<1> QED BY <1>1, <1>3, <1>4

\* `without` on an empty list removes nothing.
LEMMA WithoutEmpty ==
    ASSUME NEW net
    PROVE  Without(<<>>, net) = <<>>
<1> DEFINE kept == CHOOSE f : Filters(f, <<>>, net, 0)
<1>1. Filters(kept, <<>>, net, 0)
    BY FilterExists
<1>2. Without(<<>>, net) = kept[0]
    <2>1. Len(<<>>) = 0
        OBVIOUS
    <2> QED BY <2>1 DEF Without, Filters
<1> HIDE DEF kept
<1> QED BY <1>1, <1>2 DEF Filters

\* The lines of a list.
LinesOf(lines) == {lines[k] : k \in DOMAIN lines}

\* One more line is one more element.
LEMMA LinesOfAppend ==
    ASSUME NEW S, NEW lines \in Seq(S), NEW line \in S
    PROVE  LinesOf(Append(lines, line)) = LinesOf(lines) \cup {line}
<1> DEFINE longer == Append(lines, line)
<1>1. /\ DOMAIN lines = 1..Len(lines) /\ DOMAIN longer = 1..(Len(lines) + 1) /\ Len(lines) \in Nat
      /\ \A k \in 1..Len(lines) : longer[k] = lines[k]
      /\ longer[Len(lines) + 1] = line
    BY AppendProperties
<1>2. \A k \in 1..(Len(lines) + 1) : k \in 1..Len(lines) \/ k = Len(lines) + 1
    BY <1>1
<1>3. 1..Len(lines) \subseteq 1..(Len(lines) + 1) /\ Len(lines) + 1 \in 1..(Len(lines) + 1)
    BY <1>1
<1> HIDE DEF longer
<1>4. LinesOf(longer) = LinesOf(lines) \cup {line}
    BY <1>1, <1>2, <1>3 DEF LinesOf
<1> QED BY <1>4 DEF longer

\* `without` removes exactly the lines that name the target: every one of them,
\* and nothing else.
LEMMA WithoutExact ==
    ASSUME NEW S, NEW lines \in Seq(S), NEW net
    PROVE  LinesOf(Without(lines, net)) = {l \in LinesOf(lines) : l.net # {net}}
<1> DEFINE n == Len(lines)
<1> DEFINE kept == CHOOSE f : Filters(f, lines, net, n)
<1>1. n \in Nat /\ DOMAIN lines = 1..n /\ \A k \in 1..n : lines[k] \in S
    OBVIOUS
<1>2. Filters(kept, lines, net, n)
    BY <1>1, FilterExists
<1>3. Without(lines, net) = kept[n]
    BY DEF Without, Filters
<1> HIDE DEF kept, n
<1> DEFINE Right(k) == /\ kept[k] \in Seq(S)
                       /\ LinesOf(kept[k]) = {l \in {lines[j] : j \in 1..k} : l.net # {net}}
<1> DEFINE T == {k \in 0..n : ~Right(k)}
<1>4. T = {}
    <2> SUFFICES ASSUME T # {} PROVE FALSE
        OBVIOUS
    <2>0. T \in SUBSET Nat
        BY <1>1
    <2>1. PICK m \in T : \A k \in T : m <= k
        BY <2>0, LeastNat
    <2>2. m \in 0..n /\ ~Right(m)
        BY <2>1
    <2>3. kept[m] = IF m = 0 THEN <<>>
                    ELSE IF lines[m].net = {net} THEN kept[m - 1]
                    ELSE Append(kept[m - 1], lines[m])
        BY <1>2, <2>2 DEF Filters
    <2>4. m # 0
        <3>1. m = 0 => kept[m] = <<>>
            BY <2>3
        <3>2. <<>> \in Seq(S) /\ LinesOf(<<>>) = {}
            BY DEF LinesOf
        <3>3. {lines[j] : j \in 1..0} = {}
            OBVIOUS
        <3> QED BY <2>2, <3>1, <3>2, <3>3
    <2>5. m - 1 \in 0..n /\ m - 1 \notin T
        <3>1. m - 1 \in 0..n /\ m \in Nat /\ ~(m <= m - 1)
            BY <1>1, <2>2, <2>4
        <3> HIDE DEF T
        <3> QED BY <2>1, <3>1
    <2>6. Right(m - 1)
        BY <2>5
    <2>7. lines[m] \in S
        BY <1>1, <2>2, <2>4
    <2>8. {lines[j] : j \in 1..m} = {lines[j] : j \in 1..(m - 1)} \cup {lines[m]}
        <3>1. \A j : j \in 1..m <=> j \in 1..(m - 1) \/ j = m
            BY <1>1, <2>2, <2>4
        <3> QED BY <3>1
    <2>9. CASE lines[m].net = {net}
        <3>1. kept[m] = kept[m - 1]
            BY <2>3, <2>4, <2>9
        <3>2. {l \in {lines[j] : j \in 1..m} : l.net # {net}}
                = {l \in {lines[j] : j \in 1..(m - 1)} : l.net # {net}}
            BY <2>8, <2>9
        <3> QED BY <2>2, <2>6, <3>1, <3>2
    <2>10. CASE lines[m].net # {net}
        <3>1. kept[m] = Append(kept[m - 1], lines[m])
            BY <2>3, <2>4, <2>10
        <3>2. kept[m] \in Seq(S) /\ LinesOf(kept[m]) = LinesOf(kept[m - 1]) \cup {lines[m]}
            BY <2>6, <2>7, <3>1, LinesOfAppend
        <3>3. {l \in {lines[j] : j \in 1..m} : l.net # {net}}
                = {l \in {lines[j] : j \in 1..(m - 1)} : l.net # {net}} \cup {lines[m]}
            BY <2>8, <2>10
        <3> QED BY <2>2, <2>6, <3>2, <3>3
    <2> QED BY <2>9, <2>10
<1>5. Right(n)
    <2>1. n \in 0..n
        BY <1>1
    <2> HIDE DEF Right
    <2> QED BY <1>4, <2>1
<1>6. LinesOf(lines) = {lines[j] : j \in 1..n}
    BY <1>1 DEF LinesOf
<1> QED BY <1>3, <1>5, <1>6

\* A ban leaves exactly one line about its network, and an unban none; the other
\* lines stay, all of them (ban, unban, without).
THEOREM EditIsExact ==
    ASSUME NEW lines \in Seq(LineType), NEW j \in JobType
    PROVE  LinesOf(Edited(lines, j)) =
               {l \in LinesOf(lines) : l.net # {j.net}}
                   \cup (IF j.op = "ban" THEN {[net |-> {j.net}, kind |-> j.kind]} ELSE {})
<1>1. /\ Without(lines, j.net) \in Seq(LineType)
      /\ LinesOf(Without(lines, j.net)) = {l \in LinesOf(lines) : l.net # {j.net}}
    BY WithoutType, WithoutExact
<1>2. [net |-> {j.net}, kind |-> j.kind] \in LineType
    BY DEF LineType, JobType
<1>3. CASE j.op = "ban"
    <2>1. Edited(lines, j) = Append(Without(lines, j.net), [net |-> {j.net}, kind |-> j.kind])
        BY <1>3 DEF Edited
    <2>2. \A s \in Seq(LineType), l \in LineType : LinesOf(Append(s, l)) = LinesOf(s) \cup {l}
        BY LinesOfAppend
    <2>3. LinesOf(Edited(lines, j))
            = LinesOf(Without(lines, j.net)) \cup {[net |-> {j.net}, kind |-> j.kind]}
        BY <1>1, <1>2, <2>1, <2>2, Zenon
    <2> QED BY <1>1, <1>3, <2>3
<1>4. CASE j.op # "ban"
    BY <1>1, <1>4 DEF Edited
<1> QED BY <1>3, <1>4

\* What a command writes is a list of lines.
LEMMA EditedType ==
    ASSUME NEW lines \in Seq(LineType), NEW j \in JobType
    PROVE  Edited(lines, j) \in Seq(LineType)
<1>1. Without(lines, j.net) \in Seq(LineType)
    BY WithoutType
<1>2. [net |-> {j.net}, kind |-> j.kind] \in LineType
    BY DEF LineType, JobType
<1> QED BY <1>1, <1>2 DEF Edited

-----------------------------------------------------------------------------
(* Types. *)

\* A name points to one inode or to none.
AtMostOne(S) == \A i, k \in S : i = k

\* Every name, and every open file of a command, is one inode or none; a command
\* holds a file open only while it writes.
NamesInv ==
    /\ AtMostOne(path) /\ AtMostOne(tmp)
    /\ \A e \in Editor : AtMostOne(fd[e]) /\ (pc[e] # "write" => fd[e] = {})

\* File::create always finds an inode that nobody uses.
LEMMA FreeInode ==
    ASSUME TypeOK, NamesInv, tmp = {}
    PROVE  (CHOOSE i \in Free : TRUE) \in Free
<1> DEFINE opened == {e \in Editor : fd[e] # {}}
<1> DEFINE g == [e \in opened |-> CHOOSE i \in fd[e] : TRUE]
<1> DEFINE used == UNION {fd[e] : e \in Editor}
<1>1. \A e \in opened : fd[e] = {g[e]}
    BY DEF NamesInv, AtMostOne
<1>2. g \in Surjection(opened, used)
    <2>1. \A e \in opened : g[e] \in used
        BY <1>1
    <2>2. \A i \in used : \E e \in opened : g[e] = i
        BY <1>1
    <2>3. g \in [opened -> used]
        BY <2>1
    <2> QED BY <2>2, <2>3 DEF Surjection
<1>3. IsFiniteSet(opened) /\ Cardinality(opened) <= Cardinality(Editor)
    BY BanFileAssumption, FS_Subset
<1>4. IsFiniteSet(used) /\ Cardinality(used) <= Cardinality(opened)
    BY <1>2, <1>3, FS_Surjection
<1>5. IsFiniteSet(path) /\ Cardinality(path) <= 1
    <2>1. path = {} \/ \E i : path = {i}
        BY DEF NamesInv, AtMostOne
    <2>2. CASE path = {}
        BY <2>2, FS_EmptySet
    <2>3. ASSUME NEW i, path = {i} PROVE IsFiniteSet(path) /\ Cardinality(path) <= 1
        <3>1. IsFiniteSet({i}) /\ Cardinality({i}) = 1
            BY FS_Singleton
        <3> QED BY <2>3, <3>1
    <2> QED BY <2>1, <2>2, <2>3
<1> HIDE DEF opened, g, used
<1>6. IsFiniteSet(path \cup used) /\ Cardinality(path \cup used) <= 1 + Cardinality(Editor)
    <2>1. /\ IsFiniteSet(path \cup used)
          /\ Cardinality(path \cup used)
               = Cardinality(path) + Cardinality(used) - Cardinality(path \cap used)
        BY <1>4, <1>5, FS_Union
    <2>2. IsFiniteSet(path \cap used)
        BY <1>5, FS_Subset
    <2>3. /\ Cardinality(path) \in Nat /\ Cardinality(used) \in Nat
          /\ Cardinality(path \cap used) \in Nat /\ Cardinality(opened) \in Nat
          /\ Cardinality(Editor) \in Nat
        BY <1>3, <1>4, <1>5, <2>2, BanFileAssumption, FS_CardinalityType
    <2> QED BY <1>3, <1>4, <1>5, <2>1, <2>3
<1>7. Inode \ (path \cup used) # {}
    <2> SUFFICES ASSUME Inode \subseteq path \cup used PROVE FALSE
        OBVIOUS
    <2>1. Cardinality(Inode) <= Cardinality(path \cup used)
        BY <1>6, FS_Subset
    <2>2. /\ Cardinality(Inode) \in Nat /\ Cardinality(Editor) \in Nat
          /\ Cardinality(path \cup used) \in Nat
        BY <1>6, BanFileAssumption, FS_CardinalityType
    <2> QED BY <1>6, <2>1, <2>2, BanFileAssumption
<1>8. Free = Inode \ (path \cup used)
    BY DEF Free, used
<1> QED BY <1>7, <1>8

\* A write at any offset leaves a list of lines.
LEMMA WriteAtType ==
    ASSUME NEW lines \in Seq(LineType), NEW n \in Nat, NEW line \in LineType
    PROVE  WriteAt(lines, n, line) \in Seq(LineType)
<1> DEFINE size == IF Len(lines) > n THEN Len(lines) ELSE n + 1
<1>1. size \in Nat
    OBVIOUS
<1>2. Hole \in LineType
    BY DEF Hole, LineType
<1>3. \A k \in 1..size : WriteAt(lines, n, line)[k] \in LineType
    BY <1>1, <1>2 DEF WriteAt
<1>4. WriteAt(lines, n, line) = [k \in 1..size |-> WriteAt(lines, n, line)[k]]
    BY DEF WriteAt
<1> HIDE DEF size
<1> QED BY <1>1, <1>3, <1>4

TypeInv == TypeOK /\ NamesInv

\* Files and commands start well formed.
LEMMA TypeInit == Init => TypeInv
<1> SUFFICES ASSUME Init PROVE TypeInv
    OBVIOUS
<1>1. Inode # {} /\ JobType # {}
    <2>1. Inode # {}
        <3>1. Inode = {} => Cardinality(Inode) = 0
            BY FS_EmptySet
        <3>2. Cardinality(Editor) \in Nat /\ Cardinality(Inode) > Cardinality(Editor) + 1
            BY BanFileAssumption, FS_CardinalityType
        <3> QED BY <3>1, <3>2
    <2>2. \A n \in Net : [op |-> "ban", net |-> n, kind |-> "timed"] \in JobType
        BY DEF JobType, Op, Kind
    <2> QED BY <2>1, <2>2, BanFileAssumption
<1>2. (CHOOSE i \in Inode : TRUE) \in Inode /\ (CHOOSE j \in JobType : TRUE) \in JobType
    BY <1>1
<1>3. path \subseteq Inode /\ AtMostOne(path)
    BY <1>2 DEF Init, AtMostOne
<1>4. data \in [Inode -> Seq(LineType)]
    <2>1. PICK lines \in Initial : data = [i \in Inode |-> IF i \in path THEN lines ELSE <<>>]
        BY DEF Init
    <2>2. lines \in Seq(LineType) /\ <<>> \in Seq(LineType)
        BY BanFileAssumption
    <2> QED BY <2>1, <2>2
<1>5. flaky \in BOOLEAN
    BY BanFileAssumption DEF Init
<1> QED BY <1>2, <1>3, <1>4, <1>5, BanFileAssumption DEF Init, TypeInv, TypeOK, NamesInv, AtMostOne

\* What read_lines returns is a list of lines.
LEMMA ReadType ==
    ASSUME TypeOK
    PROVE  Content(path) \cup (IF flaky \/ path = {} THEN {<<>>} ELSE {}) \subseteq Seq(LineType)
<1>1. \A i \in path : {data[i]} \subseteq Seq(LineType)
    BY DEF TypeOK
<1>2. Content(path) \subseteq Seq(LineType)
    BY <1>1, Zenon DEF Content
<1>3. <<>> \in Seq(LineType)
    OBVIOUS
<1>4. (IF flaky \/ path = {} THEN {<<>>} ELSE {}) \subseteq Seq(LineType)
    BY <1>3
<1> QED BY <1>2, <1>4, Zenon

\* Every step of a command keeps files and commands well formed.
LEMMA TypeStep == TypeInv /\ [Next]_vars => TypeInv'
<1> SUFFICES ASSUME TypeInv, [Next]_vars PROVE TypeInv'
    OBVIOUS
<1> USE DEF TypeInv, TypeOK, NamesInv, AtMostOne
<1>1. ASSUME NEW e \in Editor, Start(e) PROVE TypeInv'
    BY <1>1, BanFileAssumption DEF Start
<1>2. ASSUME NEW e \in Editor, ReadLines(e) PROVE TypeInv'
    <2>1. PICK lines \in Content(path) \cup (IF flaky \/ path = {} THEN {<<>>} ELSE {}) :
            IF job[e].op = "unban" /\ Edited(lines, job[e]) = lines
            THEN /\ pc' = [pc EXCEPT ![e] = "idle"]
                 /\ UNCHANGED <<buf, intended, crossed>>
            ELSE /\ buf' = [buf EXCEPT ![e] = Edited(lines, job[e])]
                 /\ intended' = intended \cup {Edited(lines, job[e])}
                 /\ crossed' = Meet(crossed, Editing, e)
                 /\ pc' = [pc EXCEPT ![e] = "create"]
        BY <1>2 DEF ReadLines
    <2>2. lines \in Seq(LineType)
        BY <2>1, ReadType
    <2>3. Edited(lines, job[e]) \in Seq(LineType)
        BY <2>2, EditedType
    <2>4. UNCHANGED <<data, path, tmp, job, fd, at, flaky, edits, mingled>> /\ pc[e] = "read"
        BY <1>2 DEF ReadLines
    <2>5. /\ pc' \in [Editor -> {"idle", "read", "create", "write", "signal"}]
          /\ buf' \in [Editor -> Seq(LineType)]
        BY <2>1, <2>3
    <2>7. crossed' \subseteq Editor
        BY <2>1, Zenon DEF Meet, Editing
    <2>6. \A d \in Editor : pc'[d] # "write" => pc[d] # "write"
        BY <2>1, <2>4
    <2> QED BY <2>4, <2>5, <2>6, <2>7
<1>3. ASSUME NEW e \in Editor, CreateTmp(e) PROVE TypeInv'
    <2>1. tmp' \subseteq Inode /\ AtMostOne(tmp')
        BY <1>3, FreeInode DEF CreateTmp, Free
    <2>2. data' \in [Inode -> Seq(LineType)]
        BY <1>3 DEF CreateTmp
    <2>3. /\ fd' = [fd EXCEPT ![e] = tmp'] /\ at' = [at EXCEPT ![e] = 0]
          /\ pc' = [pc EXCEPT ![e] = "write"]
          /\ UNCHANGED <<path, job, buf, edits, flaky>>
        BY <1>3 DEF CreateTmp
    <2>4. crossed' \subseteq Editor /\ mingled' \subseteq Editor
        BY <1>3 DEF CreateTmp, Meet, Writing
    <2> QED BY <2>1, <2>2, <2>3, <2>4
<1>4. ASSUME NEW e \in Editor, WriteLine(e) PROVE TypeInv'
    <2>1. buf[e][at[e] + 1] \in LineType
        BY <1>4 DEF WriteLine
    <2>2. \A i \in Inode : WriteAt(data[i], at[e], buf[e][at[e] + 1]) \in Seq(LineType)
        BY <2>1, WriteAtType
    <2>3. data' \in [Inode -> Seq(LineType)]
        BY <1>4, <2>2 DEF WriteLine
    <2> QED BY <1>4, <2>3 DEF WriteLine
<1>5. ASSUME NEW e \in Editor, Rename(e) PROVE TypeInv'
    BY <1>5, ZenonT(40) DEF Rename, Leave
<1>6. ASSUME NEW e \in Editor, SendSighup(e) PROVE TypeInv'
    BY <1>6 DEF SendSighup
<1>7. ASSUME NEW e \in Editor, GiveUp(e) PROVE TypeInv'
    BY <1>7 DEF GiveUp, Leave
<1>8. CASE UNCHANGED vars
    BY <1>8 DEF vars
<1> QED BY <1>1, <1>2, <1>3, <1>4, <1>5, <1>6, <1>7, <1>8 DEF Next

\* Type correctness of the ban commands, and of the names they use, for any
\* number of them at once (ban.rs).
THEOREM TypeCorrect == Spec => []TypeInv
BY TypeInit, TypeStep, PTL DEF Spec

-----------------------------------------------------------------------------
(* Write and rename. *)

\* The list the file stands for.
List == IF path = {} THEN <<>> ELSE data[CHOOSE i \in path : TRUE]

\* The temporary file holds the first at[e] of the lines that e has to write.
Written(e) ==
    /\ fd[e] = tmp /\ tmp # {} /\ at[e] <= Len(buf[e])
    /\ \A i \in tmp : /\ Len(data[i]) = at[e]
                      /\ \A k \in 1..at[e] : data[i][k] = buf[e][k]

\* What e is about to write is its edit of the list in the file; a ban that could
\* not read the list starts from an empty one.
Meant(e) ==
    \/ buf[e] = Edited(List, job[e])
    \/ flaky /\ job[e].op = "ban" /\ buf[e] = Edited(<<>>, job[e])

\* What is known of a command: where it met others; that it writes a list it meant to
\* write; that, unless it met another one after its read, it is alone with its edit of
\* the list as it is; and that, unless it met another one at the temporary file, it is
\* alone there and knows how far it is.
EditorInv(e) ==
    /\ (e \in crossed => e \in Editing) /\ (e \in mingled => e \in crossed)
    /\ e \in Editing => buf[e] \in intended
    /\ e \in Editing \ crossed => Editing = {e} /\ Meant(e)
    /\ e \in Writing \ mingled => Writing = {e} /\ Written(e)

\* The inductive invariant of the write-and-rename: the temporary file is not the
\* list, and the above of every command.
EditInv == path \cap tmp = {} /\ \A e \in Editor : EditorInv(e)

\* A file that is open under the temporary name is not the list.
LEMMA ListStays ==
    ASSUME TypeInv, path' = path, \A i \in path : data'[i] = data[i]
    PROVE  List' = List /\ Content(path)' = Content(path)
<1>1. path # {} => (CHOOSE i \in path : TRUE) \in path
    OBVIOUS
<1> QED BY <1>1 DEF List, Content

\* The list in the file is the only content behind its name.
LEMMA ContentIsList ==
    ASSUME TypeInv
    PROVE  IF path = {} THEN Content(path) = {} ELSE Content(path) = {List}
<1>1. path # {} => path = {CHOOSE i \in path : TRUE}
    BY DEF TypeInv, NamesInv, AtMostOne
<1> QED BY <1>1 DEF Content, List

\* read_lines sees the list, or an empty one where reading fails.
LEMMA ReadSees ==
    ASSUME TypeInv, NEW lines \in Content(path) \cup (IF flaky \/ path = {} THEN {<<>>} ELSE {})
    PROVE  lines = List \/ (flaky /\ lines = <<>>)
BY ContentIsList DEF List

\* A step that leaves the files, the lists to write and who is where as they are keeps
\* what is known of a command.
LEMMA EditorStays ==
    ASSUME NEW d \in Editor, EditorInv(d), List' = List,
           UNCHANGED <<data, tmp, flaky, intended, crossed, mingled>>,
           Editing' = Editing, Writing' = Writing,
           d \in Editing => buf'[d] = buf[d] /\ job'[d] = job[d] /\ fd'[d] = fd[d] /\ at'[d] = at[d]
    PROVE  EditorInv(d)'
<1>1. d \in Writing => d \in Editing
    BY DEF Writing, Editing
<1>2. d \in Editing /\ Meant(d) => Meant(d)'
    BY DEF Meant
<1>3. d \in Writing /\ Written(d) => Written(d)'
    BY <1>1 DEF Written
<1> QED BY <1>1, <1>2, <1>3 DEF EditorInv

\* A command that goes on to write means to write its edit of the list: an unban
\* that could not read it finds nothing to remove and stops (read_lines, unban).
LEMMA ReadLinesInv ==
    ASSUME TypeInv, EditInv, NEW e \in Editor, ReadLines(e)
    PROVE  EditInv'
<1>1. PICK lines \in Content(path) \cup (IF flaky \/ path = {} THEN {<<>>} ELSE {}) :
        IF job[e].op = "unban" /\ Edited(lines, job[e]) = lines
        THEN /\ pc' = [pc EXCEPT ![e] = "idle"]
             /\ UNCHANGED <<buf, intended, crossed>>
        ELSE /\ buf' = [buf EXCEPT ![e] = Edited(lines, job[e])]
             /\ intended' = intended \cup {Edited(lines, job[e])}
             /\ crossed' = Meet(crossed, Editing, e)
             /\ pc' = [pc EXCEPT ![e] = "create"]
    BY DEF ReadLines
<1>2. UNCHANGED <<data, path, tmp, job, fd, at, flaky, mingled>> /\ pc[e] = "read"
    BY DEF ReadLines
<1>3. List' = List
    BY <1>2 DEF List
<1>4. lines = List \/ (flaky /\ lines = <<>>)
    BY ReadSees
<1>5. e \notin Editing /\ Writing' = Writing /\ path \cap tmp = {}
    BY <1>1, <1>2 DEF Editing, Writing, EditInv, TypeInv, TypeOK
<1>6. \A d \in Editor : EditorInv(d)
    BY DEF EditInv
<1>7. CASE job[e].op = "unban" /\ Edited(lines, job[e]) = lines
    <2>1. Editing' = Editing
        BY <1>1, <1>2, <1>7 DEF Editing, TypeInv, TypeOK
    <2>2. UNCHANGED <<data, tmp, flaky, intended, crossed, mingled, buf, job, fd, at>>
        BY <1>1, <1>2, <1>7
    <2>3. ASSUME NEW d \in Editor PROVE EditorInv(d)'
        BY <1>3, <1>5, <1>6, <2>1, <2>2, EditorStays
    <2> QED BY <1>2, <1>5, <2>3 DEF EditInv
<1>8. CASE ~(job[e].op = "unban" /\ Edited(lines, job[e]) = lines)
    <2>1. /\ buf'[e] = Edited(lines, job[e]) /\ \A d \in Editor \ {e} : buf'[d] = buf[d]
          /\ intended' = intended \cup {Edited(lines, job[e])}
          /\ crossed' = Meet(crossed, Editing, e)
        BY <1>1, <1>8 DEF TypeInv, TypeOK
    <2>2. job[e].op \in {"ban", "unban"}
        BY DEF TypeInv, TypeOK, JobType, Op
    <2>3. job[e].op = "unban" => lines # <<>>
        BY <1>8, WithoutEmpty DEF Edited
    <2>4. Meant(e)'
        BY <1>2, <1>3, <1>4, <2>1, <2>2, <2>3 DEF Meant
    <2>5. Editing' = Editing \cup {e}
        BY <1>1, <1>2, <1>8 DEF Editing, TypeInv, TypeOK
    <2>6. \/ Editing = {} /\ crossed' = crossed
          \/ Editing # {} /\ crossed' = crossed \cup Editing \cup {e}
        BY <2>1 DEF Meet
    <2>7. e \notin Writing /\ e \notin crossed /\ e \notin mingled
        BY <1>2, <1>5, <1>6 DEF Writing, EditorInv
    <2>8. EditorInv(e)'
        BY <1>2, <1>5, <2>1, <2>4, <2>5, <2>6, <2>7 DEF EditorInv
    <2>9. ASSUME NEW d \in Editor \ {e} PROVE EditorInv(d)'
        <3>1. d \in Writing /\ Written(d) => Written(d)'
            BY <1>2, <2>1 DEF Written
        <3>2. EditorInv(d)
            BY <1>6
        <3> QED BY <1>2, <1>5, <2>1, <2>5, <2>6, <3>1, <3>2 DEF EditorInv
    <2> QED BY <1>2, <1>5, <2>8, <2>9 DEF EditInv
<1> QED BY <1>7, <1>8

\* File::create leaves an empty temporary file that is not the list, whatever a
\* dead command left under that name; whoever has it open has met the newcomer.
LEMMA CreateTmpInv ==
    ASSUME TypeInv, TypeInv', EditInv, NEW e \in Editor, CreateTmp(e)
    PROVE  EditInv' /\ List' = List /\ Content(path)' = Content(path)
<1>1. tmp' # {} /\ path \cap tmp' = {}
    <2>1. CASE tmp = {}
        <3>1. (CHOOSE i \in Free : TRUE) \in Free
            BY <2>1, FreeInode DEF TypeInv
        <3> QED BY <2>1, <3>1 DEF CreateTmp, Free
    <2>2. CASE tmp # {}
        BY <2>2 DEF CreateTmp, EditInv
    <2> QED BY <2>1, <2>2
<1>2. /\ UNCHANGED <<path, buf, job, flaky, intended, crossed>>
      /\ pc[e] = "create" /\ mingled' = Meet(mingled, Writing, e)
    BY DEF CreateTmp
<1>3. \A i \in Inode : data'[i] = IF i \in tmp' THEN <<>> ELSE data[i]
    BY DEF CreateTmp
<1>4. \A i \in path : data'[i] = data[i]
    BY <1>1, <1>3 DEF TypeInv, TypeOK
<1>5. List' = List /\ Content(path)' = Content(path)
    BY <1>2, <1>4, ListStays
<1>6. fd'[e] = tmp' /\ at'[e] = 0
    BY DEF CreateTmp, TypeInv, TypeOK
<1>7. Written(e)'
    <2>1. \A i \in tmp' : data'[i] = <<>>
        BY <1>3 DEF TypeInv, TypeOK
    <2>2. 0 <= Len(buf'[e])
        BY DEF TypeInv, TypeOK
    <2> QED BY <1>1, <1>6, <2>1, <2>2 DEF Written
<1>8. \A d \in Editor : Meant(d)' <=> Meant(d)
    BY <1>2, <1>5 DEF Meant
<1>9. Editing' = Editing /\ Writing' = Writing \cup {e} /\ e \in Editing /\ e \notin Writing
    BY DEF CreateTmp, Editing, Writing, TypeInv, TypeOK
<1>10. \/ Writing = {} /\ mingled' = mingled
       \/ Writing # {} /\ mingled' = mingled \cup Writing \cup {e}
    BY <1>2 DEF Meet
<1>11. Writing \subseteq Editing /\ \A d \in Editor : EditorInv(d)
    BY DEF Writing, Editing, EditInv
<1>12. Writing # {} => Writing \cup {e} \subseteq crossed
    <2> SUFFICES ASSUME Writing # {}, NEW d \in Writing \cup {e}, d \notin crossed PROVE FALSE
        OBVIOUS
    <2>1. d \in Editor /\ d \in Editing
        BY <1>9, <1>11 DEF Editing
    <2>2. Editing = {d}
        BY <1>11, <2>1 DEF EditorInv
    <2> QED BY <1>9, <1>11, <2>2
<1>13. ASSUME NEW d \in Editor PROVE EditorInv(d)'
    <2>1. EditorInv(d) /\ (Meant(d)' <=> Meant(d))
        BY <1>8, <1>11
    <2>2. (d \in crossed' => d \in Editing') /\ (d \in mingled' => d \in crossed')
        BY <1>2, <1>9, <1>10, <1>12, <2>1 DEF EditorInv
    <2>3. d \in Editing' => buf'[d] \in intended'
        BY <1>2, <1>9, <2>1 DEF EditorInv
    <2>4. d \in Editing' \ crossed' => Editing' = {d} /\ Meant(d)'
        BY <1>2, <1>9, <2>1 DEF EditorInv
    <2>5. d \in Writing' \ mingled' => Writing' = {d} /\ Written(d)'
        BY <1>7, <1>9, <1>10
    <2> QED BY <2>2, <2>3, <2>4, <2>5 DEF EditorInv
<1> QED BY <1>1, <1>2, <1>5, <1>13 DEF EditInv

\* One more line is written; a command alone with the temporary file writes it there.
LEMMA WriteLineInv ==
    ASSUME TypeInv, TypeInv', EditInv, NEW e \in Editor, WriteLine(e)
    PROVE  /\ EditInv'
           /\ e \notin mingled => List' = List /\ Content(path)' = Content(path)
<1>1. /\ pc[e] = "write" /\ at[e] < Len(buf[e]) /\ at[e] \in Nat /\ Len(buf[e]) \in Nat
      /\ UNCHANGED <<path, tmp, pc, job, buf, fd, flaky, intended, crossed, mingled>>
      /\ at'[e] = at[e] + 1
    BY DEF WriteLine, TypeInv, TypeOK
<1>2. /\ path \cap tmp = {} /\ \A d \in Editor : EditorInv(d)
      /\ Editing' = Editing /\ Writing' = Writing
      /\ e \in Writing /\ e \in Editing /\ Writing \subseteq Editing
    BY <1>1 DEF EditInv, Editing, Writing
<1>3. e \notin mingled => List' = List /\ Content(path)' = Content(path) /\ Written(e)'
    <2> SUFFICES ASSUME e \notin mingled
                 PROVE  List' = List /\ Content(path)' = Content(path) /\ Written(e)'
        OBVIOUS
    <2>1. Written(e)
        BY <1>2 DEF EditorInv
    <2>2. \A i \in Inode : data'[i] = IF i \in tmp THEN WriteAt(data[i], at[e], buf[e][at[e] + 1])
                                      ELSE data[i]
        BY <2>1 DEF WriteLine, Written
    <2>3. \A i \in path : data'[i] = data[i]
        BY <1>2, <2>2 DEF TypeInv, TypeOK
    <2>4. List' = List /\ Content(path)' = Content(path)
        BY <1>1, <2>3, ListStays
    <2>5. ASSUME NEW i \in tmp
          PROVE  /\ Len(data'[i]) = at[e] + 1
                 /\ \A k \in 1..(at[e] + 1) : data'[i][k] = buf[e][k]
        <3>1. data'[i] = WriteAt(data[i], at[e], buf[e][at[e] + 1])
            BY <2>2 DEF TypeInv, TypeOK
        <3>2. Len(data[i]) = at[e] /\ \A k \in 1..at[e] : data[i][k] = buf[e][k]
            BY <2>1 DEF Written
        <3>3. data'[i] = [k \in 1..(at[e] + 1) |->
                            IF k = at[e] + 1 THEN buf[e][at[e] + 1]
                            ELSE IF k <= at[e] THEN data[i][k] ELSE Hole]
            BY <1>1, <3>1, <3>2 DEF WriteAt
        <3>4. \A k \in 1..(at[e] + 1) : k = at[e] + 1 \/ k \in 1..at[e]
            BY <1>1
        <3>5. \A k \in 1..(at[e] + 1) : data'[i][k] = buf[e][k]
            BY <1>1, <3>2, <3>3, <3>4
        <3>6. Len(data'[i]) = at[e] + 1
            <4>1. data'[i] \in Seq(LineType)
                BY DEF TypeInv, TypeOK
            <4>2. DOMAIN data'[i] = 1..(at[e] + 1)
                BY <3>3
            <4>3. Len(data'[i]) \in Nat /\ 1..Len(data'[i]) = 1..(at[e] + 1)
                BY <4>1, <4>2, LenProperties
            <4>4. \A m, n \in Nat : 1..m = 1..(n + 1) => m = n + 1
                OBVIOUS
            <4> QED BY <1>1, <4>3, <4>4
        <3> QED BY <3>5, <3>6
    <2>6. Written(e)'
        BY <1>1, <2>1, <2>5 DEF Written
    <2> QED BY <2>4, <2>6
<1>4. e \notin crossed => e \notin mingled
    BY <1>2 DEF EditorInv
<1>5. ASSUME NEW d \in Editor PROVE EditorInv(d)'
    <2>1. EditorInv(d)
        BY <1>2
    <2>2. d \in Editing \ crossed => d = e
        BY <1>2, <2>1 DEF EditorInv
    <2>3. d \in Writing \ mingled => d = e
        BY <1>2, <2>1 DEF EditorInv
    <2>4. e \notin crossed /\ Meant(e) => Meant(e)'
        BY <1>1, <1>3, <1>4 DEF Meant
    <2> QED BY <1>1, <1>2, <1>3, <2>1, <2>2, <2>3, <2>4 DEF EditorInv
<1> QED BY <1>1, <1>2, <1>3, <1>5 DEF EditInv

\* What a command alone with the temporary file renames over the list is the whole of
\* what it had to write.
LEMMA RenameInstalls ==
    ASSUME TypeInv, EditInv, NEW e \in Editor, Rename(e), e \notin mingled
    PROVE  /\ Content(path)' = {buf[e]} /\ List' = buf[e] /\ buf[e] \in intended
           /\ e \notin crossed => Meant(e)
<1>1. pc[e] = "write" /\ at[e] = Len(buf[e]) /\ e \in Writing /\ e \in Editing
    BY DEF Rename, Writing, Editing
<1>2. Written(e) /\ buf[e] \in intended /\ (e \notin crossed => Meant(e))
    BY <1>1 DEF EditInv, EditorInv
<1>3. \A i \in tmp : data[i] = buf[e]
    <2> SUFFICES ASSUME NEW i \in tmp PROVE data[i] = buf[e]
        OBVIOUS
    <2>1. data[i] \in Seq(LineType) /\ buf[e] \in Seq(LineType)
        BY DEF TypeInv, TypeOK
    <2>2. Len(data[i]) = Len(buf[e]) /\ \A k \in 1..Len(data[i]) : data[i][k] = buf[e][k]
        BY <1>1, <1>2 DEF Written
    <2> QED BY <2>1, <2>2, SeqEqual
<1>4. tmp # {} /\ path' = tmp /\ data' = data
    BY <1>2 DEF Rename, Written
<1>5. (CHOOSE i \in tmp : TRUE) \in tmp
    BY <1>4
<1>6. Content(path)' = {buf[e]}
    BY <1>3, <1>4, <1>5 DEF Content
<1> QED BY <1>2, <1>3, <1>4, <1>5, <1>6 DEF List

\* A command that is done with the file, or dies, leaves those alone that it never met.
LEMMA LeaveInv ==
    ASSUME TypeInv, EditInv, NEW e \in Editor, Leave(e),
           Editing' = Editing \ {e}, Writing' = Writing \ {e},
           path' \cap tmp' = {},
           UNCHANGED <<data, job, buf, at, flaky, intended>>,
           \A d \in Editor \ {e} : fd'[d] = fd[d],
           e \in Editing \/ path' = path,
           e \in Writing \/ tmp' = tmp
    PROVE  EditInv'
<1> SUFFICES ASSUME NEW d \in Editor PROVE EditorInv(d)'
    BY DEF EditInv
<1>1. EditorInv(d) /\ crossed' = crossed \ {e} /\ mingled' = mingled \ {e}
    BY DEF EditInv, Leave
<1>2. Writing \subseteq Editing
    BY DEF Writing, Editing
<1>3. CASE d = e
    BY <1>1, <1>2, <1>3 DEF EditorInv
<1>4. CASE d # e
    <2>1. d \in Editing \ crossed => Editing = {d} /\ Meant(d)
        BY <1>1 DEF EditorInv
    <2>2. d \in Editing \ crossed => path' = path
        BY <1>4, <2>1
    <2>3. d \in Editing \ crossed => Meant(d)'
        BY <2>1, <2>2 DEF Meant, List
    <2>4. d \in Writing \ mingled => Writing = {d} /\ Written(d)
        BY <1>1 DEF EditorInv
    <2>5. d \in Writing \ mingled => tmp' = tmp
        BY <1>4, <2>4
    <2>6. d \in Writing \ mingled => Written(d)'
        BY <1>4, <2>4, <2>5 DEF Written
    <2> QED BY <1>1, <1>4, <2>1, <2>3, <2>4, <2>6 DEF EditorInv
<1> QED BY <1>3, <1>4

\* Every step of any number of commands keeps the invariant.
LEMMA EditStep ==
    ASSUME TypeInv, TypeInv', EditInv, [Next]_vars
    PROVE  EditInv'
<1>1. ASSUME NEW e \in Editor, Start(e) PROVE EditInv'
    <2>1. /\ UNCHANGED <<data, path, tmp, buf, fd, at, intended, flaky, crossed, mingled>>
          /\ pc[e] = "idle" /\ pc' = [pc EXCEPT ![e] = "read"]
          /\ \A d \in Editor \ {e} : job'[d] = job[d]
        BY <1>1 DEF Start, TypeInv, TypeOK
    <2>2. List' = List
        BY <2>1 DEF List
    <2>3. Editing' = Editing /\ Writing' = Writing /\ e \notin Editing
        BY <2>1 DEF Editing, Writing, TypeInv, TypeOK
    <2>4. ASSUME NEW d \in Editor PROVE EditorInv(d)'
        <3>1. EditorInv(d)
            BY DEF EditInv
        <3> QED BY <2>1, <2>2, <2>3, <3>1, EditorStays
    <2> QED BY <2>1, <2>4 DEF EditInv
<1>2. ASSUME NEW e \in Editor, ReadLines(e) PROVE EditInv'
    BY <1>2, ReadLinesInv
<1>3. ASSUME NEW e \in Editor, CreateTmp(e) PROVE EditInv'
    BY <1>3, CreateTmpInv
<1>4. ASSUME NEW e \in Editor, WriteLine(e) PROVE EditInv'
    BY <1>4, WriteLineInv
<1>5. ASSUME NEW e \in Editor, Rename(e) PROVE EditInv'
    <2>1. /\ Leave(e) /\ pc[e] = "write" /\ UNCHANGED <<data, job, buf, at, flaky, intended>>
          /\ \A d \in Editor \ {e} : fd'[d] = fd[d] /\ pc'[d] = pc[d]
          /\ pc'[e] \in {"signal", "idle"}
        BY <1>5 DEF Rename, TypeInv, TypeOK
    <2>2. path' \cap tmp' = {}
        BY <1>5 DEF Rename, EditInv
    <2>3. Editing' = Editing \ {e} /\ Writing' = Writing \ {e} /\ e \in Editing /\ e \in Writing
        BY <2>1 DEF Editing, Writing
    <2> QED BY <2>1, <2>2, <2>3, LeaveInv
<1>6. ASSUME NEW e \in Editor, SendSighup(e) PROVE EditInv'
    <2>1. /\ UNCHANGED <<data, path, tmp, buf, job, fd, at, intended, flaky, crossed, mingled>>
          /\ pc[e] = "signal" /\ pc' = [pc EXCEPT ![e] = "idle"]
        BY <1>6 DEF SendSighup
    <2>2. List' = List
        BY <2>1 DEF List
    <2>3. Editing' = Editing /\ Writing' = Writing
        BY <2>1 DEF Editing, Writing, TypeInv, TypeOK
    <2>4. ASSUME NEW d \in Editor PROVE EditorInv(d)'
        <3>1. EditorInv(d)
            BY DEF EditInv
        <3> QED BY <2>1, <2>2, <2>3, <3>1, EditorStays
    <2> QED BY <2>1, <2>4 DEF EditInv
<1>7. ASSUME NEW e \in Editor, GiveUp(e) PROVE EditInv'
    <2>1. /\ Leave(e) /\ UNCHANGED <<data, path, tmp, job, buf, at, flaky, intended>>
          /\ \A d \in Editor \ {e} : fd'[d] = fd[d] /\ pc'[d] = pc[d]
          /\ pc'[e] = "idle"
        BY <1>7 DEF GiveUp, TypeInv, TypeOK
    <2>2. path' \cap tmp' = {}
        BY <2>1 DEF EditInv
    <2>3. Editing' = Editing \ {e} /\ Writing' = Writing \ {e}
        BY <2>1 DEF Editing, Writing
    <2> QED BY <2>1, <2>2, <2>3, LeaveInv
<1>8. CASE UNCHANGED vars
    <2>1. List' = List /\ Editing' = Editing /\ Writing' = Writing
        BY <1>8 DEF vars, List, Editing, Writing
    <2>2. ASSUME NEW d \in Editor PROVE EditorInv(d)'
        <3>1. EditorInv(d)
            BY DEF EditInv
        <3> QED BY <1>8, <2>1, <3>1, EditorStays DEF vars
    <2> QED BY <1>8, <2>2 DEF vars, EditInv
<1> QED BY <1>1, <1>2, <1>3, <1>4, <1>5, <1>6, <1>7, <1>8 DEF Next

\* The write-and-rename starts in order.
LEMMA EditInit == Init => EditInv
BY DEF Init, EditInv, EditorInv, Editing, Writing

\* A step is of one command.
LEMMA OwnStep ==
    ASSUME TypeInv, NEW e \in Editor,
           \/ Start(e) \/ ReadLines(e) \/ CreateTmp(e) \/ WriteLine(e)
           \/ Rename(e) \/ SendSighup(e) \/ GiveUp(e)
    PROVE  /\ \A d \in Editor : Stepped(d) => d = e
           /\ WriteLine(e) \/ Rename(e) => Stepped(e)
BY DEF Start, ReadLines, CreateTmp, WriteLine, Rename, SendSighup, GiveUp, Stepped, TypeInv, TypeOK

\* Only a write or a rename changes the list, and never to something else than was
\* meant unless the command met another one at the temporary file.
LEMMA ListStep ==
    ASSUME TypeInv, TypeInv', EditInv, NEW e \in Editor,
           \/ Start(e) \/ ReadLines(e) \/ CreateTmp(e) \/ WriteLine(e)
           \/ Rename(e) \/ SendSighup(e) \/ GiveUp(e)
    PROVE  \/ List' = List /\ Content(path)' = Content(path)
           \/ e \in mingled /\ Stepped(e)
           \/ Rename(e) /\ e \notin mingled
<1>1. CASE Start(e) \/ ReadLines(e) \/ SendSighup(e) \/ GiveUp(e)
    <2>1. UNCHANGED <<data, path>>
        BY <1>1 DEF Start, ReadLines, SendSighup, GiveUp
    <2> QED BY <2>1 DEF List, Content
<1>2. CASE CreateTmp(e)
    BY <1>2, CreateTmpInv
<1>3. CASE WriteLine(e)
    BY <1>3, WriteLineInv, OwnStep
<1>4. CASE Rename(e)
    BY <1>4, OwnStep
<1> QED BY <1>1, <1>2, <1>3, <1>4

\* A command that has the temporary file for itself from create to rename leaves in
\* the list what was there or a list that some command meant to write, whole, wherever
\* a command died or failed, whatever the other commands do (write_lines).
THEOREM EditsAtomic == Spec => EditsAreAtomic
<1>1. ASSUME TypeInv, TypeInv', EditInv, [Next]_vars, NEW d \in Editor \ mingled, Stepped(d)
      PROVE  Content(path)' \subseteq Content(path) \cup intended
    <2>1. PICK e \in Editor : \/ Start(e) \/ ReadLines(e) \/ CreateTmp(e) \/ WriteLine(e)
                              \/ Rename(e) \/ SendSighup(e) \/ GiveUp(e)
        BY <1>1 DEF Next, vars, Stepped
    <2>2. d = e
        BY <1>1, <2>1, OwnStep
    <2>3. Content(path)' = Content(path) \/ Rename(e)
        BY <1>1, <2>1, <2>2, ListStep
    <2>4. Rename(e) => Content(path)' = {buf[e]} /\ buf[e] \in intended
        BY <1>1, <2>2, RenameInstalls
    <2> QED BY <2>3, <2>4
<1>2. TypeInv /\ TypeInv' /\ EditInv /\ [Next]_vars =>
        [\A e \in Editor \ mingled :
            Stepped(e) => Content(path)' \subseteq Content(path) \cup intended]_vars
    BY <1>1
<1> QED BY <1>2, EditInit, EditStep, TypeCorrect, PTL DEF Spec, EditsAreAtomic

-----------------------------------------------------------------------------
(* Refinement: the file implements the ban list. *)

\* The rename of a command that met no other after its read is an edit of the list.
LEMMA RenameEdits ==
    ASSUME TypeInv, EditInv, NEW e \in Editor, Rename(e), e \notin crossed
    PROVE  BL!BanNext
<1>1. List' = buf[e] /\ Meant(e) /\ flaky' = flaky
    BY RenameInstalls DEF EditInv, EditorInv, Rename
<1>2. job[e].op \in {"ban", "unban"} /\ job[e].net \in Net /\ job[e].kind \in Kind
    BY DEF TypeInv, TypeOK, JobType, Op
<1>3. \A lines, net : BL!Without(lines, net) = Without(lines, net)
    BY DEF BL!Without, Without
<1>4. PICK read \in {List} \cup {l \in {<<>>} : flaky} :
        /\ buf[e] = Edited(read, job[e])
        /\ job[e].op = "unban" => read = List
    BY <1>1 DEF Meant
<1>5. CASE job[e].op = "ban"
    <2>1. List' = BL!Banned(read, job[e].net, job[e].kind)
        BY <1>1, <1>3, <1>4, <1>5 DEF BL!Banned, Edited
    <2> QED BY <1>1, <1>2, <1>4, <2>1 DEF BL!BanNext, List
<1>6. CASE job[e].op = "unban"
    <2>1. List' = BL!Without(List, job[e].net)
        BY <1>1, <1>3, <1>4, <1>6 DEF Edited
    <2> QED BY <1>1, <1>2, <2>1 DEF BL!BanNext, List
<1> QED BY <1>2, <1>5, <1>6

\* Seen through the file, a step of a command is an edit of the list or nothing,
\* unless the command met another one between its read and its rename.
LEMMA BanStep ==
    ASSUME TypeInv, TypeInv', EditInv, [Next]_vars
    PROVE  [BL!BanNext \/ \E e \in crossed : Stepped(e)]_<<List, flaky>>
<1>1. CASE UNCHANGED vars
    BY <1>1 DEF vars, List
<1>2. ASSUME NEW e \in Editor,
             \/ Start(e) \/ ReadLines(e) \/ CreateTmp(e) \/ WriteLine(e)
             \/ Rename(e) \/ SendSighup(e) \/ GiveUp(e)
      PROVE  [BL!BanNext \/ \E d \in crossed : Stepped(d)]_<<List, flaky>>
    <2>1. flaky' = flaky
        BY <1>2 DEF Start, ReadLines, CreateTmp, WriteLine, Rename, SendSighup, GiveUp
    <2>2. e \in mingled => e \in crossed
        BY DEF EditInv, EditorInv
    <2>3. CASE List' = List
        BY <2>1, <2>3
    <2>4. CASE e \in mingled /\ Stepped(e)
        BY <2>2, <2>4
    <2>5. CASE Rename(e)
        BY <1>2, <2>5, RenameEdits, OwnStep
    <2> QED BY <1>2, <2>3, <2>4, <2>5, ListStep
<1> QED BY <1>1, <1>2 DEF Next

\* The file implements the ban list, however many commands there are, wherever they
\* die or fail: it changes by exactly the entry named, and only a ban that could not
\* read it forgets the others; excused are only the steps of commands that met another
\* one between their read and their rename (ban, unban).
THEOREM FileIsBanList == Spec => ImplementsBanList
<1>1. Init => BL!BanInit
    <2> SUFFICES ASSUME Init PROVE BL!BanInit
        OBVIOUS
    <2>1. flaky \in BOOLEAN
        BY BanFileAssumption DEF Init
    <2>2. List \in Initial \cup {<<>>}
        <3>1. TypeOK
            BY TypeInit DEF TypeInv
        <3>2. path # {} => (CHOOSE i \in path : TRUE) \in path
            OBVIOUS
        <3>3. PICK lines \in Initial : data = [i \in Inode |-> IF i \in path THEN lines ELSE <<>>]
            BY DEF Init
        <3> QED BY <3>1, <3>2, <3>3 DEF List, TypeOK
    <2> QED BY <2>1, <2>2 DEF BL!BanInit, List
<1>2. TypeInv /\ TypeInv' /\ EditInv /\ [Next]_vars
        => [BL!BanNext \/ \E e \in crossed : Stepped(e)]_(BL!banVars)
    BY BanStep DEF List, BL!banVars
<1> QED BY <1>1, <1>2, EditInit, EditStep, TypeCorrect, PTL DEF Spec, ImplementsBanList
==============================================================================
