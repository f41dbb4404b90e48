-------------------------- MODULE ConditionsProofs --------------------------
(***************************************************************************)
(* What the rules and the signatures see of a request, for every text,      *)
(* every encoding of it, every time zone and every instant:                 *)
(*   - the calendar of the time and day operators;                          *)
(*   - decoding, lowercasing and the haystack that signatures scan;         *)
(*   - the scan;                                                            *)
(*   - splitting, and the parameters of queries, forms, JSON documents,     *)
(*     multipart bodies and cookie headers;                                 *)
(*   - numbers, written and read again;                                     *)
(*   - the verdict of a rule, against what was meant.                       *)
(***************************************************************************)
EXTENDS Conditions, FiniteSetTheorems, SequenceTheorems, TLAPS

\* Dividing by a day: quotient and remainder are what the Euclidean division of
\* weekday and in_window returns.
LEMMA DivideByDay ==
    ASSUME NEW t \in Int
    PROVE  /\ t \div Day \in Int /\ t % Day \in 0..Day - 1
           /\ t = (Day * (t \div Day)) + (t % Day)
  BY DEF Day

\* The remainder does not depend on whole days: taking the time of day in UTC
\* before the offset is added, as in_window does, loses nothing.
LEMMA LocalIsShifted ==
    ASSUME NEW t \in Int, NEW o \in Int
    PROVE  LocalMinute(UtcMinutes(t), o) = (t + o) % Day
  BY DEF LocalMinute, UtcMinutes, Day

\* The next minute is in the same day, or is the first of the next.
LEMMA NextMinute ==
    ASSUME NEW t \in Int
    PROVE  IF t % Day = Day - 1
           THEN (t + 1) % Day = 0 /\ (t + 1) \div Day = (t \div Day) + 1
           ELSE (t + 1) % Day = (t % Day) + 1 /\ (t + 1) \div Day = t \div Day
  BY DEF Day

\* The clock shows whole minutes.
ClockInv == now \in Nat

\* Only the clock's own step moves it.
LEMMA ClockStep ==
    ASSUME ClockInv, [Next]_vars
    PROVE  ClockInv'
  <1>1. CASE Compile
    BY <1>1 DEF Compile, ClockInv
  <1>2. CASE Send
    BY <1>2 DEF Send, ClockInv
  <1>3. CASE EarlyStack
    BY <1>3 DEF EarlyStack, ClockInv
  <1>4. CASE EvalCondition
    BY <1>4 DEF EvalCondition, ClockInv
  <1>5. CASE ScanSignatures
    BY <1>5 DEF ScanSignatures, ClockInv
  <1>6. CASE Tick
    BY <1>6 DEF Tick, ClockInv
  <1>7. CASE OthersBump
    BY <1>7 DEF OthersBump, ClockInv
  <1>8. CASE UNCHANGED vars
    BY <1>8 DEF vars, ClockInv
  <1> QED
    BY <1>1, <1>2, <1>3, <1>4, <1>5, <1>6, <1>7, <1>8 DEF Next

\* It shows whole minutes in every state.
LEMMA ClockType == Spec => []ClockInv
  <1>1. Init => ClockInv
    BY ClockAssumption DEF Init, ClockInv
  <1> QED
    BY <1>1, ClockStep, PTL DEF Spec

\* In every zone, whatever its offset and at every instant, the day of the week
\* and the minute of the day advance together as a wall clock's do: the day
\* changes at the zone's own midnight and only then (weekday, in_window).
THEOREM CalendarTheorem == Spec => CalendarCarries
  <1>1. ASSUME now \in Nat, now' = now + 1, NEW o \in Zones
        PROVE  CalendarStep(o)
    <2> o \in Int
      BY ZonesAssumption
    <2> DEFINE t == now + o
    <2>1. t \in Int /\ now' + o = t + 1
      BY <1>1
    <2>2. LocalMinute(UtcMinutes(now), o) = t % Day
      BY <1>1, LocalIsShifted
    <2>3. LocalMinute(UtcMinutes(now'), o) = (t + 1) % Day
      <3>1. now' \in Int
        BY <1>1
      <3>2. LocalMinute(UtcMinutes(now'), o) = (now' + o) % Day
        BY <3>1, LocalIsShifted
      <3> QED
        BY <2>1, <3>2
    <2>4. Weekday(now, o) = ((t \div Day) + 4) % 7 /\ Weekday(now', o) = (((t + 1) \div Day) + 4) % 7
      BY <1>1, <2>1 DEF Weekday
    <2>5. t \div Day \in Int /\ t % Day \in 0..Day - 1
      BY <2>1, DivideByDay
    <2> HIDE DEF t
    <2>6. \A d \in Int : ((d + 1) + 4) % 7 = (((d + 4) % 7) + 1) % 7
      OBVIOUS
    <2> QED
      BY <2>1, <2>2, <2>3, <2>4, <2>5, <2>6, NextMinute DEF CalendarStep
  <1>2. ClockInv /\ [Next]_vars => [now' = now + 1 => \A o \in Zones : CalendarStep(o)]_vars
    BY <1>1 DEF ClockInv
  <1> QED
    BY <1>2, ClockType, PTL DEF Spec, CalendarCarries

\* For every instant and every zone, a time is in a window exactly if it is no
\* farther behind the window's start, around the clock, than its end is: the two
\* cases of in_window, one of them past midnight, are one.
THEOREM WindowIsCyclic ==
    ASSUME NEW t \in Int, NEW o \in Int, NEW start \in 0..Day - 1, NEW end \in 0..Day - 1
    PROVE  InWindow(UtcMinutes(t), start, end, o) <=> (((t + o) % Day) - start) % Day <= (end - start) % Day
<1> DEFINE m == (t + o) % Day
<1>1. LocalMinute(UtcMinutes(t), o) = m
    BY LocalIsShifted
<1>2. m \in 0..Day - 1
    BY DivideByDay
<1> HIDE DEF m
<1>3. \A x \in 0..Day - 1, y \in 0..Day - 1 : (x - y) % Day = IF y <= x THEN x - y ELSE (x - y) + Day
    BY DEF Day
<1>4. /\ (m - start) % Day = (IF start <= m THEN m - start ELSE (m - start) + Day)
      /\ (end - start) % Day = (IF start <= end THEN end - start ELSE (end - start) + Day)
    BY <1>2, <1>3
<1>5. InWindow(UtcMinutes(t), start, end, o) <=> IF start <= end THEN start <= m /\ m <= end
                                                 ELSE start <= m \/ m <= end
    BY <1>1 DEF InWindow
<1>6. (IF start <= end THEN start <= m /\ m <= end ELSE start <= m \/ m <= end)
        <=> (m - start) % Day <= (end - start) % Day
    BY <1>2, <1>4 DEF Day
<1> QED BY <1>5, <1>6 DEF m

\* A day is in an inclusive range of days exactly if it is no farther behind the
\* first, around the week, than the last is (the loop of parse_day_mask).
THEOREM DaysAreCyclic ==
    ASSUME NEW a \in 0..6, NEW b \in 0..6, NEW d \in 0..6
    PROVE  d \in DayRange(a, b) <=> (d - a) % 7 <= (b - a) % 7
<1> DEFINE n == (b - a) % 7
           k == (d - a) % 7
<1>1. n \in 0..6 /\ k \in 0..6
    OBVIOUS
<1>2. (a + k) % 7 = d
    OBVIOUS
<1>3. \A j \in 0..6 : (a + j) % 7 = d => j = k
    OBVIOUS
<1>4. DayRange(a, b) = {(a + j) % 7 : j \in 0..n}
    BY DEF DayRange
<1> HIDE DEF n, k
<1>5. ASSUME d \in DayRange(a, b) PROVE k <= n
    <2>1. PICK j \in 0..n : d = (a + j) % 7
        BY <1>4, <1>5
    <2>2. j \in 0..6
        BY <1>1
    <2>3. j = k
        BY <1>3, <2>1, <2>2
    <2> QED BY <2>3
<1>6. ASSUME k <= n PROVE d \in DayRange(a, b)
    <2>1. k \in 0..n
        BY <1>1, <1>6
    <2> QED BY <1>2, <1>4, <2>1
<1> QED BY <1>5, <1>6 DEF n, k

-----------------------------------------------------------------------------
(* Induction by the least counterexample. *)

\* A set of naturals that is not empty has a least element.
LEMMA LeastNat ==
    ASSUME NEW T \in SUBSET Nat, T # {}
    PROVE  \E m \in T : \A n \in T : m <= n
<1> DEFINE Less == {ss \in Nat \X Nat : ss[1] < ss[2]}
<1>1. IsWellFoundedOn(Less, Nat)
    BY NatLessThanWellFounded, Zenon DEF OpToRel
<1> HIDE DEF Less
<1>2. PICK m \in T : \A n \in T : <<n, m>> \notin Less
    BY <1>1, WFMin
<1>3. \A n \in T : ~(n < m)
    BY <1>2 DEF Less
<1> QED BY <1>3

\* A set that holds 0 and, with a number below n, the next one, holds all
\* numbers up to n.
LEMMA UpTo ==
    ASSUME NEW n \in Nat, NEW P, 0 \in P, \A k \in 1..n : k - 1 \in P => k \in P
    PROVE  n \in P /\ \A k \in 0..n : k \in P
<1> DEFINE T == (0..n) \ P
<1>0. n \in 0..n
    OBVIOUS
<1> SUFFICES ASSUME T # {} PROVE FALSE
    BY <1>0
<1>1. T \in SUBSET Nat
    OBVIOUS
<1>2. PICK m \in T : \A k \in T : m <= k
    BY <1>1, LeastNat
<1>3. m \in 1..n /\ m - 1 \in 0..n /\ m - 1 \notin T
    BY <1>2
<1> QED BY <1>2, <1>3

-----------------------------------------------------------------------------
(* Percent-decoding. *)

IsEscape(s, i) == s[i] = Percent /\ i + 2 <= Len(s) /\ IsHex(s[i + 1]) /\ IsHex(s[i + 2])

\* What is decoded at a position, given what is decoded behind it.
DecodeStep(f, s, i, plus, lower) ==
    IF i > Len(s) THEN <<>>
    ELSE IF IsEscape(s, i)
    THEN <<PushByte(16 * Hex(s[i + 1]) + Hex(s[i + 2]), lower)>> \o f[i + 3]
    ELSE <<PushByte(IF plus /\ s[i] = Plus THEN Space ELSE s[i], lower)>> \o f[i + 1]

DecodesFrom(f, s, i, plus, lower) == f = [j \in i..Len(s) + 1 |-> DecodeStep(f, s, j, plus, lower)]

\* A step looks only behind its position.
LEMMA DecodeLooksBehind ==
    ASSUME NEW s \in Seq(Int), NEW i \in 1..Len(s) + 1, NEW f, NEW g, NEW plus, NEW lower,
           \A j \in i + 1..Len(s) + 1 : f[j] = g[j]
    PROVE  DecodeStep(f, s, i, plus, lower) = DecodeStep(g, s, i, plus, lower)
<1>1. i <= Len(s) => f[i + 1] = g[i + 1]
    OBVIOUS
<1>2. IsEscape(s, i) => f[i + 3] = g[i + 3]
    <2>1. IsEscape(s, i) => i + 3 \in i + 1..Len(s) + 1
        <3>1. IsEscape(s, i) => i + 2 <= Len(s)
            BY DEF IsEscape
        <3> QED BY <3>1
    <2> QED BY <2>1
<1> QED BY <1>1, <1>2 DEF DecodeStep

\* The loop of decode_fold_into is well defined.
LEMMA DecodeExists ==
    ASSUME NEW s \in Seq(Int), NEW plus, NEW lower
    PROVE  \E f : DecodesFrom(f, s, 1, plus, lower)
<1> DEFINE n == Len(s)
           P == {k \in Nat : k <= n /\ \E f : DecodesFrom(f, s, n + 1 - k, plus, lower)}
<1>0. n \in Nat
    OBVIOUS
<1>1. 0 \in P
    <2> DEFINE f == [j \in n + 1..n + 1 |-> <<>>]
    <2>1. f = [j \in n + 1 - 0..Len(s) + 1 |-> DecodeStep(f, s, j, plus, lower)]
        BY <1>0 DEF DecodeStep
    <2>2. DecodesFrom(f, s, n + 1 - 0, plus, lower)
        BY <2>1 DEF DecodesFrom
    <2> HIDE DEF f
    <2> QED BY <1>0, <2>2
<1>2. ASSUME NEW k \in 1..n, k - 1 \in P PROVE k \in P
    <2> DEFINE i == n + 1 - k
    <2>0. i \in 1..n /\ n + 1 - (k - 1) = i + 1
        BY <1>0
    <2>1. PICK f : DecodesFrom(f, s, i + 1, plus, lower)
        BY <1>2, <2>0
    <2> HIDE DEF n
    <2> DEFINE g == [j \in i..Len(s) + 1 |-> IF j = i THEN DecodeStep(f, s, i, plus, lower) ELSE f[j]]
    <2>2. \A j \in i + 1..Len(s) + 1 : f[j] = DecodeStep(f, s, j, plus, lower)
        BY <2>1 DEF DecodesFrom
    <2>3. /\ g[i] = DecodeStep(f, s, i, plus, lower) /\ g = [j \in i..Len(s) + 1 |-> g[j]]
          /\ \A j \in i + 1..Len(s) + 1 : g[j] = f[j]
          /\ i \in 1..Len(s)
        BY <2>0 DEF n
    <2> HIDE DEF g, i
    <2>4. ASSUME NEW j \in i..Len(s) + 1 PROVE g[j] = DecodeStep(g, s, j, plus, lower)
        <3>0. Len(s) \in Nat /\ j \in 1..Len(s) + 1
            BY <2>3
        <3>1. \A h \in j + 1..Len(s) + 1 : f[h] = g[h]
            <4>1. \A h \in j + 1..Len(s) + 1 : h \in i + 1..Len(s) + 1
                BY <2>3, <3>0
            <4> QED BY <2>3, <4>1
        <3>2. DecodeStep(f, s, j, plus, lower) = DecodeStep(g, s, j, plus, lower)
            BY <3>0, <3>1, DecodeLooksBehind
        <3>3. j = i \/ j \in i + 1..Len(s) + 1
            BY <2>3
        <3> QED BY <2>2, <2>3, <3>2, <3>3
    <2>5. DecodesFrom(g, s, i, plus, lower)
        BY <2>3, <2>4 DEF DecodesFrom
    <2> QED BY <1>0, <2>5 DEF i
<1> HIDE DEF P
<1>3. n \in P
    BY <1>0, <1>1, <1>2, UpTo
<1>4. n + 1 - n = 1
    BY <1>0
<1> HIDE DEF n
<1> QED BY <1>3, <1>4 DEF P

\* A byte pushed is one byte.
LEMMA PushedByte ==
    ASSUME NEW b \in Int, NEW lower
    PROVE  PushByte(b, lower) \in Int
BY DEF PushByte, Question, LowerByte, Upper

\* The value of a hexadecimal digit.
LEMMA HexValue ==
    ASSUME NEW b \in Int, IsHex(b)
    PROVE  Hex(b) \in 0..15
BY DEF IsHex, Hex, Digit

\* What the loop computes: a sequence of bytes at every position.
IsDecoding(f, s, plus, lower) ==
    \A i \in 1..Len(s) + 1 : f[i] = DecodeStep(f, s, i, plus, lower) /\ f[i] \in Seq(Int)

\* It computes it.
LEMMA DecodeLoop ==
    ASSUME NEW s \in Seq(Int), NEW plus, NEW lower
    PROVE  \E f : DecodeFold(s, plus, lower) = f[1] /\ IsDecoding(f, s, plus, lower)
<1> DEFINE f == CHOOSE g : DecodesFrom(g, s, 1, plus, lower)
           n == Len(s)
           P == {k \in Nat : \A i \in n + 1 - k..n + 1 : i \in 1..n + 1 => f[i] \in Seq(Int)}
<1>1. DecodesFrom(f, s, 1, plus, lower)
    BY DecodeExists
<1>2. DecodeFold(s, plus, lower) = f[1]
    BY DEF DecodeFold, DecodesFrom, DecodeStep, IsEscape
<1> HIDE DEF f
<1>3. \A i \in 1..n + 1 : f[i] = DecodeStep(f, s, i, plus, lower)
    BY <1>1 DEF DecodesFrom
<1>4. n \in Nat
    OBVIOUS
<1>5. 0 \in P
    <2>1. n + 1 \in 1..n + 1 /\ n + 1 > Len(s) /\ n + 1 - 0 = n + 1
        BY <1>4
    <2>2. f[n + 1] \in Seq(Int)
        <3>1. f[n + 1] = <<>>
            BY <1>3, <2>1 DEF DecodeStep
        <3> QED BY <3>1
    <2> HIDE DEF n
    <2>3. \A i \in n + 1 - 0..n + 1 : i = n + 1
        BY <1>4
    <2> QED BY <2>2, <2>3
<1>6. ASSUME NEW k \in 1..n, k - 1 \in P PROVE k \in P
    <2> DEFINE i == n + 1 - k
    <2>1. i \in 1..n /\ i \in 1..n + 1
        BY <1>4
    <2>2. \A j \in i + 1..n + 1 : f[j] \in Seq(Int)
        BY <1>4, <1>6
    <2>3. f[i] = DecodeStep(f, s, i, plus, lower)
        BY <1>3, <2>1
    <2> HIDE DEF i
    <2>4. DecodeStep(f, s, i, plus, lower) \in Seq(Int)
        <3>1. CASE IsEscape(s, i)
            <4>1. i + 3 \in i + 1..n + 1 /\ i + 1 \in 1..n /\ i + 2 \in 1..n
                BY <1>4, <2>1, <3>1 DEF IsEscape
            <4>2. s[i + 1] \in Int /\ s[i + 2] \in Int
                BY <4>1
            <4>3. 16 * Hex(s[i + 1]) + Hex(s[i + 2]) \in Int
                <5>1. Hex(s[i + 1]) \in 0..15 /\ Hex(s[i + 2]) \in 0..15
                    BY <3>1, <4>2, HexValue DEF IsEscape
                <5>2. \A a, c \in 0..15 : 16 * a + c \in Int
                    OBVIOUS
                <5> QED BY <5>1, <5>2
            <4>4. PushByte(16 * Hex(s[i + 1]) + Hex(s[i + 2]), lower) \in Int
                BY <4>3, PushedByte
            <4>5. DecodeStep(f, s, i, plus, lower) =
                    <<PushByte(16 * Hex(s[i + 1]) + Hex(s[i + 2]), lower)>> \o f[i + 3]
                <5>1. ~(i > Len(s))
                    BY <2>1
                <5> QED BY <3>1, <5>1 DEF DecodeStep
            <4> QED BY <2>2, <4>1, <4>4, <4>5
        <3>2. CASE ~IsEscape(s, i)
            <4>1. s[i] \in Int /\ i + 1 \in i + 1..n + 1
                BY <1>4, <2>1
            <4>2. (IF plus /\ s[i] = Plus THEN Space ELSE s[i]) \in Int
                BY <4>1 DEF Space
            <4>3. PushByte(IF plus /\ s[i] = Plus THEN Space ELSE s[i], lower) \in Int
                BY <4>2, PushedByte
            <4>4. DecodeStep(f, s, i, plus, lower) =
                    <<PushByte(IF plus /\ s[i] = Plus THEN Space ELSE s[i], lower)>> \o f[i + 1]
                BY <2>1, <3>2, SMTT(40) DEF DecodeStep
            <4> QED BY <2>2, <4>1, <4>3, <4>4
        <3> QED BY <3>1, <3>2
    <2>5. ASSUME NEW j \in n + 1 - k..n + 1, j \in 1..n + 1 PROVE f[j] \in Seq(Int)
        <3>1. j = i \/ j \in i + 1..n + 1
            BY <1>4 DEF i
        <3> QED BY <2>2, <2>3, <2>4, <3>1
    <2> QED BY <2>5
<1> HIDE DEF P
<1>7. n \in P
    BY <1>4, <1>5, <1>6, UpTo
<1>8. n + 1 - n = 1
    BY <1>4
<1>9. \A i \in 1..n + 1 : f[i] \in Seq(Int)
    BY <1>7, <1>8 DEF P
<1>10. IsDecoding(f, s, plus, lower)
    BY <1>3, <1>9 DEF IsDecoding
<1> QED BY <1>2, <1>10

\* What is decoded behind a prefix does not depend on the prefix.
LEMMA DecodeShift ==
    ASSUME NEW x \in Seq(Int), NEW s \in Seq(Int), NEW plus, NEW lower, NEW f, NEW g,
           IsDecoding(f, x \o s, plus, lower), IsDecoding(g, s, plus, lower)
    PROVE  f[Len(x) + 1] = g[1]
<1> DEFINE n == Len(s)
           m == Len(x)
           t == x \o s
           P == {k \in Nat : \A i \in n + 1 - k..n + 1 : i \in 1..n + 1 => f[m + i] = g[i]}
<1>0. /\ n \in Nat /\ m \in Nat /\ Len(t) = m + n
      /\ \A i \in 1..n : t[m + i] = s[i]
    OBVIOUS
<1> HIDE DEF n, m, t
<1>1. 0 \in P
    <2>1. n + 1 \in 1..n + 1 /\ n + 1 > n /\ m + n + 1 \in 1..m + n + 1 /\ m + n + 1 > m + n
        BY <1>0
    <2>2. f[m + n + 1] = DecodeStep(f, t, m + n + 1, plus, lower) /\ g[n + 1] = DecodeStep(g, s, n + 1, plus, lower)
        BY <1>0, <2>1 DEF n, t, IsDecoding
    <2>3. f[m + n + 1] = <<>> /\ g[n + 1] = <<>>
        BY <1>0, <2>1, <2>2 DEF DecodeStep, n
    <2>4. \A i \in n + 1 - 0..n + 1 : i = n + 1
        BY <1>0
    <2>5. m + (n + 1) = m + n + 1
        BY <1>0
    <2> QED BY <2>3, <2>4, <2>5
<1>2. ASSUME NEW k \in 1..n, k - 1 \in P PROVE k \in P
    <2> DEFINE i == n + 1 - k
    <2>1. i \in 1..n /\ m + i \in 1..m + n
        BY <1>0
    <2>2. \A j \in i + 1..n + 1 : f[m + j] = g[j]
        BY <1>0, <1>2
    <2> HIDE DEF i
    <2>3. f[m + i] = DecodeStep(f, t, m + i, plus, lower) /\ g[i] = DecodeStep(g, s, i, plus, lower)
        BY <1>0, <2>1 DEF n, t, IsDecoding
    <2>4. t[m + i] = s[i] /\ ~(m + i > Len(t)) /\ ~(i > Len(s))
        BY <1>0, <2>1 DEF n
    <2>5. IsEscape(t, m + i) <=> IsEscape(s, i)
        <3>1. m + i + 2 <= Len(t) <=> i + 2 <= Len(s)
            BY <1>0, <2>1 DEF n
        <3>2. i + 2 <= Len(s) => t[m + i + 1] = s[i + 1] /\ t[m + i + 2] = s[i + 2]
            <4>0. i + 2 <= n => i + 1 \in 1..n /\ i + 2 \in 1..n
                BY <1>0, <2>1
            <4>1. i + 2 <= Len(s) => t[m + (i + 1)] = s[i + 1] /\ t[m + (i + 2)] = s[i + 2]
                BY <1>0, <4>0 DEF n
            <4>2. m + (i + 1) = m + i + 1 /\ m + (i + 2) = m + i + 2
                BY <1>0, <2>1
            <4> QED BY <4>1, <4>2
        <3> QED BY <2>4, <3>1, <3>2 DEF IsEscape
    <2>6. f[m + i] = g[i]
        <3>1. CASE IsEscape(s, i)
            <4>1. i + 3 \in i + 1..n + 1 /\ i + 1 \in 1..n /\ i + 2 \in 1..n
                <5>1. i + 2 <= n
                    BY <3>1 DEF IsEscape, n
                <5> QED BY <1>0, <2>1, <5>1
            <4>2. t[m + i + 1] = s[i + 1] /\ t[m + i + 2] = s[i + 2] /\ f[m + i + 3] = g[i + 3]
                <5>1. m + (i + 1) = m + i + 1 /\ m + (i + 2) = m + i + 2 /\ m + (i + 3) = m + i + 3
                    BY <1>0, <2>1
                <5>2. t[m + (i + 1)] = s[i + 1] /\ t[m + (i + 2)] = s[i + 2] /\ f[m + (i + 3)] = g[i + 3]
                    BY <1>0, <2>2, <4>1
                <5> QED BY <5>1, <5>2
            <4> QED BY <2>3, <2>4, <2>5, <3>1, <4>2 DEF DecodeStep
        <3>2. CASE ~IsEscape(s, i)
            <4>1. f[m + i + 1] = g[i + 1]
                <5>1. m + (i + 1) = m + i + 1 /\ i + 1 \in i + 1..n + 1
                    BY <1>0, <2>1
                <5>2. f[m + (i + 1)] = g[i + 1]
                    BY <2>2, <5>1
                <5> QED BY <5>1, <5>2
            <4> QED BY <2>3, <2>4, <2>5, <3>2, <4>1 DEF DecodeStep
        <3> QED BY <3>1, <3>2
    <2>7. ASSUME NEW j \in n + 1 - k..n + 1, j \in 1..n + 1 PROVE f[m + j] = g[j]
        <3>1. j = i \/ j \in i + 1..n + 1
            BY <1>0 DEF i
        <3> QED BY <2>2, <2>6, <3>1
    <2> QED BY <2>7
<1> HIDE DEF P
<1>3. n \in P
    BY <1>0, <1>1, <1>2, UpTo
<1>4. n + 1 - n = 1 /\ 1 \in 1..n + 1
    BY <1>0
<1>5. f[m + 1] = g[1]
    BY <1>3, <1>4 DEF P
<1> QED BY <1>5 DEF m

\* What is decoded behind a prefix is the decoding of what is there.
LEMMA DecodeBehind ==
    ASSUME NEW x \in Seq(Int), NEW s \in Seq(Int), NEW plus, NEW lower
    PROVE  \E f : /\ DecodeFold(x \o s, plus, lower) = f[1] /\ IsDecoding(f, x \o s, plus, lower)
                  /\ f[Len(x) + 1] = DecodeFold(s, plus, lower)
<1>1. x \o s \in Seq(Int)
    OBVIOUS
<1>2. PICK f : DecodeFold(x \o s, plus, lower) = f[1] /\ IsDecoding(f, x \o s, plus, lower)
    BY <1>1, DecodeLoop
<1>3. PICK g : DecodeFold(s, plus, lower) = g[1] /\ IsDecoding(g, s, plus, lower)
    BY DecodeLoop
<1>4. f[Len(x) + 1] = g[1]
    BY <1>2, <1>3, DecodeShift
<1> QED BY <1>2, <1>3, <1>4

\* A text stands for its decoding, whatever follows it.
Decodes(e, m, plus, lower) ==
    /\ e \in Seq(Int) /\ m \in Seq(Int)
    /\ \A s \in Seq(Int) : DecodeFold(e \o s, plus, lower) = m \o DecodeFold(s, plus, lower)

\* Decoding gives a text; of nothing, nothing.
LEMMA DecodeType ==
    ASSUME NEW s \in Seq(Int), NEW plus, NEW lower
    PROVE  DecodeFold(s, plus, lower) \in Seq(Int)
<1>1. 1 \in 1..Len(s) + 1
    OBVIOUS
<1> QED BY <1>1, DecodeLoop DEF IsDecoding

\* Nothing decodes to nothing.
LEMMA DecodeNothing ==
    ASSUME NEW plus, NEW lower
    PROVE  DecodeFold(<<>>, plus, lower) = <<>>
<1>1. PICK s : s = <<>>
    OBVIOUS
<1>2. s \in Seq(Int) /\ 1 \in 1..Len(s) + 1 /\ 1 > Len(s)
    BY <1>1
<1>3. PICK f : DecodeFold(s, plus, lower) = f[1] /\ IsDecoding(f, s, plus, lower)
    BY <1>2, DecodeLoop
<1>4. f[1] = <<>>
    BY <1>2, <1>3 DEF DecodeStep, IsDecoding
<1> QED BY <1>1, <1>3, <1>4

\* A byte that starts no escape stands for itself, or for a space.
LEMMA DecodesOne ==
    ASSUME NEW c \in Int, c # Percent, NEW plus, NEW lower
    PROVE  Decodes(<<c>>, <<PushByte(IF plus /\ c = Plus THEN Space ELSE c, lower)>>, plus, lower)
<1> DEFINE x == <<c>>
           b == IF plus /\ c = Plus THEN Space ELSE c
           m == <<PushByte(b, lower)>>
<1>1. b \in Int
    BY DEF Space
<1>2. x \in Seq(Int) /\ m \in Seq(Int) /\ Len(x) = 1
    BY <1>1, PushedByte
<1>3. ASSUME NEW s \in Seq(Int)
      PROVE  DecodeFold(x \o s, plus, lower) = m \o DecodeFold(s, plus, lower)
    <2> DEFINE t == x \o s
    <2>1. t \in Seq(Int) /\ t[1] = c /\ Len(t) \in Nat /\ Len(t) >= 1
        OBVIOUS
    <2> HIDE DEF x, t
    <2>2. PICK f : /\ DecodeFold(t, plus, lower) = f[1] /\ IsDecoding(f, t, plus, lower)
                   /\ f[Len(x) + 1] = DecodeFold(s, plus, lower)
        <3>1. x \in Seq(Int)
            BY <1>2
        <3> QED BY <3>1, DecodeBehind DEF t
    <2>5. f[1] = DecodeStep(f, t, 1, plus, lower) /\ ~(1 > Len(t)) /\ 1 + 1 = Len(x) + 1
        BY <1>2, <2>1, <2>2 DEF IsDecoding
    <2>6. ~IsEscape(t, 1)
        BY <2>1 DEF IsEscape
    <2>7. DecodeStep(f, t, 1, plus, lower) = m \o f[1 + 1]
        BY <2>1, <2>5, <2>6 DEF DecodeStep
    <2> QED BY <2>2, <2>5, <2>7 DEF t
<1> QED BY <1>2, <1>3 DEF Decodes

\* An escape stands for the byte it names.
LEMMA DecodesEscape ==
    ASSUME NEW h \in Int, NEW l \in Int, IsHex(h), IsHex(l), NEW plus, NEW lower
    PROVE  Decodes(<<Percent, h, l>>, <<PushByte(16 * Hex(h) + Hex(l), lower)>>, plus, lower)
<1> DEFINE x == <<Percent, h, l>>
           b == 16 * Hex(h) + Hex(l)
           m == <<PushByte(b, lower)>>
<1>1. b \in Int
    <2>1. Hex(h) \in 0..15 /\ Hex(l) \in 0..15
        BY HexValue
    <2>2. \A a, c \in 0..15 : 16 * a + c \in Int
        OBVIOUS
    <2> QED BY <2>1, <2>2
<1>2. x \in Seq(Int) /\ Len(x) = 3
    BY DEF Percent
<1>3. m \in Seq(Int)
    <2> HIDE DEF b
    <2> QED BY <1>1, PushedByte
<1>4. ASSUME NEW s \in Seq(Int)
      PROVE  DecodeFold(x \o s, plus, lower) = m \o DecodeFold(s, plus, lower)
    <2> DEFINE t == x \o s
    <2>1. t \in Seq(Int) /\ t[1] = Percent /\ t[2] = h /\ t[3] = l /\ Len(t) \in Nat /\ Len(t) >= 3
        BY DEF Percent
    <2> HIDE DEF x, t
    <2>2. PICK f : /\ DecodeFold(t, plus, lower) = f[1] /\ IsDecoding(f, t, plus, lower)
                   /\ f[Len(x) + 1] = DecodeFold(s, plus, lower)
        <3>1. x \in Seq(Int)
            BY <1>2
        <3> QED BY <3>1, DecodeBehind DEF t
    <2>5. f[1] = DecodeStep(f, t, 1, plus, lower) /\ ~(1 > Len(t)) /\ 1 + 3 = Len(x) + 1
        BY <1>2, <2>1, <2>2 DEF IsDecoding
    <2>6. IsEscape(t, 1) /\ t[1 + 1] = h /\ t[1 + 2] = l
        BY <2>1 DEF IsEscape
    <2>7. DecodeStep(f, t, 1, plus, lower) = m \o f[1 + 3]
        BY <2>5, <2>6 DEF DecodeStep
    <2> QED BY <2>2, <2>5, <2>7 DEF t
<1> QED BY <1>2, <1>3, <1>4 DEF Decodes

\* Concatenation of texts.
LEMMA Associative ==
    ASSUME NEW a \in Seq(Int), NEW b \in Seq(Int), NEW c \in Seq(Int)
    PROVE  (a \o b) \o c = a \o (b \o c)
BY ConcatAssociative

\* One more element.
LEMMA OneMore ==
    ASSUME NEW a \in Seq(Int), NEW b \in Int
    PROVE  /\ a \o <<b>> \in Seq(Int) /\ Len(a \o <<b>>) = Len(a) + 1
           /\ \A i \in 1..Len(a) : (a \o <<b>>)[i] = a[i]
           /\ (a \o <<b>>)[Len(a) + 1] = b
OBVIOUS

\* Decodings compose.
LEMMA DecodesConcat ==
    ASSUME NEW e, NEW m, NEW d, NEW k, NEW plus, NEW lower,
           Decodes(e, m, plus, lower), Decodes(d, k, plus, lower)
    PROVE  Decodes(e \o d, m \o k, plus, lower)
<1>1. e \in Seq(Int) /\ d \in Seq(Int) /\ m \in Seq(Int) /\ k \in Seq(Int)
    BY DEF Decodes
<1>2. e \o d \in Seq(Int) /\ m \o k \in Seq(Int)
    BY <1>1
<1>3. ASSUME NEW s \in Seq(Int)
      PROVE  DecodeFold((e \o d) \o s, plus, lower) = (m \o k) \o DecodeFold(s, plus, lower)
    <2>1. d \o s \in Seq(Int) /\ DecodeFold(s, plus, lower) \in Seq(Int)
        BY <1>1, DecodeType
    <2>2. (e \o d) \o s = e \o (d \o s)
        BY <1>1, Associative, SMTT(40)
    <2>3. DecodeFold(e \o (d \o s), plus, lower) = m \o DecodeFold(d \o s, plus, lower)
        BY <2>1 DEF Decodes
    <2>4. DecodeFold(d \o s, plus, lower) = k \o DecodeFold(s, plus, lower)
        BY DEF Decodes
    <2>5. m \o (k \o DecodeFold(s, plus, lower)) = (m \o k) \o DecodeFold(s, plus, lower)
        <3>1. PICK z \in Seq(Int) : z = DecodeFold(s, plus, lower)
            BY <2>1
        <3>2. (m \o k) \o z = m \o (k \o z)
            BY <1>1, Associative, SMTT(40)
        <3> QED BY <3>1, <3>2
    <2> QED BY <2>2, <2>3, <2>4, <2>5
<1> QED BY <1>2, <1>3 DEF Decodes

\* A text that stands for its decoding by itself.
LEMMA DecodesAlone ==
    ASSUME NEW e, NEW m, NEW plus, NEW lower, Decodes(e, m, plus, lower)
    PROVE  DecodeFold(e, plus, lower) = m
<1>1. e \in Seq(Int) /\ m \in Seq(Int) /\ <<>> \in Seq(Int)
    BY DEF Decodes
<1>2. DecodeFold(e \o <<>>, plus, lower) = m \o DecodeFold(<<>>, plus, lower)
    BY <1>1 DEF Decodes
<1>3. e \o <<>> = e /\ m \o <<>> = m
    BY <1>1, ConcatEmptySeq
<1> QED BY <1>2, <1>3, DecodeNothing

\* Nothing stands for nothing.
LEMMA DecodesEmpty ==
    ASSUME NEW plus, NEW lower
    PROVE  Decodes(<<>>, <<>>, plus, lower)
<1>1. ASSUME NEW s \in Seq(Int)
      PROVE  DecodeFold(<<>> \o s, plus, lower) = <<>> \o DecodeFold(s, plus, lower)
    <2>1. DecodeFold(s, plus, lower) \in Seq(Int)
        BY DecodeType
    <2>2. <<>> \o s = s /\ <<>> \o DecodeFold(s, plus, lower) = DecodeFold(s, plus, lower)
        BY <2>1, ConcatEmptySeq
    <2> QED BY <2>2
<1> QED BY <1>1 DEF Decodes

-----------------------------------------------------------------------------
(* The encodings of a text. *)

\* The two digits of a byte name it.
LEMMA DigitsOfByte ==
    ASSUME NEW b \in Byte, NEW letters \in {55, 87}
    PROVE  LET h == HexDigit(b \div 16, letters)
               l == HexDigit(b % 16, letters)
           IN h \in Int /\ l \in Int /\ IsHex(h) /\ IsHex(l) /\ 16 * Hex(h) + Hex(l) = b
<1>1. b \div 16 \in 0..15 /\ b % 16 \in 0..15 /\ 16 * (b \div 16) + (b % 16) = b
    BY DEF Byte
<1>2. ASSUME NEW n \in 0..15
      PROVE  HexDigit(n, letters) \in Int /\ IsHex(HexDigit(n, letters)) /\ Hex(HexDigit(n, letters)) = n
    <2>1. CASE n < 10
        <3>1. HexDigit(n, letters) = 48 + n /\ 48 + n \in 48..57
            BY <2>1 DEF HexDigit
        <3>2. \A d \in 48..57 : d \in Int /\ IsHex(d) /\ Hex(d) = d - 48
            BY DEF IsHex, Hex, Digit
        <3> QED BY <3>1, <3>2
    <2>2. CASE ~(n < 10) /\ letters = 55
        <3>1. HexDigit(n, letters) = 55 + n /\ 55 + n \in 65..70
            BY <2>2 DEF HexDigit
        <3>2. \A d \in 65..70 : d \in Int /\ IsHex(d) /\ Hex(d) = d - 55
            BY DEF IsHex, Hex, Digit
        <3> QED BY <3>1, <3>2
    <2>3. CASE ~(n < 10) /\ letters = 87
        <3>1. HexDigit(n, letters) = 87 + n /\ 87 + n \in 97..102
            BY <2>3 DEF HexDigit
        <3>2. \A d \in 97..102 : d \in Int /\ IsHex(d) /\ Hex(d) = d - 87
            BY DEF IsHex, Hex, Digit
        <3> QED BY <3>1, <3>2
    <2> QED BY <2>1, <2>2, <2>3
<1> QED BY <1>1, <1>2

\* Every form of a byte stands for it.
LEMMA FormDecodes ==
    ASSUME NEW b \in Byte, NEW reserved, NEW plus \in BOOLEAN, plus => Plus \in reserved, NEW lower,
           NEW f \in Forms(b, reserved, plus)
    PROVE  Decodes(f, <<PushByte(b, lower)>>, plus, lower)
<1>0. b \in Int
    BY DEF Byte
<1>1. \/ \E letters \in {55, 87} : f = <<Percent, HexDigit(b \div 16, letters), HexDigit(b % 16, letters)>>
      \/ f = <<b>> /\ b \notin reserved /\ b # Percent
      \/ f = <<Plus>> /\ plus /\ b = Space
    BY DEF Forms
<1>2. CASE \E letters \in {55, 87} : f = <<Percent, HexDigit(b \div 16, letters), HexDigit(b % 16, letters)>>
    <2>1. PICK letters \in {55, 87} : f = <<Percent, HexDigit(b \div 16, letters), HexDigit(b % 16, letters)>>
        BY <1>2
    <2>2. PICK h, l : h = HexDigit(b \div 16, letters) /\ l = HexDigit(b % 16, letters)
        OBVIOUS
    <2>3. h \in Int /\ l \in Int /\ IsHex(h) /\ IsHex(l) /\ 16 * Hex(h) + Hex(l) = b
        BY <2>2, DigitsOfByte
    <2>4. Decodes(<<Percent, h, l>>, <<PushByte(16 * Hex(h) + Hex(l), lower)>>, plus, lower)
        BY <2>3, DecodesEscape
    <2> QED BY <2>1, <2>2, <2>3, <2>4
<1>3. CASE f = <<b>> /\ b \notin reserved /\ b # Percent
    <2>1. (IF plus /\ b = Plus THEN Space ELSE b) = b
        BY <1>3
    <2>2. Decodes(<<b>>, <<PushByte(IF plus /\ b = Plus THEN Space ELSE b, lower)>>, plus, lower)
        BY <1>0, <1>3, DecodesOne
    <2> QED BY <1>3, <2>1, <2>2
<1>4. CASE f = <<Plus>> /\ plus /\ b = Space
    <2>1. Plus \in Int /\ Plus # Percent
        BY DEF Plus, Percent
    <2>2. Decodes(<<Plus>>, <<PushByte(IF plus /\ Plus = Plus THEN Space ELSE Plus, lower)>>, plus, lower)
        BY <2>1, DecodesOne
    <2>3. (IF plus /\ Plus = Plus THEN Space ELSE Plus) = b
        BY <1>4
    <2> QED BY <1>4, <2>2, <2>3
<1> QED BY <1>1, <1>2, <1>3, <1>4

EncodeStep(acc, b, reserved, plus) == {p \o g : p \in acc, g \in Forms(b, reserved, plus)}

\* Its elements.
LEMMA EncodeStepElement ==
    ASSUME NEW acc, NEW b, NEW reserved, NEW plus, NEW x \in EncodeStep(acc, b, reserved, plus)
    PROVE  \E p \in acc, g \in Forms(b, reserved, plus) : x = p \o g
BY DEF EncodeStep

EncodingsUpTo(f, s, reserved, plus, n) ==
    f = [i \in 0..n |-> IF i = 0 THEN {<<>>} ELSE EncodeStep(f[i - 1], s[i], reserved, plus)]

\* The encodings are well defined.
LEMMA EncodingsExist ==
    ASSUME NEW s, NEW reserved, NEW plus, NEW n \in Nat
    PROVE  \E f : EncodingsUpTo(f, s, reserved, plus, n)
<1> DEFINE Step(acc, i) == EncodeStep(acc, s[i], reserved, plus)
           Up(f, m) == f = [i \in 0..m |-> IF i = 0 THEN {<<>>} ELSE Step(f[i - 1], i)]
           P == {m \in Nat : \E f : Up(f, m)}
<1>0. \A f, m : Up(f, m) <=> EncodingsUpTo(f, s, reserved, plus, m)
    BY DEF EncodingsUpTo
<1> HIDE DEF Step
<1>1. 0 \in P
    <2>1. Up([k \in 0..0 |-> {<<>>}], 0)
        OBVIOUS
    <2> QED BY <2>1
<1>2. ASSUME NEW m \in 1..n, m - 1 \in P PROVE m \in P
    <2>1. PICK f : Up(f, m - 1)
        BY <1>2
    <2> DEFINE g == [k \in 0..m |-> IF k = m THEN Step(f[m - 1], m) ELSE f[k]]
    <2>2. \A k \in 0..m : k # m => g[k] = f[k] /\ k \in 0..(m - 1)
        OBVIOUS
    <2>3. \A k \in 0..(m - 1) : f[k] = IF k = 0 THEN {<<>>} ELSE Step(f[k - 1], k)
        BY <2>1
    <2>4. ASSUME NEW k \in 0..m
          PROVE  g[k] = IF k = 0 THEN {<<>>} ELSE Step(g[k - 1], k)
        <3>1. CASE k = m
            <4>1. k # 0
                BY <3>1
            <4>2. g[k] = Step(f[k - 1], k) /\ g[k - 1] = f[k - 1]
                BY <3>1
            <4> HIDE DEF g
            <4> QED BY <4>1, <4>2
        <3>2. CASE k # m
            <4>1. k # 0 => g[k - 1] = f[k - 1]
                BY <3>2
            <4>2. g[k] = f[k] /\ k \in 0..(m - 1)
                BY <2>2, <3>2
            <4> HIDE DEF g
            <4> QED BY <2>3, <4>1, <4>2
        <3> QED BY <3>1, <3>2
    <2>5. g = [k \in 0..m |-> g[k]]
        OBVIOUS
    <2> HIDE DEF g
    <2>6. Up(g, m)
        BY <2>4, <2>5
    <2> QED BY <2>6
<1> HIDE DEF P
<1>3. n \in P
    BY <1>1, <1>2, UpTo
<1> QED BY <1>0, <1>3 DEF P

Pushed(s, lower) == [i \in DOMAIN s |-> PushByte(s[i], lower)]

\* Every encoding of a text stands for it.
LEMMA EncodingDecodes ==
    ASSUME NEW s \in Seq(Byte), NEW reserved, NEW plus \in BOOLEAN, plus => Plus \in reserved, NEW lower,
           NEW e \in Encodings(s, reserved, plus)
    PROVE  Decodes(e, Pushed(s, lower), plus, lower)
<1> DEFINE n == Len(s)
           f == CHOOSE g : EncodingsUpTo(g, s, reserved, plus, n)
           M(k) == [i \in 1..k |-> PushByte(s[i], lower)]
           P == {k \in 0..n : \A x \in f[k] : Decodes(x, M(k), plus, lower)}
<1>1. n \in Nat /\ DOMAIN s = 1..n
    OBVIOUS
<1>2. EncodingsUpTo(f, s, reserved, plus, n)
    BY <1>1, EncodingsExist
<1>3. Encodings(s, reserved, plus) = f[n]
    BY DEF Encodings, EncodingsUpTo, EncodeStep
<1> HIDE DEF f, n
<1>4. 0 \in P
    <2>1. f[0] = {<<>>} /\ 0 \in 0..n
        BY <1>1, <1>2 DEF EncodingsUpTo
    <2>2. M(0) = <<>>
        OBVIOUS
    <2> HIDE DEF M
    <2> QED BY <2>1, <2>2, DecodesEmpty
<1>5. ASSUME NEW k \in 1..n, k - 1 \in P PROVE k \in P
    <2>1. k \in 0..n /\ k # 0 /\ k - 1 \in 0..n
        BY <1>1
    <2>2. f[k] = EncodeStep(f[k - 1], s[k], reserved, plus)
        BY <1>2, <2>1 DEF EncodingsUpTo
    <2>3. s[k] \in Byte
        BY <1>1
    <2>4. M(k) = M(k - 1) \o <<PushByte(s[k], lower)>>
        <3>1. \A i \in 1..k : s[i] \in Int /\ PushByte(s[i], lower) \in Int
            <4>1. \A i \in 1..k : s[i] \in Byte
                BY <1>1
            <4>2. \A b \in Byte : b \in Int
                BY DEF Byte
            <4> QED BY <4>1, <4>2, PushedByte
        <3> DEFINE a == M(k - 1)
                   d == PushByte(s[k], lower)
        <3>2. a \in Seq(Int) /\ d \in Int /\ M(k) \in Seq(Int) /\ Len(a) = k - 1 /\ Len(M(k)) = k
            BY <1>1, <3>1
        <3>3. \A i \in 1..k - 1 : a[i] = PushByte(s[i], lower)
            BY <1>1
        <3>4. \A i \in 1..k : M(k)[i] = PushByte(s[i], lower)
            BY <1>1
        <3> HIDE DEF a, d, M
        <3>5. /\ a \o <<d>> \in Seq(Int) /\ Len(a \o <<d>>) = Len(a) + 1
              /\ \A i \in 1..Len(a) : (a \o <<d>>)[i] = a[i]
              /\ (a \o <<d>>)[Len(a) + 1] = d
            <4>1. a \in Seq(Int) /\ d \in Int
                BY <3>2
            <4> QED BY <4>1, OneMore
        <3>6. (k - 1) + 1 = k /\ \A i \in 1..k : i \in 1..k - 1 \/ i = k
            BY <1>1
        <3>7. M(k) = a \o <<d>>
            <4> DEFINE u == a \o <<d>>
            <4>1. u \in Seq(Int) /\ Len(u) = k /\ \A i \in 1..k : u[i] = PushByte(s[i], lower)
                BY <3>2, <3>3, <3>5, <3>6 DEF d
            <4> HIDE DEF u
            <4>2. M(k) = u
                BY <3>2, <3>4, <4>1, SeqEqual
            <4> QED BY <4>2 DEF u
        <3> QED BY <3>7 DEF a, d
    <2> HIDE DEF M
    <2>5. ASSUME NEW x \in f[k] PROVE Decodes(x, M(k), plus, lower)
        <3>1. PICK p \in f[k - 1], g \in Forms(s[k], reserved, plus) : x = p \o g
            BY <2>2, EncodeStepElement, SMTT(40)
        <3>2. Decodes(p, M(k - 1), plus, lower)
            BY <1>5
        <3>3. Decodes(g, <<PushByte(s[k], lower)>>, plus, lower)
            BY <2>3, FormDecodes
        <3> QED BY <2>4, <3>1, <3>2, <3>3, DecodesConcat
    <2> QED BY <2>1, <2>5
<1> HIDE DEF P
<1>6. n \in P
    BY <1>1, <1>4, <1>5, UpTo
<1>7. M(n) = Pushed(s, lower)
    BY <1>1 DEF Pushed
<1> HIDE DEF M
<1> QED BY <1>3, <1>6, <1>7 DEF P

-----------------------------------------------------------------------------
(* Joining texts, in lower case. *)

JoinStep(acc, ss, sep, i) == IF i = 1 THEN ss[1] ELSE acc \o sep \o ss[i]
JoinUpTo(f, ss, sep, n) == f = [i \in 0..n |-> IF i = 0 THEN <<>> ELSE JoinStep(f[i - 1], ss, sep, i)]

\* Joining is well defined.
LEMMA JoinExists ==
    ASSUME NEW ss, NEW sep, NEW n \in Nat
    PROVE  \E f : JoinUpTo(f, ss, sep, n)
<1> DEFINE P == {m \in Nat : \E f : JoinUpTo(f, ss, sep, m)}
<1>1. 0 \in P
    <2>1. JoinUpTo([k \in 0..0 |-> <<>>], ss, sep, 0)
        BY DEF JoinUpTo
    <2> QED BY <2>1
<1>2. ASSUME NEW m \in 1..n, m - 1 \in P PROVE m \in P
    <2>1. PICK f : JoinUpTo(f, ss, sep, m - 1)
        BY <1>2
    <2> DEFINE g == [k \in 0..m |-> IF k = m THEN JoinStep(f[m - 1], ss, sep, m) ELSE f[k]]
    <2>2. \A k \in 0..m : k # m => g[k] = f[k] /\ k \in 0..(m - 1)
        OBVIOUS
    <2>3. \A k \in 0..(m - 1) : f[k] = IF k = 0 THEN <<>> ELSE JoinStep(f[k - 1], ss, sep, k)
        BY <2>1 DEF JoinUpTo
    <2>4. ASSUME NEW k \in 0..m
          PROVE  g[k] = IF k = 0 THEN <<>> ELSE JoinStep(g[k - 1], ss, sep, k)
        <3>1. CASE k = m
            <4>1. k # 0
                BY <3>1
            <4>2. g[k] = JoinStep(f[k - 1], ss, sep, k) /\ g[k - 1] = f[k - 1]
                BY <3>1
            <4> HIDE DEF g
            <4> QED BY <4>1, <4>2
        <3>2. CASE k # m
            <4>1. k # 0 => g[k - 1] = f[k - 1]
                BY <3>2
            <4>2. g[k] = f[k] /\ k \in 0..(m - 1)
                BY <2>2, <3>2
            <4> HIDE DEF g
            <4> QED BY <2>3, <4>1, <4>2
        <3> QED BY <3>1, <3>2
    <2>5. g = [k \in 0..m |-> g[k]]
        OBVIOUS
    <2> HIDE DEF g
    <2>6. JoinUpTo(g, ss, sep, m)
        BY <2>4, <2>5 DEF JoinUpTo
    <2> QED BY <2>6
<1> HIDE DEF P
<1>3. n \in P
    BY <1>1, <1>2, UpTo
<1> QED BY <1>3 DEF P

\* What it computes.
LEMMA JoinLoop ==
    ASSUME NEW ss, Len(ss) \in Nat, NEW sep
    PROVE  \E f : /\ Join(ss, sep) = f[Len(ss)] /\ f[0] = <<>>
                  /\ \A k \in 1..Len(ss) : f[k] = JoinStep(f[k - 1], ss, sep, k)
<1> DEFINE n == Len(ss)
           f == CHOOSE g : JoinUpTo(g, ss, sep, n)
           h == CHOOSE g : g = [i \in 0..n |-> CASE i = 0 -> <<>> [] i = 1 -> ss[1]
                                                 [] OTHER -> g[i - 1] \o sep \o ss[i]]
<1>1. JoinUpTo(f, ss, sep, n)
    BY JoinExists
<1>2. Join(ss, sep) = h[n]
    BY DEF Join
<1>3. \A g : (g = [i \in 0..n |-> CASE i = 0 -> <<>> [] i = 1 -> ss[1] [] OTHER -> g[i - 1] \o sep \o ss[i]])
             <=> JoinUpTo(g, ss, sep, n)
    <2>1. ASSUME NEW g
          PROVE  [i \in 0..n |-> CASE i = 0 -> <<>> [] i = 1 -> ss[1] [] OTHER -> g[i - 1] \o sep \o ss[i]]
                 = [i \in 0..n |-> IF i = 0 THEN <<>> ELSE JoinStep(g[i - 1], ss, sep, i)]
        BY DEF JoinStep
    <2> QED BY <2>1, Zenon DEF JoinUpTo
<1>4. h = f
    BY <1>3, Zenon
<1> HIDE DEF f, h
<1>5. f[0] = <<>> /\ \A k \in 1..n : f[k] = JoinStep(f[k - 1], ss, sep, k)
    BY <1>1 DEF JoinUpTo
<1> QED BY <1>2, <1>4, <1>5

\* The elements of a concatenation.
LEMMA ConcatFacts ==
    ASSUME NEW a \in Seq(Int), NEW b \in Seq(Int)
    PROVE  /\ a \o b \in Seq(Int) /\ Len(a \o b) = Len(a) + Len(b) /\ Len(a) \in Nat /\ Len(b) \in Nat
           /\ \A i \in 1..Len(a) : (a \o b)[i] = a[i]
           /\ \A i \in 1..Len(a) + Len(b) : ~(i <= Len(a)) => (a \o b)[i] = b[i - Len(a)]
OBVIOUS

\* Lower case, of a text and of two.
LEMMA LowerType ==
    ASSUME NEW s \in Seq(Int)
    PROVE  ToLower(s) \in Seq(Int) /\ Len(ToLower(s)) = Len(s) /\ DOMAIN s = 1..Len(s)
<1>1. \A i \in 1..Len(s) : s[i] \in Int
    OBVIOUS
<1>2. \A b \in Int : LowerByte(b) \in Int
    BY DEF LowerByte, Upper
<1>3. ToLower(s) = [i \in 1..Len(s) |-> LowerByte(s[i])] /\ Len(s) \in Nat
    BY DEF ToLower
<1>4. [i \in 1..Len(s) |-> LowerByte(s[i])] \in Seq(Int) /\ Len([i \in 1..Len(s) |-> LowerByte(s[i])]) = Len(s)
    <2> DEFINE n == Len(s)
    <2>1. n \in Nat /\ \A i \in 1..n : LowerByte(s[i]) \in Int
        BY <1>1, <1>2, <1>3
    <2> HIDE DEF n
    <2>2. [i \in 1..n |-> LowerByte(s[i])] \in Seq(Int) /\ Len([i \in 1..n |-> LowerByte(s[i])]) = n
        BY <2>1
    <2> QED BY <2>2 DEF n
<1> QED BY <1>3, <1>4

\* Lowercasing goes through concatenation.
LEMMA LowerConcat ==
    ASSUME NEW a \in Seq(Int), NEW b \in Seq(Int)
    PROVE  ToLower(a \o b) = ToLower(a) \o ToLower(b)
<1> DEFINE x == ToLower(a \o b)
           c == ToLower(a)
           d == ToLower(b)
           y == c \o d
<1>1. a \o b \in Seq(Int) /\ Len(a \o b) = Len(a) + Len(b) /\ Len(a) \in Nat /\ Len(b) \in Nat
    OBVIOUS
<1>2. x \in Seq(Int) /\ Len(x) = Len(a) + Len(b)
    BY <1>1, LowerType
<1>3. c \in Seq(Int) /\ d \in Seq(Int) /\ Len(c) = Len(a) /\ Len(d) = Len(b)
    BY LowerType
<1>4. \A i \in 1..Len(a) + Len(b) : x[i] = LowerByte((a \o b)[i])
    BY <1>1 DEF ToLower
<1>5. (\A i \in 1..Len(a) : c[i] = LowerByte(a[i])) /\ (\A i \in 1..Len(b) : d[i] = LowerByte(b[i]))
    BY DEF ToLower
<1> HIDE DEF c, d, x
<1>6. /\ y \in Seq(Int) /\ Len(y) = Len(a) + Len(b)
      /\ \A i \in 1..Len(a) : y[i] = c[i]
      /\ \A i \in 1..Len(a) + Len(b) : ~(i <= Len(a)) => y[i] = d[i - Len(a)]
    <2>1. c \in Seq(Int) /\ d \in Seq(Int)
        BY <1>3
    <2>2. /\ c \o d \in Seq(Int) /\ Len(c \o d) = Len(c) + Len(d)
          /\ \A i \in 1..Len(c) : (c \o d)[i] = c[i]
          /\ \A i \in 1..Len(c) + Len(d) : ~(i <= Len(c)) => (c \o d)[i] = d[i - Len(c)]
        BY <2>1, ConcatFacts
    <2> QED BY <1>3, <2>2
<1>7. ASSUME NEW i \in 1..Len(a) + Len(b) PROVE x[i] = y[i]
    <2>1. CASE i <= Len(a)
        <3>1. y[i] = c[i] /\ (a \o b)[i] = a[i] /\ i \in 1..Len(a)
            BY <1>1, <1>6, <2>1
        <3> QED BY <1>4, <1>5, <3>1
    <2>2. CASE ~(i <= Len(a))
        <3>1. i - Len(a) \in 1..Len(b)
            BY <1>1, <2>2
        <3>2. y[i] = d[i - Len(a)] /\ (a \o b)[i] = b[i - Len(a)]
            BY <1>6, <2>2, ConcatFacts
        <3> QED BY <1>4, <1>5, <3>1, <3>2
    <2> QED BY <2>1, <2>2
<1> HIDE DEF y
<1>8. x = y
    BY <1>2, <1>6, <1>7, SeqEqual
<1> QED BY <1>8 DEF x, y, c, d

\* Lower case goes into a join.
LEMMA LowerJoin ==
    ASSUME NEW ss \in Seq(Seq(Int)), NEW sep \in Seq(Int)
    PROVE  /\ Join(ss, sep) \in Seq(Int)
           /\ ToLower(Join(ss, sep)) = Join([i \in DOMAIN ss |-> ToLower(ss[i])], ToLower(sep))
<1> DEFINE n == Len(ss)
           ls == [i \in DOMAIN ss |-> ToLower(ss[i])]
           lsep == ToLower(sep)
<1>1. n \in Nat /\ DOMAIN ss = 1..n
    OBVIOUS
<1>2. Len(ls) = n /\ \A i \in 1..n : ls[i] = ToLower(ss[i]) /\ ss[i] \in Seq(Int)
    BY <1>1
<1> HIDE DEF ls, n
<1>3. PICK f : /\ Join(ss, sep) = f[n] /\ f[0] = <<>>
               /\ \A k \in 1..n : f[k] = JoinStep(f[k - 1], ss, sep, k)
    BY <1>1, JoinLoop DEF n
<1>4. PICK g : /\ Join(ls, lsep) = g[n] /\ g[0] = <<>>
               /\ \A k \in 1..n : g[k] = JoinStep(g[k - 1], ls, lsep, k)
    <2>1. Len(ls) \in Nat
        BY <1>1, <1>2
    <2> HIDE DEF lsep
    <2>2. PICK g : /\ Join(ls, lsep) = g[Len(ls)] /\ g[0] = <<>>
                   /\ \A k \in 1..Len(ls) : g[k] = JoinStep(g[k - 1], ls, lsep, k)
        BY <2>1, JoinLoop
    <2> QED BY <1>2, <2>2
<1> DEFINE P == {k \in 0..n : f[k] \in Seq(Int) /\ ToLower(f[k]) = g[k]}
<1>5. 0 \in P
    <2>1. ToLower(<<>>) = <<>> /\ <<>> \in Seq(Int) /\ 0 \in 0..n
        BY <1>1 DEF ToLower
    <2> QED BY <1>3, <1>4, <2>1
<1>6. ASSUME NEW k \in 1..n, k - 1 \in P PROVE k \in P
    <2>1. k \in 0..n
        BY <1>1
    <2>2. f[k] = JoinStep(f[k - 1], ss, sep, k) /\ g[k] = JoinStep(g[k - 1], ls, lsep, k)
        BY <1>3, <1>4
    <2>3. CASE k = 1
        <3>1. f[k] = ss[k] /\ g[k] = ls[k]
            BY <2>2, <2>3 DEF JoinStep
        <3> QED BY <1>2, <2>1, <3>1
    <2>4. CASE k # 1
        <3>1. f[k] = (f[k - 1] \o sep) \o ss[k] /\ g[k] = (g[k - 1] \o lsep) \o ls[k]
            BY <2>2, <2>4 DEF JoinStep
        <3>2. PICK a \in Seq(Int), c \in Seq(Int) : a = f[k - 1] /\ c = ss[k]
            BY <1>2, <1>6
        <3>3. a \o sep \in Seq(Int) /\ (a \o sep) \o c \in Seq(Int)
            OBVIOUS
        <3>4. ToLower((a \o sep) \o c) = (ToLower(a) \o ToLower(sep)) \o ToLower(c)
            BY <3>3, LowerConcat, ZenonT(40)
        <3>5. ToLower(a) = g[k - 1] /\ ToLower(c) = ls[k]
            BY <1>2, <1>6, <3>2
        <3> QED BY <2>1, <3>1, <3>2, <3>3, <3>4, <3>5
    <2> QED BY <2>3, <2>4
<1> HIDE DEF P
<1>7. n \in P
    BY <1>1, <1>5, <1>6, UpTo
<1> QED BY <1>3, <1>4, <1>7 DEF P, ls

-----------------------------------------------------------------------------
(* The encodings of parameters. *)

NamesOf(p) == Encodings(p[1], {Amp, Equals, Plus}, TRUE)
ValuesOf(p) == Encodings(p[2], {Amp, Plus}, TRUE)
EncodedPair(p) == {k \o <<Equals>> \o v : k \in NamesOf(p), v \in ValuesOf(p)}
AddPair(acc, p) == {a \o <<Amp>> \o b : a \in acc, b \in EncodedPair(p)}

PairsStep(acc, pairs, i) == IF i = 1 THEN EncodedPair(pairs[1]) ELSE AddPair(acc, pairs[i])
PairsUpTo(f, pairs, n) == f = [i \in 0..n |-> IF i = 0 THEN {<<>>} ELSE PairsStep(f[i - 1], pairs, i)]

\* The encodings of parameters are well defined.
LEMMA PairsExist ==
    ASSUME NEW pairs, NEW n \in Nat
    PROVE  \E f : PairsUpTo(f, pairs, n)
<1> DEFINE P == {m \in Nat : \E f : PairsUpTo(f, pairs, m)}
<1>1. 0 \in P
    <2>1. PairsUpTo([k \in 0..0 |-> {<<>>}], pairs, 0)
        BY DEF PairsUpTo
    <2> QED BY <2>1
<1>2. ASSUME NEW m \in 1..n, m - 1 \in P PROVE m \in P
    <2>1. PICK f : PairsUpTo(f, pairs, m - 1)
        BY <1>2
    <2> DEFINE g == [k \in 0..m |-> IF k = m THEN PairsStep(f[m - 1], pairs, m) ELSE f[k]]
    <2>2. \A k \in 0..m : k # m => g[k] = f[k] /\ k \in 0..(m - 1)
        OBVIOUS
    <2>3. \A k \in 0..(m - 1) : f[k] = IF k = 0 THEN {<<>>} ELSE PairsStep(f[k - 1], pairs, k)
        BY <2>1 DEF PairsUpTo
    <2>4. ASSUME NEW k \in 0..m
          PROVE  g[k] = IF k = 0 THEN {<<>>} ELSE PairsStep(g[k - 1], pairs, k)
        <3>1. CASE k = m
            <4>1. k # 0
                BY <3>1
            <4>2. g[k] = PairsStep(f[k - 1], pairs, k) /\ g[k - 1] = f[k - 1]
                BY <3>1
            <4> HIDE DEF g
            <4> QED BY <4>1, <4>2
        <3>2. CASE k # m
            <4>1. k # 0 => g[k - 1] = f[k - 1]
                BY <3>2
            <4>2. g[k] = f[k] /\ k \in 0..(m - 1)
                BY <2>2, <3>2
            <4> HIDE DEF g
            <4> QED BY <2>3, <4>1, <4>2
        <3> QED BY <3>1, <3>2
    <2>5. g = [k \in 0..m |-> g[k]]
        OBVIOUS
    <2> HIDE DEF g
    <2>6. PairsUpTo(g, pairs, m)
        BY <2>4, <2>5 DEF PairsUpTo
    <2> QED BY <2>6
<1> HIDE DEF P
<1>3. n \in P
    BY <1>1, <1>2, UpTo
<1> QED BY <1>3 DEF P

\* What they are.
LEMMA PairsLoop ==
    ASSUME NEW pairs, Len(pairs) \in Nat
    PROVE  \E f : /\ EncodedPairs(pairs) = f[Len(pairs)] /\ f[0] = {<<>>}
                  /\ \A k \in 1..Len(pairs) : f[k] = PairsStep(f[k - 1], pairs, k)
<1> DEFINE n == Len(pairs)
           f == CHOOSE g : PairsUpTo(g, pairs, n)
           h == CHOOSE g : g = [i \in 0..n |-> CASE i = 0 -> {<<>>} [] i = 1 -> EncodedPair(pairs[1])
                                                 [] OTHER -> AddPair(g[i - 1], pairs[i])]
<1>1. PairsUpTo(f, pairs, n)
    BY PairsExist
<1>2. EncodedPairs(pairs) = h[n]
    BY DEF EncodedPairs, EncodedPair, AddPair, NamesOf, ValuesOf
<1>3. \A g : (g = [i \in 0..n |-> CASE i = 0 -> {<<>>} [] i = 1 -> EncodedPair(pairs[1])
                                    [] OTHER -> AddPair(g[i - 1], pairs[i])])
             <=> PairsUpTo(g, pairs, n)
    <2>1. ASSUME NEW g
          PROVE  [i \in 0..n |-> CASE i = 0 -> {<<>>} [] i = 1 -> EncodedPair(pairs[1])
                                   [] OTHER -> AddPair(g[i - 1], pairs[i])]
                 = [i \in 0..n |-> IF i = 0 THEN {<<>>} ELSE PairsStep(g[i - 1], pairs, i)]
        BY DEF PairsStep
    <2> QED BY <2>1, Zenon DEF PairsUpTo
<1>4. h = f
    BY <1>3, Zenon
<1> HIDE DEF f, h
<1>5. f[0] = {<<>>} /\ \A k \in 1..n : f[k] = PairsStep(f[k - 1], pairs, k)
    <2>1. n \in Nat /\ 0 \in 0..n /\ \A k \in 1..n : k \in 0..n /\ k # 0
        OBVIOUS
    <2> HIDE DEF n
    <2> QED BY <1>1, <2>1 DEF PairsUpTo
<1> QED BY <1>2, <1>4, <1>5

\* The elements of the sets they are made of.
LEMMA TwoParts ==
    ASSUME NEW A, NEW B, NEW s, NEW e \in {k \o s \o v : k \in A, v \in B}
    PROVE  \E k \in A, v \in B : e = (k \o s) \o v
OBVIOUS

\* An encoding of a pair: one of its name and one of its value.
LEMMA PairElement ==
    ASSUME NEW p, NEW e \in EncodedPair(p)
    PROVE  \E k \in NamesOf(p), v \in ValuesOf(p) : e = (k \o <<Equals>>) \o v
<1> DEFINE s == <<Equals>>
<1>1. e \in {k \o s \o v : k \in NamesOf(p), v \in ValuesOf(p)}
    BY SMTT(40) DEF EncodedPair
<1> HIDE DEF s
<1>2. \E k \in NamesOf(p), v \in ValuesOf(p) : e = (k \o s) \o v
    BY <1>1, TwoParts
<1> QED BY <1>2 DEF s

\* An encoding of one pair more, behind those in front of it.
LEMMA AddedElement ==
    ASSUME NEW acc, NEW p, NEW e \in AddPair(acc, p)
    PROVE  \E a \in acc, c \in EncodedPair(p) : e = (a \o <<Amp>>) \o c
<1> DEFINE s == <<Amp>>
           B == EncodedPair(p)
<1>1. e \in {k \o s \o v : k \in acc, v \in B}
    BY DEF AddPair
<1> HIDE DEF B, s
<1>2. \E k \in acc, v \in B : e = (k \o s) \o v
    BY <1>1, TwoParts
<1> QED BY <1>2 DEF B, s

PushedPair(p, lower) == (Pushed(p[1], lower) \o <<Equals>>) \o Pushed(p[2], lower)

\* The separators stand for themselves.
LEMMA SeparatorsDecode ==
    ASSUME NEW lower
    PROVE  Decodes(<<Equals>>, <<Equals>>, TRUE, lower) /\ Decodes(<<Amp>>, <<Amp>>, TRUE, lower)
<1>1. ASSUME NEW c \in {Equals, Amp} PROVE Decodes(<<c>>, <<c>>, TRUE, lower)
    <2>1. c \in Int /\ c # Percent /\ c # Plus /\ PushByte(c, lower) = c
        BY DEF Equals, Amp, Percent, Plus, PushByte, IsAscii, LowerByte, Upper
    <2>2. (IF TRUE /\ c = Plus THEN Space ELSE c) = c
        BY <2>1
    <2>3. Decodes(<<c>>, <<PushByte(IF TRUE /\ c = Plus THEN Space ELSE c, lower)>>, TRUE, lower)
        BY <2>1, DecodesOne
    <2> QED BY <2>1, <2>2, <2>3
<1> QED BY <1>1

\* Every encoding of a parameter stands for it.
LEMMA PairDecodes ==
    ASSUME NEW p, p[1] \in Seq(Byte), p[2] \in Seq(Byte), NEW lower, NEW e \in EncodedPair(p)
    PROVE  Decodes(e, PushedPair(p, lower), TRUE, lower)
<1>1. PICK k \in NamesOf(p), v \in ValuesOf(p) : e = (k \o <<Equals>>) \o v
    BY PairElement
<1>2. p[1] \in Seq(Byte) /\ p[2] \in Seq(Byte)
    OBVIOUS
<1>3. Decodes(k, Pushed(p[1], lower), TRUE, lower)
    <2>1. Plus \in {Amp, Equals, Plus}
        OBVIOUS
    <2> QED BY <1>2, <2>1, EncodingDecodes DEF NamesOf, ValuesOf
<1>4. Decodes(v, Pushed(p[2], lower), TRUE, lower)
    <2>1. Plus \in {Amp, Plus}
        OBVIOUS
    <2> QED BY <1>2, <2>1, EncodingDecodes DEF NamesOf, ValuesOf
<1>5. Decodes(k \o <<Equals>>, Pushed(p[1], lower) \o <<Equals>>, TRUE, lower)
    BY <1>3, SeparatorsDecode, DecodesConcat
<1>6. Decodes((k \o <<Equals>>) \o v, (Pushed(p[1], lower) \o <<Equals>>) \o Pushed(p[2], lower), TRUE, lower)
    BY <1>4, <1>5, DecodesConcat
<1> QED BY <1>1, <1>6 DEF PushedPair

\* Every encoding of a list of parameters stands for it.
LEMMA PairsDecode ==
    ASSUME NEW pairs \in PairLists, NEW lower, NEW e \in EncodedPairs(pairs)
    PROVE  Decodes(e, Join([i \in DOMAIN pairs |-> PushedPair(pairs[i], lower)], <<Amp>>), TRUE, lower)
<1> DEFINE n == Len(pairs)
           ts == [i \in DOMAIN pairs |-> PushedPair(pairs[i], lower)]
<1>1. n \in Nat /\ DOMAIN pairs = 1..n
    BY DEF PairLists
<1>2. Len(ts) = n /\ \A i \in 1..n : /\ ts[i] = PushedPair(pairs[i], lower)
                                    /\ pairs[i][1] \in Seq(Byte) /\ pairs[i][2] \in Seq(Byte)
    BY <1>1 DEF PairLists
<1> HIDE DEF ts, n
<1>3. PICK f : /\ EncodedPairs(pairs) = f[n] /\ f[0] = {<<>>}
               /\ \A k \in 1..n : f[k] = PairsStep(f[k - 1], pairs, k)
    BY <1>1, PairsLoop DEF n
<1>4. PICK g : /\ Join(ts, <<Amp>>) = g[n] /\ g[0] = <<>>
               /\ \A k \in 1..n : g[k] = JoinStep(g[k - 1], ts, <<Amp>>, k)
    <2>1. Len(ts) \in Nat
        BY <1>1, <1>2
    <2>2. PICK g : /\ Join(ts, <<Amp>>) = g[Len(ts)] /\ g[0] = <<>>
                   /\ \A k \in 1..Len(ts) : g[k] = JoinStep(g[k - 1], ts, <<Amp>>, k)
        BY <2>1, JoinLoop
    <2> QED BY <1>2, <2>2
<1> DEFINE P == {k \in 0..n : \A x \in f[k] : Decodes(x, g[k], TRUE, lower)}
<1>5. 0 \in P
    <2>1. 0 \in 0..n /\ \A x \in f[0] : x = <<>>
        BY <1>1, <1>3
    <2>2. Decodes(<<>>, <<>>, TRUE, lower)
        BY DecodesEmpty
    <2> QED BY <1>4, <2>1, <2>2
<1>6. ASSUME NEW k \in 1..n, k - 1 \in P PROVE k \in P
    <2>1. k \in 0..n
        BY <1>1
    <2>2. f[k] = PairsStep(f[k - 1], pairs, k) /\ g[k] = JoinStep(g[k - 1], ts, <<Amp>>, k)
        BY <1>3, <1>4
    <2>3. ASSUME NEW x \in f[k] PROVE Decodes(x, g[k], TRUE, lower)
        <3>1. CASE k = 1
            <4>1. x \in EncodedPair(pairs[k]) /\ g[k] = PushedPair(pairs[k], lower)
                BY <1>2, <2>2, <3>1 DEF PairsStep, JoinStep
            <4> QED BY <1>2, <4>1, PairDecodes
        <3>2. CASE k # 1
            <4>1. x \in AddPair(f[k - 1], pairs[k]) /\ g[k] = (g[k - 1] \o <<Amp>>) \o PushedPair(pairs[k], lower)
                BY <1>2, <2>2, <3>2 DEF PairsStep, JoinStep
            <4>2. PICK a \in f[k - 1], c \in EncodedPair(pairs[k]) : x = (a \o <<Amp>>) \o c
                BY <4>1, AddedElement
            <4>3. Decodes(a, g[k - 1], TRUE, lower)
                BY <1>6
            <4>4. Decodes(c, PushedPair(pairs[k], lower), TRUE, lower)
                BY <1>2, PairDecodes
            <4>5. Decodes(a \o <<Amp>>, g[k - 1] \o <<Amp>>, TRUE, lower)
                BY <4>3, SeparatorsDecode, DecodesConcat
            <4>6. Decodes((a \o <<Amp>>) \o c, (g[k - 1] \o <<Amp>>) \o PushedPair(pairs[k], lower), TRUE, lower)
                BY <4>4, <4>5, DecodesConcat
            <4> QED BY <4>1, <4>2, <4>6
        <3> QED BY <3>1, <3>2
    <2> QED BY <2>1, <2>3
<1> HIDE DEF P
<1>7. n \in P
    BY <1>1, <1>5, <1>6, UpTo
<1> QED BY <1>3, <1>4, <1>7 DEF P, ts

\* Lower case of what a byte shows is what lower-case decoding pushes.
LEMMA LowerVisible ==
    ASSUME NEW s \in Seq(Byte)
    PROVE  /\ Visible(s) \in Seq(Int) /\ ToLower(Visible(s)) = Pushed(s, TRUE)
           /\ Visible(s) = Pushed(s, FALSE)
<1> DEFINE n == Len(s)
<1>1. n \in Nat /\ DOMAIN s = 1..n /\ \A i \in 1..n : s[i] \in Byte
    OBVIOUS
<1> HIDE DEF n
<1>2. \A b \in Byte : /\ (IF IsAscii(b) THEN b ELSE Question) \in Int
                      /\ LowerByte(IF IsAscii(b) THEN b ELSE Question) = PushByte(b, TRUE)
                      /\ (IF IsAscii(b) THEN b ELSE Question) = PushByte(b, FALSE)
    BY DEF Byte, IsAscii, Question, LowerByte, PushByte, Upper
<1> DEFINE V(i) == IF IsAscii(s[i]) THEN s[i] ELSE Question
           v == Visible(s)
<1>3. v = [i \in 1..n |-> V(i)]
    BY <1>1 DEF Visible
<1>4. \A i \in 1..n : V(i) \in Int /\ LowerByte(V(i)) = PushByte(s[i], TRUE) /\ V(i) = PushByte(s[i], FALSE)
    BY <1>1, <1>2
<1> HIDE DEF V
<1>5. [i \in 1..n |-> V(i)] \in Seq(Int) /\ DOMAIN v = 1..n /\ \A i \in 1..n : v[i] = V(i)
    <2>1. \A i \in 1..n : V(i) \in Int
        BY <1>4
    <2>2. [i \in 1..n |-> V(i)] \in Seq(Int)
        BY <1>1, <2>1
    <2> QED BY <1>3, <2>2
<1> HIDE DEF v
<1>6. ToLower(v) = Pushed(s, TRUE) /\ v = Pushed(s, FALSE)
    BY <1>1, <1>3, <1>4, <1>5 DEF ToLower, Pushed
<1> QED BY <1>3, <1>5, <1>6 DEF v

\* Lower-case decoding of an encoded list gives the lower case of the list.
LEMMA PairsNormalized ==
    ASSUME NEW pairs \in PairLists, NEW e \in EncodedPairs(pairs)
    PROVE  /\ PairsText(VisiblePairs(pairs)) \in Seq(Int)
           /\ NormalizeText(e, TRUE) = ToLower(PairsText(VisiblePairs(pairs)))
<1> DEFINE vs == VisiblePairs(pairs)
           ts == [i \in DOMAIN vs |-> (vs[i][1] \o <<Equals>>) \o vs[i][2]]
           ls == [i \in DOMAIN ts |-> ToLower(ts[i])]
           ps == [i \in DOMAIN pairs |-> PushedPair(pairs[i], TRUE)]
<1>1. DOMAIN ts = DOMAIN pairs /\ DOMAIN ls = DOMAIN pairs
    BY DEF VisiblePairs
<1>2. DOMAIN pairs = 1..Len(pairs) /\ Len(pairs) \in Nat /\ \A i \in DOMAIN pairs : pairs[i] \in Seq(Byte) \X Seq(Byte)
    BY DEF PairLists
<1>3. <<Equals>> \in Seq(Int) /\ <<Amp>> \in Seq(Int) /\ ToLower(<<Equals>>) = <<Equals>> /\ ToLower(<<Amp>>) = <<Amp>>
    BY DEF Equals, Amp, ToLower, LowerByte, Upper
<1>4. ASSUME NEW i \in DOMAIN pairs
      PROVE  ts[i] \in Seq(Int) /\ ToLower(ts[i]) = PushedPair(pairs[i], TRUE)
    <2>1. PICK x \in Seq(Int), y \in Seq(Int) :
            /\ x = Visible(pairs[i][1]) /\ y = Visible(pairs[i][2])
            /\ ToLower(x) = Pushed(pairs[i][1], TRUE) /\ ToLower(y) = Pushed(pairs[i][2], TRUE)
        <3>1. pairs[i][1] \in Seq(Byte) /\ pairs[i][2] \in Seq(Byte)
            BY <1>2
        <3> QED BY <3>1, LowerVisible
    <2>2. vs[i] = <<x, y>>
        BY <2>1 DEF VisiblePairs
    <2>3. ts[i] = (x \o <<Equals>>) \o y
        <3>1. i \in DOMAIN vs
            BY DEF VisiblePairs
        <3>2. vs[i][1] = x /\ vs[i][2] = y
            BY <2>2
        <3> HIDE DEF vs
        <3> QED BY <3>1, <3>2
    <2>4. x \o <<Equals>> \in Seq(Int) /\ (x \o <<Equals>>) \o y \in Seq(Int)
        BY <1>3
    <2>5. ToLower((x \o <<Equals>>) \o y) = (ToLower(x) \o <<Equals>>) \o ToLower(y)
        <3>1. PICK q \in Seq(Int) : q = <<Equals>> /\ ToLower(q) = q
            BY <1>3
        <3>2. x \o q \in Seq(Int)
            OBVIOUS
        <3>3. ToLower((x \o q) \o y) = ToLower(x \o q) \o ToLower(y)
            BY <3>2, LowerConcat
        <3>4. ToLower(x \o q) = ToLower(x) \o ToLower(q)
            BY LowerConcat
        <3> QED BY <3>1, <3>3, <3>4
    <2> HIDE DEF ts
    <2> QED BY <2>1, <2>3, <2>4, <2>5 DEF PushedPair
<1>5. ls = ps
    BY <1>1, <1>4
<1>6. ts \in Seq(Seq(Int))
    <2> HIDE DEF ts
    <2>1. ts = [i \in 1..Len(pairs) |-> ts[i]]
        BY <1>1, <1>2 DEF ts
    <2>2. \A i \in 1..Len(pairs) : ts[i] \in Seq(Int)
        BY <1>2, <1>4
    <2> DEFINE n == Len(pairs)
    <2>3. n \in Nat
        BY <1>2
    <2> HIDE DEF n
    <2>4. [i \in 1..n |-> ts[i]] \in Seq(Seq(Int))
        BY <2>2, <2>3, IsASeq DEF n
    <2> QED BY <2>1, <2>4 DEF n
<1>7. PairsText(vs) = Join(ts, <<Amp>>)
    BY DEF PairsText
<1> HIDE DEF ts, vs
<1>8. ToLower(Join(ts, <<Amp>>)) = Join(ls, <<Amp>>) /\ Join(ts, <<Amp>>) \in Seq(Int)
    BY <1>3, <1>6, LowerJoin
<1>9. Decodes(e, Join(ps, <<Amp>>), TRUE, TRUE)
    BY PairsDecode
<1>10. NormalizeText(e, TRUE) = Join(ps, <<Amp>>)
    BY <1>9, DecodesAlone DEF NormalizeText
<1> HIDE DEF ls, ps
<1> QED BY <1>5, <1>7, <1>8, <1>10 DEF vs

\* A byte that lower-case decoding pushed stays as it is in lower case.
LEMMA PushedLower ==
    ASSUME NEW b \in Int
    PROVE  LowerByte(PushByte(b, TRUE)) = PushByte(b, TRUE)
BY DEF PushByte, Question, LowerByte, Upper

\* One byte in front of a text in lower case.
LEMMA LowerInFront ==
    ASSUME NEW b \in Int, LowerByte(b) = b, NEW t \in Seq(Int), ToLower(t) = t
    PROVE  ToLower(<<b>> \o t) = <<b>> \o t
<1>1. ToLower(<<b>>) = <<b>>
    BY DEF ToLower
<1>2. PICK x \in Seq(Int) : x = <<b>>
    <2>1. <<b>> \in Seq(Int)
        OBVIOUS
    <2> QED BY <2>1, Zenon
<1>3. ToLower(x \o t) = ToLower(x) \o ToLower(t)
    BY LowerConcat
<1> QED BY <1>1, <1>2, <1>3

\* What normalisation returns is in lower case already.
LEMMA NormalizedIsLower ==
    ASSUME NEW s \in Seq(Int), NEW plus
    PROVE  NormalizeText(s, plus) \in Seq(Int) /\ ToLower(NormalizeText(s, plus)) = NormalizeText(s, plus)
<1> DEFINE n == Len(s)
<1>1. PICK f : DecodeFold(s, plus, TRUE) = f[1] /\ IsDecoding(f, s, plus, TRUE)
    BY DecodeLoop
<1>2. \A i \in 1..n + 1 : f[i] = DecodeStep(f, s, i, plus, TRUE) /\ f[i] \in Seq(Int)
    BY <1>1 DEF IsDecoding
<1>3. n \in Nat
    OBVIOUS
<1> DEFINE P == {k \in Nat : \A i \in n + 1 - k..n + 1 : i \in 1..n + 1 => ToLower(f[i]) = f[i]}
<1>4. 0 \in P
    <2>1. n + 1 \in 1..n + 1 /\ n + 1 > Len(s) /\ n + 1 - 0 = n + 1
        BY <1>3
    <2>2. ToLower(f[n + 1]) = f[n + 1]
        <3>1. f[n + 1] = <<>>
            BY <1>2, <2>1 DEF DecodeStep
        <3>2. ToLower(<<>>) = <<>>
            BY DEF ToLower
        <3> QED BY <3>1, <3>2
    <2> HIDE DEF n
    <2>3. \A i \in n + 1 - 0..n + 1 : i = n + 1
        BY <1>3
    <2> QED BY <2>2, <2>3
<1>5. ASSUME NEW k \in 1..n, k - 1 \in P PROVE k \in P
    <2> DEFINE i == n + 1 - k
    <2>1. i \in 1..n /\ i \in 1..n + 1
        BY <1>3
    <2>2. \A j \in i + 1..n + 1 : f[j] \in Seq(Int) /\ ToLower(f[j]) = f[j]
        <3>1. ASSUME NEW j \in i + 1..n + 1 PROVE f[j] \in Seq(Int) /\ ToLower(f[j]) = f[j]
            <4>1. j \in 1..n + 1 /\ j \in n + 1 - (k - 1)..n + 1
                BY <1>3
            <4> QED BY <1>2, <1>5, <4>1
        <3> QED BY <3>1
    <2>3. f[i] = DecodeStep(f, s, i, plus, TRUE)
        BY <1>2, <2>1
    <2> HIDE DEF i
    <2>4. ToLower(f[i]) = f[i]
        <3>1. CASE IsEscape(s, i)
            <4>1. i + 3 \in i + 1..n + 1 /\ i + 1 \in 1..n /\ i + 2 \in 1..n
                BY <1>3, <2>1, <3>1 DEF IsEscape
            <4>2. s[i + 1] \in Int /\ s[i + 2] \in Int
                BY <4>1
            <4> DEFINE b == 16 * Hex(s[i + 1]) + Hex(s[i + 2])
            <4>3. b \in Int
                <5>1. Hex(s[i + 1]) \in 0..15 /\ Hex(s[i + 2]) \in 0..15
                    BY <3>1, <4>2, HexValue DEF IsEscape
                <5>2. \A x, y \in 0..15 : 16 * x + y \in Int
                    OBVIOUS
                <5> QED BY <5>1, <5>2
            <4>4. f[i] = <<PushByte(b, TRUE)>> \o f[i + 3]
                <5>1. ~(i > Len(s))
                    BY <2>1
                <5> QED BY <2>3, <3>1, <5>1 DEF DecodeStep
            <4> HIDE DEF b
            <4>5. PushByte(b, TRUE) \in Int /\ LowerByte(PushByte(b, TRUE)) = PushByte(b, TRUE)
                BY <4>3, PushedByte, PushedLower
            <4>6. f[i + 3] \in Seq(Int) /\ ToLower(f[i + 3]) = f[i + 3]
                BY <2>2, <4>1
            <4> QED BY <4>4, <4>5, <4>6, LowerInFront
        <3>2. CASE ~IsEscape(s, i)
            <4> DEFINE b == IF plus /\ s[i] = Plus THEN Space ELSE s[i]
            <4>1. s[i] \in Int /\ i + 1 \in i + 1..n + 1
                BY <1>3, <2>1
            <4>2. b \in Int
                BY <4>1 DEF Space
            <4>3. f[i] = <<PushByte(b, TRUE)>> \o f[i + 1]
                BY <2>1, <2>3, <3>2 DEF DecodeStep
            <4> HIDE DEF b
            <4>4. PushByte(b, TRUE) \in Int /\ LowerByte(PushByte(b, TRUE)) = PushByte(b, TRUE)
                BY <4>2, PushedByte, PushedLower
            <4>5. f[i + 1] \in Seq(Int) /\ ToLower(f[i + 1]) = f[i + 1]
                BY <2>2, <4>1
            <4> QED BY <4>3, <4>4, <4>5, LowerInFront
        <3> QED BY <3>1, <3>2
    <2>5. ASSUME NEW j \in n + 1 - k..n + 1, j \in 1..n + 1 PROVE ToLower(f[j]) = f[j]
        <3>1. j = i \/ j \in i + 1..n + 1
            BY <1>3 DEF i
        <3> QED BY <2>2, <2>4, <3>1
    <2> QED BY <2>5
<1> HIDE DEF P
<1>6. n \in P
    BY <1>3, <1>4, <1>5, UpTo
<1>7. n + 1 - n = 1 /\ 1 \in 1..n + 1
    BY <1>3
<1>8. ToLower(f[1]) = f[1] /\ f[1] \in Seq(Int)
    BY <1>2, <1>6, <1>7 DEF P
<1> QED BY <1>1, <1>8 DEF NormalizeText

\* A multipart body is a text.
LEMMA MultipartType ==
    ASSUME NEW parts, Len(parts) \in Nat, DOMAIN parts = 1..Len(parts), NEW boundary \in Seq(Int),
           \A i \in DOMAIN parts : parts[i].lines \in Seq(Seq(Nat)) /\ parts[i].value \in Seq(Nat)
    PROVE  MultipartBody(parts, boundary) \in Seq(Int)
<1> DEFINE sep == <<Dash, Dash>> \o boundary
           Piece(i) == sep \o CRLF \o Join(parts[i].lines, CRLF) \o CRLF \o CRLF \o parts[i].value \o CRLF
           n == Len(parts)
           ps == [i \in DOMAIN parts |-> Piece(i)]
<1>1. CRLF \in Seq(Int) /\ <<Dash, Dash>> \in Seq(Int) /\ <<>> \in Seq(Int)
    BY DEF CRLF, CR, LF, Dash
<1>2. sep \in Seq(Int)
    BY <1>1
<1> HIDE DEF sep
<1>3. ASSUME NEW i \in DOMAIN parts PROVE Piece(i) \in Seq(Int)
    <2>1. parts[i].lines \in Seq(Seq(Int)) /\ parts[i].value \in Seq(Int)
        <3>1. \A x \in Seq(Seq(Nat)) : x \in Seq(Seq(Int))
            <4> SUFFICES ASSUME NEW x \in Seq(Seq(Nat)) PROVE x \in Seq(Seq(Int))
                OBVIOUS
            <4> DEFINE m == Len(x)
            <4>1. m \in Nat /\ x = [j \in 1..m |-> x[j]]
                OBVIOUS
            <4>2. \A j \in 1..m : x[j] \in Seq(Nat)
                OBVIOUS
            <4>3. \A y \in Seq(Nat) : y \in Seq(Int)
                OBVIOUS
            <4> HIDE DEF m
            <4> DEFINE S == Seq(Int)
            <4>4. \A j \in 1..m : x[j] \in S
                BY <4>2, <4>3
            <4> HIDE DEF S
            <4>5. m \in Nat
                BY <4>1
            <4>6. [j \in 1..m |-> x[j]] \in Seq(S)
                BY <4>4, <4>5
            <4> QED BY <4>1, <4>6 DEF S
        <3>2. \A y \in Seq(Nat) : y \in Seq(Int)
            OBVIOUS
        <3> QED BY <3>1, <3>2
    <2>2. Join(parts[i].lines, CRLF) \in Seq(Int)
        BY <1>1, <2>1, LowerJoin
    <2> HIDE DEF CRLF
    <2>3. \A a, b, c, d \in Seq(Int) : a \o b \o c \o b \o b \o d \o b \in Seq(Int)
        OBVIOUS
    <2> QED BY <1>1, <1>2, <2>1, <2>2, <2>3
<1>4. ps \in Seq(Seq(Int))
    <2> HIDE DEF Piece
    <2>1. n \in Nat /\ ps = [i \in 1..n |-> Piece(i)] /\ \A i \in 1..n : Piece(i) \in Seq(Int)
        BY <1>3
    <2> HIDE DEF n, ps
    <2> QED BY <2>1, IsASeq
<1>5. MultipartBody(parts, boundary) = Join(ps, <<>>) \o sep \o <<Dash, Dash>> \o CRLF
    BY DEF MultipartBody, Concat, sep
<1> HIDE DEF ps
<1>6. Join(ps, <<>>) \in Seq(Int)
    BY <1>1, <1>4, LowerJoin
<1>7. \A a, b, c, d \in Seq(Int) : a \o b \o c \o d \in Seq(Int)
    OBVIOUS
<1> HIDE DEF CRLF
<1> QED BY <1>1, <1>2, <1>5, <1>6, <1>7

-----------------------------------------------------------------------------
(* The haystack. *)

\* The part of the haystack that a query or a body adds.
Added(sep, opt) == IF opt = {} THEN <<>> ELSE <<sep>> \o The(opt)

\* The only element of a set.
LEMMA TheOnly ==
    ASSUME NEW x
    PROVE  The({x}) = x
BY DEF The

\* The haystack does not depend on whether the normalisation stage ran.
LEMMA HaystackParts ==
    ASSUME NEW r, NEW n \in {Normalized(r), NotNormalized}
    PROVE  Haystack(r, n) = NormalizeText(r.path, FALSE)
                            \o Added(Question, {NormalizeText(q, TRUE) : q \in r.query})
                            \o (IF r.body = {} THEN <<>> ELSE <<LF>> \o NormalizeText(The(r.body), TRUE))
<1> DEFINE p == NormalizeText(r.path, FALSE)
           Q == {NormalizeText(q, TRUE) : q \in r.query}
           B == IF r.body = {} THEN <<>> ELSE <<LF>> \o NormalizeText(The(r.body), TRUE)
           path == IF n.path # {} THEN The(n.path) ELSE p
           query == IF n.query # {} THEN n.query ELSE Q
<1>1. Haystack(r, n) = path \o (IF query = {} THEN <<>> ELSE <<Question>> \o The(query)) \o B
    BY DEF Haystack
<1>2. path = p /\ query = Q
    <2>1. CASE n = Normalized(r)
        <3>1. n.path = {p} /\ n.query = Q
            BY <2>1 DEF Normalized
        <3> HIDE DEF p, Q
        <3> QED BY <3>1, TheOnly
    <2>2. CASE n = NotNormalized
        <3>1. n.path = {} /\ n.query = {}
            BY <2>2 DEF NotNormalized
        <3> HIDE DEF p, Q
        <3> QED BY <3>1
    <2> QED BY <2>1, <2>2
<1> HIDE DEF p, Q, B, path, query
<1>3. (IF query = {} THEN <<>> ELSE <<Question>> \o The(query)) = Added(Question, Q)
    BY <1>2 DEF Added
<1>4. Haystack(r, n) = p \o Added(Question, Q) \o B
    BY <1>1, <1>2, <1>3
<1> QED BY <1>4 DEF p, Q, B

\* The wire carries one of the encodings of what was meant, and the stage, if it
\* ran, normalised that request.
WireOf(m, r) ==
    /\ r.path \in Encodings(m.path, {Question}, FALSE)
    /\ m.query = {} => r.query = {}
    /\ m.query # {} => \E x \in m.query : \E w \in EncodedPairs(x) : r.query = {w}
    /\ m.via = "none" => r.body = {}
    /\ m.via = "form" => \E w \in EncodedPairs(m.pairs) : r.body = {w}
    /\ m.via = "json" => r.body = {m.text}
    /\ m.via = "multipart" => r.body = {MultipartBody(m.parts, m.boundary)}

\* The parameters of a media type that hold the boundary.
BoundaryParams(b) == <<[key |-> "charset", value |-> <<>>], [key |-> "boundary", value |-> b]>>

\* The headers that say how to read the body, the cookies, and what is sent as it is.
HeadersOf(m, r) ==
    /\ r.ctype = IF m.via = "none" THEN {} ELSE {[kind |-> m.via, params |-> BoundaryParams(m.boundary)]}
    /\ r.json = IF m.via = "json" THEN {m.leaves} ELSE {}
    /\ r.cookie = IF m.cookies = <<>> THEN {} ELSE
                    {Join([i \in DOMAIN m.cookies |->
                            m.cookies[i][1] \o <<Equals>> \o m.cookies[i][2]], <<Semi, Space>>)}
    /\ r.ip = m.ip /\ r.method = m.method /\ r.headers = m.headers /\ r.country = m.country

WireInv ==
    /\ case \in Cases
    /\ Written => WireOf(case.means, req) /\ HeadersOf(case.means, req)
    /\ pc \in {"rule", "scan", "done"} => norm \in {Normalized(req), NotNormalized}

\* What Send puts on the wire encodes what was meant.
LEMMA SendEncodes ==
    ASSUME case \in Cases, Send
    PROVE  WireOf(case.means, req') /\ HeadersOf(case.means, req')
<1> DEFINE m == case.means
           bodies == CASE m.via = "none" -> {{}}
                       [] m.via = "form" -> {{b} : b \in EncodedPairs(m.pairs)}
                       [] m.via = "json" -> {{m.text}}
                       [] m.via = "multipart" -> {{MultipartBody(m.parts, m.boundary)}}
           ctype == IF m.via = "none" THEN {} ELSE {[kind |-> m.via,
                        params |-> <<[key |-> "charset", value |-> <<>>],
                                     [key |-> "boundary", value |-> m.boundary]>>]}
           json == IF m.via = "json" THEN {m.leaves} ELSE {}
           cookie == IF m.cookies = <<>> THEN {} ELSE
                        {Join([i \in DOMAIN m.cookies |->
                                m.cookies[i][1] \o <<Equals>> \o m.cookies[i][2]], <<Semi, Space>>)}
           Request(p, q, b) == [path |-> p, query |-> q, body |-> b, ctype |-> ctype, json |-> json,
                                cookie |-> cookie, method |-> m.method, headers |-> m.headers,
                                ip |-> m.ip, country |-> m.country]
<1>1. PICK p \in Encodings(m.path, {Question}, FALSE), b \in bodies,
           q \in {{}} \cup {{w} : w \in UNION {EncodedPairs(x) : x \in m.query}} :
        (q = {}) = (m.query = {}) /\ req' = Request(p, q, b)
    BY Zenon DEF Send
<1> HIDE DEF ctype, json, cookie
<1>2. /\ (q = {}) = (m.query = {}) /\ req'.path = p /\ req'.query = q /\ req'.body = b
      /\ req'.ctype = ctype /\ req'.json = json /\ req'.cookie = cookie /\ req'.ip = m.ip
      /\ req'.method = m.method /\ req'.headers = m.headers /\ req'.country = m.country
    <2>1. /\ Request(p, q, b).path = p /\ Request(p, q, b).query = q /\ Request(p, q, b).body = b
          /\ Request(p, q, b).ctype = ctype /\ Request(p, q, b).json = json /\ Request(p, q, b).cookie = cookie
          /\ Request(p, q, b).ip = m.ip /\ Request(p, q, b).method = m.method
          /\ Request(p, q, b).headers = m.headers /\ Request(p, q, b).country = m.country
        OBVIOUS
    <2> HIDE DEF Request
    <2> QED BY <1>1, <2>1, Zenon
<1>3. m.via \in {"none", "form", "json", "multipart"}
    BY CasesAssumption DEF IsMeaning
<1>4. HeadersOf(m, req')
    BY <1>2, Zenon DEF HeadersOf, ctype, json, cookie, BoundaryParams
<1> HIDE DEF m
<1>5. m.query # {} => \E x \in m.query : \E w \in EncodedPairs(x) : q = {w}
    BY <1>2
<1>6. /\ m.via = "none" => b = {}
      /\ m.via = "form" => \E w \in EncodedPairs(m.pairs) : b = {w}
      /\ m.via = "json" => b = {m.text}
      /\ m.via = "multipart" => b = {MultipartBody(m.parts, m.boundary)}
    BY <1>3
<1> HIDE DEF bodies
<1>7. WireOf(m, req')
    BY <1>2, <1>5, <1>6 DEF WireOf
<1> QED BY <1>4, <1>7 DEF m

\* The invariant is kept by every step.
LEMMA WireStep ==
    ASSUME WireInv, [Next]_vars
    PROVE  WireInv'
<1> USE DEF WireInv, Written
<1>1. CASE Compile
    BY <1>1 DEF Compile
<1>2. CASE Send
    <2>1. WireOf(case.means, req') /\ HeadersOf(case.means, req')
        BY <1>2, SendEncodes
    <2>2. pc' = "wire" /\ case' = case
        BY <1>2 DEF Send
    <2> QED BY <2>1, <2>2
<1>3. CASE EarlyStack
    BY <1>3 DEF EarlyStack
<1>4. CASE EvalCondition
    <2>1. pc = "rule" /\ pc' \in {"rule", "scan"} /\ UNCHANGED <<case, req, norm>>
        BY <1>4 DEF EvalCondition
    <2> QED BY <2>1
<1>5. CASE ScanSignatures
    BY <1>5 DEF ScanSignatures
<1>6. CASE Tick
    BY <1>6 DEF Tick
<1>7. CASE OthersBump
    BY <1>7 DEF OthersBump
<1>8. CASE UNCHANGED vars
    BY <1>8 DEF vars
<1> QED BY <1>1, <1>2, <1>3, <1>4, <1>5, <1>6, <1>7, <1>8 DEF Next

\* It holds in every state.
LEMMA WireAlways == Spec => []WireInv
<1>1. Init => WireInv
    BY DEF Init, WireInv, Written
<1> QED BY <1>1, WireStep, PTL DEF Spec

\* Bytes are integers.
LEMMA BytesAreText ==
    ASSUME NEW s \in Seq(Byte)
    PROVE  s \in Seq(Int)
<1>1. \A b \in Byte : b \in Int
    BY DEF Byte
<1> QED BY <1>1

\* The body of a request that is no form is normalised once and for all.
LEMMA BodyNormalized ==
    ASSUME NEW m, IsMeaning(m), NEW r, WireOf(m, r), m.via \in {"json", "multipart"}
    PROVE  \E b \in Seq(Int) : r.body = {b}
<1>1. CASE m.via = "json"
    <2>1. m.text \in Seq(Byte) /\ r.body = {m.text}
        BY <1>1 DEF IsMeaning, WireOf
    <2> QED BY <2>1, BytesAreText
<1>2. CASE m.via = "multipart"
    <2>1. /\ Len(m.parts) \in Nat /\ DOMAIN m.parts = 1..Len(m.parts)
          /\ \A i \in DOMAIN m.parts : m.parts[i].lines \in Seq(Seq(Nat)) /\ m.parts[i].value \in Seq(Nat)
        <3>1. \A S : \A x \in Seq(S) : Len(x) \in Nat /\ DOMAIN x = 1..Len(x)
            OBVIOUS
        <3>2. \A x \in Seq(Byte) : x \in Seq(Nat)
            <4>1. \A b \in Byte : b \in Nat
                BY DEF Byte
            <4> QED BY <4>1
        <3>3. \A i \in DOMAIN m.parts : m.parts[i].lines \in Seq(Seq(Nat)) /\ m.parts[i].value \in Seq(Byte)
            BY DEF IsMeaning, IsPart
        <3>4. m.parts \in Seq(ToSet(m.parts))
            BY DEF IsMeaning
        <3> QED BY <3>1, <3>2, <3>3, <3>4, Zenon
    <2>2. m.boundary \in Seq(Int)
        BY BytesAreText DEF IsMeaning
    <2>3. r.body = {MultipartBody(m.parts, m.boundary)}
        BY <1>2 DEF WireOf
    <2>4. MultipartBody(m.parts, m.boundary) \in Seq(Int)
        BY <2>1, <2>2, MultipartType
    <2> QED BY <2>3, <2>4
<1> QED BY <1>1, <1>2

\* The parts a case means, one by one.
LEMMA ThreeParts ==
    ASSUME NEW m
    PROVE  /\ MeantParts(m)[1] = {Visible(m.path)}
           /\ MeantParts(m)[2] = {PairsText(VisiblePairs(x)) : x \in m.query}
           /\ MeantParts(m)[3] = IF m.via = "form" THEN {PairsText(VisiblePairs(m.pairs))}
                                 ELSE {NormalizeText(b, TRUE) : b \in req.body}
<1> DEFINE A == {Visible(m.path)}
           B == {PairsText(VisiblePairs(x)) : x \in m.query}
           C == IF m.via = "form" THEN {PairsText(VisiblePairs(m.pairs))}
                ELSE {NormalizeText(b, TRUE) : b \in req.body}
<1>1. MeantParts(m) = <<A, B, C>>
    BY DEF MeantParts
<1> HIDE DEF A, B, C
<1>2. MeantParts(m)[1] = A /\ MeantParts(m)[2] = B /\ MeantParts(m)[3] = C
    BY <1>1
<1> QED BY <1>2 DEF A, B, C

\* However the path was written, it is normalised to what was meant.
LEMMA PathPart ==
    ASSUME WireInv, Written
    PROVE  \E t \in Seq(Int) : /\ MeantParts(case.means)[1] = {t}
                               /\ NormalizeText(req.path, FALSE) = ToLower(t)
<1> DEFINE m == case.means
           t == Visible(m.path)
<1>1. m.path \in Seq(Byte) /\ req.path \in Encodings(m.path, {Question}, FALSE)
    BY CasesAssumption DEF WireInv, WireOf, IsMeaning
<1>2. t \in Seq(Int) /\ ToLower(t) = Pushed(m.path, TRUE)
    BY <1>1, LowerVisible
<1>3. Decodes(req.path, Pushed(m.path, TRUE), FALSE, TRUE)
    BY <1>1, EncodingDecodes
<1>4. NormalizeText(req.path, FALSE) = Pushed(m.path, TRUE)
    BY <1>3, DecodesAlone DEF NormalizeText
<1> QED BY <1>2, <1>4, ThreeParts

\* And so is a query.
LEMMA QueryPart ==
    ASSUME WireInv, Written
    PROVE  \/ MeantParts(case.means)[2] = {} /\ req.query = {}
           \/ \E t \in Seq(Int) : \E w : /\ MeantParts(case.means)[2] = {t} /\ req.query = {w}
                                          /\ NormalizeText(w, TRUE) = ToLower(t)
<1> DEFINE m == case.means
<1>1. IsMeaning(m) /\ WireOf(m, req)
    BY CasesAssumption DEF WireInv
<1>2. MeantParts(m)[2] = {PairsText(VisiblePairs(x)) : x \in m.query}
    BY ThreeParts
<1> HIDE DEF m
<1>3. CASE m.query = {}
    BY <1>1, <1>2, <1>3 DEF WireOf, m
<1>4. CASE m.query # {}
    <2>1. PICK x \in m.query : \E w \in EncodedPairs(x) : req.query = {w}
        BY <1>1, <1>4 DEF WireOf
    <2>2. PICK w \in EncodedPairs(x) : req.query = {w}
        BY <2>1
    <2>3. x \in PairLists /\ \A y \in m.query : y = x
        BY <1>1 DEF IsMeaning
    <2> DEFINE t == PairsText(VisiblePairs(x))
    <2>4. t \in Seq(Int) /\ NormalizeText(w, TRUE) = ToLower(t)
        BY <2>3, PairsNormalized
    <2>5. MeantParts(m)[2] = {t}
        BY <1>2, <2>3
    <2> HIDE DEF t
    <2> QED BY <2>2, <2>4, <2>5 DEF m
<1> QED BY <1>3, <1>4

\* And a body.
LEMMA BodyPart ==
    ASSUME WireInv, Written
    PROVE  \/ MeantParts(case.means)[3] = {} /\ req.body = {}
           \/ \E t \in Seq(Int) : \E w : /\ MeantParts(case.means)[3] = {t} /\ req.body = {w}
                                          /\ NormalizeText(w, TRUE) = ToLower(t)
<1> DEFINE m == case.means
<1>1. IsMeaning(m) /\ WireOf(m, req)
    BY CasesAssumption DEF WireInv
<1>2. MeantParts(m)[3] = IF m.via = "form" THEN {PairsText(VisiblePairs(m.pairs))}
                         ELSE {NormalizeText(b, TRUE) : b \in req.body}
    BY ThreeParts
<1>3. m.via \in {"none", "form", "json", "multipart"}
    BY <1>1 DEF IsMeaning
<1> HIDE DEF m
<1>4. CASE m.via = "none"
    BY <1>1, <1>2, <1>4 DEF WireOf, m
<1>5. CASE m.via = "form"
    <2>1. PICK w \in EncodedPairs(m.pairs) : req.body = {w}
        BY <1>1, <1>5 DEF WireOf
    <2>2. m.pairs \in PairLists
        BY <1>1 DEF IsMeaning
    <2> DEFINE t == PairsText(VisiblePairs(m.pairs))
    <2>3. t \in Seq(Int) /\ NormalizeText(w, TRUE) = ToLower(t)
        BY <2>2, PairsNormalized
    <2>4. MeantParts(m)[3] = {t}
        BY <1>2, <1>5
    <2> HIDE DEF t
    <2> QED BY <2>1, <2>3, <2>4 DEF m
<1>6. CASE m.via \in {"json", "multipart"}
    <2>1. PICK w \in Seq(Int) : req.body = {w}
        BY <1>1, <1>6, BodyNormalized
    <2> DEFINE t == NormalizeText(w, TRUE)
    <2>2. t \in Seq(Int) /\ ToLower(t) = t
        BY NormalizedIsLower
    <2>3. MeantParts(m)[3] = {t}
        BY <1>2, <1>6, <2>1
    <2> HIDE DEF t
    <2>4. NormalizeText(w, TRUE) = ToLower(t)
        BY <2>2 DEF t
    <2> QED BY <2>1, <2>2, <2>3, <2>4 DEF m
<1> QED BY <1>3, <1>4, <1>5, <1>6

\* What the haystack adds for a part that may be missing.
LEMMA AddedIsPart ==
    ASSUME NEW parts, NEW sep, NEW opt,
           \/ parts = {} /\ opt = {}
           \/ \E t \in Seq(Int) : \E w : parts = {t} /\ opt = {w} /\ NormalizeText(w, TRUE) = ToLower(t)
    PROVE  /\ Added(sep, {NormalizeText(x, TRUE) : x \in opt})
              = IF parts = {} THEN <<>> ELSE <<sep>> \o ToLower(The(parts))
           /\ (IF opt = {} THEN <<>> ELSE <<sep>> \o NormalizeText(The(opt), TRUE))
              = IF parts = {} THEN <<>> ELSE <<sep>> \o ToLower(The(parts))
<1>1. CASE parts = {} /\ opt = {}
    BY <1>1 DEF Added
<1>2. CASE \E t \in Seq(Int) : \E w : parts = {t} /\ opt = {w} /\ NormalizeText(w, TRUE) = ToLower(t)
    <2>1. PICK t \in Seq(Int) : \E w : parts = {t} /\ opt = {w} /\ NormalizeText(w, TRUE) = ToLower(t)
        BY <1>2
    <2>2. PICK w : parts = {t} /\ opt = {w} /\ NormalizeText(w, TRUE) = ToLower(t)
        BY <2>1
    <2>3. The(parts) = t /\ The(opt) = w
        BY <2>2, TheOnly
    <2>4. {NormalizeText(x, TRUE) : x \in opt} = {NormalizeText(w, TRUE)}
        BY <2>2
    <2>5. The({NormalizeText(x, TRUE) : x \in opt}) = NormalizeText(w, TRUE)
        BY <2>4, TheOnly
    <2>6. parts # {} /\ opt # {} /\ {NormalizeText(x, TRUE) : x \in opt} # {}
        BY <2>2, <2>4
    <2>7. Added(sep, {NormalizeText(x, TRUE) : x \in opt}) = <<sep>> \o NormalizeText(w, TRUE)
        BY <2>5, <2>6 DEF Added
    <2> QED BY <2>2, <2>3, <2>6, <2>7
<1> QED BY <1>1, <1>2

\* In every state the signatures scan one canonical text: the path, the query and
\* the body that were meant, decoded and in lower case, whichever characters the
\* client escaped and in which form, of whatever length they are, and whether or
\* not the normalisation stage ran (haystack, NormalizeStage, decode_fold_into).
THEOREM Canonical == Spec => []HaystackCanonical
<1>1. ASSUME WireInv PROVE HaystackCanonical
    <2> SUFFICES ASSUME pc \in {"scan", "done"} PROVE HaystackCanonical
        BY DEF HaystackCanonical
    <2> DEFINE parts == MeantParts(case.means)
               Part(i, sep) == IF parts[i] = {} THEN <<>> ELSE sep \o ToLower(The(parts[i]))
    <2>1. Written /\ norm \in {Normalized(req), NotNormalized}
        BY <1>1 DEF Written, WireInv
    <2>2. NormalizeText(req.path, FALSE) = Part(1, <<>>)
        <3>1. PICK t \in Seq(Int) : parts[1] = {t} /\ NormalizeText(req.path, FALSE) = ToLower(t)
            BY <1>1, <2>1, PathPart
        <3>2. The(parts[1]) = t /\ ToLower(t) \in Seq(Int)
            BY <3>1, TheOnly, LowerType
        <3>3. \A x \in Seq(Int) : <<>> \o x = x
            OBVIOUS
        <3> HIDE DEF parts
        <3> QED BY <3>1, <3>2, <3>3
    <2>3. Added(Question, {NormalizeText(q, TRUE) : q \in req.query}) = Part(2, <<Question>>)
        BY <1>1, <2>1, QueryPart, AddedIsPart
    <2>4. (IF req.body = {} THEN <<>> ELSE <<LF>> \o NormalizeText(The(req.body), TRUE)) = Part(3, <<LF>>)
        BY <1>1, <2>1, BodyPart, AddedIsPart
    <2>5. Haystack(req, norm) = Part(1, <<>>) \o Part(2, <<Question>>) \o Part(3, <<LF>>)
        BY <2>1, <2>2, <2>3, <2>4, HaystackParts
    <2> QED BY <2>5 DEF HaystackCanonical
<1> QED BY <1>1, WireAlways, PTL

-----------------------------------------------------------------------------
(* The scan. *)

\* A word occurs in a text where its bytes stand one behind the other.
StandsAt(w, s, i) ==
    /\ i \in 1..Len(s) + 1 /\ i + Len(w) - 1 <= Len(s)
    /\ \A k \in 1..Len(w) : s[i + k - 1] = w[k]

\* Comparing a piece of the text with the word says just that.
LEMMA OccursAtMeans ==
    ASSUME NEW w \in Seq(Int), NEW s \in Seq(Int), NEW i \in 1..Len(s) + 1
    PROVE  OccursAt(w, s, i) <=> StandsAt(w, s, i)
<1> DEFINE n == Len(w)
           x == SubSeq(s, i, i + n - 1)
<1>1. n \in Nat /\ Len(s) \in Nat
    OBVIOUS
<1>2. CASE i + n - 1 <= Len(s)
    <2>1. /\ x \in Seq(Int) /\ Len(x) = n
          /\ \A k \in 1..n : x[k] = s[i + k - 1]
        <3>1. \A k \in i..i + n - 1 : k \in 1..Len(s)
            BY <1>1, <1>2
        <3>2. x = [k \in 1..(i + n - 1) - i + 1 |-> s[i + k - 1]]
            BY <1>1
        <3>3. (i + n - 1) - i + 1 = n
            BY <1>1
        <3>4. x = [k \in 1..n |-> s[i + k - 1]]
            BY <3>2, <3>3
        <3>5. \A k \in 1..n : s[i + k - 1] \in Int
            <4>1. \A k \in 1..n : i + k - 1 \in 1..Len(s)
                BY <1>1, <1>2
            <4> QED BY <4>1
        <3> HIDE DEF n, x
        <3> QED BY <1>1, <3>4, <3>5
    <2>2. x = w <=> \A k \in 1..n : x[k] = w[k]
        <3> HIDE DEF x
        <3> QED BY <2>1, SeqEqual
    <2> HIDE DEF x
    <2>3. (\A k \in 1..n : x[k] = w[k]) <=> \A k \in 1..n : s[i + k - 1] = w[k]
        BY <2>1
    <2> QED BY <1>2, <2>2, <2>3 DEF OccursAt, StandsAt, x
<1>3. CASE ~(i + n - 1 <= Len(s))
    BY <1>3 DEF OccursAt, StandsAt
<1> QED BY <1>2, <1>3

\* And so does looking for it everywhere.
LEMMA OccursMeans ==
    ASSUME NEW w \in Seq(Int), NEW s \in Seq(Int)
    PROVE  Occurs(w, s) <=> \E i \in 1..Len(s) + 1 : StandsAt(w, s, i)
BY OccursAtMeans DEF Occurs

\* A word without the byte between two texts is in one of them.
LEMMA OccursBeside ==
    ASSUME NEW w \in Seq(Int), NEW a \in Seq(Int), NEW b \in Seq(Int), NEW c \in Int, Lacks(w, c)
    PROVE  Occurs(w, (a \o <<c>>) \o b) <=> Occurs(w, a) \/ Occurs(w, b)
<1> DEFINE n == Len(w)
           la == Len(a)
           lb == Len(b)
           ac == a \o <<c>>
           s == ac \o b
<1>1. /\ ac \in Seq(Int) /\ Len(ac) = la + 1 /\ ac[la + 1] = c
      /\ \A i \in 1..la : ac[i] = a[i]
    BY OneMore
<1> HIDE DEF ac
<1>2. n \in Nat /\ la \in Nat /\ lb \in Nat
    OBVIOUS
<1>3. s \in Seq(Int) /\ Len(s) = la + 1 + lb
    <2>1. ac \in Seq(Int)
        BY <1>1
    <2>2. s \in Seq(Int) /\ Len(s) = Len(ac) + lb
        BY <2>1, ConcatFacts
    <2> QED BY <1>1, <2>2
<1>4. /\ \A i \in 1..la : s[i] = a[i]
      /\ s[la + 1] = c
      /\ \A i \in 1..lb : s[la + 1 + i] = b[i]
    <2>1. ac \in Seq(Int)
        BY <1>1
    <2>2. /\ \A i \in 1..Len(ac) : s[i] = ac[i]
          /\ \A i \in 1..Len(ac) + lb : ~(i <= Len(ac)) => s[i] = b[i - Len(ac)]
        BY <2>1, ConcatFacts
    <2> HIDE DEF s
    <2>3. \A i \in 1..la : i \in 1..Len(ac)
        BY <1>1, <1>2
    <2>4. la + 1 \in 1..Len(ac)
        BY <1>1, <1>2
    <2>5. \A i \in 1..lb : la + 1 + i \in 1..Len(ac) + lb /\ ~(la + 1 + i <= Len(ac)) /\ (la + 1 + i) - Len(ac) = i
        BY <1>1, <1>2
    <2> QED BY <1>1, <2>2, <2>3, <2>4, <2>5
<1> HIDE DEF s
<1>5. /\ Occurs(w, s) <=> \E i \in 1..Len(s) + 1 : StandsAt(w, s, i)
      /\ Occurs(w, a) <=> \E i \in 1..la + 1 : StandsAt(w, a, i)
      /\ Occurs(w, b) <=> \E i \in 1..lb + 1 : StandsAt(w, b, i)
    <2>1. s \in Seq(Int)
        BY <1>3
    <2> QED BY <2>1, OccursMeans
<1>6. ASSUME NEW i \in 1..la + 1, StandsAt(w, a, i) PROVE StandsAt(w, s, i)
    <2>1. i + n - 1 <= la /\ i \in 1..Len(s) + 1 /\ i + n - 1 <= Len(s)
        BY <1>2, <1>3, <1>6 DEF StandsAt
    <2>2. ASSUME NEW k \in 1..n PROVE s[i + k - 1] = w[k]
        <3>1. i + k - 1 \in 1..la
            BY <1>2, <2>1
        <3> QED BY <1>4, <1>6, <3>1 DEF StandsAt
    <2> QED BY <2>1, <2>2 DEF StandsAt
<1>7. ASSUME NEW i \in 1..lb + 1, StandsAt(w, b, i) PROVE StandsAt(w, s, la + 1 + i)
    <2>1. i + n - 1 <= lb /\ la + 1 + i \in 1..Len(s) + 1 /\ la + 1 + i + n - 1 <= Len(s)
        BY <1>2, <1>3, <1>7 DEF StandsAt
    <2>2. ASSUME NEW k \in 1..n PROVE s[la + 1 + i + k - 1] = w[k]
        <3>1. i + k - 1 \in 1..lb /\ la + 1 + i + k - 1 = la + 1 + (i + k - 1)
            BY <1>2, <2>1
        <3> QED BY <1>4, <1>7, <3>1 DEF StandsAt
    <2> QED BY <2>1, <2>2 DEF StandsAt
<1>8. ASSUME NEW i \in 1..Len(s) + 1, StandsAt(w, s, i) PROVE Occurs(w, a) \/ Occurs(w, b)
    <2>1. i + n - 1 <= la + 1 + lb /\ i \in 1..la + lb + 2 /\ \A k \in 1..n : s[i + k - 1] = w[k]
        BY <1>2, <1>3, <1>8 DEF StandsAt
    <2>2. CASE i + n - 1 <= la
        <3>1. i \in 1..la + 1
            BY <1>2, <2>1, <2>2
        <3>2. ASSUME NEW k \in 1..n PROVE a[i + k - 1] = w[k]
            <4>1. i + k - 1 \in 1..la
                BY <1>2, <2>1, <2>2
            <4> QED BY <1>4, <2>1, <4>1
        <3>3. StandsAt(w, a, i)
            BY <2>2, <3>1, <3>2 DEF StandsAt
        <3> QED BY <1>5, <3>1, <3>3
    <2>3. CASE i > la + 1
        <3> DEFINE j == i - la - 1
        <3>1. j \in 1..lb + 1 /\ j + n - 1 <= lb
            BY <1>2, <2>1, <2>3
        <3>2. ASSUME NEW k \in 1..n PROVE b[j + k - 1] = w[k]
            <4>1. j + k - 1 \in 1..lb /\ la + 1 + (j + k - 1) = i + k - 1
                BY <1>2, <2>1, <2>3, SMTT(40)
            <4> QED BY <1>4, <2>1, <4>1
        <3> HIDE DEF j
        <3>3. StandsAt(w, b, j)
            BY <3>1, <3>2 DEF StandsAt
        <3> QED BY <1>5, <3>1, <3>3
    <2>4. CASE ~(i + n - 1 <= la) /\ ~(i > la + 1)
        <3>1. CASE n = 0
            <4>1. 1 \in 1..la + 1 /\ StandsAt(w, a, 1)
                BY <1>2, <3>1 DEF StandsAt
            <4> QED BY <1>5, <4>1
        <3>2. CASE n # 0
            <4> DEFINE k == la + 2 - i
            <4>1. k \in 1..n /\ i + k - 1 = la + 1
                BY <1>2, <2>1, <2>4, <3>2
            <4>2. w[k] = c
                BY <1>4, <2>1, <4>1
            <4>3. k \in DOMAIN w
                BY <4>1
            <4> QED BY <4>2, <4>3 DEF Lacks
        <3> QED BY <3>1, <3>2
    <2> QED BY <1>2, <2>1, <2>2, <2>3, <2>4
<1>9. \A i \in 1..lb + 1 : la + 1 + i \in 1..Len(s) + 1
    BY <1>2, <1>3
<1>10. \A i \in 1..la + 1 : i \in 1..Len(s) + 1
    BY <1>2, <1>3
<1>11. Occurs(w, s) <=> Occurs(w, a) \/ Occurs(w, b)
    <2>1. Occurs(w, a) => Occurs(w, s)
        BY <1>5, <1>6, <1>10
    <2>2. Occurs(w, b) => Occurs(w, s)
        BY <1>5, <1>7, <1>9
    <2>3. Occurs(w, s) => Occurs(w, a) \/ Occurs(w, b)
        BY <1>5, <1>8
    <2> QED BY <2>1, <2>2, <2>3
<1> QED BY <1>11 DEF s, ac

\* The scan reports something exactly when some word occurs (of the regexes, the
\* first that matches).
LEMMA ScanReports ==
    ASSUME NEW sigs, IsSignatures(sigs), NEW hay
    PROVE  Scan(sigs, hay) # {} <=> \E i \in DOMAIN sigs : \E w \in Words(sigs[i]) : Occurs(w, hay)
<1> DEFINE literals == {i \in DOMAIN sigs : ScanLiteral(sigs[i], hay)}
           regexes == {i \in DOMAIN sigs : ScanRegex(sigs[i], hay)}
<1>1. DOMAIN sigs \subseteq Nat
    <2>1. \A S : \A x \in Seq(S) : DOMAIN x \subseteq Nat
        OBVIOUS
    <2> QED BY <2>1 DEF IsSignatures
<1>2. \A i \in DOMAIN sigs : (\E w \in Words(sigs[i]) : Occurs(w, hay)) <=> i \in literals \cup regexes
    <2> SUFFICES ASSUME NEW i \in DOMAIN sigs
                 PROVE  (\E w \in Words(sigs[i]) : Occurs(w, hay))
                        <=> ScanLiteral(sigs[i], hay) \/ ScanRegex(sigs[i], hay)
        OBVIOUS
    <2>1. CASE sigs[i].literal # {}
        BY <2>1 DEF Words, ScanLiteral, ScanRegex
    <2>2. CASE sigs[i].literal = {}
        BY <2>2 DEF Words, ScanLiteral, ScanRegex
    <2> QED BY <2>1, <2>2
<1>3. Scan(sigs, hay) = IF literals # {} THEN literals ELSE {i \in regexes : \A j \in regexes : i <= j}
    BY DEF Scan
<1>4. literals \subseteq DOMAIN sigs /\ regexes \subseteq DOMAIN sigs
    OBVIOUS
<1> HIDE DEF literals, regexes
<1>5. regexes # {} => \E i \in regexes : \A j \in regexes : i <= j
    BY <1>1, <1>4, LeastNat
<1> QED BY <1>2, <1>3, <1>4, <1>5

\* What was reported is what the scan found in the haystack.
ScanInv == pc = "done" => (hit # {} <=> Scan(case.sigs, Haystack(req, norm)) # {})

\* Only the scan reports.
LEMMA ScanStep ==
    ASSUME ScanInv, [Next]_vars
    PROVE  ScanInv'
<1> USE DEF ScanInv
<1>1. CASE Compile
    BY <1>1 DEF Compile
<1>2. CASE Send
    BY <1>2 DEF Send
<1>3. CASE EarlyStack
    BY <1>3 DEF EarlyStack
<1>4. CASE EvalCondition
    <2>1. pc' \in {"rule", "scan"}
        BY <1>4 DEF EvalCondition
    <2> QED BY <2>1
<1>5. CASE ScanSignatures
    <2> DEFINE found == Scan(case.sigs, Haystack(req, norm))
    <2>1. UNCHANGED <<case, req, norm>> /\ (IF found = {} THEN hit' = {} ELSE \E i \in found : hit' = {i})
        BY <1>5 DEF ScanSignatures
    <2>2. Scan(case.sigs, Haystack(req, norm))' = found
        BY <2>1
    <2> HIDE DEF found
    <2>3. hit' # {} <=> found # {}
        BY <2>1
    <2> QED BY <2>2, <2>3 DEF found
<1>6. CASE Tick
    BY <1>6 DEF Tick
<1>7. CASE OthersBump
    BY <1>7 DEF OthersBump
<1>8. CASE UNCHANGED vars
    BY <1>8 DEF vars
<1> QED BY <1>1, <1>2, <1>3, <1>4, <1>5, <1>6, <1>7, <1>8 DEF Next

\* The invariant holds in every state.
LEMMA ScanAlways == Spec => []ScanInv
<1>1. Init => ScanInv
    BY DEF Init, ScanInv
<1> QED BY <1>1, ScanStep, PTL DEF Spec

\* A part of a request that may be missing.
IsOptional(parts) == parts = {} \/ \E t \in Seq(Int) : parts = {t}

\* A word without the separator occurs in a text with a part behind it when it
\* occurs in one of the two.
LEMMA OccursAdded ==
    ASSUME NEW a \in Seq(Int), NEW c \in Int, NEW w \in Seq(Int), Lacks(w, c),
           NEW parts, IsOptional(parts)
    PROVE  LET x == IF parts = {} THEN <<>> ELSE <<c>> \o ToLower(The(parts))
           IN /\ a \o x \in Seq(Int)
              /\ Occurs(w, a \o x) <=> Occurs(w, a) \/ \E part \in parts : Occurs(w, ToLower(part))
<1> DEFINE x == IF parts = {} THEN <<>> ELSE <<c>> \o ToLower(The(parts))
<1>1. CASE parts = {}
    <2>1. x = <<>> /\ a \o <<>> = a
        BY <1>1
    <2> HIDE DEF x
    <2>2. a \o x = a
        BY <2>1
    <2> QED BY <1>1, <2>2 DEF x
<1>2. CASE \E t \in Seq(Int) : parts = {t}
    <2>1. PICK t \in Seq(Int) : parts = {t}
        BY <1>2
    <2> DEFINE b == ToLower(t)
    <2>2. b \in Seq(Int)
        BY LowerType
    <2>3. x = <<c>> \o b
        <3>1. The(parts) = t /\ parts # {}
            BY <2>1, TheOnly
        <3> QED BY <3>1
    <2>4. \A part : part \in parts <=> part = t
        BY <2>1
    <2> HIDE DEF x, b
    <2>5. a \o x = (a \o <<c>>) \o b /\ (a \o <<c>>) \o b \in Seq(Int)
        <3>1. PICK y \in Seq(Int) : y = <<c>>
            <4>1. <<c>> \in Seq(Int)
                OBVIOUS
            <4> QED BY <4>1, Zenon
        <3>2. (a \o y) \o b = a \o (y \o b)
            BY <2>2, Associative, SMTT(40)
        <3>3. a \o y \in Seq(Int)
            OBVIOUS
        <3>4. (a \o y) \o b \in Seq(Int)
            BY <2>2, <3>3, ConcatFacts
        <3> QED BY <2>3, <3>1, <3>2, <3>4
    <2>6. Occurs(w, (a \o <<c>>) \o b) <=> Occurs(w, a) \/ Occurs(w, b)
        BY <2>2, OccursBeside
    <2>7. Occurs(w, b) <=> \E part \in parts : Occurs(w, ToLower(part))
        BY <2>4 DEF b
    <2>8. a \o x \in Seq(Int) /\ (Occurs(w, a \o x) <=> Occurs(w, a) \/ \E part \in parts : Occurs(w, ToLower(part)))
        BY <2>5, <2>6, <2>7
    <2> QED BY <2>8 DEF x
<1> QED BY <1>1, <1>2 DEF IsOptional

\* The words of signatures are texts.
LEMMA WordsAreText ==
    ASSUME NEW sigs, IsSignatures(sigs), NEW i \in DOMAIN sigs, NEW w \in Words(sigs[i])
    PROVE  w \in Seq(Int)
<1>1. sigs[i].literal \subseteq Seq(Byte) /\ UNION sigs[i].regex \subseteq Seq(Byte)
    BY DEF IsSignatures
<1>2. CASE sigs[i].literal # {}
    <2>1. PICK v \in sigs[i].literal : w = ToLower(v)
        BY <1>2 DEF Words
    <2>2. v \in Seq(Int)
        BY <1>1, BytesAreText
    <2> QED BY <2>1, <2>2, LowerType
<1>3. CASE sigs[i].literal = {}
    <2>1. w \in Seq(Byte)
        BY <1>1, <1>3 DEF Words
    <2> QED BY <2>1, BytesAreText
<1> QED BY <1>2, <1>3

\* In every state in which the scan is over it has reported a signature exactly
\* when a word of one occurs in one part of what was meant, in lower case: for
\* words without '?' and line break nothing bridges two parts, and no encoding of
\* the request hides a word from the scan or adds one (SignatureDb::scan).
THEOREM Exact == Spec => []ScanExact
<1>1. ASSUME WireInv, ScanInv PROVE ScanExact
    <2> DEFINE sigs == case.sigs
               parts == MeantParts(case.means)
               Part(i, sep) == IF parts[i] = {} THEN <<>> ELSE sep \o ToLower(The(parts[i]))
               hay == Haystack(req, norm)
    <2> SUFFICES ASSUME pc = "done", NoSeparators(sigs)
                 PROVE  hit # {} <=> \E i \in DOMAIN sigs : \E w \in Words(sigs[i]) :
                                        \E k \in 1..3 : \E part \in parts[k] : Occurs(w, ToLower(part))
        BY DEF ScanExact
    <2>1. Written /\ IsSignatures(sigs)
        BY <1>1, CasesAssumption DEF Written, WireInv
    <2>2. hay = NormalizeText(req.path, FALSE) \o Part(2, <<Question>>) \o Part(3, <<LF>>)
        <3>1. norm \in {Normalized(req), NotNormalized}
            BY <1>1 DEF WireInv
        <3>2. Added(Question, {NormalizeText(q, TRUE) : q \in req.query}) = Part(2, <<Question>>)
            BY <1>1, <2>1, QueryPart, AddedIsPart
        <3>3. (IF req.body = {} THEN <<>> ELSE <<LF>> \o NormalizeText(The(req.body), TRUE)) = Part(3, <<LF>>)
            BY <1>1, <2>1, BodyPart, AddedIsPart
        <3> QED BY <3>1, <3>2, <3>3, HaystackParts
    <2>3. PICK t \in Seq(Int) : parts[1] = {t} /\ NormalizeText(req.path, FALSE) = ToLower(t)
        BY <1>1, <2>1, PathPart
    <2>4. IsOptional(parts[2]) /\ IsOptional(parts[3])
        <3>1. IsOptional(parts[2])
            BY <1>1, <2>1, QueryPart DEF IsOptional
        <3>2. IsOptional(parts[3])
            BY <1>1, <2>1, BodyPart DEF IsOptional
        <3> QED BY <3>1, <3>2
    <2>5. hit # {} <=> \E i \in DOMAIN sigs : \E w \in Words(sigs[i]) : Occurs(w, hay)
        BY <1>1, <2>1, ScanReports DEF ScanInv
    <2> HIDE DEF sigs, parts, hay
    <2>6. ASSUME NEW i \in DOMAIN sigs, NEW w \in Words(sigs[i])
          PROVE  Occurs(w, hay) <=> \E k \in 1..3 : \E part \in parts[k] : Occurs(w, ToLower(part))
        <3>1. w \in Seq(Int)
            BY <2>1, WordsAreText
        <3>2. Lacks(w, Question) /\ Lacks(w, LF)
            BY DEF NoSeparators
        <3>3. ToLower(t) \in Seq(Int) /\ Question \in Int /\ LF \in Int
            BY LowerType DEF Question, LF
        <3> DEFINE a == ToLower(t)
                   b == a \o Part(2, <<Question>>)
        <3>4. /\ b \in Seq(Int)
              /\ Occurs(w, b) <=> Occurs(w, a) \/ \E part \in parts[2] : Occurs(w, ToLower(part))
            <4> HIDE DEF a
            <4>1. a \in Seq(Int)
                BY <3>3 DEF a
            <4> QED BY <2>4, <3>1, <3>2, <3>3, <4>1, OccursAdded
        <3> HIDE DEF a, b
        <3>5. Occurs(w, b \o Part(3, <<LF>>)) <=> Occurs(w, b) \/ \E part \in parts[3] : Occurs(w, ToLower(part))
            BY <2>4, <3>1, <3>2, <3>3, <3>4, OccursAdded
        <3>6. hay = b \o Part(3, <<LF>>)
            BY <2>2, <2>3 DEF a, b
        <3>7. Occurs(w, a) <=> \E part \in parts[1] : Occurs(w, ToLower(part))
            <4>1. \A part : part \in parts[1] <=> part = t
                BY <2>3
            <4> QED BY <4>1 DEF a
        <3>8. \A k : k \in 1..3 <=> k = 1 \/ k = 2 \/ k = 3
            OBVIOUS
        <3> HIDE DEF Part
        <3> QED BY <3>4, <3>5, <3>6, <3>7, <3>8
    <2> QED BY <2>5, <2>6
<1> QED BY <1>1, WireAlways, ScanAlways, PTL

-----------------------------------------------------------------------------
(* Types. *)

\* Conditions are evaluated only if there are any.
TypeInv ==
    /\ TypeOK /\ case \in Cases
    /\ pc \notin {"start", "rejected"} => case.when # <<>>

\* Every step keeps the types.
LEMMA TypeStep ==
    ASSUME TypeInv, [Next]_vars
    PROVE  TypeInv'
<1> DEFINE last == IF case.when = <<>> THEN 1 ELSE Len(case.when)
<1>1. /\ case.counts \in Nat /\ case.ticks \in Nat /\ Len(case.when) \in Nat
      /\ case.when # <<>> => Len(case.when) >= 1 /\ last = Len(case.when)
      /\ last \in Nat
    <2>1. \A S : \A x \in Seq(S) : Len(x) \in Nat /\ (x # <<>> => Len(x) >= 1)
        OBVIOUS
    <2>2. case.when \in Seq(ToSet(case.when))
        BY CasesAssumption DEF TypeInv
    <2>3. Len(case.when) \in Nat /\ (case.when # <<>> => Len(case.when) >= 1)
        BY <2>1, <2>2
    <2> QED BY <2>3, CasesAssumption DEF TypeInv
<1>2. TypeOK /\ case \in Cases
    BY DEF TypeInv
<1>3. CASE Compile
    <2>1. /\ UNCHANGED <<case, req, norm, hit, pos, out, now, count, ticks, seen>>
          /\ pc' \in {"compiled", "rejected"} /\ (pc' = "compiled" => case.when # <<>>)
        BY <1>3 DEF Compile
    <2> QED BY <1>2, <2>1 DEF TypeInv, TypeOK
<1>4. CASE Send
    <2>1. pc = "compiled" /\ pc' = "wire" /\ UNCHANGED <<case, norm, hit, pos, out, now, count, ticks, seen>>
        BY <1>4 DEF Send
    <2> QED BY <1>2, <2>1 DEF TypeInv, TypeOK
<1>5. CASE EarlyStack
    BY <1>2, <1>5 DEF EarlyStack, TypeInv, TypeOK
<1>6. CASE EvalCondition
    <2>1. pc = "rule" /\ case.when # <<>> /\ UNCHANGED <<case, req, norm, hit, now, count, ticks, seen>>
        BY <1>6 DEF EvalCondition, TypeInv
    <2>2. pc' \in {"rule", "scan"} /\ out' \in BOOLEAN
        BY <1>6 DEF EvalCondition
    <2>3. pos \in 1..last
        BY <1>2 DEF TypeOK
    <2>4. pos' = pos \/ (pos' = pos + 1 /\ pos # Len(case.when))
        BY <1>6 DEF EvalCondition
    <2>5. pos' \in 1..last
        BY <1>1, <2>1, <2>3, <2>4
    <2> QED BY <1>2, <2>1, <2>2, <2>5 DEF TypeInv, TypeOK
<1>7. CASE ScanSignatures
    <2> DEFINE found == Scan(case.sigs, Haystack(req, norm))
    <2>1. /\ pc = "scan" /\ pc' = "done" /\ UNCHANGED <<case, req, norm, pos, out, now, count, ticks, seen>>
          /\ (IF found = {} THEN hit' = {} ELSE \E i \in found : hit' = {i})
        BY <1>7 DEF ScanSignatures
    <2>2. found \subseteq DOMAIN case.sigs
        BY DEF Scan
    <2> HIDE DEF found
    <2>3. hit' \subseteq DOMAIN case.sigs
        BY <2>1, <2>2
    <2> QED BY <1>2, <2>1, <2>3 DEF TypeInv, TypeOK
<1>8. CASE Tick
    <2>1. /\ UNCHANGED <<pc, case, req, norm, hit, pos, out, count>> /\ ticks < case.ticks
          /\ now' = now + 1 /\ ticks' = ticks + 1 /\ seen' \subseteq seen \cup {<<now', count>>}
        BY <1>8 DEF Tick
    <2>2. now' \in Nat /\ ticks' \in 0..case.ticks /\ count \in 0..case.counts
        BY <1>1, <1>2, <2>1 DEF TypeOK
    <2>3. seen' \subseteq Nat \X (0..case.counts)
        BY <1>2, <2>1, <2>2 DEF TypeOK
    <2> QED BY <1>2, <2>1, <2>2, <2>3 DEF TypeInv, TypeOK
<1>9. CASE OthersBump
    <2>1. /\ UNCHANGED <<pc, case, req, norm, hit, pos, out, now, ticks>>
          /\ count' = 0 \/ (count' = count + 1 /\ count' <= case.counts)
          /\ seen' \subseteq seen \cup {<<now, count'>>}
        BY <1>9 DEF OthersBump
    <2>2. count' \in 0..case.counts /\ now \in Nat
        BY <1>1, <1>2, <2>1 DEF TypeOK
    <2>3. seen' \subseteq Nat \X (0..case.counts)
        BY <1>2, <2>1, <2>2 DEF TypeOK
    <2> QED BY <1>2, <2>1, <2>2, <2>3 DEF TypeInv, TypeOK
<1>10. CASE UNCHANGED vars
    BY <1>2, <1>10 DEF vars, TypeInv, TypeOK
<1> QED BY <1>3, <1>4, <1>5, <1>6, <1>7, <1>8, <1>9, <1>10 DEF Next

\* It holds in every state.
LEMMA TypeAlways == Spec => []TypeInv
<1>1. Init => TypeInv
    <2> SUFFICES ASSUME Init PROVE TypeInv
        OBVIOUS
    <2>1. case \in Cases /\ case.at \in Nat /\ case.counts \in Nat /\ case.ticks \in Nat
        BY ClockAssumption, CasesAssumption DEF Init
    <2>2. case.when # <<>> => Len(case.when) \in Nat /\ Len(case.when) >= 1
        <3>1. \A S : \A x \in Seq(S) : Len(x) \in Nat /\ (x # <<>> => Len(x) >= 1)
            OBVIOUS
        <3> QED BY <2>1, <3>1, CasesAssumption
    <2>3. 0 \in 0..case.counts /\ 0 \in 0..case.ticks
        BY <2>1
    <2>4. 1 \in 1..(IF case.when = <<>> THEN 1 ELSE Len(case.when))
        BY <2>2
    <2>5. TypeOK
        BY <2>1, <2>3, <2>4 DEF Init, TypeOK
    <2> QED BY <2>1, <2>5 DEF Init, TypeInv
<1> QED BY <1>1, TypeStep, PTL DEF Spec

\* Every variable of the evaluation has its type in every state; no condition
\* beyond the last is read (conds.iter().all).
THEOREM TypeCorrect == Spec => []TypeOK
<1>1. TypeInv => TypeOK
    BY DEF TypeInv
<1> QED BY <1>1, TypeAlways, PTL

-----------------------------------------------------------------------------
(* Splitting. *)

Texts == Seq(Int)

\* Where a word first occurs from a position on.
Cut(s, w, i, j) ==
    /\ j \in i..Len(s) /\ OccursAt(w, s, j)
    /\ \A k \in i..j - 1 : ~OccursAt(w, s, k)

NoCut(s, w, i) == \A k \in i..Len(s) : ~OccursAt(w, s, k)

\* The segments from a position on, given those further behind.
SplitStep(f, s, w, i) ==
    LET found == {j \in i..Len(s) : OccursAt(w, s, j)}
    IN IF found = {} THEN <<SubSeq(s, i, Len(s))>>
       ELSE <<SubSeq(s, i, Min(found) - 1)>> \o f[Min(found) + Len(w)]

SplitsFrom(f, s, w, i) == f = [j \in i..Len(s) + 1 |-> SplitStep(f, s, w, j)]

\* Either there is no occurrence or there is a first one.
LEMMA CutOrNot ==
    ASSUME NEW s \in Seq(Int), NEW w \in Seq(Int), NEW i \in 1..Len(s) + 1, ~NoCut(s, w, i)
    PROVE  \E j \in i..Len(s) : Cut(s, w, i, j)
<1> DEFINE found == {j \in i..Len(s) : OccursAt(w, s, j)}
<1>1. found \in SUBSET Nat /\ found # {}
    BY SMTT(40) DEF NoCut
<1>2. PICK j \in found : \A k \in found : j <= k
    <2> HIDE DEF found
    <2> QED BY <1>1, LeastNat
<1>3. ASSUME NEW k \in i..j - 1 PROVE ~OccursAt(w, s, k)
    <2>1. k \in i..Len(s) /\ ~(j <= k)
        OBVIOUS
    <2> QED BY <1>2, <2>1
<1> QED BY <1>2, <1>3 DEF Cut

\* What a step does in the two cases.
LEMMA StepWithoutCut ==
    ASSUME NEW f, NEW s, NEW w, NEW i, NoCut(s, w, i)
    PROVE  SplitStep(f, s, w, i) = <<SubSeq(s, i, Len(s))>>
BY DEF SplitStep, NoCut

\* With an occurrence the piece in front of it is split off.
LEMMA StepAtCut ==
    ASSUME NEW f, NEW s \in Seq(Int), NEW w, NEW i \in 1..Len(s) + 1, NEW j, Cut(s, w, i, j)
    PROVE  SplitStep(f, s, w, i) = <<SubSeq(s, i, j - 1)>> \o f[j + Len(w)]
<1> DEFINE found == {k \in i..Len(s) : OccursAt(w, s, k)}
<1>1. j \in found /\ j \in i..Len(s)
    BY DEF Cut
<1>2. \A k \in found : k \in Int /\ j <= k
    <2> SUFFICES ASSUME NEW k \in found, ~(j <= k) PROVE FALSE
        OBVIOUS
    <2>1. k \in i..j - 1
        BY <1>1
    <2> QED BY <2>1 DEF Cut
<1>3. SplitStep(f, s, w, i) = IF found = {} THEN <<SubSeq(s, i, Len(s))>>
                              ELSE <<SubSeq(s, i, Min(found) - 1)>> \o f[Min(found) + Len(w)]
    BY DEF SplitStep
<1> HIDE DEF found
<1>4. Min(found) = j
    <2>1. \A x \in found : (\A y \in found : x <= y) => x = j
        BY <1>1, <1>2
    <2>2. Min(found) \in found /\ \A y \in found : Min(found) <= y
        BY <1>1, <1>2 DEF Min
    <2> QED BY <2>1, <2>2
<1>5. found # {}
    BY <1>1
<1> QED BY <1>3, <1>4, <1>5

\* A step looks only behind its position.
LEMMA SplitLooksBehind ==
    ASSUME NEW s \in Seq(Int), NEW w \in Seq(Int), w # <<>>, NEW i \in 1..Len(s) + 1, NEW f, NEW g,
           \A j \in i + 1..Len(s) + 1 : f[j] = g[j]
    PROVE  SplitStep(f, s, w, i) = SplitStep(g, s, w, i)
<1>1. CASE NoCut(s, w, i)
    <2>1. SplitStep(f, s, w, i) = <<SubSeq(s, i, Len(s))>>
        BY <1>1, StepWithoutCut
    <2>2. SplitStep(g, s, w, i) = <<SubSeq(s, i, Len(s))>>
        BY <1>1, StepWithoutCut
    <2> QED BY <2>1, <2>2
<1>2. CASE ~NoCut(s, w, i)
    <2>1. PICK j \in i..Len(s) : Cut(s, w, i, j)
        BY <1>2, CutOrNot
    <2>2. j + Len(w) - 1 <= Len(s) /\ Len(w) \in Nat /\ Len(w) >= 1
        BY <2>1 DEF Cut, OccursAt
    <2>3. j + Len(w) \in i + 1..Len(s) + 1
        BY <2>2
    <2>4. SplitStep(f, s, w, i) = <<SubSeq(s, i, j - 1)>> \o f[j + Len(w)]
        BY <2>1, StepAtCut
    <2>5. SplitStep(g, s, w, i) = <<SubSeq(s, i, j - 1)>> \o g[j + Len(w)]
        BY <2>1, StepAtCut
    <2> QED BY <2>3, <2>4, <2>5
<1> QED BY <1>1, <1>2

\* The loop of split_on is well defined.
LEMMA SplitExists ==
    ASSUME NEW s \in Seq(Int), NEW w \in Seq(Int), w # <<>>
    PROVE  \E f : SplitsFrom(f, s, w, 1)
<1> DEFINE n == Len(s)
           P == {k \in Nat : k <= n /\ \E f : SplitsFrom(f, s, w, n + 1 - k)}
<1>0. n \in Nat
    OBVIOUS
<1>1. 0 \in P
    <2> DEFINE x == <<SubSeq(s, n + 1, Len(s))>>
               f == [j \in n + 1..n + 1 |-> x]
    <2>0. NoCut(s, w, n + 1)
        BY <1>0 DEF NoCut
    <2>1. \A g : SplitStep(g, s, w, n + 1) = x
        BY <2>0, StepWithoutCut
    <2>2. \A j \in n + 1..n + 1 : j = n + 1
        BY <1>0
    <2> HIDE DEF x
    <2>3. [j \in n + 1..n + 1 |-> x] = [j \in n + 1..n + 1 |-> SplitStep(f, s, w, j)]
        BY <2>1, <2>2
    <2>4. n + 1 - 0 = n + 1
        BY <1>0
    <2>5. SplitsFrom(f, s, w, n + 1 - 0)
        <3> HIDE DEF f
        <3>1. f = [j \in n + 1..Len(s) + 1 |-> SplitStep(f, s, w, j)]
            BY <2>3 DEF f
        <3> QED BY <2>4, <3>1 DEF SplitsFrom
    <2> HIDE DEF f
    <2> QED BY <1>0, <2>5
<1>2. ASSUME NEW k \in 1..n, k - 1 \in P PROVE k \in P
    <2> DEFINE i == n + 1 - k
    <2>0. i \in 1..n /\ n + 1 - (k - 1) = i + 1
        BY <1>0
    <2>1. PICK f : SplitsFrom(f, s, w, i + 1)
        BY <1>2, <2>0
    <2> HIDE DEF n
    <2> DEFINE g == [j \in i..Len(s) + 1 |-> IF j = i THEN SplitStep(f, s, w, i) ELSE f[j]]
    <2>2. \A j \in i + 1..Len(s) + 1 : f[j] = SplitStep(f, s, w, j)
        BY <2>1 DEF SplitsFrom
    <2>3. /\ g[i] = SplitStep(f, s, w, i) /\ g = [j \in i..Len(s) + 1 |-> g[j]]
          /\ \A j \in i + 1..Len(s) + 1 : g[j] = f[j]
          /\ i \in 1..Len(s)
        BY <2>0 DEF n
    <2> HIDE DEF g, i
    <2>4. ASSUME NEW j \in i..Len(s) + 1 PROVE g[j] = SplitStep(g, s, w, j)
        <3>0. Len(s) \in Nat /\ j \in 1..Len(s) + 1
            BY <2>3
        <3>1. \A h \in j + 1..Len(s) + 1 : f[h] = g[h]
            <4>1. \A h \in j + 1..Len(s) + 1 : h \in i + 1..Len(s) + 1
                BY <2>3, <3>0
            <4> QED BY <2>3, <4>1
        <3>2. SplitStep(f, s, w, j) = SplitStep(g, s, w, j)
            BY <3>0, <3>1, SplitLooksBehind, SMTT(40)
        <3>3. j = i \/ j \in i + 1..Len(s) + 1
            BY <2>3
        <3> QED BY <2>2, <2>3, <3>2, <3>3
    <2>5. SplitsFrom(g, s, w, i)
        BY <2>3, <2>4 DEF SplitsFrom
    <2> QED BY <1>0, <2>5 DEF i
<1> HIDE DEF P
<1>3. n \in P
    BY <1>0, <1>1, <1>2, UpTo
<1>4. n + 1 - n = 1
    BY <1>0
<1> HIDE DEF n
<1> QED BY <1>3, <1>4 DEF P

IsSplitting(f, s, w) == \A i \in 1..Len(s) + 1 : f[i] = SplitStep(f, s, w, i)

\* It computes the split.
LEMMA SplitLoop ==
    ASSUME NEW s \in Seq(Int), NEW w \in Seq(Int), w # <<>>
    PROVE  \E f : SplitOn(s, w) = f[1] /\ IsSplitting(f, s, w)
<1> DEFINE f == CHOOSE g : SplitsFrom(g, s, w, 1)
<1>1. SplitsFrom(f, s, w, 1)
    BY SplitExists
<1>2. SplitOn(s, w) = f[1]
    BY DEF SplitOn, SplitsFrom, SplitStep
<1> HIDE DEF f
<1>3. IsSplitting(f, s, w)
    BY <1>1 DEF SplitsFrom, IsSplitting
<1> QED BY <1>2, <1>3

\* A cut of a text.
LEMMA SubFacts ==
    ASSUME NEW s \in Seq(Int), NEW i \in 1..Len(s) + 1, NEW j \in i - 1..Len(s)
    PROVE  /\ SubSeq(s, i, j) \in Seq(Int) /\ Len(SubSeq(s, i, j)) = j - i + 1
           /\ \A k \in 1..j - i + 1 : SubSeq(s, i, j)[k] = s[i + k - 1] /\ i + k - 1 \in 1..Len(s)
<1> DEFINE n == j - i + 1
           x == SubSeq(s, i, j)
<1>1. n \in Nat /\ Len(s) \in Nat
    OBVIOUS
<1>2. \A k \in 1..n : i + k - 1 \in 1..Len(s)
    BY <1>1
<1>3. \A k \in 1..n : s[i + k - 1] \in Int
    BY <1>2
<1>4. x = [k \in 1..n |-> s[i + k - 1]]
    BY <1>1
<1> HIDE DEF n, x
<1>5. x \in Seq(Int) /\ Len(x) = n /\ \A k \in 1..n : x[k] = s[i + k - 1]
    BY <1>1, <1>3, <1>4
<1> QED BY <1>2, <1>5 DEF n, x

\* Behind a prefix nothing depends on the prefix.
LEMMA BehindFacts ==
    ASSUME NEW y \in Seq(Int), NEW b \in Seq(Int)
    PROVE  /\ y \o b \in Seq(Int) /\ Len(y \o b) = Len(y) + Len(b) /\ Len(y) \in Nat /\ Len(b) \in Nat
           /\ \A i \in 1..Len(b) : (y \o b)[Len(y) + i] = b[i]
           /\ \A i \in 1..Len(y) : (y \o b)[i] = y[i]
OBVIOUS

\* A piece of the second text is a piece of both together.
LEMMA SubBehind ==
    ASSUME NEW y \in Seq(Int), NEW b \in Seq(Int), NEW i \in 1..Len(b) + 1, NEW j \in i - 1..Len(b)
    PROVE  SubSeq(y \o b, Len(y) + i, Len(y) + j) = SubSeq(b, i, j)
<1> DEFINE p == Len(y)
           s == y \o b
           u == SubSeq(s, p + i, p + j)
           v == SubSeq(b, i, j)
           n == j - i + 1
<1>1. /\ s \in Seq(Int) /\ Len(s) = p + Len(b) /\ p \in Nat /\ Len(b) \in Nat
      /\ \A k \in 1..Len(b) : s[p + k] = b[k]
    BY BehindFacts
<1> HIDE DEF s, p
<1>2. p + i \in 1..Len(s) + 1 /\ p + j \in (p + i) - 1..Len(s) /\ (p + j) - (p + i) + 1 = n
    BY <1>1
<1>3. s \in Seq(Int)
    BY <1>1
<1>4. /\ u \in Seq(Int) /\ Len(u) = (p + j) - (p + i) + 1
      /\ \A k \in 1..(p + j) - (p + i) + 1 : u[k] = s[(p + i) + k - 1]
    BY <1>2, <1>3, SubFacts
<1>5. /\ v \in Seq(Int) /\ Len(v) = n
      /\ \A k \in 1..n : v[k] = b[i + k - 1] /\ i + k - 1 \in 1..Len(b)
    BY SubFacts
<1>6. \A k \in 1..n : (p + i) + k - 1 = p + (i + k - 1)
    BY <1>1
<1> HIDE DEF u, v
<1>7. \A k \in 1..n : u[k] = v[k]
    BY <1>1, <1>2, <1>4, <1>5, <1>6, ZenonT(40)
<1>8. Len(u) = n
    BY <1>2, <1>4
<1>9. u = v
    BY <1>4, <1>5, <1>7, <1>8, SeqEqual
<1> QED BY <1>9 DEF u, v, s, p

\* And a word occurs in it where it does in both together.
LEMMA OccursBehind ==
    ASSUME NEW y \in Seq(Int), NEW b \in Seq(Int), NEW w \in Seq(Int), w # <<>>, NEW i \in 1..Len(b) + 1
    PROVE  OccursAt(w, y \o b, Len(y) + i) <=> OccursAt(w, b, i)
<1> DEFINE p == Len(y)
           s == y \o b
           n == Len(w)
<1>1. Len(s) = p + Len(b) /\ p \in Nat /\ Len(b) \in Nat /\ n \in Nat /\ n >= 1
    BY BehindFacts
<1>2. p + i + n - 1 <= Len(s) <=> i + n - 1 <= Len(b)
    BY <1>1
<1>3. CASE i + n - 1 <= Len(b)
    <2>1. i + n - 1 \in i - 1..Len(b) /\ p + i + n - 1 = p + (i + n - 1)
        BY <1>1, <1>3
    <2> DEFINE j == i + n - 1
    <2>2. SubSeq(s, p + i, p + j) = SubSeq(b, i, j)
        <3>1. j \in i - 1..Len(b)
            BY <2>1
        <3> HIDE DEF j
        <3> QED BY <3>1, SubBehind
    <2>3. p + j = p + i + n - 1
        BY <2>1
    <2> QED BY <1>2, <2>2, <2>3 DEF OccursAt
<1>4. CASE ~(i + n - 1 <= Len(b))
    BY <1>2, <1>4 DEF OccursAt
<1> QED BY <1>3, <1>4

\* The segments behind a prefix.
LEMMA SplitShift ==
    ASSUME NEW y \in Seq(Int), NEW b \in Seq(Int), NEW w \in Seq(Int), w # <<>>, NEW f, NEW g,
           IsSplitting(f, y \o b, w), IsSplitting(g, b, w)
    PROVE  f[Len(y) + 1] = g[1]
<1> DEFINE n == Len(b)
           p == Len(y)
           s == y \o b
           P == {k \in Nat : \A i \in n + 1 - k..n + 1 : i \in 1..n + 1 => f[p + i] = g[i]}
<1>1. n \in Nat /\ p \in Nat /\ s \in Seq(Int) /\ Len(s) = p + n /\ Len(w) \in Nat /\ Len(w) >= 1
    BY BehindFacts
<1>2. \A i \in 1..n + 1 : OccursAt(w, s, p + i) <=> OccursAt(w, b, i)
    BY OccursBehind
<1>3. \A i \in 1..n + 1 : \A j \in i - 1..n : SubSeq(s, p + i, p + j) = SubSeq(b, i, j)
    BY SubBehind
<1>4. /\ \A i \in 1..n + 1 : p + i \in 1..Len(s) + 1
      /\ \A i \in 1..n + 1 : f[p + i] = SplitStep(f, s, w, p + i) /\ g[i] = SplitStep(g, b, w, i)
    <2>1. \A i \in 1..n + 1 : p + i \in 1..Len(s) + 1
        BY <1>1
    <2> QED BY <2>1 DEF IsSplitting
<1> HIDE DEF s, p, n
<1>5. ASSUME NEW i \in 1..n + 1, \A j \in i + 1..n + 1 : f[p + j] = g[j] PROVE f[p + i] = g[i]
    <2>1. CASE NoCut(b, w, i)
        <3>1. ASSUME NEW k \in p + i..Len(s) PROVE ~OccursAt(w, s, k)
            <4>1. k - p \in i..n /\ k - p \in 1..n + 1 /\ p + (k - p) = k
                BY <1>1
            <4>2. ~OccursAt(w, b, k - p)
                BY <2>1, <4>1 DEF NoCut, n
            <4> QED BY <1>2, <4>1, <4>2
        <3>2. NoCut(s, w, p + i)
            BY <3>1 DEF NoCut
        <3>3. f[p + i] = <<SubSeq(s, p + i, Len(s))>>
            <4>1. SplitStep(f, s, w, p + i) = <<SubSeq(s, p + i, Len(s))>>
                BY <3>2, StepWithoutCut
            <4> QED BY <1>4, <4>1
        <3>4. g[i] = <<SubSeq(b, i, n)>>
            <4>1. SplitStep(g, b, w, i) = <<SubSeq(b, i, Len(b))>>
                BY <2>1, StepWithoutCut
            <4> QED BY <1>4, <4>1 DEF n
        <3>5. n \in i - 1..n
            BY <1>1
        <3>6. SubSeq(s, p + i, p + n) = SubSeq(b, i, n)
            BY <1>3, <3>5
        <3> QED BY <1>1, <3>3, <3>4, <3>6
    <2>2. CASE ~NoCut(b, w, i)
        <3>1. PICK j \in i..n : Cut(b, w, i, j)
            BY <2>2, CutOrNot DEF n
        <3>2. OccursAt(w, b, j) /\ j + Len(w) - 1 <= n
            BY <3>1 DEF Cut, OccursAt, n
        <3>3. j \in 1..n + 1 /\ j + Len(w) \in i + 1..n + 1 /\ p + j \in p + i..Len(s) /\ j - 1 \in i - 1..n
            BY <1>1, <3>2
        <3>4. ASSUME NEW k \in p + i..(p + j) - 1 PROVE ~OccursAt(w, s, k)
            <4>1. k - p \in i..j - 1 /\ k - p \in 1..n + 1 /\ p + (k - p) = k
                BY <1>1
            <4>2. ~OccursAt(w, b, k - p)
                BY <3>1, <4>1 DEF Cut
            <4> QED BY <1>2, <4>1, <4>2
        <3>5. Cut(s, w, p + i, p + j)
            BY <1>2, <3>2, <3>3, <3>4 DEF Cut
        <3>6. f[p + i] = <<SubSeq(s, p + i, (p + j) - 1)>> \o f[(p + j) + Len(w)]
            <4>1. s \in Seq(Int) /\ p + i \in 1..Len(s) + 1
                BY <1>1, <1>4
            <4>2. SplitStep(f, s, w, p + i) = <<SubSeq(s, p + i, (p + j) - 1)>> \o f[(p + j) + Len(w)]
                BY <3>5, <4>1, StepAtCut, ZenonT(40)
            <4> QED BY <1>4, <4>2
        <3>7. g[i] = <<SubSeq(b, i, j - 1)>> \o g[j + Len(w)]
            BY <1>4, <3>1, StepAtCut, ZenonT(40) DEF n
        <3>8. (p + j) + Len(w) = p + (j + Len(w)) /\ (p + j) - 1 = p + (j - 1)
            BY <1>1
        <3>9. f[p + (j + Len(w))] = g[j + Len(w)]
            BY <1>5, <3>3
        <3>10. SubSeq(s, p + i, p + (j - 1)) = SubSeq(b, i, j - 1)
            BY <1>3, <3>3
        <3> QED BY <3>6, <3>7, <3>8, <3>9, <3>10
    <2> QED BY <2>1, <2>2
<1>6. 0 \in P
    <2>1. n + 1 \in 1..n + 1 /\ \A j \in (n + 1) + 1..n + 1 : FALSE
        BY <1>1
    <2>2. f[p + (n + 1)] = g[n + 1]
        BY <1>5, <2>1
    <2>3. \A i \in n + 1 - 0..n + 1 : i = n + 1
        BY <1>1
    <2> QED BY <2>2, <2>3
<1>7. ASSUME NEW k \in 1..n, k - 1 \in P PROVE k \in P
    <2> DEFINE i == n + 1 - k
    <2>1. i \in 1..n + 1
        BY <1>1
    <2>2. \A j \in i + 1..n + 1 : f[p + j] = g[j]
        BY <1>1, <1>7
    <2> HIDE DEF i
    <2>3. f[p + i] = g[i]
        BY <1>5, <2>1, <2>2
    <2>4. ASSUME NEW j \in n + 1 - k..n + 1, j \in 1..n + 1 PROVE f[p + j] = g[j]
        <3>1. j = i \/ j \in i + 1..n + 1
            BY <1>1 DEF i
        <3> QED BY <2>2, <2>3, <3>1
    <2> QED BY <2>4
<1> HIDE DEF P
<1>8. n \in P
    BY <1>1, <1>6, <1>7, UpTo
<1>9. n + 1 - n = 1 /\ 1 \in 1..n + 1
    BY <1>1
<1>10. f[p + 1] = g[1]
    BY <1>8, <1>9 DEF P
<1> QED BY <1>10 DEF p

\* Sequences of one element and more.
LEMMA OneInFront ==
    ASSUME NEW S, NEW x \in S, NEW z \in Seq(S)
    PROVE  <<x>> \in Seq(S) /\ <<x>> \o z \in Seq(S)
OBVIOUS

\* A split is a sequence of texts.
LEMMA SplitType ==
    ASSUME NEW s \in Seq(Int), NEW w \in Seq(Int), w # <<>>
    PROVE  SplitOn(s, w) \in Seq(Texts)
<1> DEFINE n == Len(s)
<1>1. PICK f : SplitOn(s, w) = f[1] /\ IsSplitting(f, s, w)
    BY SplitLoop
<1> DEFINE P == {k \in Nat : \A i \in n + 1 - k..n + 1 : i \in 1..n + 1 => f[i] \in Seq(Texts)}
<1>2. n \in Nat
    OBVIOUS
<1>3. \A i \in 1..n + 1 : f[i] = SplitStep(f, s, w, i)
    BY <1>1 DEF IsSplitting
<1>4. ASSUME NEW i \in 1..n + 1, \A j \in i + 1..n + 1 : f[j] \in Seq(Texts) PROVE f[i] \in Seq(Texts)
    <2>1. CASE NoCut(s, w, i)
        <3>1. f[i] = <<SubSeq(s, i, n)>>
            BY <1>3, <2>1, StepWithoutCut
        <3>2. SubSeq(s, i, n) \in Texts
            <4>1. n \in i - 1..Len(s)
                BY <1>2
            <4> QED BY <4>1, SubFacts DEF Texts
        <3> QED BY <3>1, <3>2
    <2>2. CASE ~NoCut(s, w, i)
        <3>1. PICK j \in i..n : Cut(s, w, i, j)
            BY <2>2, CutOrNot
        <3>2. j + Len(w) - 1 <= n /\ Len(w) \in Nat /\ Len(w) >= 1
            BY <3>1 DEF Cut, OccursAt
        <3>3. j + Len(w) \in i + 1..n + 1 /\ j - 1 \in i - 1..Len(s)
            BY <1>2, <3>2
        <3>4. f[i] = <<SubSeq(s, i, j - 1)>> \o f[j + Len(w)]
            BY <1>3, <3>1, StepAtCut
        <3>5. SubSeq(s, i, j - 1) \in Texts
            BY <3>3, SubFacts DEF Texts
        <3>6. f[j + Len(w)] \in Seq(Texts)
            BY <1>4, <3>3
        <3> QED BY <3>4, <3>5, <3>6, OneInFront
    <2> QED BY <2>1, <2>2
<1>5. 0 \in P
    <2>1. n + 1 \in 1..n + 1 /\ \A j \in (n + 1) + 1..n + 1 : FALSE
        BY <1>2
    <2>2. f[n + 1] \in Seq(Texts)
        BY <1>4, <2>1
    <2> HIDE DEF n
    <2>3. \A i \in n + 1 - 0..n + 1 : i = n + 1
        BY <1>2
    <2> QED BY <2>2, <2>3
<1>6. ASSUME NEW k \in 1..n, k - 1 \in P PROVE k \in P
    <2> DEFINE i == n + 1 - k
    <2>1. i \in 1..n + 1
        BY <1>2
    <2>2. \A j \in i + 1..n + 1 : f[j] \in Seq(Texts)
        BY <1>2, <1>6
    <2> HIDE DEF i
    <2>3. f[i] \in Seq(Texts)
        BY <1>4, <2>1, <2>2
    <2>4. ASSUME NEW j \in n + 1 - k..n + 1, j \in 1..n + 1 PROVE f[j] \in Seq(Texts)
        <3>1. j = i \/ j \in i + 1..n + 1
            BY <1>2 DEF i
        <3> QED BY <2>2, <2>3, <3>1
    <2> QED BY <2>4
<1> HIDE DEF P
<1>7. n \in P
    BY <1>2, <1>5, <1>6, UpTo
<1>8. n + 1 - n = 1 /\ 1 \in 1..n + 1
    BY <1>2
<1>9. f[1] \in Seq(Texts)
    BY <1>7, <1>8 DEF P
<1> QED BY <1>1, <1>9

\* A text splits into segments, alone and with more behind it.
Splits(e, segs, w) ==
    /\ e \in Seq(Int) /\ segs \in Seq(Texts) /\ SplitOn(e, w) = segs
    /\ \A s \in Seq(Int) : SplitOn((e \o w) \o s, w) = segs \o SplitOn(s, w)

\* No occurrence starts in a text, whatever is behind it.
Clear(x, w) == \A t \in Seq(Int) : \A j \in 1..Len(x) : ~OccursAt(w, x \o t, j)

\* Such a text is one segment.
LEMMA SplitsPiece ==
    ASSUME NEW x \in Seq(Int), NEW w \in Seq(Int), w # <<>>, Clear(x, w)
    PROVE  Splits(x, <<x>>, w)
<1> DEFINE n == Len(x)
           m == Len(w)
<1>1. n \in Nat /\ m \in Nat /\ m >= 1 /\ <<>> \in Seq(Int) /\ x \o <<>> = x
    OBVIOUS
<1>2. SplitOn(x, w) = <<x>>
    <2>1. PICK f : SplitOn(x, w) = f[1] /\ IsSplitting(f, x, w)
        BY SplitLoop
    <2>2. NoCut(x, w, 1)
        BY <1>1 DEF NoCut, Clear
    <2>3. 1 \in 1..n + 1
        BY <1>1
    <2>4. f[1] = SplitStep(f, x, w, 1)
        BY <2>1, <2>3 DEF IsSplitting
    <2>5. SplitStep(f, x, w, 1) = <<SubSeq(x, 1, Len(x))>>
        BY <2>2, StepWithoutCut
    <2>6. SubSeq(x, 1, Len(x)) = x
        OBVIOUS
    <2> QED BY <2>1, <2>4, <2>5, <2>6
<1>3. ASSUME NEW s \in Seq(Int)
      PROVE  SplitOn((x \o w) \o s, w) = <<x>> \o SplitOn(s, w)
    <2> DEFINE y == x \o w
               z == y \o s
               ws == w \o s
    <2>1. y \in Seq(Int) /\ Len(y) = n + m
        BY ConcatFacts
    <2>2. ws \in Seq(Int) /\ Len(ws) = m + Len(s) /\ Len(s) \in Nat /\ \A k \in 1..m : ws[k] = w[k]
        BY ConcatFacts
    <2>3. z = x \o ws
        BY Associative
    <2> HIDE DEF y, ws
    <2>4. z \in Seq(Int) /\ Len(z) = n + m + Len(s)
        <3>1. y \in Seq(Int)
            BY <2>1
        <3>2. z \in Seq(Int) /\ Len(z) = Len(y) + Len(s)
            BY <3>1, ConcatFacts
        <3> QED BY <2>1, <3>2
    <2>5. PICK f : SplitOn(z, w) = f[1] /\ IsSplitting(f, z, w)
        <3>1. z \in Seq(Int)
            BY <2>4
        <3> HIDE DEF z
        <3> QED BY <3>1, SplitLoop
    <2>6. PICK g : SplitOn(s, w) = g[1] /\ IsSplitting(g, s, w)
        BY SplitLoop
    <2>7. f[Len(y) + 1] = g[1]
        <3>1. y \in Seq(Int)
            BY <2>1
        <3> QED BY <2>5, <2>6, <3>1, SplitShift
    <2>8. \A j \in 1..n : ~OccursAt(w, z, j)
        <3>1. ws \in Seq(Int)
            BY <2>2
        <3> QED BY <2>3, <3>1 DEF Clear
    <2>9. OccursAt(w, z, n + 1)
        <3>1. ws \in Seq(Int) /\ 1 \in 1..Len(ws) + 1
            BY <2>2
        <3>2. OccursAt(w, x \o ws, n + 1) <=> OccursAt(w, ws, 1)
            BY <3>1, OccursBehind
        <3>3. SubSeq(ws, 1, m) = w
            <4>1. 1 \in 1..Len(ws) + 1 /\ m \in 1 - 1..Len(ws) /\ m - 1 + 1 = m
                BY <1>1, <2>2
            <4>2. /\ SubSeq(ws, 1, m) \in Seq(Int) /\ Len(SubSeq(ws, 1, m)) = m - 1 + 1
                  /\ \A k \in 1..m - 1 + 1 : SubSeq(ws, 1, m)[k] = ws[1 + k - 1]
                BY <3>1, <4>1, SubFacts
            <4>3. \A k \in 1..m : 1 + k - 1 = k
                OBVIOUS
            <4>4. Len(SubSeq(ws, 1, m)) = m /\ \A k \in 1..m : SubSeq(ws, 1, m)[k] = w[k]
                BY <2>2, <4>1, <4>2, <4>3
            <4> DEFINE q == SubSeq(ws, 1, m)
            <4> HIDE DEF q
            <4>5. q \in Seq(Int) /\ Len(q) = Len(w) /\ \A k \in 1..Len(w) : q[k] = w[k]
                BY <4>2, <4>4 DEF q
            <4>6. q = w
                BY <4>5, SeqEqual
            <4> QED BY <4>6 DEF q
        <3>4. 1 + m - 1 = m /\ m <= Len(ws)
            BY <1>1, <2>2
        <3>5. OccursAt(w, ws, 1)
            BY <3>3, <3>4 DEF OccursAt
        <3> QED BY <2>3, <3>2, <3>5
    <2>10. n + 1 \in 1..Len(z) /\ 1 \in 1..Len(z) + 1 /\ \A j \in 1..(n + 1) - 1 : j \in 1..n
        BY <1>1, <2>2, <2>4, SMTT(40)
    <2>11. Cut(z, w, 1, n + 1)
        BY <2>8, <2>9, <2>10 DEF Cut
    <2>12. f[1] = <<SubSeq(z, 1, (n + 1) - 1)>> \o f[(n + 1) + Len(w)]
        <3>1. z \in Seq(Int) /\ 1 \in 1..Len(z) + 1
            BY <2>4, <2>10
        <3> HIDE DEF z
        <3>2. SplitStep(f, z, w, 1) = <<SubSeq(z, 1, (n + 1) - 1)>> \o f[(n + 1) + Len(w)]
            BY <2>11, <3>1, StepAtCut, ZenonT(40)
        <3>3. f[1] = SplitStep(f, z, w, 1)
            BY <2>5, <3>1 DEF IsSplitting
        <3> QED BY <3>2, <3>3
    <2>13. (n + 1) + Len(w) = Len(y) + 1 /\ (n + 1) - 1 = n
        BY <1>1, <2>1
    <2>14. SubSeq(z, 1, n) = x
        <3>1. z \in Seq(Int) /\ 1 \in 1..Len(z) + 1 /\ n \in 1 - 1..Len(z)
            BY <1>1, <2>2, <2>4, SMTT(40)
        <3>2. \A k \in 1..n : z[k] = x[k]
            <4>1. ws \in Seq(Int)
                BY <2>2
            <4> QED BY <2>3, <4>1, ConcatFacts
        <3> DEFINE q == SubSeq(z, 1, n)
        <3> HIDE DEF z
        <3>3. q \in Seq(Int) /\ Len(q) = n - 1 + 1 /\ \A k \in 1..n - 1 + 1 : q[k] = z[1 + k - 1]
            BY <3>1, SubFacts
        <3> HIDE DEF q
        <3>4. n - 1 + 1 = n /\ \A k \in 1..n : 1 + k - 1 = k
            BY <1>1
        <3>5. Len(q) = Len(x) /\ \A k \in 1..Len(x) : q[k] = x[k]
            BY <3>2, <3>3, <3>4
        <3>6. q = x
            BY <3>3, <3>5, SeqEqual
        <3> QED BY <3>6 DEF q
    <2>15. f[1] = <<x>> \o g[1]
        BY <2>7, <2>12, <2>13, <2>14
    <2> QED BY <2>5, <2>6, <2>15 DEF y
<1>4. <<x>> \in Seq(Texts)
    <2>1. x \in Texts
        BY DEF Texts
    <2> QED BY <2>1
<1> QED BY <1>2, <1>3, <1>4 DEF Splits

\* Concatenation of sequences of texts.
LEMMA AssociativeTexts ==
    ASSUME NEW A \in Seq(Texts), NEW B \in Seq(Texts), NEW C \in Seq(Texts)
    PROVE  (A \o B) \o C = A \o (B \o C)
BY ConcatAssociative

\* Splits compose.
LEMMA SplitsTogether ==
    ASSUME NEW a, NEW A, NEW b, NEW B, NEW w \in Seq(Int), w # <<>>, Splits(a, A, w), Splits(b, B, w)
    PROVE  Splits((a \o w) \o b, A \o B, w)
<1>1. a \in Seq(Int) /\ b \in Seq(Int) /\ A \in Seq(Texts) /\ B \in Seq(Texts)
    BY DEF Splits
<1> DEFINE aw == a \o w
           e == aw \o b
<1>2. aw \in Seq(Int) /\ e \in Seq(Int)
    BY <1>1
<1>3. SplitOn(e, w) = A \o B
    BY <1>1 DEF Splits
<1>4. A \o B \in Seq(Texts)
    BY <1>1
<1>5. ASSUME NEW s \in Seq(Int) PROVE SplitOn((e \o w) \o s, w) = (A \o B) \o SplitOn(s, w)
    <2> DEFINE bw == b \o w
               t == bw \o s
    <2>1. bw \in Seq(Int) /\ t \in Seq(Int)
        BY <1>1
    <2>2. (e \o w) \o s = aw \o t
        <3> HIDE DEF aw
        <3>1. (aw \o b) \o w = aw \o (b \o w)
            <4>1. aw \in Seq(Int)
                BY <1>2
            <4> QED BY <1>1, <4>1, Associative
        <3>2. (aw \o bw) \o s = aw \o (bw \o s)
            <4> HIDE DEF bw
            <4> QED BY <1>2, <2>1, Associative, SMTT(40)
        <3> QED BY <3>1, <3>2
    <2>3. SplitOn(aw \o t, w) = A \o SplitOn(t, w)
        <3> HIDE DEF t
        <3> QED BY <2>1 DEF Splits
    <2>4. SplitOn(t, w) = B \o SplitOn(s, w)
        BY DEF Splits
    <2>5. (A \o B) \o SplitOn(s, w) = A \o (B \o SplitOn(s, w))
        <3>1. PICK z \in Seq(Texts) : z = SplitOn(s, w)
            BY SplitType
        <3>2. (A \o B) \o z = A \o (B \o z)
            <4>1. A \in Seq(Texts) /\ B \in Seq(Texts)
                BY <1>1
            <4> QED BY <4>1, AssociativeTexts
        <3> QED BY <3>1, <3>2
    <2> HIDE DEF e, aw, t
    <2> QED BY <2>2, <2>3, <2>4, <2>5
<1> HIDE DEF e
<1>6. Splits(e, A \o B, w)
    BY <1>2, <1>3, <1>4, <1>5 DEF Splits
<1> QED BY <1>6 DEF e, aw

-----------------------------------------------------------------------------
(* Parameters of a query string or a form. *)

\* Texts without a byte.
LEMMA LacksConcat ==
    ASSUME NEW a \in Seq(Int), NEW b \in Seq(Int), NEW c, Lacks(a, c), Lacks(b, c)
    PROVE  Lacks(a \o b, c)
<1>1. DOMAIN a = 1..Len(a) /\ DOMAIN b = 1..Len(b) /\ DOMAIN (a \o b) = 1..Len(a) + Len(b)
    OBVIOUS
<1>2. ASSUME NEW i \in 1..Len(a) + Len(b) PROVE (a \o b)[i] # c
    <2>1. CASE i <= Len(a)
        <3>1. i \in DOMAIN a /\ (a \o b)[i] = a[i]
            BY <2>1
        <3> QED BY <3>1 DEF Lacks
    <2>2. CASE ~(i <= Len(a))
        <3>1. i - Len(a) \in DOMAIN b
            BY <2>2
        <3>2. (a \o b)[i] = b[i - Len(a)]
            BY <2>2, ConcatFacts
        <3> QED BY <3>1, <3>2 DEF Lacks
    <2> QED BY <2>1, <2>2
<1> QED BY <1>1, <1>2 DEF Lacks

\* A text of one other byte lacks a byte.
LEMMA LacksOne ==
    ASSUME NEW b, NEW c, b # c
    PROVE  Lacks(<<b>>, c)
BY DEF Lacks

\* No occurrence starts in a text without the word's first byte.
LEMMA ClearOfFirst ==
    ASSUME NEW x \in Seq(Int), NEW w \in Seq(Int), w # <<>>, Lacks(x, w[1])
    PROVE  Clear(x, w)
<1> SUFFICES ASSUME NEW t \in Seq(Int), NEW j \in 1..Len(x), OccursAt(w, x \o t, j) PROVE FALSE
    BY DEF Clear
<1> DEFINE s == x \o t
<1>1. s \in Seq(Int) /\ j \in 1..Len(s) + 1 /\ s[j] = x[j] /\ j \in DOMAIN x
    OBVIOUS
<1>2. Len(w) \in Nat /\ 1 \in 1..Len(w)
    OBVIOUS
<1> HIDE DEF s
<1>3. StandsAt(w, s, j)
    <2>1. OccursAt(w, s, j)
        BY DEF s
    <2> QED BY <1>1, <2>1, OccursAtMeans
<1>4. s[j + 1 - 1] = w[1] /\ j + 1 - 1 = j
    BY <1>2, <1>3 DEF StandsAt
<1> QED BY <1>1, <1>4 DEF Lacks

\* No occurrence of a byte starts in a text without it.
LEMMA ClearOfByte ==
    ASSUME NEW x \in Seq(Int), NEW c \in Int, Lacks(x, c)
    PROVE  Clear(x, <<c>>)
<1> DEFINE w == <<c>>
<1>1. w \in Seq(Int) /\ w[1] = c /\ w # <<>>
    OBVIOUS
<1> HIDE DEF w
<1>2. Clear(x, w)
    BY <1>1, ClearOfFirst
<1> QED BY <1>2 DEF w

\* The forms of a byte have no reserved separator.
LEMMA FormLacks ==
    ASSUME NEW b \in Byte, NEW reserved, NEW plus \in BOOLEAN, NEW c \in {Amp, Equals}, c \in reserved,
           NEW f \in Forms(b, reserved, plus)
    PROVE  f \in Seq(Int) /\ Lacks(f, c)
<1>0. b \in Int
    BY DEF Byte
<1>1. \/ \E letters \in {55, 87} : f = <<Percent, HexDigit(b \div 16, letters), HexDigit(b % 16, letters)>>
      \/ f = <<b>> /\ b \notin reserved /\ b # Percent
      \/ f = <<Plus>> /\ plus /\ b = Space
    BY DEF Forms
<1>2. CASE \E letters \in {55, 87} : f = <<Percent, HexDigit(b \div 16, letters), HexDigit(b % 16, letters)>>
    <2>1. PICK letters \in {55, 87} : f = <<Percent, HexDigit(b \div 16, letters), HexDigit(b % 16, letters)>>
        BY <1>2
    <2>2. PICK h, l : h = HexDigit(b \div 16, letters) /\ l = HexDigit(b % 16, letters)
        OBVIOUS
    <2>3. h \in Int /\ l \in Int /\ IsHex(h) /\ IsHex(l)
        BY <2>2, DigitsOfByte
    <2>4. h # c /\ l # c /\ Percent # c /\ Percent \in Int
        BY <2>3 DEF IsHex, Digit, Amp, Equals, Percent
    <2>5. f = <<Percent, h, l>>
        BY <2>1, <2>2
    <2>6. f \in Seq(Int) /\ \A i \in DOMAIN f : f[i] = Percent \/ f[i] = h \/ f[i] = l
        BY <2>3, <2>4, <2>5
    <2> QED BY <2>4, <2>6 DEF Lacks
<1>3. CASE f = <<b>> /\ b \notin reserved /\ b # Percent
    BY <1>0, <1>3, LacksOne
<1>4. CASE f = <<Plus>> /\ plus /\ b = Space
    <2>1. Plus # c /\ Plus \in Int
        BY DEF Plus, Amp, Equals
    <2> QED BY <1>4, <2>1, LacksOne
<1> QED BY <1>1, <1>2, <1>3, <1>4

\* Every element of a text lies in a set.
Over(s, S) == \A i \in DOMAIN s : s[i] \in S

\* Such texts compose.
LEMMA OverConcat ==
    ASSUME NEW x \in Seq(Int), NEW y \in Seq(Int), NEW S
    PROVE  Over(x \o y, S) <=> Over(x, S) /\ Over(y, S)
<1> DEFINE z == x \o y
<1>1. /\ z \in Seq(Int) /\ Len(z) = Len(x) + Len(y) /\ Len(x) \in Nat /\ Len(y) \in Nat
      /\ (\A i \in 1..Len(y) : z[Len(x) + i] = y[i]) /\ \A i \in 1..Len(x) : z[i] = x[i]
    BY BehindFacts
<1>2. DOMAIN x = 1..Len(x) /\ DOMAIN y = 1..Len(y)
    OBVIOUS
<1> HIDE DEF z
<1>3. DOMAIN z = 1..Len(x) + Len(y)
    BY <1>1
<1>4. ASSUME Over(x, S), Over(y, S), NEW i \in 1..Len(x) + Len(y) PROVE z[i] \in S
    <2>1. CASE i <= Len(x)
        <3>1. i \in 1..Len(x)
            BY <1>1, <2>1
        <3> QED BY <1>1, <1>2, <1>4, <3>1 DEF Over
    <2>2. CASE ~(i <= Len(x))
        <3> DEFINE k == i - Len(x)
        <3>1. k \in 1..Len(y) /\ i = Len(x) + k
            BY <1>1, <2>2
        <3> HIDE DEF k
        <3>2. z[i] = y[k]
            BY <1>1, <3>1
        <3> QED BY <1>2, <1>4, <3>1, <3>2 DEF Over
    <2> QED BY <2>1, <2>2
<1>5. ASSUME Over(z, S) PROVE Over(x, S) /\ Over(y, S)
    <2>1. \A i \in 1..Len(x) : i \in 1..Len(x) + Len(y)
        BY <1>1
    <2>2. \A i \in 1..Len(y) : Len(x) + i \in 1..Len(x) + Len(y)
        BY <1>1
    <2>3. \A i \in 1..Len(x) : x[i] \in S
        BY <1>1, <1>3, <1>5, <2>1 DEF Over
    <2>4. \A i \in 1..Len(y) : y[i] \in S
        BY <1>1, <1>3, <1>5, <2>2 DEF Over
    <2> QED BY <1>2, <2>3, <2>4 DEF Over
<1>6. Over(x, S) /\ Over(y, S) => Over(z, S)
    BY <1>3, <1>4 DEF Over
<1> QED BY <1>5, <1>6 DEF z

\* A text of one element.
LEMMA OverOne ==
    ASSUME NEW b \in Int, NEW S
    PROVE  <<b>> \in Seq(Int) /\ (Over(<<b>>, S) <=> b \in S)
BY DEF Over

\* What all forms of all bytes are made of, the encodings of a text are too.
LEMMA EncodingOver ==
    ASSUME NEW s \in Seq(Byte), NEW reserved, NEW plus \in BOOLEAN, NEW S,
           \A b \in Byte : \A f \in Forms(b, reserved, plus) : f \in Seq(Int) /\ Over(f, S),
           NEW e \in Encodings(s, reserved, plus)
    PROVE  e \in Seq(Int) /\ Over(e, S)
<1> DEFINE n == Len(s)
           f == CHOOSE g : EncodingsUpTo(g, s, reserved, plus, n)
           P == {k \in 0..n : \A x \in f[k] : x \in Seq(Int) /\ Over(x, S)}
<1>1. n \in Nat /\ DOMAIN s = 1..n
    OBVIOUS
<1>2. EncodingsUpTo(f, s, reserved, plus, n)
    BY <1>1, EncodingsExist
<1>3. Encodings(s, reserved, plus) = f[n]
    BY DEF Encodings, EncodingsUpTo, EncodeStep
<1> HIDE DEF f, n
<1>4. 0 \in P
    <2>1. f[0] = {<<>>} /\ 0 \in 0..n
        BY <1>1, <1>2 DEF EncodingsUpTo
    <2>2. <<>> \in Seq(Int) /\ Over(<<>>, S)
        BY DEF Over
    <2> QED BY <2>1, <2>2
<1>5. ASSUME NEW k \in 1..n, k - 1 \in P PROVE k \in P
    <2>1. k \in 0..n /\ k # 0 /\ k - 1 \in 0..n
        BY <1>1
    <2>2. f[k] = EncodeStep(f[k - 1], s[k], reserved, plus)
        BY <1>2, <2>1 DEF EncodingsUpTo
    <2>3. s[k] \in Byte
        BY <1>1
    <2>5. \A y \in f[k - 1] : y \in Seq(Int) /\ Over(y, S)
        BY <1>5
    <2> HIDE DEF P
    <2>4. ASSUME NEW x \in f[k] PROVE x \in Seq(Int) /\ Over(x, S)
        <3>0. x \in EncodeStep(f[k - 1], s[k], reserved, plus)
            BY <2>2
        <3>1. PICK p \in f[k - 1], g \in Forms(s[k], reserved, plus) : x = p \o g
            BY <3>0, EncodeStepElement, SMTT(40)
        <3>2. p \in Seq(Int) /\ Over(p, S)
            BY <2>5
        <3>3. g \in Seq(Int) /\ Over(g, S)
            BY <2>3
        <3>4. p \o g \in Seq(Int) /\ Over(p \o g, S)
            BY <3>2, <3>3, OverConcat
        <3> QED BY <3>1, <3>4
    <2> QED BY <2>1, <2>4 DEF P
<1> HIDE DEF P
<1>6. n \in P
    BY <1>1, <1>4, <1>5, UpTo
<1> QED BY <1>3, <1>6 DEF P

\* Nor have the encodings of a text.
LEMMA EncodingLacks ==
    ASSUME NEW s \in Seq(Byte), NEW reserved, NEW plus \in BOOLEAN, NEW c \in {Amp, Equals}, c \in reserved,
           NEW e \in Encodings(s, reserved, plus)
    PROVE  e \in Seq(Int) /\ Lacks(e, c)
<1> DEFINE S == Int \ {c}
<1>1. ASSUME NEW x \in Seq(Int) PROVE Lacks(x, c) <=> Over(x, S)
    BY DEF Lacks, Over
<1> HIDE DEF S
<1>2. \A b \in Byte : \A f \in Forms(b, reserved, plus) : f \in Seq(Int) /\ Over(f, S)
    BY <1>1, FormLacks
<1>3. e \in Seq(Int) /\ Over(e, S)
    BY <1>2, EncodingOver
<1> QED BY <1>1, <1>3

\* ASCII.
Ascii == Int \ (128..255)

\* The forms of a byte are.
LEMMA FormAscii ==
    ASSUME NEW b \in Byte, NEW reserved, NEW plus \in BOOLEAN, NEW f \in Forms(b, reserved, plus)
    PROVE  f \in Seq(Int) /\ Over(f, Ascii)
<1>1. \/ \E letters \in {55, 87} : f = <<Percent, HexDigit(b \div 16, letters), HexDigit(b % 16, letters)>>
      \/ f = <<b>> /\ IsAscii(b)
      \/ f = <<Plus>>
    BY DEF Forms
<1>2. CASE \E letters \in {55, 87} : f = <<Percent, HexDigit(b \div 16, letters), HexDigit(b % 16, letters)>>
    <2>1. PICK letters \in {55, 87} : f = <<Percent, HexDigit(b \div 16, letters), HexDigit(b % 16, letters)>>
        BY <1>2
    <2>2. PICK h, l : h = HexDigit(b \div 16, letters) /\ l = HexDigit(b % 16, letters)
        OBVIOUS
    <2>3. h \in Int /\ l \in Int /\ IsHex(h) /\ IsHex(l)
        BY <2>2, DigitsOfByte
    <2>4. h \in Ascii /\ l \in Ascii /\ Percent \in Ascii
        BY <2>3 DEF IsHex, Digit, Percent, Ascii
    <2>5. f = <<Percent, h, l>> /\ Percent \in Int
        BY <2>1, <2>2 DEF Percent
    <2>6. f \in Seq(Int) /\ \A i \in DOMAIN f : f[i] = Percent \/ f[i] = h \/ f[i] = l
        BY <2>3, <2>5
    <2> QED BY <2>4, <2>6 DEF Over
<1>3. CASE f = <<b>> /\ IsAscii(b)
    <2>1. b \in Int /\ b \in Ascii
        BY <1>3 DEF Byte, Ascii, IsAscii
    <2> QED BY <1>3, <2>1, OverOne
<1>4. CASE f = <<Plus>>
    <2>1. Plus \in Int /\ Plus \in Ascii
        BY DEF Plus, Ascii
    <2> QED BY <1>4, <2>1, OverOne
<1> QED BY <1>1, <1>2, <1>3, <1>4

\* And so is every encoded list of parameters.
LEMMA PairsAscii ==
    ASSUME NEW pairs \in PairLists, NEW e \in EncodedPairs(pairs)
    PROVE  e \in Seq(Int) /\ Over(e, Ascii)
<1> DEFINE n == Len(pairs)
<1>1. n \in Nat /\ \A i \in 1..n : pairs[i][1] \in Seq(Byte) /\ pairs[i][2] \in Seq(Byte)
    BY DEF PairLists
<1> HIDE DEF n
<1>2. PICK f : /\ EncodedPairs(pairs) = f[n] /\ f[0] = {<<>>}
               /\ \A k \in 1..n : f[k] = PairsStep(f[k - 1], pairs, k)
    BY <1>1, PairsLoop DEF n
<1>3. ASSUME NEW b \in {Equals, Amp} PROVE <<b>> \in Seq(Int) /\ Over(<<b>>, Ascii)
    <2>1. b \in Int /\ b \in Ascii
        BY DEF Equals, Amp, Ascii
    <2> QED BY <2>1, OverOne
<1>4. ASSUME NEW i \in 1..n, NEW x \in EncodedPair(pairs[i]) PROVE x \in Seq(Int) /\ Over(x, Ascii)
    <2>1. PICK k \in NamesOf(pairs[i]), v \in ValuesOf(pairs[i]) : x = (k \o <<Equals>>) \o v
        BY PairElement
    <2>2. k \in Seq(Int) /\ Over(k, Ascii) /\ v \in Seq(Int) /\ Over(v, Ascii)
        BY <1>1, FormAscii, EncodingOver DEF NamesOf, ValuesOf
    <2> DEFINE q == <<Equals>>
               kq == k \o q
    <2>3. q \in Seq(Int) /\ Over(q, Ascii)
        BY <1>3
    <2> HIDE DEF q
    <2>4. kq \in Seq(Int) /\ Over(kq, Ascii)
        BY <2>2, <2>3, OverConcat
    <2>5. x = kq \o v
        BY <2>1 DEF q
    <2> HIDE DEF kq
    <2> QED BY <2>2, <2>4, <2>5, OverConcat
<1> DEFINE P == {k \in 0..n : \A x \in f[k] : x \in Seq(Int) /\ Over(x, Ascii)}
<1>5. 0 \in P
    <2>1. <<>> \in Seq(Int) /\ Over(<<>>, Ascii) /\ 0 \in 0..n
        BY <1>1 DEF Over
    <2> QED BY <1>2, <2>1
<1>6. ASSUME NEW k \in 1..n, k - 1 \in P PROVE k \in P
    <2>1. k \in 0..n /\ f[k] = PairsStep(f[k - 1], pairs, k)
        BY <1>1, <1>2
    <2>2. \A y \in f[k - 1] : y \in Seq(Int) /\ Over(y, Ascii)
        BY <1>6
    <2> HIDE DEF P
    <2>3. ASSUME NEW x \in f[k] PROVE x \in Seq(Int) /\ Over(x, Ascii)
        <3>1. CASE k = 1
            <4>1. x \in EncodedPair(pairs[k])
                BY <2>1, <3>1 DEF PairsStep
            <4> QED BY <1>4, <4>1
        <3>2. CASE k # 1
            <4>1. x \in AddPair(f[k - 1], pairs[k])
                BY <2>1, <3>2 DEF PairsStep
            <4>2. PICK a \in f[k - 1], c \in EncodedPair(pairs[k]) : x = (a \o <<Amp>>) \o c
                <5>1. PICK acc, p : acc = f[k - 1] /\ p = pairs[k]
                    OBVIOUS
                <5>2. \E a \in acc, c \in EncodedPair(p) : x = (a \o <<Amp>>) \o c
                    BY <4>1, <5>1, AddedElement
                <5> QED BY <5>1, <5>2, Zenon
            <4>3. a \in Seq(Int) /\ Over(a, Ascii) /\ c \in Seq(Int) /\ Over(c, Ascii)
                BY <1>4, <2>2
            <4> DEFINE q == <<Amp>>
                       aq == a \o q
            <4>4. q \in Seq(Int) /\ Over(q, Ascii)
                BY <1>3
            <4> HIDE DEF q
            <4>5. aq \in Seq(Int) /\ Over(aq, Ascii)
                BY <4>3, <4>4, OverConcat
            <4>6. x = aq \o c
                BY <4>2 DEF q
            <4> HIDE DEF aq
            <4> QED BY <4>3, <4>5, <4>6, OverConcat
        <3> QED BY <3>1, <3>2
    <2> QED BY <2>1, <2>3 DEF P
<1> HIDE DEF P
<1>7. n \in P
    BY <1>1, <1>5, <1>6, UpTo
<1> QED BY <1>2, <1>7 DEF P

\* A pair is split at the first separator.
LEMMA SplitPairAt ==
    ASSUME NEW k \in Seq(Int), NEW v \in Seq(Int), NEW c \in Int, Lacks(k, c)
    PROVE  SplitPair((k \o <<c>>) \o v, c) = <<k, v>>
<1> DEFINE kc == k \o <<c>>
           s == kc \o v
           n == Len(k)
           I == {i \in 1..Len(s) : s[i] = c}
<1>1. /\ kc \in Seq(Int) /\ Len(kc) = n + 1 /\ kc[n + 1] = c /\ \A i \in 1..n : kc[i] = k[i]
      /\ n \in Nat /\ Len(v) \in Nat /\ DOMAIN k = 1..n
    BY OneMore
<1>2. /\ s \in Seq(Int) /\ Len(s) = n + 1 + Len(v)
      /\ \A i \in 1..n + 1 : s[i] = kc[i]
      /\ \A i \in 1..Len(v) : s[(n + 1) + i] = v[i]
    <2> HIDE DEF kc
    <2>1. kc \in Seq(Int)
        BY <1>1
    <2>2. /\ s \in Seq(Int) /\ Len(s) = Len(kc) + Len(v)
          /\ \A i \in 1..Len(v) : s[Len(kc) + i] = v[i]
          /\ \A i \in 1..Len(kc) : s[i] = kc[i]
        BY <2>1, BehindFacts
    <2> HIDE DEF s
    <2> QED BY <1>1, <2>2
<1>3. SplitPair(s, c) = LET p == IF I # {} THEN Min(I) ELSE 0
                        IN IF p = 0 THEN <<s, <<>>>> ELSE <<SubSeq(s, 1, p - 1), SubSeq(s, p + 1, Len(s))>>
    BY DEF SplitPair, SelectInSeq
<1> HIDE DEF s, kc
<1>4. n + 1 \in I /\ \A i \in I : i \in Int /\ n + 1 <= i
    <2>1. n + 1 \in I
        <3>1. n + 1 \in 1..Len(s) /\ n + 1 \in 1..n + 1
            BY <1>1, <1>2
        <3> QED BY <1>1, <1>2, <3>1
    <2>2. ASSUME NEW i \in I, ~(n + 1 <= i) PROVE FALSE
        <3>0. i \in 1..Len(s) /\ s[i] = c
            OBVIOUS
        <3>1. i \in 1..n /\ i \in 1..n + 1 /\ s[i] = c
            <4>1. i \in Nat /\ i >= 1
                BY <3>0
            <4>2. n \in Nat
                BY <1>1
            <4> HIDE DEF I, n
            <4> QED BY <2>2, <3>0, <4>1, <4>2
        <3>2. k[i] = c /\ i \in DOMAIN k
            BY <1>1, <1>2, <3>1
        <3> QED BY <3>2 DEF Lacks
    <2> QED BY <2>1, <2>2
<1> HIDE DEF I
<1>5. Min(I) = n + 1
    <2>1. \A x \in I : (\A y \in I : x <= y) => x = n + 1
        BY <1>1, <1>4
    <2>2. Min(I) \in I /\ \A y \in I : Min(I) <= y
        BY <1>4 DEF Min
    <2> QED BY <2>1, <2>2
<1>6. SplitPair(s, c) = <<SubSeq(s, 1, (n + 1) - 1), SubSeq(s, (n + 1) + 1, Len(s))>>
    <2>1. I # {} /\ n + 1 # 0
        BY <1>1, <1>4
    <2> QED BY <1>3, <1>5, <2>1
<1>7. SubSeq(s, 1, (n + 1) - 1) = k
    <2> DEFINE q == SubSeq(s, 1, n)
    <2>1. (n + 1) - 1 = n /\ 1 \in 1..Len(s) + 1 /\ n \in 1 - 1..Len(s) /\ n - 1 + 1 = n /\ s \in Seq(Int)
        BY <1>1, <1>2
    <2>2. q \in Seq(Int) /\ Len(q) = n - 1 + 1 /\ \A i \in 1..n - 1 + 1 : q[i] = s[1 + i - 1]
        <3>1. s \in Seq(Int) /\ 1 \in 1..Len(s) + 1 /\ n \in 1 - 1..Len(s)
            BY <2>1
        <3> QED BY <3>1, SubFacts
    <2> HIDE DEF q
    <2>3. \A i \in 1..n : 1 + i - 1 = i /\ i \in 1..n + 1
        BY <1>1
    <2>4. Len(q) = n /\ \A i \in 1..n : q[i] = k[i]
        BY <1>1, <1>2, <2>1, <2>2, <2>3
    <2>5. q = k
        BY <2>2, <2>4, SeqEqual
    <2> QED BY <2>1, <2>5 DEF q
<1>8. SubSeq(s, (n + 1) + 1, Len(s)) = v
    <2>1. kc \in Seq(Int) /\ 1 \in 1..Len(v) + 1 /\ Len(v) \in 1 - 1..Len(v)
        BY <1>1
    <2>2. SubSeq(kc \o v, Len(kc) + 1, Len(kc) + Len(v)) = SubSeq(v, 1, Len(v))
        BY <2>1, SubBehind
    <2>3. SubSeq(v, 1, Len(v)) = v
        OBVIOUS
    <2> QED BY <1>1, <1>2, <2>2, <2>3 DEF s
<1> QED BY <1>6, <1>7, <1>8 DEF s, kc

\* One encoded parameter splits at its '=' into texts that stand for its name
\* and its value, and holds no separator.
LEMMA PairShape ==
    ASSUME NEW p, p[1] \in Seq(Byte), p[2] \in Seq(Byte), NEW x \in EncodedPair(p)
    PROVE  /\ x \in Seq(Int) /\ x # <<>> /\ Lacks(x, Amp)
           /\ \E k, v : /\ SplitPair(x, Equals) = <<k, v>>
                        /\ Decode(k, TRUE) = Visible(p[1]) /\ Decode(v, TRUE) = Visible(p[2])
<1>1. PICK k \in NamesOf(p), v \in ValuesOf(p) : x = (k \o <<Equals>>) \o v
    BY PairElement
<1>2. p[1] \in Seq(Byte) /\ p[2] \in Seq(Byte)
    OBVIOUS
<1>3. k \in Seq(Int) /\ Lacks(k, Amp) /\ Lacks(k, Equals)
    <2>1. Amp \in {Amp, Equals, Plus} /\ Equals \in {Amp, Equals, Plus} /\ Amp \in {Amp, Equals} /\ Equals \in {Amp, Equals}
        OBVIOUS
    <2> QED BY <1>2, <2>1, EncodingLacks DEF NamesOf
<1>4. v \in Seq(Int) /\ Lacks(v, Amp)
    <2>1. Amp \in {Amp, Plus} /\ Amp \in {Amp, Equals}
        OBVIOUS
    <2> QED BY <1>2, <2>1, EncodingLacks DEF ValuesOf
<1>5. Decode(k, TRUE) = Visible(p[1])
    <2>1. Plus \in {Amp, Equals, Plus}
        OBVIOUS
    <2>2. Decodes(k, Pushed(p[1], FALSE), TRUE, FALSE)
        BY <1>2, <2>1, EncodingDecodes DEF NamesOf
    <2>3. Visible(p[1]) = Pushed(p[1], FALSE)
        BY <1>2, LowerVisible
    <2> QED BY <2>2, <2>3, DecodesAlone DEF Decode
<1>6. Decode(v, TRUE) = Visible(p[2])
    <2>1. Plus \in {Amp, Plus}
        OBVIOUS
    <2>2. Decodes(v, Pushed(p[2], FALSE), TRUE, FALSE)
        BY <1>2, <2>1, EncodingDecodes DEF ValuesOf
    <2>3. Visible(p[2]) = Pushed(p[2], FALSE)
        BY <1>2, LowerVisible
    <2> QED BY <2>2, <2>3, DecodesAlone DEF Decode
<1> DEFINE e == <<Equals>>
<1>7. e \in Seq(Int) /\ Len(e) = 1 /\ Lacks(e, Amp)
    <2>1. Equals \in Int /\ Equals # Amp
        BY DEF Equals, Amp
    <2>2. Lacks(e, Amp)
        BY <2>1, LacksOne
    <2> QED BY <2>1, <2>2
<1>12. x = (k \o e) \o v
    BY <1>1
<1> HIDE DEF e
<1>8. k \o e \in Seq(Int) /\ Lacks(k \o e, Amp) /\ Len(k \o e) = Len(k) + Len(e)
    BY <1>3, <1>7, LacksConcat, ConcatFacts
<1>9. /\ (k \o e) \o v \in Seq(Int) /\ Lacks((k \o e) \o v, Amp)
      /\ Len((k \o e) \o v) = Len(k \o e) + Len(v)
    BY <1>4, <1>8, LacksConcat, ConcatFacts
<1>10. x # <<>>
    <2>1. Len(k) \in Nat /\ Len(v) \in Nat /\ Len(x) = (Len(k) + 1) + Len(v)
        BY <1>12, <1>3, <1>4, <1>7, <1>8, <1>9
    <2>2. Len(x) # 0
        BY <2>1
    <2> QED BY <2>2
<1>11. SplitPair(x, Equals) = <<k, v>>
    <2>1. Equals \in Int
        BY DEF Equals
    <2> QED BY <1>1, <1>3, <1>4, <2>1, SplitPairAt
<1> QED BY <1>12, <1>5, <1>6, <1>9, <1>10, <1>11

\* The segments of an encoded list are encodings of its parameters.
LEMMA PairsSegments ==
    ASSUME NEW pairs \in PairLists, NEW e \in EncodedPairs(pairs), pairs # <<>>
    PROVE  \E ss \in Seq(Texts) :
               /\ SplitOn(e, <<Amp>>) = ss /\ Len(ss) = Len(pairs)
               /\ \A i \in 1..Len(pairs) : ss[i] \in EncodedPair(pairs[i])
<1> DEFINE n == Len(pairs)
           w == <<Amp>>
<1>1. n \in Nat /\ n >= 1 /\ \A i \in 1..n : pairs[i][1] \in Seq(Byte) /\ pairs[i][2] \in Seq(Byte)
    BY DEF PairLists
<1>2. w \in Seq(Int) /\ w # <<>> /\ Amp \in Int
    BY DEF Amp
<1> HIDE DEF n
<1>3. PICK f : /\ EncodedPairs(pairs) = f[n] /\ f[0] = {<<>>}
               /\ \A k \in 1..n : f[k] = PairsStep(f[k - 1], pairs, k)
    BY <1>1, PairsLoop DEF n
<1> DEFINE Good(x, k) == \E ss \in Seq(Texts) : /\ Splits(x, ss, w) /\ Len(ss) = k
                                               /\ \A i \in 1..k : ss[i] \in EncodedPair(pairs[i])
           P == {k \in 0..n : k = 0 \/ \A x \in f[k] : Good(x, k)}
<1>4. 0 \in P
    BY <1>1
<1>5. ASSUME NEW k \in 1..n, k - 1 \in P PROVE k \in P
    <2>1. k \in 0..n /\ f[k] = PairsStep(f[k - 1], pairs, k)
        BY <1>1, <1>3
    <2>2. ASSUME NEW c \in EncodedPair(pairs[k]) PROVE Splits(c, <<c>>, w) /\ c \in Texts
        <3>1. c \in Seq(Int) /\ Lacks(c, Amp)
            BY <1>1, PairShape
        <3>2. Clear(c, w)
            BY <1>2, <3>1, ClearOfByte
        <3> HIDE DEF w
        <3> QED BY <1>2, <3>1, <3>2, SplitsPiece DEF Texts
    <2> HIDE DEF w
    <2>3. ASSUME NEW x \in f[k] PROVE Good(x, k)
        <3>1. CASE k = 1
            <4>1. x \in EncodedPair(pairs[1])
                BY <2>1, <3>1 DEF PairsStep
            <4>2. Splits(x, <<x>>, w) /\ x \in Texts
                BY <2>2, <3>1, <4>1
            <4>3. <<x>> \in Seq(Texts) /\ Len(<<x>>) = 1 /\ \A i \in 1..1 : <<x>>[i] \in EncodedPair(pairs[i])
                BY <4>1, <4>2
            <4> QED BY <3>1, <4>2, <4>3
        <3>2. CASE k # 1
            <4>1. x \in AddPair(f[k - 1], pairs[k])
                BY <2>1, <3>2 DEF PairsStep
            <4>2. PICK a \in f[k - 1], c \in EncodedPair(pairs[k]) : x = (a \o w) \o c
                <5> DEFINE A == f[k - 1]
                           q == pairs[k]
                <5>1. x \in AddPair(A, q)
                    BY <4>1
                <5> HIDE DEF A, q
                <5>2. \E a \in A, c \in EncodedPair(q) : x = (a \o <<Amp>>) \o c
                    BY <5>1, AddedElement
                <5> QED BY <5>2 DEF A, q, w
            <4>3. k - 1 # 0 /\ Good(a, k - 1)
                BY <1>5, <3>2
            <4>4. PICK ss \in Seq(Texts) : /\ Splits(a, ss, w) /\ Len(ss) = k - 1
                                           /\ \A i \in 1..k - 1 : ss[i] \in EncodedPair(pairs[i])
                BY <4>3
            <4>5. Splits((a \o w) \o c, ss \o <<c>>, w)
                BY <1>2, <2>2, <4>4, SplitsTogether
            <4>6. c \in Texts
                BY <2>2
            <4>7. /\ ss \o <<c>> \in Seq(Texts) /\ Len(ss \o <<c>>) = k
                  /\ \A i \in 1..k - 1 : (ss \o <<c>>)[i] = ss[i]
                  /\ (ss \o <<c>>)[k] = c
                BY <4>4, <4>6
            <4>8. ASSUME NEW i \in 1..k PROVE (ss \o <<c>>)[i] \in EncodedPair(pairs[i])
                <5>1. i \in 1..k - 1 \/ i = k
                    OBVIOUS
                <5> QED BY <4>4, <4>7, <5>1
            <4> QED BY <4>2, <4>5, <4>7, <4>8
        <3> QED BY <3>1, <3>2
    <2> HIDE DEF Good
    <2> QED BY <2>1, <2>3
<1> HIDE DEF P
<1>6. n \in P
    BY <1>1, <1>4, <1>5, UpTo
<1>7. Good(e, n)
    BY <1>1, <1>3, <1>6 DEF P
<1> QED BY <1>7 DEF n, Splits

\* Concatenating sequences of one element, with empty ones in front and behind,
\* gives the sequence of the elements.
LEMMA Gathered ==
    ASSUME NEW S, NEW xs \in Seq(S), NEW ss, NEW a \in Nat, Len(ss) \in Nat, Len(ss) >= a + Len(xs),
           \A i \in 1..Len(ss) : ss[i] = IF i - a \in 1..Len(xs) THEN <<xs[i - a]>> ELSE <<>>
    PROVE  Concat(ss) = xs
<1> DEFINE n == Len(xs)
           N == Len(ss)
           L(k) == IF k <= a THEN 0 ELSE IF k - a <= n THEN k - a ELSE n
<1>1. n \in Nat /\ N \in Nat /\ N >= a + n
    OBVIOUS
<1>2. PICK f : /\ Join(ss, <<>>) = f[N] /\ f[0] = <<>>
               /\ \A k \in 1..N : f[k] = JoinStep(f[k - 1], ss, <<>>, k)
    BY JoinLoop
<1> HIDE DEF N
<1> DEFINE Good(z, k) == z \in Seq(S) /\ Len(z) = L(k) /\ \A j \in 1..L(k) : z[j] = xs[j]
           P == {k \in 0..N : Good(f[k], k)}
<1>3. 0 \in P
    <2>1. <<>> \in Seq(S) /\ Len(<<>>) = 0 /\ L(0) = 0 /\ 0 \in 0..N
        BY <1>1
    <2> HIDE DEF L
    <2>2. 1..L(0) = {}
        BY <2>1
    <2>3. Good(<<>>, 0)
        BY <2>1, <2>2
    <2> HIDE DEF Good
    <2> QED BY <1>2, <2>1, <2>3
<1>4. ASSUME NEW k \in 1..N, k - 1 \in P PROVE k \in P
    <2>1. k \in 0..N /\ k - 1 \in 0..N
        BY <1>1
    <2>2. PICK z \in Seq(S) : z = f[k - 1] /\ Len(z) = L(k - 1) /\ \A j \in 1..L(k - 1) : z[j] = xs[j]
        BY <1>4
    <2>3. f[k] = z \o ss[k]
        <3>1. ss[k] = <<>> \/ \E y \in S : ss[k] = <<y>>
            <4>1. \A i \in 1..n : xs[i] \in S
                OBVIOUS
            <4>2. ss[k] = IF k - a \in 1..n THEN <<xs[k - a]>> ELSE <<>>
                BY DEF N
            <4> QED BY <4>1, <4>2
        <3>2. ss[k] \in Seq(S)
            <4>1. \A y \in S : <<y>> \in Seq(S)
                OBVIOUS
            <4>2. <<>> \in Seq(S)
                OBVIOUS
            <4> QED BY <3>1, <4>1, <4>2
        <3>3. z \o <<>> = z
            OBVIOUS
        <3>4. CASE k = 1
            <4>1. f[k] = ss[k] /\ z = <<>>
                BY <1>2, <2>2, <3>4 DEF JoinStep
            <4>2. \A y \in Seq(S) : <<>> \o y = y
                OBVIOUS
            <4> QED BY <3>2, <4>1, <4>2
        <3>5. CASE k # 1
            <4>1. f[k] = (f[k - 1] \o <<>>) \o ss[k]
                BY <1>2, <3>5 DEF JoinStep
            <4> QED BY <2>2, <3>3, <4>1
        <3> QED BY <3>4, <3>5
    <2>4. CASE k - a \in 1..n
        <3>1. ss[k] = <<xs[k - a]>> /\ xs[k - a] \in S
            <4>1. \A i \in 1..n : xs[i] \in S
                OBVIOUS
            <4>2. ss[k] = IF k - a \in 1..n THEN <<xs[k - a]>> ELSE <<>>
                BY DEF N
            <4> QED BY <2>4, <4>1, <4>2
        <3>2. L(k) = k - a /\ L(k - 1) = k - a - 1
            BY <1>1, <2>4
        <3> HIDE DEF L
        <3> DEFINE x == xs[k - a]
        <3>3. /\ z \o <<x>> \in Seq(S) /\ Len(z \o <<x>>) = Len(z) + 1
              /\ \A j \in 1..Len(z) : (z \o <<x>>)[j] = z[j]
              /\ (z \o <<x>>)[Len(z) + 1] = x
            <4>1. x \in S
                BY <3>1
            <4> HIDE DEF x
            <4> QED BY <4>1
        <3>4. Len(z) = k - a - 1 /\ k - a \in Nat /\ L(k) = Len(z) + 1
            BY <2>2, <2>4, <3>2
        <3>5. ASSUME NEW j \in 1..L(k) PROVE (z \o <<x>>)[j] = xs[j]
            <4>1. j \in 1..Len(z) \/ j = Len(z) + 1
                BY <3>4
            <4>2. Len(z) + 1 = k - a /\ L(k - 1) = Len(z)
                BY <3>4, <2>2, SMTT(40)
            <4> QED BY <2>2, <3>3, <4>1, <4>2
        <3>6. f[k] = z \o <<x>>
            BY <2>3, <3>1
        <3> QED BY <2>1, <3>3, <3>4, <3>5, <3>6
    <2>5. CASE ~(k - a \in 1..n)
        <3>1. ss[k] = <<>>
            BY <2>5 DEF N
        <3>2. L(k) = L(k - 1)
            BY <1>1, <2>5
        <3>3. f[k] = z
            BY <2>3, <3>1
        <3> HIDE DEF L
        <3> QED BY <2>1, <2>2, <3>2, <3>3
    <2> QED BY <2>4, <2>5
<1> HIDE DEF P
<1>5. N \in P
    BY <1>1, <1>3, <1>4, UpTo
<1>6. L(N) = n
    BY <1>1
<1> HIDE DEF L
<1>7. f[N] = xs
    <2>1. f[N] \in Seq(S) /\ Len(f[N]) = n /\ \A j \in 1..n : f[N][j] = xs[j]
        BY <1>5, <1>6 DEF P
    <2>2. PICK z \in Seq(S) : z = f[N] /\ Len(z) = Len(xs) /\ \A j \in 1..Len(z) : z[j] = xs[j]
        BY <2>1
    <2>3. z = xs
        BY <2>2, SeqEqual
    <2> QED BY <2>2, <2>3
<1> QED BY <1>2, <1>7 DEF Concat

\* No text is dropped if none is empty.
LEMMA AllNonEmpty ==
    ASSUME NEW ss \in Seq(Texts), \A i \in 1..Len(ss) : ss[i] # <<>>
    PROVE  NonEmpty(ss) = ss
<1> DEFINE ts == [i \in DOMAIN ss |-> IF ss[i] = <<>> THEN <<>> ELSE <<ss[i]>>]
<1>1. DOMAIN ss = 1..Len(ss) /\ Len(ss) \in Nat
    OBVIOUS
<1>2. Len(ts) = Len(ss) /\ \A i \in 1..Len(ss) : ts[i] = <<ss[i]>>
    BY <1>1
<1>3. NonEmpty(ss) = Concat(ts)
    BY DEF NonEmpty
<1> HIDE DEF ts
<1>4. \A i \in 1..Len(ts) : ts[i] = IF i - 0 \in 1..Len(ss) THEN <<ss[i - 0]>> ELSE <<>>
    BY <1>1, <1>2
<1>5. Len(ts) \in Nat /\ Len(ts) >= 0 + Len(ss) /\ 0 \in Nat
    BY <1>1, <1>2
<1>6. Concat(ts) = ss
    BY <1>4, <1>5, Gathered
<1> QED BY <1>3, <1>6

\* Nothing splits into one empty text, which is dropped.
LEMMA SplitNothing ==
    ASSUME NEW w \in Seq(Int), w # <<>>
    PROVE  SplitOn(<<>>, w) = << <<>> >> /\ Splits(<<>>, << <<>> >>, w)
<1>1. PICK x : x = <<>>
    OBVIOUS
<1>2. x \in Seq(Int) /\ Len(x) = 0
    BY <1>1
<1>3. Clear(x, w)
    BY <1>2 DEF Clear
<1>4. Splits(x, <<x>>, w)
    BY <1>2, <1>3, SplitsPiece
<1> QED BY <1>1, <1>4 DEF Splits

\* The empty text is dropped.
LEMMA DropNothing == NonEmpty(<< <<>> >>) = <<>>
<1> DEFINE ss == << <<>> >>
           ts == [i \in DOMAIN ss |-> IF ss[i] = <<>> THEN <<>> ELSE <<ss[i]>>]
           xs == <<>>
<1>1. DOMAIN ss = 1..1 /\ ss[1] = <<>>
    OBVIOUS
<1> HIDE DEF ss
<1>2. Len(ts) = 1 /\ \A i \in 1..1 : ts[i] = <<>>
    BY <1>1
<1>3. NonEmpty(ss) = Concat(ts)
    BY DEF NonEmpty
<1>4. xs \in Seq(Int) /\ Len(xs) = 0
    OBVIOUS
<1> HIDE DEF ts, xs
<1>5. \A i \in 1..Len(ts) : ts[i] = IF i - 0 \in 1..Len(xs) THEN <<xs[i - 0]>> ELSE <<>>
    BY <1>2, <1>4
<1>6. Len(ts) \in Nat /\ Len(ts) >= 0 + Len(xs) /\ 0 \in Nat /\ xs \in Seq(Int)
    BY <1>2, <1>4
<1>7. Concat(ts) = xs
    BY <1>5, <1>6, Gathered
<1> QED BY <1>3, <1>7 DEF ss, xs

\* parse_pairs finds the parameters of an encoded list, as they were meant.
LEMMA PairsParsed ==
    ASSUME NEW pairs \in PairLists, NEW e \in EncodedPairs(pairs)
    PROVE  ParsePairs(e) = VisiblePairs(pairs)
<1> DEFINE n == Len(pairs)
           ss == NonEmpty(SplitOn(e, <<Amp>>))
           K(i) == SplitPair(ss[i], Equals)
<1>1. n \in Nat /\ DOMAIN pairs = 1..n /\ \A i \in 1..n : pairs[i][1] \in Seq(Byte) /\ pairs[i][2] \in Seq(Byte)
    BY DEF PairLists
<1>2. ParsePairs(e) = [i \in DOMAIN ss |-> <<Decode(K(i)[1], TRUE), Decode(K(i)[2], TRUE)>>]
    BY DEF ParsePairs
<1>3. CASE pairs = <<>>
    <2>1. e = <<>>
        <3>1. PICK f : /\ EncodedPairs(pairs) = f[Len(pairs)] /\ f[0] = {<<>>}
            BY <1>1, PairsLoop
        <3>2. Len(pairs) = 0
            BY <1>3
        <3> QED BY <3>1, <3>2
    <2>2. <<Amp>> \in Seq(Int) /\ <<Amp>> # <<>>
        BY DEF Amp
    <2>3. ss = <<>>
        BY <2>1, <2>2, SplitNothing, DropNothing
    <2> HIDE DEF ss
    <2>4. DOMAIN ss = {} /\ DOMAIN pairs = {}
        BY <1>3, <2>3
    <2> HIDE DEF K
    <2> QED BY <1>2, <2>4 DEF VisiblePairs
<1>4. CASE pairs # <<>>
    <2>1. PICK zs \in Seq(Texts) : /\ SplitOn(e, <<Amp>>) = zs /\ Len(zs) = n
                                   /\ \A i \in 1..n : zs[i] \in EncodedPair(pairs[i])
        BY <1>4, PairsSegments
    <2>2. \A i \in 1..n : zs[i] # <<>>
        BY <1>1, <2>1, PairShape
    <2>3. ss = zs
        BY <2>1, <2>2, AllNonEmpty
    <2>4. DOMAIN ss = 1..n
        BY <2>1, <2>3
    <2>5. ASSUME NEW i \in 1..n
          PROVE  <<Decode(K(i)[1], TRUE), Decode(K(i)[2], TRUE)>> = <<Visible(pairs[i][1]), Visible(pairs[i][2])>>
        <3>1. PICK k, v : /\ SplitPair(zs[i], Equals) = <<k, v>>
                          /\ Decode(k, TRUE) = Visible(pairs[i][1]) /\ Decode(v, TRUE) = Visible(pairs[i][2])
            BY <1>1, <2>1, PairShape
        <3>2. K(i) = <<k, v>>
            BY <2>3, <3>1
        <3>3. K(i)[1] = k /\ K(i)[2] = v
            BY <3>2
        <3> HIDE DEF K
        <3> QED BY <3>1, <3>3
    <2> HIDE DEF K, ss
    <2> QED BY <1>1, <1>2, <2>4, <2>5 DEF VisiblePairs
<1> QED BY <1>3, <1>4

-----------------------------------------------------------------------------
(* UTF-8. *)

\* A character of a text, where it stands.
CharAt(s, j, w) == w \in 1..4 /\ j + w - 1 <= Len(s) /\ IsChar(SubSeq(s, j, j + w - 1))

\* What the first bytes of a character announce.
Announced(a, w) == Width(a) = w /\ a \notin (128..193) \cup (245..255)

LEMMA CharOfOne ==
    ASSUME NEW a \in Int, a \notin 128..255
    PROVE  Announced(a, 1)
BY DEF Announced, Width

\* Of two bytes.
LEMMA CharOfTwo ==
    ASSUME NEW a \in 194..223
    PROVE  Announced(a, 2) /\ Second(a) = Continuation
BY DEF Announced, Width, Second

\* Of three.
LEMMA CharOfThree ==
    ASSUME NEW a, NEW b,
           \/ a = 224 /\ b \in 160..191
           \/ a \in (225..236) \cup {238, 239} /\ b \in Continuation
           \/ a = 237 /\ b \in 128..159
    PROVE  Announced(a, 3) /\ b \in Second(a)
<1>1. CASE a = 224 /\ b \in 160..191
    BY <1>1 DEF Announced, Width, Second
<1>2. CASE a \in (225..236) \cup {238, 239} /\ b \in Continuation
    <2>1. a \in 224..239 /\ a # 224 /\ a # 237
        BY <1>2
    <2> QED BY <1>2, <2>1 DEF Announced, Width, Second
<1>3. CASE a = 237 /\ b \in 128..159
    BY <1>3 DEF Announced, Width, Second
<1> QED BY <1>1, <1>2, <1>3

\* And of four.
LEMMA CharOfFour ==
    ASSUME NEW a, NEW b,
           \/ a = 240 /\ b \in 144..191
           \/ a \in 241..243 /\ b \in Continuation
           \/ a = 244 /\ b \in 128..143
    PROVE  Announced(a, 4) /\ b \in Second(a)
<1>1. CASE a = 240 /\ b \in 144..191
    BY <1>1 DEF Announced, Width, Second
<1>2. CASE a \in 241..243 /\ b \in Continuation
    BY <1>2 DEF Announced, Width, Second
<1>3. CASE a = 244 /\ b \in 128..143
    BY <1>3 DEF Announced, Width, Second
<1> QED BY <1>1, <1>2, <1>3

\* from_utf8_lossy sees a character whole; only its first byte starts one.
LEMMA CharSeen ==
    ASSUME NEW s \in Seq(Int), NEW j \in 1..Len(s), NEW w, CharAt(s, j, w)
    PROVE  Run(s, j) = w /\ Whole(s, j) /\ s[j] \notin Continuation
<1> DEFINE c == SubSeq(s, j, j + w - 1)
<1>1. w \in 1..4 /\ j + w - 1 <= Len(s) /\ IsChar(c)
    BY DEF CharAt
<1>2. j \in 1..Len(s) + 1 /\ j + w - 1 \in j - 1..Len(s) /\ (j + w - 1) - j + 1 = w
    BY <1>1
<1>3. Len(c) = w /\ \A k \in 1..w : c[k] = s[j + k - 1]
    <2>1. Len(c) = (j + w - 1) - j + 1 /\ \A k \in 1..(j + w - 1) - j + 1 : c[k] = s[j + k - 1]
        BY <1>2, SubFacts
    <2> QED BY <1>2, <2>1
<1> HIDE DEF c
<1>4. /\ c[1] = s[j] /\ (w >= 2 => c[2] = s[j + 1]) /\ (w >= 3 => c[3] = s[j + 2])
      /\ (w >= 4 => c[4] = s[j + 3])
    <2>1. /\ 1 \in 1..w /\ (w >= 2 => 2 \in 1..w) /\ (w >= 3 => 3 \in 1..w) /\ (w >= 4 => 4 \in 1..w)
          /\ j + 1 - 1 = j /\ j + 2 - 1 = j + 1 /\ j + 3 - 1 = j + 2 /\ j + 4 - 1 = j + 3
        BY <1>1
    <2> QED BY <1>3, <2>1
<1>5. s[j] \in Int
    OBVIOUS
<1>6. /\ Announced(s[j], w) /\ (w >= 2 => s[j + 1] \in Second(s[j]))
      /\ (w >= 3 => s[j + 2] \in Continuation) /\ (w >= 4 => s[j + 3] \in Continuation)
    <2>0. PICK a, b, d, e : a = c[1] /\ b = c[2] /\ d = c[3] /\ e = c[4]
        OBVIOUS
    <2>9. /\ a = s[j] /\ (w >= 2 => b = s[j + 1]) /\ (w >= 3 => d = s[j + 2]) /\ (w >= 4 => e = s[j + 3])
        BY <1>4, <2>0
    <2>1. CASE w = 1
        <3>1. a \in Int /\ a \notin 128..255
            BY <1>1, <1>3, <1>5, <2>0, <2>1, <2>9 DEF IsChar, IsAscii
        <3>2. Announced(a, 1)
            BY <3>1, CharOfOne
        <3> QED BY <2>1, <2>9, <3>2
    <2>2. CASE w = 2
        <3>1. a \in 194..223 /\ b \in Continuation
            BY <1>1, <1>3, <2>0, <2>2 DEF IsChar
        <3>2. Announced(a, 2) /\ b \in Second(a)
            BY <3>1, CharOfTwo
        <3> QED BY <2>2, <2>9, <3>2
    <2>3. CASE w = 3
        <3>1. /\ d \in Continuation
              /\ \/ a = 224 /\ b \in 160..191
                 \/ a \in (225..236) \cup {238, 239} /\ b \in Continuation
                 \/ a = 237 /\ b \in 128..159
            BY <1>1, <1>3, <2>0, <2>3 DEF IsChar
        <3>3. Announced(a, 3) /\ b \in Second(a)
            BY <3>1, CharOfThree
        <3> QED BY <2>3, <2>9, <3>1, <3>3
    <2>4. CASE w = 4
        <3>1. /\ d \in Continuation /\ e \in Continuation
              /\ \/ a = 240 /\ b \in 144..191
                 \/ a \in 241..243 /\ b \in Continuation
                 \/ a = 244 /\ b \in 128..143
            BY <1>1, <1>3, <2>0, <2>4 DEF IsChar
        <3>3. Announced(a, 4) /\ b \in Second(a)
            BY <3>1, CharOfFour
        <3> QED BY <2>4, <2>9, <3>1, <3>3
    <2> QED BY <1>1, <2>1, <2>2, <2>3, <2>4
<1>7. Fits(s, j, w)
    <2>1. ASSUME NEW l \in 1..w - 1 PROVE s[j + l] \in IF l = 1 THEN Second(s[j]) ELSE Continuation
        <3>1. (l = 1 /\ w >= 2) \/ (l = 2 /\ w >= 3) \/ (l = 3 /\ w >= 4)
            BY <1>1
        <3> QED BY <1>6, <3>1
    <2> QED BY <1>1, <2>1 DEF Fits
<1> DEFINE T == {k \in 1..Width(s[j]) : Fits(s, j, k)}
<1>8. w \in T /\ \A k \in T : k \in Int /\ k <= w
    BY <1>1, <1>6, <1>7 DEF Announced
<1>9. Run(s, j) = Max(T)
    BY DEF Run
<1> HIDE DEF T
<1>10. Max(T) = w
    <2>1. \A x \in T : (\A y \in T : x >= y) => x = w
        BY <1>1, <1>8
    <2>2. \A y \in T : w >= y
        BY <1>1, <1>8
    <2>3. Max(T) \in T /\ \A y \in T : Max(T) >= y
        BY <1>8, <2>2 DEF Max
    <2> QED BY <2>1, <2>3
<1>11. s[j] \notin Continuation
    BY <1>5, <1>6 DEF Continuation, Announced
<1> QED BY <1>6, <1>9, <1>10, <1>11 DEF Whole, Announced

\* Behind the first byte of a run there are only bytes that continue a character.
LEMMA RunContinues ==
    ASSUME NEW s \in Seq(Int), NEW l \in 1..Len(s)
    PROVE  /\ Run(s, l) \in 1..4
           /\ \A k \in 1..Run(s, l) - 1 : s[l + k] \in Continuation
<1> DEFINE T == {k \in 1..Width(s[l]) : Fits(s, l, k)}
<1>1. Run(s, l) = Max(T)
    BY DEF Run
<1>2. Width(s[l]) \in 1..4
    BY DEF Width
<1>3. 1 \in T
    <2>1. l + 1 - 1 <= Len(s) /\ \A k \in 1..1 - 1 : FALSE
        OBVIOUS
    <2> QED BY <1>2, <2>1 DEF Fits
<1>4. \A k \in T : k \in 1..4 /\ Fits(s, l, k)
    BY <1>2
<1> HIDE DEF T
<1>5. PICK x \in T : \A y \in T : x >= y
    <2>1. CASE 4 \in T
        BY <1>4, <2>1
    <2>2. CASE 4 \notin T /\ 3 \in T
        BY <1>4, <2>2
    <2>3. CASE 4 \notin T /\ 3 \notin T /\ 2 \in T
        BY <1>4, <2>3
    <2>4. CASE 4 \notin T /\ 3 \notin T /\ 2 \notin T
        BY <1>3, <1>4, <2>4
    <2> QED BY <2>1, <2>2, <2>3, <2>4
<1>6. Max(T) \in T
    BY <1>5 DEF Max
<1> DEFINE r == Max(T)
<1>7. r \in 1..4 /\ Fits(s, l, r)
    BY <1>4, <1>6
<1>8. Second(s[l]) \subseteq Continuation
    BY DEF Second, Continuation
<1> HIDE DEF r
<1>9. \A k \in 1..r - 1 : s[l + k] \in Continuation
    BY <1>7, <1>8 DEF Fits
<1> QED BY <1>1, <1>7, <1>9 DEF r

\* What is UTF-8 stays as it is.
LEMMA LossyText ==
    ASSUME NEW s \in Seq(Int), IsText(s)
    PROVE  Lossy(s) = s
<1> DEFINE n == Len(s)
           Reach(i) == {j \in 1..i : i < j + Run(s, j)}
           Begin(i) == Min(Reach(i))
           Shown(i) == IF Whole(s, Begin(i)) THEN <<s[i]>>
                       ELSE IF i = Begin(i) THEN Replacement ELSE <<>>
           ss == [i \in DOMAIN s |-> Shown(i)]
<1>1. n \in Nat /\ DOMAIN s = 1..n
    OBVIOUS
<1>2. Lossy(s) = Concat(ss)
    BY DEF Lossy
<1> HIDE DEF n
<1>3. ASSUME NEW i \in 1..n PROVE Whole(s, Begin(i))
    <2>1. PICK j \in 1..i : \E w \in 1..4 : i < j + w /\ j + w - 1 <= Len(s) /\ IsChar(SubSeq(s, j, j + w - 1))
        BY <1>1 DEF IsText
    <2>2. PICK w \in 1..4 : i < j + w /\ j + w - 1 <= Len(s) /\ IsChar(SubSeq(s, j, j + w - 1))
        BY <2>1
    <2>3. j \in 1..Len(s) /\ CharAt(s, j, w)
        BY <1>1, <2>2 DEF CharAt, n
    <2>4. Run(s, j) = w /\ Whole(s, j) /\ s[j] \notin Continuation
        BY <2>3, CharSeen
    <2>5. j \in Reach(i)
        BY <2>2, <2>4
    <2>6. ASSUME NEW l \in Reach(i) PROVE l \in Int /\ j <= l
        <3>1. l \in 1..i /\ i < l + Run(s, l) /\ l \in Int
            OBVIOUS
        <3>2. l \in 1..Len(s)
            BY <1>1, <3>1 DEF n
        <3> SUFFICES ASSUME l < j PROVE FALSE
            BY <3>1
        <3>3. Run(s, l) \in 1..4 /\ \A k \in 1..Run(s, l) - 1 : s[l + k] \in Continuation
            BY <3>2, RunContinues
        <3> DEFINE k == j - l
        <3>4. k \in 1..Run(s, l) - 1 /\ l + k = j
            BY <3>1, <3>3
        <3> HIDE DEF k
        <3>5. s[l + k] \in Continuation
            BY <3>3, <3>4
        <3> QED BY <2>4, <3>4, <3>5
    <2> DEFINE R == Reach(i)
    <2>7. Begin(i) = Min(R)
        OBVIOUS
    <2>8. j \in R /\ \A l \in R : l \in Int /\ j <= l
        BY <2>5, <2>6
    <2> HIDE DEF R, Reach, Begin
    <2>9. Min(R) \in R /\ \A l \in R : Min(R) <= l
        BY <2>8 DEF Min
    <2>10. Min(R) = j
        <3>1. j <= Min(R) /\ Min(R) <= j /\ Min(R) \in Int /\ j \in Int
            BY <2>8, <2>9
        <3> QED BY <3>1
    <2> QED BY <2>4, <2>7, <2>10
<1>4. Len(ss) = n /\ \A i \in 1..n : ss[i] = Shown(i)
    <2> HIDE DEF Shown
    <2> QED BY <1>1
<1>5. \A i \in 1..n : ss[i] = <<s[i]>>
    <2> HIDE DEF Begin, ss
    <2> QED BY <1>3, <1>4
<1> HIDE DEF ss
<1>6. /\ \A i \in 1..Len(ss) : ss[i] = IF i - 0 \in 1..Len(s) THEN <<s[i - 0]>> ELSE <<>>
      /\ Len(ss) \in Nat /\ Len(ss) >= 0 + Len(s) /\ 0 \in Nat
    BY <1>1, <1>4, <1>5 DEF n
<1>7. Concat(ss) = s
    BY <1>6, Gathered
<1> QED BY <1>2, <1>7

\* ASCII is UTF-8.
LEMMA AsciiIsText ==
    ASSUME NEW s \in Seq(Int), Over(s, Ascii)
    PROVE  IsText(s) /\ Lossy(s) = s
<1>1. DOMAIN s = 1..Len(s) /\ Len(s) \in Nat
    OBVIOUS
<1>2. ASSUME NEW i \in 1..Len(s) PROVE IsChar(SubSeq(s, i, i + 1 - 1))
    <2>1. i \in 1..Len(s) + 1 /\ i + 1 - 1 \in i - 1..Len(s) /\ (i + 1 - 1) - i + 1 = 1
        BY <1>1
    <2> DEFINE c == SubSeq(s, i, i + 1 - 1)
    <2>2. Len(c) = (i + 1 - 1) - i + 1 /\ \A k \in 1..(i + 1 - 1) - i + 1 : c[k] = s[i + k - 1]
        BY <2>1, SubFacts
    <2> HIDE DEF c
    <2>3. Len(c) = 1 /\ c[1] = s[i]
        BY <2>1, <2>2
    <2>4. IsAscii(s[i])
        BY <1>1 DEF Over, Ascii, IsAscii
    <2>5. IsChar(c)
        BY <2>3, <2>4 DEF IsChar
    <2> QED BY <2>5 DEF c
<1>3. IsText(s)
    <2> SUFFICES ASSUME NEW i \in 1..Len(s)
                 PROVE  \E j \in 1..i : \E w \in 1..4 :
                            i < j + w /\ j + w - 1 <= Len(s) /\ IsChar(SubSeq(s, j, j + w - 1))
        BY <1>1 DEF IsText
    <2>1. i \in 1..i /\ 1 \in 1..4 /\ i < i + 1 /\ i + 1 - 1 <= Len(s)
        BY <1>1
    <2> QED BY <1>2, <2>1
<1> QED BY <1>3, LossyText

-----------------------------------------------------------------------------
(* Cookies. *)

\* Texts joined by a separator split at it again, the rest of what joins them in
\* front of each.
LEMMA SplitsJoin ==
    ASSUME NEW ss \in Seq(Texts), NEW w \in Seq(Int), w # <<>>, NEW g \in Seq(Int), Len(ss) >= 1,
           Clear(ss[1], w), \A i \in 2..Len(ss) : Clear(g \o ss[i], w)
    PROVE  /\ SplitOn(Join(ss, w \o g), w) = [i \in 1..Len(ss) |-> IF i = 1 THEN ss[1] ELSE g \o ss[i]]
           /\ SplitOn(Join(ss, w \o g), w) \in Seq(Texts)
<1> DEFINE n == Len(ss)
           sep == w \o g
           T(i) == IF i = 1 THEN ss[1] ELSE g \o ss[i]
<1>1. n \in Nat /\ n >= 1 /\ \A i \in 1..n : ss[i] \in Seq(Int)
    BY DEF Texts
<1>2. PICK f : /\ Join(ss, sep) = f[n] /\ f[0] = <<>>
               /\ \A k \in 1..n : f[k] = JoinStep(f[k - 1], ss, sep, k)
    <2>1. Len(ss) \in Nat
        BY <1>1
    <2> HIDE DEF sep
    <2> QED BY <2>1, JoinLoop
<1>3. ASSUME NEW i \in 1..n PROVE T(i) \in Seq(Int) /\ T(i) \in Texts /\ Splits(T(i), <<T(i)>>, w)
    <2>1. T(i) \in Seq(Int)
        BY <1>1
    <2>2. Clear(T(i), w)
        <3>1. i = 1 \/ i \in 2..n
            BY <1>1
        <3> QED BY <3>1
    <2> HIDE DEF T
    <2> QED BY <2>1, <2>2, SplitsPiece DEF Texts
<1> DEFINE Good(x, k) == \E zs \in Seq(Texts) : /\ Splits(x, zs, w) /\ Len(zs) = k
                                               /\ \A i \in 1..k : zs[i] = T(i)
           P == {k \in 0..n : k = 0 \/ Good(f[k], k)}
<1>4. 0 \in P
    BY <1>1
<1>5. ASSUME NEW k \in 1..n, k - 1 \in P PROVE k \in P
    <2>1. k \in 0..n /\ f[k] = JoinStep(f[k - 1], ss, sep, k)
        BY <1>1, <1>2
    <2>2. Good(f[k], k)
        <3>1. CASE k = 1
            <4>1. f[k] = T(1)
                BY <2>1, <3>1 DEF JoinStep
            <4>2. 1 \in 1..n
                BY <1>1
            <4> HIDE DEF T
            <4>3. T(1) \in Texts /\ Splits(T(1), <<T(1)>>, w)
                BY <1>3, <4>2
            <4>4. <<T(1)>> \in Seq(Texts) /\ Len(<<T(1)>>) = 1 /\ \A i \in 1..1 : <<T(1)>>[i] = T(i)
                BY <4>3
            <4> QED BY <3>1, <4>1, <4>3, <4>4
        <3>2. CASE k # 1
            <4>1. k - 1 # 0 /\ Good(f[k - 1], k - 1)
                BY <1>5, <3>2, SMTT(40)
            <4>2. PICK zs \in Seq(Texts) : /\ Splits(f[k - 1], zs, w) /\ Len(zs) = k - 1
                                           /\ \A i \in 1..k - 1 : zs[i] = T(i)
                BY <4>1
            <4>3. PICK a \in Seq(Int), b \in Seq(Int) : a = f[k - 1] /\ b = ss[k]
                BY <1>1, <4>2 DEF Splits
            <4>4. f[k] = (a \o w) \o T(k)
                <5>1. f[k] = (a \o (w \o g)) \o b
                    BY <2>1, <3>2, <4>3 DEF JoinStep
                <5>2. a \o (w \o g) = (a \o w) \o g
                    BY Associative
                <5>3. a \o w \in Seq(Int)
                    OBVIOUS
                <5>4. ((a \o w) \o g) \o b = (a \o w) \o (g \o b)
                    BY <5>3, Associative
                <5>5. T(k) = g \o b
                    BY <3>2, <4>3
                <5> HIDE DEF T
                <5> QED BY <5>1, <5>2, <5>4, <5>5
            <4> DEFINE c == T(k)
            <4>5. c \in Texts /\ Splits(c, <<c>>, w)
                BY <1>3
            <4> HIDE DEF T, c
            <4>6. Splits((a \o w) \o c, zs \o <<c>>, w)
                BY <4>2, <4>3, <4>5, SplitsTogether
            <4>7. /\ zs \o <<c>> \in Seq(Texts) /\ Len(zs \o <<c>>) = k
                  /\ \A i \in 1..k - 1 : (zs \o <<c>>)[i] = zs[i]
                  /\ (zs \o <<c>>)[k] = c
                <5>1. zs \o <<c>> \in Seq(Texts)
                    BY <4>2, <4>5
                <5>2. Len(zs \o <<c>>) = k
                    BY <4>2, <4>5
                <5>3. \A i \in 1..k - 1 : (zs \o <<c>>)[i] = zs[i]
                    BY <4>2, <4>5
                <5>4. (zs \o <<c>>)[k] = c
                    BY <4>2, <4>5
                <5> QED BY <5>1, <5>2, <5>3, <5>4
            <4>8. ASSUME NEW i \in 1..k PROVE (zs \o <<c>>)[i] = T(i)
                <5>1. i \in 1..k - 1 \/ i = k
                    OBVIOUS
                <5> QED BY <4>2, <4>7, <5>1 DEF c
            <4>9. f[k] = (a \o w) \o c
                BY <4>4 DEF c
            <4> QED BY <4>6, <4>7, <4>8, <4>9
        <3> QED BY <3>1, <3>2
    <2> HIDE DEF Good
    <2> QED BY <2>1, <2>2
<1> HIDE DEF P
<1>6. n \in P
    BY <1>1, <1>4, <1>5, UpTo
<1>7. Good(f[n], n)
    BY <1>1, <1>6 DEF P
<1> HIDE DEF T
<1>8. PICK zs \in Seq(Texts) : Splits(f[n], zs, w) /\ Len(zs) = n /\ \A i \in 1..n : zs[i] = T(i)
    BY <1>7
<1>9. zs = [i \in 1..n |-> T(i)]
    BY <1>8
<1>10. SplitOn(f[n], w) = zs
    BY <1>8 DEF Splits
<1> QED BY <1>2, <1>9, <1>10 DEF T

\* What is left when some bytes are trimmed.
LEMMA TrimsTo ==
    ASSUME NEW chars, NEW s \in Seq(Int), NEW a \in 1..Len(s), NEW b \in a..Len(s),
           s[a] \notin chars, s[b] \notin chars,
           \A i \in 1..a - 1 : s[i] \in chars, \A i \in b + 1..Len(s) : s[i] \in chars
    PROVE  TrimOf(s, chars) = SubSeq(s, a, b)
<1> DEFINE ink == {i \in DOMAIN s : s[i] \notin chars}
<1>1. Len(s) \in Nat /\ DOMAIN s = 1..Len(s) /\ a \in Int /\ b \in Int /\ a <= b
    OBVIOUS
<1>2. a \in ink /\ b \in ink
    BY <1>1
<1>3. ASSUME NEW i \in ink PROVE i \in Int /\ a <= i /\ i <= b
    <2>1. i \in 1..Len(s) /\ ~(i \in 1..a - 1) /\ ~(i \in b + 1..Len(s))
        BY <1>1
    <2> HIDE DEF ink
    <2> QED BY <1>1, <2>1
<1>4. TrimOf(s, chars) = IF ink = {} THEN <<>> ELSE SubSeq(s, Min(ink), Max(ink))
    BY DEF TrimOf
<1> HIDE DEF ink
<1>5. Min(ink) = a
    <2>1. \A x \in ink : (\A y \in ink : x <= y) => x = a
        BY <1>1, <1>2, <1>3
    <2>2. Min(ink) \in ink /\ \A y \in ink : Min(ink) <= y
        BY <1>2, <1>3 DEF Min
    <2> QED BY <2>1, <2>2
<1>6. Max(ink) = b
    <2>1. \A x \in ink : (\A y \in ink : x >= y) => x = b
        BY <1>1, <1>2, <1>3
    <2>2. Max(ink) \in ink /\ \A y \in ink : Max(ink) >= y
        <3>1. \A y \in ink : b >= y
            BY <1>1, <1>3
        <3> QED BY <1>2, <3>1 DEF Max
    <2> QED BY <2>1, <2>2
<1>7. ink # {}
    BY <1>2
<1> QED BY <1>4, <1>5, <1>6, <1>7

\* What is left when blanks are trimmed.
LEMMA TrimIs ==
    ASSUME NEW s \in Seq(Int), NEW a \in 1..Len(s), NEW b \in a..Len(s),
           s[a] \notin Blank, s[b] \notin Blank,
           \A i \in 1..a - 1 : s[i] \in Blank, \A i \in b + 1..Len(s) : s[i] \in Blank
    PROVE  Trim(s) = SubSeq(s, a, b)
BY TrimsTo DEF Trim

\* A trimmed text stays as it is.
LEMMA TrimNone ==
    ASSUME NEW s \in Seq(Int), IsTrimmed(s)
    PROVE  Trim(s) = s
<1>1. CASE s = <<>>
    <2>1. {i \in DOMAIN s : s[i] \notin Blank} = {}
        BY <1>1
    <2> QED BY <1>1, <2>1 DEF Trim, TrimOf
<1>2. CASE s # <<>>
    <2>1. Len(s) \in Nat /\ Len(s) >= 1
        BY <1>2
    <2>2. /\ 1 \in 1..Len(s) /\ Len(s) \in 1..Len(s) /\ \A i \in 1..1 - 1 : s[i] \in Blank
          /\ \A i \in Len(s) + 1..Len(s) : s[i] \in Blank
        BY <2>1
    <2>3. s[1] \notin Blank /\ s[Len(s)] \notin Blank
        BY <1>2 DEF IsTrimmed
    <2>4. Trim(s) = SubSeq(s, 1, Len(s))
        BY <2>2, <2>3, TrimIs
    <2>5. SubSeq(s, 1, Len(s)) = s
        OBVIOUS
    <2> QED BY <2>4, <2>5
<1> QED BY <1>1, <1>2

\* A space in front of one goes.
LEMMA TrimSpace ==
    ASSUME NEW s \in Seq(Int), s # <<>>, IsTrimmed(s)
    PROVE  Trim(<<Space>> \o s) = s
<1> DEFINE y == <<Space>>
           t == y \o s
           n == Len(s)
<1>1. n \in Nat /\ n >= 1 /\ y \in Seq(Int) /\ Len(y) = 1 /\ y[1] = Space /\ Space \in Blank
    BY DEF Space, Blank
<1>2. s[1] \notin Blank /\ s[n] \notin Blank
    BY DEF IsTrimmed
<1> HIDE DEF y, n
<1>3. y \in Seq(Int)
    BY <1>1
<1>4. /\ t \in Seq(Int) /\ Len(t) = Len(y) + n
      /\ \A i \in 1..n : t[Len(y) + i] = s[i]
      /\ \A i \in 1..Len(y) : t[i] = y[i]
    BY <1>3, BehindFacts DEF n
<1>5. SubSeq(t, Len(y) + 1, Len(y) + n) = SubSeq(s, 1, n)
    <2>1. 1 \in 1..Len(s) + 1 /\ n \in 1 - 1..Len(s)
        BY <1>1 DEF n
    <2> QED BY <1>3, <2>1, SubBehind
<1>6. SubSeq(s, 1, n) = s
    BY DEF n
<1> HIDE DEF t
<1>7. Trim(t) = SubSeq(t, 2, n + 1)
    <2>1. t \in Seq(Int) /\ 2 \in 1..Len(t) /\ n + 1 \in 2..Len(t)
        BY <1>1, <1>4
    <2>2. t[2] \notin Blank /\ t[n + 1] \notin Blank
        <3>1. t[1 + 1] = s[1] /\ t[1 + n] = s[n] /\ 1 + 1 = 2 /\ 1 + n = n + 1
            BY <1>1, <1>4
        <3> QED BY <1>2, <3>1
    <2>3. \A i \in 1..2 - 1 : t[i] \in Blank
        <3>1. \A i \in 1..2 - 1 : i = 1
            OBVIOUS
        <3>2. t[1] = Space
            BY <1>1, <1>4
        <3> QED BY <1>1, <3>1, <3>2
    <2>4. \A i \in (n + 1) + 1..Len(t) : t[i] \in Blank
        BY <1>1, <1>4
    <2> QED BY <2>1, <2>2, <2>3, <2>4, TrimIs
<1>8. Len(y) + 1 = 2 /\ Len(y) + n = n + 1
    BY <1>1
<1> QED BY <1>5, <1>6, <1>7, <1>8 DEF t, y

\* Two elements, one behind the other.
LEMMA TwoElements ==
    ASSUME NEW a \in Int, NEW b \in Int
    PROVE  <<a>> \o <<b>> = <<a, b>> /\ <<a>> \in Seq(Int) /\ <<a, b>> \in Seq(Int)
<1> DEFINE x == <<a>>
           y == <<b>>
           z == <<a, b>>
           u == x \o y
<1>1. x \in Seq(Int) /\ Len(x) = 1 /\ x[1] = a /\ y \in Seq(Int) /\ Len(y) = 1 /\ y[1] = b
    OBVIOUS
<1>2. z \in Seq(Int) /\ Len(z) = 2 /\ z[1] = a /\ z[2] = b
    OBVIOUS
<1> HIDE DEF x, y, z
<1>3. x \in Seq(Int) /\ y \in Seq(Int)
    BY <1>1
<1>4. /\ u \in Seq(Int) /\ Len(u) = Len(x) + Len(y)
      /\ (\A i \in 1..Len(y) : u[Len(x) + i] = y[i]) /\ \A i \in 1..Len(x) : u[i] = x[i]
    BY <1>3, BehindFacts
<1> HIDE DEF u
<1>5. Len(u) = 2 /\ u[1] = a /\ u[2] = b
    <2>1. u[Len(x) + 1] = y[1] /\ Len(x) + 1 = 2 /\ u[1] = x[1]
        BY <1>1, <1>4
    <2> QED BY <1>1, <1>4, <2>1
<1>6. \A i \in 1..2 : i = 1 \/ i = 2
    OBVIOUS
<1>7. u = z
    BY <1>2, <1>4, <1>5, <1>6, SeqEqual
<1> QED BY <1>1, <1>2, <1>7 DEF x, y, z, u

Crumb(p) == (p[1] \o <<Equals>>) \o p[2]

\* One cookie as it is written.
LEMMA CrumbShape ==
    ASSUME NEW p, p[1] \in Seq(Byte), p[2] \in Seq(Byte), Lacks(p[1], Semi), Lacks(p[1], Equals),
           Lacks(p[2], Semi), IsTrimmed(p[1]), IsTrimmed(p[2])
    PROVE  /\ Crumb(p) \in Seq(Int) /\ Crumb(p) # <<>> /\ IsTrimmed(Crumb(p)) /\ Lacks(Crumb(p), Semi)
           /\ SplitPair(Crumb(p), Equals) = <<p[1], p[2]>>
           /\ Trim(p[1]) = p[1] /\ Trim(p[2]) = p[2]
<1> DEFINE k == p[1]
           v == p[2]
           e == <<Equals>>
           ke == k \o e
           x == ke \o v
<1>1. k \in Seq(Int) /\ v \in Seq(Int)
    BY BytesAreText
<1>2. e \in Seq(Int) /\ Len(e) = 1 /\ e[1] = Equals /\ Lacks(e, Semi) /\ Equals \notin Blank /\ Equals \in Int
    <2>1. Equals \in Int /\ Equals # Semi /\ Equals \notin Blank
        BY DEF Equals, Semi, Blank
    <2>2. Lacks(e, Semi)
        BY <2>1, LacksOne
    <2> QED BY <2>1, <2>2
<1>3. SplitPair(x, Equals) = <<k, v>>
    BY <1>1, <1>2, SplitPairAt
<1>4. Trim(k) = k /\ Trim(v) = v
    BY <1>1, TrimNone
<1>5. Lacks(k, Semi) /\ Lacks(v, Semi) /\ IsTrimmed(k) /\ IsTrimmed(v) /\ Crumb(p) = x
    BY DEF Crumb
<1> HIDE DEF k, v, e
<1>6. /\ ke \in Seq(Int) /\ Len(ke) = Len(k) + Len(e) /\ Len(k) \in Nat
      /\ (\A i \in 1..Len(e) : ke[Len(k) + i] = e[i]) /\ \A i \in 1..Len(k) : ke[i] = k[i]
    <2>1. k \in Seq(Int) /\ e \in Seq(Int)
        BY <1>1, <1>2
    <2> QED BY <2>1, BehindFacts
<1>7. Lacks(ke, Semi)
    <2>1. k \in Seq(Int) /\ e \in Seq(Int)
        BY <1>1, <1>2
    <2> QED BY <1>2, <1>5, <2>1, LacksConcat
<1> HIDE DEF ke
<1>8. /\ x \in Seq(Int) /\ Len(x) = Len(ke) + Len(v) /\ Len(v) \in Nat
      /\ (\A i \in 1..Len(v) : x[Len(ke) + i] = v[i]) /\ \A i \in 1..Len(ke) : x[i] = ke[i]
    <2>1. ke \in Seq(Int) /\ v \in Seq(Int)
        BY <1>1, <1>6
    <2> QED BY <2>1, BehindFacts
<1>9. Lacks(x, Semi)
    BY <1>1, <1>5, <1>6, <1>7, LacksConcat
<1> HIDE DEF x
<1>10. Len(x) = Len(k) + 1 + Len(v) /\ Len(ke) = Len(k) + 1
    BY <1>2, <1>6, <1>8
<1>11. x # <<>>
    <2>1. Len(x) # 0
        BY <1>6, <1>8, <1>10
    <2> QED BY <2>1
<1>12. x[1] \notin Blank
    <2>1. x[1] = ke[1] /\ 1 \in 1..Len(ke)
        <3>1. 1 \in 1..Len(ke)
            BY <1>6, <1>10
        <3> QED BY <1>8, <3>1, Zenon
    <2>2. CASE k = <<>>
        <3>1. Len(k) = 0
            BY <2>2
        <3>2. ke[Len(k) + 1] = e[1]
            BY <1>2, <1>6
        <3>3. Len(k) + 1 = 1
            BY <3>1
        <3> QED BY <1>2, <2>1, <3>2, <3>3
    <2>3. CASE k # <<>>
        <3>1. 1 \in 1..Len(k)
            BY <1>1, <2>3
        <3> QED BY <1>5, <1>6, <2>1, <2>3, <3>1 DEF IsTrimmed
    <2> QED BY <2>2, <2>3
<1>13. x[Len(x)] \notin Blank
    <2>1. CASE v = <<>>
        <3>1. Len(v) = 0
            BY <2>1
        <3>2. Len(x) = Len(k) + 1 /\ Len(x) \in 1..Len(ke)
            BY <1>6, <1>10, <3>1
        <3>3. ke[Len(k) + 1] = e[1]
            BY <1>2, <1>6
        <3>4. x[Len(x)] = ke[Len(k) + 1]
            BY <1>8, <3>2
        <3> QED BY <1>2, <3>3, <3>4
    <2>2. CASE v # <<>>
        <3>1. Len(v) \in 1..Len(v)
            BY <1>1, <2>2
        <3>2. x[Len(ke) + Len(v)] = v[Len(v)]
            BY <1>8, <3>1
        <3> QED BY <1>5, <1>8, <2>2, <3>2 DEF IsTrimmed
    <2> QED BY <2>1, <2>2
<1>14. IsTrimmed(x)
    BY <1>12, <1>13 DEF IsTrimmed
<1>15. SplitPair(x, Equals) = <<k, v>> /\ Crumb(p) = x
    BY <1>3, <1>5 DEF x, ke, e
<1> QED BY <1>4, <1>8, <1>9, <1>11, <1>14, <1>15 DEF k, v

\* collect_cookies finds the cookies of a header as they were meant.
LEMMA CookiesParsed ==
    ASSUME NEW cookies, AreCookies(cookies), cookies # <<>>
    PROVE  ParseCookies(Join([i \in DOMAIN cookies |-> (cookies[i][1] \o <<Equals>>) \o cookies[i][2]],
                             <<Semi, Space>>)) = cookies
<1> DEFINE n == Len(cookies)
           ss == [i \in DOMAIN cookies |-> (cookies[i][1] \o <<Equals>>) \o cookies[i][2]]
           w == <<Semi>>
           g == <<Space>>
           h == Join(ss, <<Semi, Space>>)
           parts == SplitOn(h, w)
           ts == [i \in DOMAIN parts |-> Trim(parts[i])]
           pairs == NonEmpty(ts)
           K(i) == SplitPair(pairs[i], Equals)
<1>1. /\ cookies \in Seq(Seq(HeaderBytes) \X Seq(HeaderBytes))
      /\ n \in Nat /\ n >= 1 /\ DOMAIN cookies = 1..n
    BY DEF AreCookies
<1>2. ASSUME NEW i \in 1..n
      PROVE  /\ ss[i] = Crumb(cookies[i]) /\ Crumb(cookies[i]) \in Seq(Int) /\ Crumb(cookies[i]) # <<>>
             /\ IsTrimmed(Crumb(cookies[i])) /\ Lacks(Crumb(cookies[i]), Semi)
             /\ SplitPair(Crumb(cookies[i]), Equals) = <<cookies[i][1], cookies[i][2]>>
             /\ Trim(cookies[i][1]) = cookies[i][1] /\ Trim(cookies[i][2]) = cookies[i][2]
             /\ cookies[i] = <<cookies[i][1], cookies[i][2]>>
    <2> DEFINE p == cookies[i]
    <2>1. p \in Seq(HeaderBytes) \X Seq(HeaderBytes)
        BY <1>1
    <2>6. p[1] \in Seq(HeaderBytes) /\ p[2] \in Seq(HeaderBytes) /\ p = <<p[1], p[2]>>
        BY <2>1
    <2>7. \A x \in Seq(HeaderBytes) : x \in Seq(Byte)
        <3>1. \A b \in HeaderBytes : b \in Byte
            BY DEF HeaderBytes, Byte
        <3> QED BY <3>1
    <2>2. p[1] \in Seq(Byte) /\ p[2] \in Seq(Byte) /\ p = <<p[1], p[2]>>
        BY <2>6, <2>7
    <2>3. /\ Lacks(p[1], Semi) /\ Lacks(p[1], Equals) /\ Lacks(p[2], Semi)
          /\ IsTrimmed(p[1]) /\ IsTrimmed(p[2])
        BY <1>1 DEF AreCookies
    <2>4. ss[i] = Crumb(p)
        BY <1>1 DEF Crumb
    <2> HIDE DEF p, ss
    <2>5. /\ Crumb(p) \in Seq(Int) /\ Crumb(p) # <<>> /\ IsTrimmed(Crumb(p)) /\ Lacks(Crumb(p), Semi)
          /\ SplitPair(Crumb(p), Equals) = <<p[1], p[2]>>
          /\ Trim(p[1]) = p[1] /\ Trim(p[2]) = p[2]
        BY <2>2, <2>3, CrumbShape
    <2> QED BY <2>2, <2>4, <2>5 DEF p
<1>3. Len(ss) = n /\ DOMAIN ss = 1..n
    BY <1>1
<1>4. ParseCookies(h) = [i \in DOMAIN pairs |-> <<Trim(K(i)[1]), Trim(K(i)[2])>>]
    BY DEF ParseCookies
<1> HIDE DEF ss
<1>5. ss \in Seq(Texts)
    <2>1. \A i \in 1..n : ss[i] \in Texts
        BY <1>2 DEF Texts
    <2>2. ss = [i \in 1..n |-> ss[i]]
        BY <1>3 DEF ss
    <2> HIDE DEF n
    <2>3. [i \in 1..n |-> ss[i]] \in Seq(Texts)
        BY <1>1, <2>1, IsASeq
    <2> QED BY <2>2, <2>3
<1>6. /\ w \in Seq(Int) /\ w # <<>> /\ g \in Seq(Int) /\ w \o g = <<Semi, Space>> /\ Semi \in Int /\ Lacks(g, Semi)
    <2>1. Semi \in Int /\ Space \in Int /\ Space # Semi
        BY DEF Semi, Space
    <2>2. Lacks(g, Semi)
        BY <2>1, LacksOne
    <2>3. w \o g = <<Semi, Space>>
        BY <2>1, TwoElements
    <2> QED BY <2>1, <2>2, <2>3
<1>7. parts = [i \in 1..n |-> IF i = 1 THEN ss[1] ELSE g \o ss[i]]
    <2>1. Clear(ss[1], w)
        <3>1. 1 \in 1..n
            BY <1>1
        <3>2. ss[1] \in Seq(Int) /\ Lacks(ss[1], Semi)
            BY <1>2, <3>1
        <3> QED BY <1>6, <3>2, ClearOfByte
    <2>2. ASSUME NEW i \in 2..n PROVE Clear(g \o ss[i], w)
        <3>1. i \in 1..n
            BY <1>1
        <3>2. ss[i] \in Seq(Int) /\ Lacks(ss[i], Semi)
            BY <1>2, <3>1
        <3>3. g \o ss[i] \in Seq(Int) /\ Lacks(g \o ss[i], Semi)
            <4> HIDE DEF g
            <4> QED BY <1>6, <3>2, LacksConcat
        <3> HIDE DEF g
        <3> QED BY <1>6, <3>3, ClearOfByte
    <2> HIDE DEF w, g
    <2>3. Len(ss) >= 1
        BY <1>1, <1>3
    <2>4. SplitOn(Join(ss, w \o g), w) = [i \in 1..Len(ss) |-> IF i = 1 THEN ss[1] ELSE g \o ss[i]]
        BY <1>3, <1>5, <1>6, <2>1, <2>2, <2>3, SplitsJoin
    <2> QED BY <1>3, <1>6, <2>4
<1> HIDE DEF h, w, parts
<1>8. ASSUME NEW i \in 1..n PROVE i \in DOMAIN parts /\ ts[i] = Crumb(cookies[i])
    <2>1. i \in DOMAIN parts /\ ts[i] = Trim(parts[i]) /\ parts[i] = IF i = 1 THEN ss[1] ELSE g \o ss[i]
        BY <1>7
    <2>2. Trim(ss[i]) = ss[i] /\ Trim(g \o ss[i]) = ss[i]
        BY <1>2, TrimNone, TrimSpace
    <2> QED BY <1>2, <2>1, <2>2
<1>9. ts = [i \in 1..n |-> ts[i]] /\ Len(ts) = n
    <2>1. DOMAIN parts = 1..n
        BY <1>7
    <2> QED BY <1>1, <2>1
<1> HIDE DEF ts, g
<1>10. pairs = ts
    <2>1. \A i \in 1..n : ts[i] \in Texts /\ ts[i] # <<>>
        BY <1>2, <1>8 DEF Texts
    <2> HIDE DEF n
    <2>2. [i \in 1..n |-> ts[i]] \in Seq(Texts)
        BY <1>1, <2>1, IsASeq
    <2>3. ts \in Seq(Texts)
        BY <1>9, <2>2
    <2> QED BY <1>9, <2>1, <2>3, AllNonEmpty
<1> HIDE DEF pairs
<1>11. DOMAIN pairs = 1..n
    BY <1>9, <1>10
<1>12. ASSUME NEW i \in 1..n PROVE <<Trim(K(i)[1]), Trim(K(i)[2])>> = cookies[i]
    <2>1. K(i) = <<cookies[i][1], cookies[i][2]>>
        BY <1>2, <1>8, <1>10
    <2>2. K(i)[1] = cookies[i][1] /\ K(i)[2] = cookies[i][2]
        BY <2>1
    <2> HIDE DEF K
    <2> QED BY <1>2, <2>2
<1> HIDE DEF K
<1>13. ParseCookies(h) = [i \in 1..n |-> cookies[i]]
    BY <1>4, <1>11, <1>12
<1>14. cookies = [i \in 1..n |-> cookies[i]]
    BY <1>1
<1> QED BY <1>13, <1>14 DEF h, ss

\* Joined texts lie in a set that the separator lies in if each of them does.
LEMMA OverJoin ==
    ASSUME NEW ss \in Seq(Texts), Len(ss) >= 1, NEW sep \in Seq(Int), NEW S, Over(sep, S)
    PROVE  Over(Join(ss, sep), S) <=> \A i \in 1..Len(ss) : Over(ss[i], S)
<1> DEFINE n == Len(ss)
<1>1. n \in Nat /\ n >= 1 /\ \A i \in 1..n : ss[i] \in Seq(Int)
    BY DEF Texts
<1>2. PICK f : /\ Join(ss, sep) = f[n] /\ f[0] = <<>>
               /\ \A k \in 1..n : f[k] = JoinStep(f[k - 1], ss, sep, k)
    BY <1>1, JoinLoop
<1> HIDE DEF n
<1> DEFINE Q(k) == f[k] \in Seq(Int) /\ (Over(f[k], S) <=> \A i \in 1..k : Over(ss[i], S))
           P == {k \in 0..n : Q(k)}
<1>3. 0 \in P
    <2>1. <<>> \in Seq(Int) /\ Over(<<>>, S) /\ 0 \in 0..n /\ \A i \in 1..0 : FALSE
        BY <1>1 DEF Over
    <2> QED BY <1>2, <2>1
<1>4. ASSUME NEW k \in 1..n, k - 1 \in P PROVE k \in P
    <2>1. k \in 0..n /\ f[k] = JoinStep(f[k - 1], ss, sep, k) /\ ss[k] \in Seq(Int)
        BY <1>1, <1>2
    <2>2. Q(k - 1)
        BY <1>4
    <2>3. CASE k = 1
        <3>1. f[k] = ss[k]
            BY <2>1, <2>3 DEF JoinStep
        <3>2. \A i \in 1..k : i = k
            BY <2>3
        <3>3. k \in 1..k
            BY <1>1
        <3>4. Q(k)
            BY <2>1, <3>1, <3>2, <3>3
        <3> QED BY <2>1, <3>4
    <2>4. CASE k # 1
        <3> DEFINE x == f[k - 1]
                   y == ss[k]
                   xs == x \o sep
        <3>1. f[k] = xs \o y
            BY <2>1, <2>4 DEF JoinStep
        <3>2. x \in Seq(Int) /\ y \in Seq(Int) /\ (Over(x, S) <=> \A i \in 1..k - 1 : Over(ss[i], S))
            BY <2>1, <2>2
        <3> HIDE DEF x, y
        <3>3. xs \in Seq(Int) /\ (Over(xs, S) <=> Over(x, S))
            BY <3>2, OverConcat
        <3> HIDE DEF xs
        <3>4. xs \o y \in Seq(Int) /\ (Over(xs \o y, S) <=> Over(x, S) /\ Over(y, S))
            BY <3>2, <3>3, OverConcat
        <3>5. \A i : i \in 1..k <=> i \in 1..k - 1 \/ i = k
            BY <1>1
        <3>6. Q(k)
            BY <3>1, <3>2, <3>4, <3>5 DEF y
        <3> QED BY <2>1, <3>6
    <2> QED BY <2>3, <2>4
<1> HIDE DEF P
<1>5. n \in P
    BY <1>1, <1>3, <1>4, UpTo
<1> QED BY <1>2, <1>5 DEF P, n

\* A cookie header is a string exactly if its names and values are.
LEMMA CookieHeader ==
    ASSUME NEW cookies, AreCookies(cookies), cookies # <<>>
    PROVE  ToStr(Join([i \in DOMAIN cookies |-> (cookies[i][1] \o <<Equals>>) \o cookies[i][2]],
                      <<Semi, Space>>))
           <=> \A i \in DOMAIN cookies : ToStr(cookies[i][1]) /\ ToStr(cookies[i][2])
<1> DEFINE n == Len(cookies)
           S == 32..126 \cup {9}
           ss == [i \in DOMAIN cookies |-> (cookies[i][1] \o <<Equals>>) \o cookies[i][2]]
           sep == <<Semi, Space>>
<1>1. /\ cookies \in Seq(Seq(HeaderBytes) \X Seq(HeaderBytes))
      /\ n \in Nat /\ n >= 1 /\ DOMAIN cookies = 1..n
    BY DEF AreCookies
<1>2. \A x : ToStr(x) <=> Over(x, S)
    BY DEF ToStr, Over
<1>3. /\ <<Equals>> \in Seq(Int) /\ Over(<<Equals>>, S) /\ sep \in Seq(Int) /\ Over(sep, S)
    BY DEF Equals, Semi, Space, Over
<1> HIDE DEF S, sep
<1>4. ASSUME NEW i \in 1..n
      PROVE  ss[i] \in Seq(Int) /\ (Over(ss[i], S) <=> Over(cookies[i][1], S) /\ Over(cookies[i][2], S))
    <2> DEFINE x == cookies[i][1]
               y == cookies[i][2]
               q == <<Equals>>
               xq == x \o q
    <2>1. cookies[i] \in Seq(HeaderBytes) \X Seq(HeaderBytes)
        BY <1>1
    <2>2. x \in Seq(HeaderBytes) /\ y \in Seq(HeaderBytes)
        BY <2>1
    <2>3. \A b \in HeaderBytes : b \in Int
        BY DEF HeaderBytes
    <2>4. x \in Seq(Int) /\ y \in Seq(Int)
        BY <2>2, <2>3
    <2>5. ss[i] = xq \o y
        BY <1>1
    <2>6. q \in Seq(Int) /\ Over(q, S)
        BY <1>3
    <2> HIDE DEF q, x, y, ss
    <2>7. xq \in Seq(Int) /\ (Over(xq, S) <=> Over(x, S))
        BY <2>4, <2>6, OverConcat
    <2> HIDE DEF xq
    <2>8. xq \o y \in Seq(Int) /\ (Over(xq \o y, S) <=> Over(x, S) /\ Over(y, S))
        BY <2>4, <2>7, OverConcat
    <2> QED BY <2>5, <2>8 DEF x, y
<1>5. Len(ss) = n /\ ss = [i \in 1..n |-> ss[i]]
    <2> DEFINE E(i) == (cookies[i][1] \o <<Equals>>) \o cookies[i][2]
    <2>1. ss = [i \in DOMAIN cookies |-> E(i)]
        OBVIOUS
    <2> HIDE DEF E, ss, n
    <2> QED BY <1>1, <2>1
<1> HIDE DEF ss, n
<1>6. ss \in Seq(Texts)
    <2>1. \A i \in 1..n : ss[i] \in Texts
        BY <1>4 DEF Texts
    <2>2. [i \in 1..n |-> ss[i]] \in Seq(Texts)
        BY <1>1, <2>1, IsASeq
    <2> QED BY <1>5, <2>2
<1>7. Over(Join(ss, sep), S) <=> \A i \in 1..Len(ss) : Over(ss[i], S)
    BY <1>1, <1>3, <1>5, <1>6, OverJoin
<1>8. ToStr(Join(ss, sep)) <=> \A i \in DOMAIN cookies : ToStr(cookies[i][1]) /\ ToStr(cookies[i][2])
    BY <1>1, <1>2, <1>4, <1>5, <1>7
<1> QED BY <1>8 DEF ss, sep

-----------------------------------------------------------------------------
(* JSON documents. *)

DottedStep(acc, keys, i) == IF acc = <<>> THEN keys[i] ELSE acc \o <<Dot>> \o keys[i]
IsDotted(f, keys, n) == f = [i \in 0..n |-> IF i = 0 THEN <<>> ELSE DottedStep(f[i - 1], keys, i)]

\* The prefix flatten_json builds is the keys joined by dots.
LEMMA DottedIsJoined ==
    ASSUME NEW keys \in Seq(Seq(Byte)), keys # <<>> => keys[1] # <<>>
    PROVE  DottedPath(keys) = Join(keys, <<Dot>>)
<1> DEFINE n == Len(keys)
           sep == <<Dot>>
<1>1. n \in Nat /\ \A i \in 1..n : keys[i] \in Seq(Byte)
    OBVIOUS
<1>2. \A i \in 1..n : keys[i] \in Seq(Int)
    BY <1>1, BytesAreText
<1>3. sep \in Seq(Int) /\ Len(sep) = 1
    BY DEF Dot
<1>4. PICK f : /\ Join(keys, sep) = f[n] /\ f[0] = <<>>
               /\ \A k \in 1..n : f[k] = JoinStep(f[k - 1], keys, sep, k)
    <2>1. Len(keys) \in Nat
        BY <1>1
    <2> HIDE DEF sep
    <2> QED BY <2>1, JoinLoop
<1>5. n >= 1 => keys[1] # <<>>
    OBVIOUS
<1> HIDE DEF n
<1> DEFINE P == {k \in 0..n : f[k] \in Seq(Int) /\ (k >= 1 => f[k] # <<>>)}
<1>6. 0 \in P
    <2>1. <<>> \in Seq(Int) /\ 0 \in 0..n /\ ~(0 >= 1)
        BY <1>1
    <2> QED BY <1>4, <2>1
<1>7. ASSUME NEW k \in 1..n, k - 1 \in P PROVE k \in P
    <2>1. f[k] = JoinStep(f[k - 1], keys, sep, k) /\ k \in 0..n /\ f[k - 1] \in Seq(Int)
        BY <1>1, <1>4, <1>7
    <2>2. CASE k = 1
        <3>1. f[k] = keys[1] /\ 1 \in 1..n /\ n >= 1
            BY <1>1, <2>1, <2>2 DEF JoinStep
        <3> QED BY <1>2, <1>5, <2>1, <3>1
    <2>3. CASE k # 1
        <3>1. f[k] = (f[k - 1] \o sep) \o keys[k]
            BY <2>1, <2>3 DEF JoinStep
        <3>2. PICK a \in Seq(Int), b \in Seq(Int) : a = f[k - 1] /\ b = keys[k]
            BY <1>2, <2>1
        <3> HIDE DEF sep
        <3>3. a \o sep \in Seq(Int) /\ Len(a \o sep) = Len(a) + Len(sep) /\ Len(a) \in Nat
            <4>1. sep \in Seq(Int)
                BY <1>3
            <4> QED BY <4>1, ConcatFacts
        <3> DEFINE c == a \o sep
        <3>4. c \o b \in Seq(Int) /\ Len(c \o b) = Len(c) + Len(b) /\ Len(b) \in Nat
            <4>1. c \in Seq(Int)
                BY <3>3
            <4> HIDE DEF c
            <4> QED BY <4>1, ConcatFacts
        <3>5. Len(c) >= 1 /\ Len(c) \in Nat
            BY <1>3, <3>3
        <3> HIDE DEF c
        <3>6. Len(c \o b) >= 1
            BY <3>4, <3>5
        <3>7. c \o b # <<>>
            BY <3>6
        <3>8. f[k] = c \o b
            BY <3>1, <3>2 DEF c
        <3> QED BY <2>1, <3>4, <3>7, <3>8
    <2> QED BY <2>2, <2>3
<1> HIDE DEF P
<1>8. \A k \in 0..n : k \in P
    BY <1>1, <1>6, <1>7, UpTo
<1>9. \A k \in 1..n : f[k] = DottedStep(f[k - 1], keys, k)
    <2>1. ASSUME NEW k \in 1..n PROVE f[k] = DottedStep(f[k - 1], keys, k)
        <3>1. k - 1 \in 0..n /\ k \in Int /\ f[k] = JoinStep(f[k - 1], keys, sep, k)
            BY <1>1, <1>4, SMTT(40)
        <3>2. CASE k = 1
            BY <1>4, <3>1, <3>2 DEF JoinStep, DottedStep
        <3>3. CASE k # 1
            <4>1. k - 1 >= 1 /\ k - 1 \in P
                BY <1>8, <3>1, <3>3
            <4>2. f[k - 1] # <<>>
                BY <4>1 DEF P
            <4> QED BY <3>1, <3>3, <4>2 DEF JoinStep, DottedStep
        <3> QED BY <3>2, <3>3
    <2> QED BY <2>1
<1> DEFINE g == [k \in 0..n |-> f[k]]
           h == CHOOSE x : IsDotted(x, keys, n)
<1>10. IsDotted(g, keys, n)
    <2>1. \A k \in 0..n : g[k] = IF k = 0 THEN <<>> ELSE DottedStep(g[k - 1], keys, k)
        <3>1. \A k \in 0..n : k = 0 \/ (k \in 1..n /\ k - 1 \in 0..n)
            BY <1>1
        <3>2. \A k \in 0..n : g[k] = f[k]
            OBVIOUS
        <3> HIDE DEF g
        <3> QED BY <1>4, <1>9, <3>1, <3>2
    <2>2. g = [k \in 0..n |-> g[k]]
        OBVIOUS
    <2> HIDE DEF g
    <2> QED BY <2>1, <2>2 DEF IsDotted
<1>11. IsDotted(h, keys, n)
    BY <1>10
<1>12. DottedPath(keys) = h[n]
    BY DEF DottedPath, IsDotted, DottedStep, n
<1> HIDE DEF h
<1> DEFINE Q == {k \in 0..n : h[k] = f[k]}
<1>13. h[0] = <<>> /\ \A k \in 1..n : h[k] = DottedStep(h[k - 1], keys, k)
    <2>1. 0 \in 0..n /\ \A k \in 1..n : k \in 0..n /\ k # 0
        BY <1>1
    <2> QED BY <1>11, <2>1 DEF IsDotted
<1>14. 0 \in Q
    BY <1>1, <1>4, <1>13
<1>15. ASSUME NEW k \in 1..n, k - 1 \in Q PROVE k \in Q
    <2>1. k \in 0..n
        BY <1>1
    <2> QED BY <1>9, <1>13, <1>15, <2>1
<1> HIDE DEF Q
<1>16. n \in Q
    BY <1>1, <1>14, <1>15, UpTo
<1> QED BY <1>4, <1>12, <1>16 DEF Q

\* The leaves of a document in some order.
LEMMA PathsOfLeaves ==
    ASSUME NEW S, IsFiniteSet(S)
    PROVE  SetToSeq(S) \in [1..Cardinality(S) -> S] /\ Cardinality(S) \in Nat
<1>1. Cardinality(S) \in Nat /\ ExistsBijection(1..Cardinality(S), S)
    BY FS_CardinalityType
<1>2. PICK f : f \in Bijection(1..Cardinality(S), S)
    BY <1>1 DEF ExistsBijection
<1>3. f \in [1..Cardinality(S) -> S] /\ IsInjective(f)
    BY <1>2 DEF Bijection, Injection
<1> QED BY <1>1, <1>3 DEF SetToSeq

\* parse_json_args finds the leaves of a document, each by its path.
LEMMA LeavesParsed ==
    ASSUME NEW leaves, AreLeaves(leaves)
    PROVE  LeafArgs(leaves) = LET paths == SetToSeq(DOMAIN leaves)
                              IN [i \in DOMAIN paths |-> <<Join(paths[i], <<Dot>>), leaves[paths[i]]>>]
<1> DEFINE S == DOMAIN leaves
           n == Cardinality(S)
           paths == SetToSeq(S)
           A(i) == <<DottedPath(paths[i]), leaves[paths[i]]>>
<1>1. paths \in [1..n -> S] /\ n \in Nat
    BY PathsOfLeaves DEF AreLeaves
<1>2. LeafArgs(leaves) = [i \in DOMAIN paths |-> A(i)]
    BY DEF LeafArgs
<1> HIDE DEF paths, n
<1>3. \A i \in 1..n : DottedPath(paths[i]) = Join(paths[i], <<Dot>>)
    <2>1. \A i \in 1..n : paths[i] \in DOMAIN leaves
        BY <1>1
    <2>2. \A i \in 1..n : paths[i] \in Seq(Seq(Byte)) /\ (paths[i] # <<>> => paths[i][1] # <<>>)
        BY <2>1 DEF AreLeaves
    <2> QED BY <2>2, DottedIsJoined
<1>4. DOMAIN paths = 1..n
    BY <1>1
<1>5. LeafArgs(leaves) = [i \in DOMAIN paths |-> <<Join(paths[i], <<Dot>>), leaves[paths[i]]>>]
    BY <1>2, <1>3, <1>4
<1> QED BY <1>5 DEF paths

-----------------------------------------------------------------------------
(* Multipart bodies. *)

\* The two parts of a concatenation.
LEMMA FrontOf ==
    ASSUME NEW a \in Seq(Int), NEW b \in Seq(Int)
    PROVE  SubSeq(a \o b, 1, Len(a)) = a
<1> DEFINE s == a \o b
           n == Len(a)
           q == SubSeq(s, 1, n)
<1>1. s \in Seq(Int) /\ Len(s) = n + Len(b) /\ n \in Nat /\ Len(b) \in Nat /\ \A i \in 1..n : s[i] = a[i]
    BY ConcatFacts
<1> HIDE DEF s
<1>2. s \in Seq(Int) /\ 1 \in 1..Len(s) + 1 /\ n \in 1 - 1..Len(s) /\ n - 1 + 1 = n
    BY <1>1
<1>3. q \in Seq(Int) /\ Len(q) = n - 1 + 1 /\ \A i \in 1..n - 1 + 1 : q[i] = s[1 + i - 1]
    <2>1. s \in Seq(Int) /\ 1 \in 1..Len(s) + 1 /\ n \in 1 - 1..Len(s)
        BY <1>2
    <2> QED BY <2>1, SubFacts
<1> HIDE DEF q
<1>4. \A i \in 1..n : 1 + i - 1 = i
    BY <1>1
<1>5. Len(q) = Len(a) /\ \A i \in 1..Len(q) : q[i] = a[i]
    BY <1>1, <1>2, <1>3, <1>4, SMTT(40)
<1>6. q = a
    BY <1>3, <1>5, SeqEqual
<1> QED BY <1>6 DEF q, s

\* The rest of a concatenation is its second text.
LEMMA BackOf ==
    ASSUME NEW a \in Seq(Int), NEW b \in Seq(Int)
    PROVE  SubSeq(a \o b, Len(a) + 1, Len(a \o b)) = b
<1>1. 1 \in 1..Len(b) + 1 /\ Len(b) \in 1 - 1..Len(b) /\ Len(a \o b) = Len(a) + Len(b)
    BY ConcatFacts
<1>2. SubSeq(a \o b, Len(a) + 1, Len(a) + Len(b)) = SubSeq(b, 1, Len(b))
    BY <1>1, SubBehind
<1>3. SubSeq(b, 1, Len(b)) = b
    OBVIOUS
<1> QED BY <1>1, <1>2, <1>3

\* A prefix and a suffix are stripped.
LEMMA StripFront ==
    ASSUME NEW a \in Seq(Int), NEW b \in Seq(Int)
    PROVE  IsPrefix(a, a \o b) /\ StripPrefix(a \o b, a) = b
<1>1. Len(a) <= Len(a \o b)
    BY ConcatFacts
<1>2. SubSeq(a, 1, Len(a)) = a
    OBVIOUS
<1>3. IsPrefix(a, a \o b)
    BY <1>1, <1>2, FrontOf DEF IsPrefix
<1> QED BY <1>3, BackOf DEF StripPrefix

\* strip_suffix takes off what was put behind.
LEMMA StripBack ==
    ASSUME NEW a \in Seq(Int), NEW b \in Seq(Int)
    PROVE  StripSuffix(a \o b, b) = a
<1> DEFINE s == a \o b
           n == Len(b)
           r == Reverse(s)
           t == Reverse(b)
<1>1. /\ s \in Seq(Int) /\ Len(s) = Len(a) + n /\ Len(a) \in Nat /\ n \in Nat
      /\ \A i \in 1..n : s[Len(a) + i] = b[i]
    BY BehindFacts
<1>2. Len(s) - n = Len(a) /\ SubSeq(s, 1, Len(a)) = a
    BY <1>1, FrontOf
<1> HIDE DEF s
<1>3. t = [i \in 1..n |-> b[(n - i) + 1]] /\ r = [i \in 1..Len(s) |-> s[(Len(s) - i) + 1]]
    BY DEF Reverse
<1>4. t \in Seq(Int) /\ Len(t) = n /\ \A i \in 1..n : t[i] = b[(n - i) + 1]
    <2>1. \A i \in 1..n : (n - i) + 1 \in 1..n
        BY <1>1
    <2>2. \A i \in 1..n : b[(n - i) + 1] \in Int
        BY <2>1
    <2> HIDE DEF n, t
    <2> QED BY <1>1, <1>3, <2>2
<1>5. r \in Seq(Int) /\ Len(r) = Len(s) /\ \A i \in 1..Len(s) : r[i] = s[(Len(s) - i) + 1]
    <2> DEFINE m == Len(s)
    <2>1. \A i \in 1..m : (m - i) + 1 \in 1..m
        BY <1>1
    <2>2. \A i \in 1..m : s[(m - i) + 1] \in Int
        BY <1>1, <2>1
    <2>3. m \in Nat
        BY <1>1
    <2> HIDE DEF m, r
    <2>4. r = [i \in 1..m |-> s[(m - i) + 1]]
        BY <1>3 DEF m
    <2>5. r \in Seq(Int) /\ Len(r) = m /\ \A i \in 1..m : r[i] = s[(m - i) + 1]
        BY <2>2, <2>3, <2>4
    <2> QED BY <2>5 DEF m
<1> HIDE DEF r, t
<1>6. \A i \in 1..n : r[i] = t[i]
    <2>1. ASSUME NEW i \in 1..n PROVE r[i] = t[i]
        <3>1. (Len(s) - i) + 1 = Len(a) + ((n - i) + 1) /\ (n - i) + 1 \in 1..n /\ i \in 1..Len(s)
            BY <1>1
        <3>2. s[Len(a) + ((n - i) + 1)] = b[(n - i) + 1]
            BY <1>1, <3>1
        <3> QED BY <1>4, <1>5, <3>1, <3>2
    <2> QED BY <2>1
<1>7. SubSeq(t, 1, n) = SubSeq(r, 1, n)
    <2> DEFINE u == SubSeq(t, 1, n)
               v == SubSeq(r, 1, n)
    <2>1. 1 \in 1..Len(t) + 1 /\ n \in 1 - 1..Len(t) /\ 1 \in 1..Len(r) + 1 /\ n \in 1 - 1..Len(r) /\ n - 1 + 1 = n
        BY <1>1, <1>4, <1>5
    <2>2. t \in Seq(Int) /\ r \in Seq(Int)
        BY <1>4, <1>5
    <2>3. u \in Seq(Int) /\ Len(u) = n - 1 + 1 /\ \A i \in 1..n - 1 + 1 : u[i] = t[1 + i - 1]
        BY <2>1, <2>2, SubFacts
    <2>4. v \in Seq(Int) /\ Len(v) = n - 1 + 1 /\ \A i \in 1..n - 1 + 1 : v[i] = r[1 + i - 1]
        BY <2>1, <2>2, SubFacts
    <2> HIDE DEF u, v
    <2>5. \A i \in 1..n : 1 + i - 1 = i
        BY <1>1
    <2>6. Len(u) = Len(v) /\ \A i \in 1..Len(u) : u[i] = v[i]
        BY <1>6, <2>1, <2>3, <2>4, <2>5
    <2>7. u = v
        BY <2>3, <2>4, <2>6, SeqEqual
    <2> QED BY <2>7 DEF u, v
<1>8. n <= Len(s)
    BY <1>1
<1>9. IsSuffix(b, s)
    BY <1>4, <1>5, <1>7, <1>8 DEF IsSuffix, IsPrefix, r, t
<1>10. StripSuffix(s, b) = SubSeq(s, 1, Len(s) - Len(b))
    BY <1>9 DEF StripSuffix
<1> QED BY <1>2, <1>10 DEF s

\* A word occurs in front of what follows it.
LEMMA OccursFront ==
    ASSUME NEW w \in Seq(Int), NEW r \in Seq(Int)
    PROVE  OccursAt(w, w \o r, 1)
<1>1. 1 + Len(w) - 1 = Len(w) /\ Len(w) <= Len(w \o r)
    BY ConcatFacts
<1> QED BY <1>1, FrontOf DEF OccursAt

\* Texts in which no occurrence starts compose.
LEMMA ClearConcat ==
    ASSUME NEW x \in Seq(Int), NEW y \in Seq(Int), NEW w \in Seq(Int), w # <<>>, Clear(x, w), Clear(y, w)
    PROVE  Clear(x \o y, w)
<1> SUFFICES ASSUME NEW t \in Seq(Int), NEW j \in 1..Len(x \o y), OccursAt(w, (x \o y) \o t, j) PROVE FALSE
    BY DEF Clear
<1> DEFINE yt == y \o t
<1>1. (x \o y) \o t = x \o yt
    BY Associative, Zenon
<1>2. yt \in Seq(Int) /\ Len(yt) = Len(y) + Len(t) /\ Len(t) \in Nat
    BY ConcatFacts
<1>3. Len(x \o y) = Len(x) + Len(y) /\ Len(x) \in Nat /\ Len(y) \in Nat
    BY ConcatFacts
<1>4. OccursAt(w, x \o yt, j)
    BY <1>1
<1>5. CASE j <= Len(x)
    <2>1. j \in 1..Len(x)
        BY <1>3, <1>5
    <2> HIDE DEF yt
    <2> QED BY <1>2, <1>4, <2>1 DEF Clear
<1>6. CASE ~(j <= Len(x))
    <2> DEFINE i == j - Len(x)
    <2>1. i \in 1..Len(y) /\ j = Len(x) + i /\ i \in 1..Len(yt) + 1
        BY <1>2, <1>3, <1>6
    <2> HIDE DEF i
    <2>2. yt \in Seq(Int) /\ i \in 1..Len(yt) + 1
        BY <1>2, <2>1
    <2>3. OccursAt(w, x \o yt, Len(x) + i) <=> OccursAt(w, yt, i)
        <3> HIDE DEF yt
        <3> QED BY <2>2, OccursBehind
    <2>4. OccursAt(w, yt, i)
        BY <1>4, <2>1, <2>3
    <2> QED BY <2>1, <2>4 DEF Clear
<1> QED BY <1>5, <1>6

\* The end of a line.
LEMMA LineEnd ==
    /\ CRLF \in Seq(Int) /\ CRLF # <<>> /\ Len(CRLF) = 2 /\ CRLF[1] = CR /\ CRLF[2] = LF
    /\ Lacks(CRLF, Dash) /\ CR \in Int /\ LF \in Int /\ CR # LF /\ CR # Dash /\ LF # Dash
<1>1. CRLF = <<CR, LF>> /\ CR \in Int /\ LF \in Int /\ CR # LF /\ CR # Dash /\ LF # Dash
    BY DEF CRLF, CR, LF, Dash
<1>2. CRLF \in Seq(Int) /\ Len(CRLF) = 2 /\ CRLF[1] = CR /\ CRLF[2] = LF /\ DOMAIN CRLF = 1..2
    BY <1>1
<1>3. \A i \in 1..2 : i = 1 \/ i = 2
    OBVIOUS
<1>4. Lacks(CRLF, Dash)
    BY <1>1, <1>2, <1>3 DEF Lacks
<1>5. CRLF # <<>>
    <2>1. \A x, y : <<x, y>> # <<>>
        OBVIOUS
    <2> QED BY <2>1 DEF CRLF
<1> QED BY <1>1, <1>2, <1>4, <1>5

\* A header line, and the header lines of a part, joined: behind the end of a line
\* comes a header.
IsLine(l) == l \in Seq(Int) /\ Len(l) >= 1 /\ l[1] # Dash /\ Lacks(l, CR)

IsHead(x) ==
    /\ x \in Seq(Int) /\ Len(x) >= 1 /\ x[1] # Dash
    /\ \A j \in 1..Len(x) : x[j] = CR => j + 2 \in 1..Len(x) /\ x[j + 2] # CR

\* One more header line.
LEMMA HeadStep ==
    ASSUME NEW x, IsHead(x), NEW l, IsLine(l)
    PROVE  IsHead((x \o CRLF) \o l)
<1> DEFINE n == Len(x)
           m == Len(l)
           y == x \o CRLF
           z == y \o l
<1>1. x \in Seq(Int) /\ n \in Nat /\ n >= 1 /\ l \in Seq(Int) /\ m \in Nat /\ m >= 1
    BY DEF IsHead, IsLine
<1>2. \A i \in 1..m : l[i] # CR
    BY <1>1 DEF IsLine, Lacks
<1>3. /\ y \in Seq(Int) /\ Len(y) = n + Len(CRLF) /\ (\A i \in 1..n : y[i] = x[i])
      /\ \A i \in 1..Len(CRLF) : y[n + i] = CRLF[i]
    <2>1. x \in Seq(Int) /\ CRLF \in Seq(Int)
        BY <1>1, LineEnd
    <2> QED BY <2>1, BehindFacts
<1>4. Len(y) = n + 2 /\ y[n + 1] = CR /\ y[n + 2] = LF
    BY <1>1, <1>3, LineEnd
<1> HIDE DEF y
<1>6. /\ z \in Seq(Int) /\ Len(z) = Len(y) + m /\ (\A i \in 1..Len(y) : z[i] = y[i])
      /\ \A i \in 1..m : z[Len(y) + i] = l[i]
    <2>1. y \in Seq(Int) /\ l \in Seq(Int)
        BY <1>1, <1>3
    <2> QED BY <2>1, BehindFacts
<1> HIDE DEF z, m, n
<1>8. /\ Len(z) = n + 2 + m /\ (\A i \in 1..n : z[i] = x[i]) /\ z[n + 1] = CR /\ z[n + 2] = LF
      /\ \A i \in 1..m : z[n + 2 + i] = l[i]
    <2>1. n + 1 \in 1..Len(y) /\ n + 2 \in 1..Len(y) /\ \A i \in 1..n : i \in 1..Len(y)
        BY <1>1, <1>4
    <2> QED BY <1>3, <1>4, <1>6, <2>1
<1>9. ASSUME NEW j \in 1..Len(z), z[j] = CR PROVE j + 2 \in 1..Len(z) /\ z[j + 2] # CR
    <2>2. CASE j \in 1..n
        <3>1. x[j] = CR
            BY <1>8, <1>9, <2>2
        <3>2. j + 2 \in 1..n /\ x[j + 2] # CR
            BY <2>2, <3>1 DEF IsHead, n
        <3> QED BY <1>1, <1>8, <3>2
    <2>3. CASE j = n + 1
        <3>1. j + 2 = n + 2 + 1 /\ 1 \in 1..m /\ j + 2 \in 1..Len(z)
            BY <1>1, <1>8, <2>3
        <3> QED BY <1>2, <1>8, <3>1
    <2>4. CASE j = n + 2
        BY <1>8, <1>9, <2>4, LineEnd
    <2>5. CASE j > n + 2
        <3> DEFINE k == j - (n + 2)
        <3>1. k \in 1..m /\ j = n + 2 + k
            BY <1>1, <1>8, <2>5
        <3> HIDE DEF k
        <3>2. z[j] = l[k]
            BY <1>8, <3>1
        <3> QED BY <1>2, <1>9, <3>1, <3>2
    <2> QED BY <1>1, <1>8, <2>2, <2>3, <2>4, <2>5
<1>10. z[1] # Dash
    <2>1. z[1] = x[1]
        BY <1>1, <1>8
    <2> QED BY <2>1 DEF IsHead
<1>11. Len(z) >= 1
    BY <1>1, <1>8
<1>12. IsHead(z)
    BY <1>6, <1>9, <1>10, <1>11 DEF IsHead
<1> QED BY <1>12 DEF z, y

\* Header lines joined are a head, and split into the lines again.
LEMMA HeadOfLines ==
    ASSUME NEW lines \in Seq(Texts), Len(lines) >= 1, \A j \in 1..Len(lines) : IsLine(lines[j])
    PROVE  IsHead(Join(lines, CRLF)) /\ SplitOn(Join(lines, CRLF), CRLF) = lines
<1> DEFINE n == Len(lines)
<1>1. n \in Nat /\ n >= 1 /\ DOMAIN lines = 1..n
    OBVIOUS
<1>3. PICK f : /\ Join(lines, CRLF) = f[n] /\ f[0] = <<>>
               /\ \A k \in 1..n : f[k] = JoinStep(f[k - 1], lines, CRLF, k)
    <2>1. Len(lines) \in Nat
        BY <1>1
    <2> QED BY <2>1, JoinLoop, Zenon DEF n
<1> DEFINE P == {k \in 0..n : k = 0 \/ IsHead(f[k])}
<1> HIDE DEF n
<1>4. 0 \in P
    BY <1>1
<1>5. ASSUME NEW k \in 1..n, k - 1 \in P PROVE k \in P
    <2>1. k \in 0..n /\ f[k] = JoinStep(f[k - 1], lines, CRLF, k)
        BY <1>1, <1>3
    <2>2. IsLine(lines[k])
        BY DEF n
    <2>3. CASE k = 1
        <3>1. f[k] = lines[k]
            BY <2>1, <2>3 DEF JoinStep
        <3>2. IsHead(lines[k])
            BY <2>2 DEF IsLine, IsHead, Lacks
        <3> QED BY <2>1, <3>1, <3>2
    <2>4. CASE k # 1
        <3>1. f[k] = (f[k - 1] \o CRLF) \o lines[k]
            BY <2>1, <2>4 DEF JoinStep
        <3>2. IsHead(f[k - 1])
            BY <1>5, <2>4
        <3>3. IsHead((f[k - 1] \o CRLF) \o lines[k])
            BY <2>2, <3>2, HeadStep
        <3> QED BY <2>1, <3>1, <3>3
    <2> QED BY <2>3, <2>4
<1> HIDE DEF P
<1>6. n \in P
    BY <1>1, <1>4, <1>5, UpTo
<1>7. IsHead(Join(lines, CRLF))
    BY <1>1, <1>3, <1>6 DEF P
<1> DEFINE g == <<>>
<1>9. ASSUME NEW i \in 1..n PROVE Clear(lines[i], CRLF) /\ g \o lines[i] = lines[i]
    <2>3. Lacks(lines[i], CRLF[1]) /\ lines[i] \in Seq(Int)
        BY LineEnd DEF n, IsLine
    <2>4. Clear(lines[i], CRLF)
        BY <2>3, LineEnd, ClearOfFirst
    <2>5. \A x \in Seq(Int) : g \o x = x
        OBVIOUS
    <2> HIDE DEF g
    <2> QED BY <2>3, <2>4, <2>5
<1>10. g \in Seq(Int) /\ CRLF \o g = CRLF
    BY LineEnd
<1> HIDE DEF g
<1>11. SplitOn(Join(lines, CRLF \o g), CRLF)
          = [i \in 1..Len(lines) |-> IF i = 1 THEN lines[1] ELSE g \o lines[i]]
    <2>1. Clear(lines[1], CRLF)
        BY <1>1, <1>9
    <2>2. \A i \in 2..Len(lines) : Clear(g \o lines[i], CRLF)
        <3>1. \A i \in 2..Len(lines) : i \in 1..n
            BY <1>1 DEF n
        <3> QED BY <1>9, <3>1
    <2>3. CRLF \in Seq(Int) /\ CRLF # <<>> /\ Len(lines) >= 1
        BY LineEnd
    <2> QED BY <1>10, <2>1, <2>2, <2>3, SplitsJoin
<1>12. [i \in 1..n |-> IF i = 1 THEN lines[1] ELSE g \o lines[i]] = lines
    <2>1. lines = [i \in 1..n |-> lines[i]]
        BY <1>1
    <2>2. \A i \in 1..n : (IF i = 1 THEN lines[1] ELSE g \o lines[i]) = lines[i]
        BY <1>9
    <2> QED BY <2>1, <2>2
<1> QED BY <1>7, <1>10, <1>11, <1>12 DEF n

\* The boundary's line starts nowhere in a value that does not hold it, with the
\* end of its line.
LEMMA ValueClear ==
    ASSUME NEW v \in Seq(Int), NEW w \in Seq(Int), w # <<>>, w[1] = Dash, Lacks(w, CR), ~Occurs(w, v)
    PROVE  Clear(v \o CRLF, w)
<1> DEFINE c == CRLF
           x == v \o c
<1> SUFFICES ASSUME NEW t \in Seq(Int), NEW j \in 1..Len(x), OccursAt(w, x \o t, j) PROVE FALSE
    BY DEF Clear
<1> DEFINE n == Len(v)
           m == Len(w)
           s == x \o t
<1>1. n \in Nat /\ m \in Nat /\ m >= 1 /\ DOMAIN w = 1..m
    OBVIOUS
<1>2. c \in Seq(Int) /\ Len(c) = 2 /\ c[1] = CR /\ c[2] = LF
    BY LineEnd
<1> HIDE DEF c
<1>3. /\ x \in Seq(Int) /\ Len(x) = n + Len(c) /\ (\A i \in 1..n : x[i] = v[i])
      /\ \A i \in 1..Len(c) : x[n + i] = c[i]
    <2>1. c \in Seq(Int)
        BY <1>2
    <2> QED BY <2>1, BehindFacts
<1>4. Len(x) = n + 2 /\ x[n + 1] = CR /\ x[n + 2] = LF
    BY <1>1, <1>2, <1>3
<1> HIDE DEF x
<1>5. s \in Seq(Int) /\ Len(s) = Len(x) + Len(t) /\ Len(t) \in Nat /\ \A i \in 1..Len(x) : s[i] = x[i]
    <2>1. x \in Seq(Int)
        BY <1>3
    <2> QED BY <2>1, ConcatFacts
<1> HIDE DEF s
<1>6. /\ (\A i \in 1..n : s[i] = v[i]) /\ s[n + 1] = CR /\ s[n + 2] = LF /\ j \in 1..n + 2
    <2>1. n + 1 \in 1..Len(x) /\ n + 2 \in 1..Len(x) /\ \A i \in 1..n : i \in 1..Len(x)
        BY <1>1, <1>4
    <2> QED BY <1>3, <1>4, <1>5, <2>1
<1>7. StandsAt(w, s, j)
    <2>1. s \in Seq(Int) /\ j \in 1..Len(s) + 1 /\ OccursAt(w, s, j)
        BY <1>1, <1>4, <1>5 DEF s
    <2> QED BY <2>1, OccursAtMeans
<1>8. \A k \in 1..m : s[j + k - 1] = w[k]
    BY <1>7 DEF StandsAt
<1>9. CASE j <= n /\ j + m - 1 <= n
    <2>1. \A k \in 1..m : j + k - 1 \in 1..n
        BY <1>1, <1>6, <1>9
    <2>2. \A k \in 1..m : v[j + k - 1] = w[k]
        BY <1>6, <1>8, <2>1
    <2>3. j \in 1..n + 1
        BY <1>1, <1>6, <1>9
    <2>4. StandsAt(w, v, j)
        BY <1>9, <2>2, <2>3 DEF StandsAt
    <2> QED BY <2>3, <2>4, OccursMeans
<1>10. CASE j <= n /\ ~(j + m - 1 <= n)
    <2> DEFINE k == (n + 2) - j
    <2>1. k \in 1..m /\ j + k - 1 = n + 1
        BY <1>1, <1>6, <1>10
    <2>2. w[k] = CR
        BY <1>6, <1>8, <2>1
    <2> QED BY <1>1, <2>1, <2>2 DEF Lacks
<1>11. CASE ~(j <= n)
    <2>1. s[j] = w[1]
        <3>1. 1 \in 1..m /\ j + 1 - 1 = j
            BY <1>1
        <3> QED BY <1>8, <3>1
    <2>2. j = n + 1 \/ j = n + 2
        BY <1>1, <1>6, <1>11, SMTT(40)
    <2> QED BY <1>6, <2>1, <2>2, LineEnd
<1> QED BY <1>9, <1>10, <1>11

\* A part as it is written behind the boundary's line.
Tailed(v) == (CRLF \o CRLF) \o (v \o CRLF)
Piece(j, v) == CRLF \o (j \o Tailed(v))

\* Its shape.
LEMMA PieceFacts ==
    ASSUME NEW j \in Seq(Int), NEW v \in Seq(Int)
    PROVE  /\ CRLF \o CRLF \in Seq(Int) /\ v \o CRLF \in Seq(Int) /\ Tailed(v) \in Seq(Int)
           /\ j \o Tailed(v) \in Seq(Int) /\ Piece(j, v) \in Seq(Int)
<1> DEFINE c == CRLF
<1>1. c \in Seq(Int)
    BY LineEnd
<1> HIDE DEF c
<1>2. c \o c \in Seq(Int) /\ v \o c \in Seq(Int)
    BY <1>1
<1>3. (c \o c) \o (v \o c) \in Seq(Int)
    BY <1>2
<1> DEFINE d == (c \o c) \o (v \o c)
<1> HIDE DEF d
<1>4. j \o d \in Seq(Int)
    BY <1>3 DEF d
<1>5. c \o (j \o d) \in Seq(Int)
    BY <1>1, <1>4
<1> QED BY <1>2, <1>3, <1>4, <1>5 DEF c, d, Tailed, Piece

\* Putting the brackets of a part where the boundary ends.
LEMMA PieceBehind ==
    ASSUME NEW a \in Seq(Int), NEW j \in Seq(Int), NEW v \in Seq(Int)
    PROVE  (((((a \o CRLF) \o j) \o CRLF) \o CRLF) \o v) \o CRLF = a \o Piece(j, v)
<1> DEFINE c == CRLF
<1>1. c \in Seq(Int)
    BY LineEnd
<1> HIDE DEF c
<1> DEFINE ac == a \o c
           cc == c \o c
           vc == v \o c
           acj == ac \o j
           d == cc \o vc
           jd == j \o d
           e == acj \o cc
<1>2. ac \in Seq(Int) /\ cc \in Seq(Int) /\ vc \in Seq(Int)
    BY <1>1
<1>5. Piece(j, v) = c \o jd
    BY DEF c, Piece, Tailed
<1>3. ac \in Seq(Int)
    BY <1>2
<1>4. acj \in Seq(Int)
    <2> HIDE DEF ac
    <2> QED BY <1>3
<1>6. d \in Seq(Int)
    <2> HIDE DEF cc, vc
    <2> QED BY <1>2
<1> HIDE DEF d
<1>7. jd \in Seq(Int)
    BY <1>6
<1>8. (acj \o c) \o c = acj \o (c \o c)
    <2> HIDE DEF acj
    <2> QED BY <1>1, <1>4, Associative
<1>15. e \in Seq(Int)
    <2> HIDE DEF acj, cc
    <2> QED BY <1>2, <1>4
<1>9. (e \o v) \o c = e \o (v \o c)
    <2> HIDE DEF e
    <2> QED BY <1>1, <1>15, Associative
<1>10. (acj \o cc) \o vc = acj \o (cc \o vc)
    <2>1. cc \in Seq(Int) /\ vc \in Seq(Int)
        BY <1>2
    <2> HIDE DEF acj, cc, vc
    <2> QED BY <1>4, <2>1, Associative, Zenon
<1>11. (ac \o j) \o d = ac \o (j \o d)
    <2> HIDE DEF ac
    <2> QED BY <1>3, <1>6, Associative, Zenon
<1>12. (a \o c) \o jd = a \o (c \o jd)
    <2> HIDE DEF jd
    <2> QED BY <1>1, <1>7, Associative, SMTT(40)
<1>13. /\ ac = a \o c /\ acj = ac \o j /\ cc = c \o c /\ vc = v \o c /\ e = acj \o cc
       /\ d = cc \o vc /\ jd = j \o d
    BY DEF d
<1> HIDE DEF acj, e, ac, jd, vc, cc
<1>14. (((((a \o c) \o j) \o c) \o c) \o v) \o c = a \o Piece(j, v)
    BY <1>5, <1>8, <1>9, <1>10, <1>11, <1>12, <1>13, Zenon
<1> QED BY <1>14 DEF c

\* The blank line, and two dashes.
LEMMA BlankLine ==
    /\ CRLF \o CRLF \in Seq(Int) /\ CRLF \o CRLF # <<>> /\ Len(CRLF \o CRLF) = 4
    /\ (CRLF \o CRLF)[1] = CR /\ (CRLF \o CRLF)[3] = CR /\ Lacks(CRLF \o CRLF, Dash)
<1> DEFINE c == CRLF
           w == c \o c
<1>1. c \in Seq(Int) /\ Len(c) = 2 /\ c[1] = CR /\ Lacks(c, Dash)
    BY LineEnd
<1> HIDE DEF c
<1>2. c \in Seq(Int)
    BY <1>1
<1>3. /\ w \in Seq(Int) /\ Len(w) = Len(c) + Len(c)
      /\ (\A i \in 1..Len(c) : w[Len(c) + i] = c[i]) /\ \A i \in 1..Len(c) : w[i] = c[i]
    BY <1>2, BehindFacts
<1>4. Lacks(w, Dash)
    <2>1. Lacks(c, Dash)
        BY <1>1
    <2> QED BY <1>2, <2>1, LacksConcat
<1> HIDE DEF w
<1>5. Len(w) = 4 /\ w[1] = CR
    BY <1>1, <1>3
<1>6. w[2 + 1] = c[1]
    BY <1>1, <1>3
<1>7. w[3] = CR
    BY <1>1, <1>6
<1>8. w # <<>>
    <2>1. w \in Seq(Int)
        BY <1>3
    <2>2. Len(w) # 0
        BY <1>5
    <2> QED BY <2>1, <2>2
<1> QED BY <1>3, <1>4, <1>5, <1>7, <1>8 DEF w, c

\* The first blank line is the one behind the head.
LEMMA FirstBlank ==
    ASSUME NEW j, IsHead(j), NEW r \in Seq(Int)
    PROVE  FindSub(j \o ((CRLF \o CRLF) \o r), CRLF \o CRLF) = {Len(j) + 1}
<1> DEFINE w == CRLF \o CRLF
           n == Len(j)
           wr == w \o r
           s == j \o wr
<1>1. j \in Seq(Int) /\ n \in Nat
    BY DEF IsHead
<1>2. w \in Seq(Int) /\ w # <<>> /\ Len(w) = 4 /\ w[1] = CR /\ w[3] = CR
    BY BlankLine
<1> HIDE DEF w
<1>3. wr \in Seq(Int) /\ Len(wr) = Len(w) + Len(r) /\ Len(r) \in Nat
    <2>1. w \in Seq(Int)
        BY <1>2
    <2> QED BY <2>1, ConcatFacts
<1>4. OccursAt(w, wr, 1)
    <2>1. w \in Seq(Int)
        BY <1>2
    <2> QED BY <2>1, OccursFront
<1> HIDE DEF wr
<1>5. /\ s \in Seq(Int) /\ Len(s) = n + Len(wr) /\ \A i \in 1..n : s[i] = j[i]
    <2>1. wr \in Seq(Int)
        BY <1>3
    <2> QED BY <1>1, <2>1, ConcatFacts
<1>6. OccursAt(w, s, n + 1)
    <2>1. w \in Seq(Int) /\ w # <<>> /\ wr \in Seq(Int) /\ 1 \in 1..Len(wr) + 1
        BY <1>2, <1>3
    <2>2. OccursAt(w, j \o wr, Len(j) + 1) <=> OccursAt(w, wr, 1)
        BY <1>1, <2>1, OccursBehind
    <2> QED BY <1>4, <2>2
<1> HIDE DEF s
<1>7. Len(s) = n + (4 + Len(r)) /\ n + 1 \in DOMAIN s /\ DOMAIN s = 1..Len(s)
    <2>1. Len(s) = n + (4 + Len(r))
        BY <1>2, <1>3, <1>5
    <2>2. DOMAIN s = 1..Len(s)
        BY <1>5
    <2> QED BY <1>1, <1>3, <2>1, <2>2
<1>8. ASSUME NEW i \in 1..n, OccursAt(w, s, i) PROVE FALSE
    <2>1. i \in 1..Len(s) + 1 /\ s \in Seq(Int) /\ w \in Seq(Int)
        BY <1>1, <1>2, <1>3, <1>5, <1>7
    <2>2. StandsAt(w, s, i)
        BY <1>8, <2>1, OccursAtMeans
    <2>3. s[i + 1 - 1] = w[1] /\ s[i + 3 - 1] = w[3] /\ i + 1 - 1 = i /\ i + 3 - 1 = i + 2
        <3>1. 1 \in 1..Len(w) /\ 3 \in 1..Len(w)
            BY <1>2
        <3> QED BY <2>2, <3>1 DEF StandsAt
    <2>4. j[i] = CR
        BY <1>2, <1>5, <2>3
    <2>5. i + 2 \in 1..n /\ j[i + 2] # CR
        BY <2>4 DEF IsHead
    <2> QED BY <1>2, <1>5, <2>3, <2>5
<1>9. \A i \in DOMAIN s : (OccursAt(w, s, i) /\ \A k \in 1..i - 1 : ~OccursAt(w, s, k)) <=> i = n + 1
    <2>1. ASSUME NEW i \in DOMAIN s, OccursAt(w, s, i), \A k \in 1..i - 1 : ~OccursAt(w, s, k) PROVE i = n + 1
        <3>1. ~(i \in 1..n)
            BY <1>8, <2>1
        <3>2. ~(n + 1 \in 1..i - 1)
            BY <1>6, <2>1
        <3> QED BY <1>1, <1>7, <3>1, <3>2
    <2>2. \A k \in 1..(n + 1) - 1 : ~OccursAt(w, s, k)
        <3>1. (n + 1) - 1 = n
            BY <1>1
        <3> QED BY <1>8, <3>1
    <2> QED BY <1>6, <2>1, <2>2
<1>10. FindSub(s, w) = {i \in DOMAIN s : OccursAt(w, s, i) /\ \A k \in 1..i - 1 : ~OccursAt(w, s, k)}
    BY <1>2 DEF FindSub
<1>11. FindSub(s, w) = {n + 1}
    BY <1>7, <1>9, <1>10
<1> QED BY <1>11 DEF s, wr, w

\* A parameter of a disposition as it is written.
WrittenField(f) == (<<f.key, Quote>> \o f.text) \o <<Quote>>

IsField(f) ==
    /\ f.key \in {NameParam, FileParam, OtherParam}
    /\ f.text \in Seq(Byte) /\ Lacks(f.text, Quote) /\ Lacks(f.text, Semi)

\* Its bytes.
LEMMA FieldBytes ==
    ASSUME NEW f, IsField(f)
    PROVE  /\ WrittenField(f) \in Seq(Int) /\ Len(f.text) \in Nat /\ Len(WrittenField(f)) = Len(f.text) + 3
           /\ WrittenField(f)[1] = f.key /\ WrittenField(f)[2] = Quote
           /\ WrittenField(f)[Len(f.text) + 3] = Quote
           /\ \A i \in 1..Len(f.text) : WrittenField(f)[i + 2] = f.text[i]
           /\ f.text \in Seq(Int) /\ Lacks(WrittenField(f), Semi)
<1> DEFINE k == f.key
           x == f.text
           a == <<k, Quote>>
           q == <<Quote>>
           ax == a \o x
           w == ax \o q
           m == Len(x)
<1>1. k \in Int /\ k # Semi /\ Quote \in Int /\ Quote # Semi
    BY DEF IsField, NameParam, FileParam, OtherParam, Quote, Semi
<1>2. x \in Seq(Int) /\ Lacks(x, Semi)
    BY BytesAreText DEF IsField
<1>3. WrittenField(f) = w
    BY DEF WrittenField
<1> HIDE DEF k, x
<1>4. /\ a \in Seq(Int) /\ Len(a) = 2 /\ a[1] = k /\ a[2] = Quote /\ DOMAIN a = 1..2
      /\ q \in Seq(Int) /\ Len(q) = 1 /\ q[1] = Quote
    BY <1>1
<1>5. Lacks(a, Semi) /\ Lacks(q, Semi)
    <2>1. \A i \in 1..2 : i = 1 \/ i = 2
        OBVIOUS
    <2>2. Lacks(q, Semi)
        BY <1>1, LacksOne
    <2> HIDE DEF a
    <2> QED BY <1>1, <1>4, <2>1, <2>2 DEF Lacks
<1> HIDE DEF a, q
<1>6. /\ ax \in Seq(Int) /\ Len(ax) = Len(a) + m /\ m \in Nat
      /\ (\A i \in 1..m : ax[Len(a) + i] = x[i]) /\ \A i \in 1..Len(a) : ax[i] = a[i]
    <2>1. a \in Seq(Int) /\ x \in Seq(Int)
        BY <1>2, <1>4
    <2> QED BY <2>1, BehindFacts
<1>7. Lacks(ax, Semi)
    BY <1>2, <1>4, <1>5, LacksConcat
<1> HIDE DEF ax, m
<1>8. /\ w \in Seq(Int) /\ Len(w) = Len(ax) + Len(q)
      /\ (\A i \in 1..Len(q) : w[Len(ax) + i] = q[i]) /\ \A i \in 1..Len(ax) : w[i] = ax[i]
    <2>1. ax \in Seq(Int) /\ q \in Seq(Int)
        BY <1>4, <1>6
    <2> QED BY <2>1, BehindFacts
<1>9. Lacks(w, Semi)
    BY <1>4, <1>5, <1>6, <1>7, LacksConcat
<1> HIDE DEF w
<1>10. Len(ax) = m + 2 /\ Len(w) = m + 3 /\ 1 \in 1..Len(ax) /\ 2 \in 1..Len(ax)
    BY <1>4, <1>6, <1>8
<1>11. w[1] = k /\ w[2] = Quote
    <2>1. 1 \in 1..Len(a) /\ 2 \in 1..Len(a)
        BY <1>4
    <2> QED BY <1>4, <1>6, <1>8, <1>10, <2>1
<1>12. w[m + 3] = Quote
    <2>1. 1 \in 1..Len(q) /\ Len(ax) + 1 = m + 3
        BY <1>4, <1>6, <1>10
    <2> QED BY <1>4, <1>8, <2>1
<1>13. \A i \in 1..m : w[i + 2] = x[i]
    <2>1. \A i \in 1..m : i + 2 = Len(a) + i /\ i + 2 \in 1..Len(ax)
        BY <1>4, <1>6, <1>10
    <2> QED BY <1>6, <1>8, <2>1
<1> QED BY <1>2, <1>3, <1>6, <1>8, <1>9, <1>10, <1>11, <1>12, <1>13 DEF k, x, m

\* It has no blank at its ends; without its name and its quotes it is its text.
LEMMA FieldShape ==
    ASSUME NEW f, IsField(f)
    PROVE  /\ WrittenField(f) \in Seq(Int) /\ WrittenField(f) # <<>> /\ WrittenField(f)[1] = f.key
           /\ IsTrimmed(WrittenField(f)) /\ Lacks(WrittenField(f), Semi)
           /\ TrimOf(Tail(WrittenField(f)), {Quote}) = f.text
<1> DEFINE w == WrittenField(f)
           x == f.text
           m == Len(x)
           u == Tail(w)
<1>1. /\ w \in Seq(Int) /\ m \in Nat /\ Len(w) = m + 3 /\ w[1] = f.key /\ w[2] = Quote /\ w[m + 3] = Quote
      /\ (\A i \in 1..m : w[i + 2] = x[i]) /\ x \in Seq(Int) /\ Lacks(w, Semi)
    BY FieldBytes
<1>2. \A i \in 1..m : x[i] # Quote
    <2>1. Lacks(x, Quote)
        BY DEF IsField
    <2>2. DOMAIN x = 1..m
        BY <1>1
    <2> QED BY <2>1, <2>2 DEF Lacks
<1>3. f.key \notin Blank /\ Quote \notin Blank
    BY DEF IsField, NameParam, FileParam, OtherParam, Quote, Blank
<1> HIDE DEF w, x, m
<1>4. w # <<>>
    <2>1. Len(w) # 0
        BY <1>1
    <2> QED BY <2>1
<1>5. IsTrimmed(w)
    BY <1>1, <1>3 DEF IsTrimmed
<1>6. u \in Seq(Int) /\ Len(u) = m + 2 /\ \A i \in 1..m + 2 : u[i] = w[i + 1]
    <2>1. u \in Seq(Int) /\ Len(u) = Len(w) - 1 /\ \A i \in 1..Len(u) : u[i] = w[i + 1]
        BY <1>1, <1>4
    <2> HIDE DEF u
    <2> QED BY <1>1, <2>1
<1> HIDE DEF u
<1>7. u[1] = Quote /\ u[m + 2] = Quote /\ \A i \in 1..m : u[i + 1] = x[i]
    <2>1. /\ 1 \in 1..m + 2 /\ m + 2 \in 1..m + 2 /\ 1 + 1 = 2 /\ (m + 2) + 1 = m + 3
          /\ \A i \in 1..m : i + 1 \in 1..m + 2 /\ (i + 1) + 1 = i + 2
        BY <1>1
    <2> QED BY <1>1, <1>6, <2>1
<1>8. CASE m = 0
    <2>1. x = <<>>
        BY <1>1, <1>8 DEF m
    <2>2. \A i \in 1..m + 2 : i = 1 \/ i = m + 2
        BY <1>8
    <2>3. {i \in DOMAIN u : u[i] \notin {Quote}} = {}
        <3>1. DOMAIN u = 1..m + 2
            BY <1>1, <1>6
        <3> QED BY <1>7, <2>2, <3>1, Zenon
    <2>4. TrimOf(u, {Quote}) = x
        BY <2>1, <2>3 DEF TrimOf
    <2> QED BY <1>1, <1>4, <1>5, <2>4 DEF x, u, w
<1>9. CASE m # 0
    <2>1. 2 \in 1..Len(u) /\ m + 1 \in 2..Len(u)
        BY <1>1, <1>6, <1>9
    <2>2. u[2] \notin {Quote} /\ u[m + 1] \notin {Quote}
        <3>1. 1 \in 1..m /\ m \in 1..m /\ 1 + 1 = 2
            BY <1>1, <1>9
        <3> QED BY <1>2, <1>7, <3>1
    <2>3. \A i \in 1..2 - 1 : u[i] \in {Quote}
        <3>1. \A i \in 1..2 - 1 : i = 1
            OBVIOUS
        <3> QED BY <1>7, <3>1
    <2>4. \A i \in (m + 1) + 1..Len(u) : u[i] \in {Quote}
        <3>1. \A i \in (m + 1) + 1..Len(u) : i = m + 2
            BY <1>1, <1>6
        <3> QED BY <1>7, <3>1
    <2>5. TrimOf(u, {Quote}) = SubSeq(u, 2, m + 1)
        <3> DEFINE chars == {Quote}
        <3>1. /\ u \in Seq(Int) /\ u[2] \notin chars /\ u[m + 1] \notin chars
              /\ (\A i \in 1..2 - 1 : u[i] \in chars) /\ \A i \in (m + 1) + 1..Len(u) : u[i] \in chars
            BY <1>6, <2>2, <2>3, <2>4
        <3> HIDE DEF chars
        <3>2. TrimOf(u, chars) = SubSeq(u, 2, m + 1)
            BY <2>1, <3>1, TrimsTo
        <3> QED BY <3>2 DEF chars
    <2> DEFINE y == SubSeq(u, 2, m + 1)
    <2>6. y \in Seq(Int) /\ Len(y) = m /\ \A i \in 1..m : y[i] = u[i + 1]
        <3>1. u \in Seq(Int) /\ 2 \in 1..Len(u) + 1 /\ m + 1 \in 2 - 1..Len(u) /\ (m + 1) - 2 + 1 = m
            BY <1>1, <1>6, <2>1
        <3>2. Len(y) = (m + 1) - 2 + 1 /\ y \in Seq(Int) /\ \A i \in 1..(m + 1) - 2 + 1 : y[i] = u[2 + i - 1]
            BY <3>1, SubFacts
        <3> HIDE DEF y
        <3>3. \A i \in 1..m : 2 + i - 1 = i + 1
            BY <1>1
        <3> QED BY <3>1, <3>2, <3>3
    <2> HIDE DEF y
    <2>7. y = x
        <3>1. Len(y) = Len(x) /\ \A i \in 1..Len(y) : y[i] = x[i]
            BY <1>7, <2>6 DEF m
        <3> QED BY <1>1, <2>6, <3>1, SeqEqual
    <2>8. TrimOf(u, {Quote}) = x
        BY <2>5, <2>7 DEF y
    <2> QED BY <1>1, <1>4, <1>5, <2>8 DEF x, u, w
<1> QED BY <1>8, <1>9

\* The parameters of a disposition are read one by one.
LEMMA ParamsRead ==
    ASSUME NEW kind \in Seq(Int), Lacks(kind, Semi), NEW fields, NEW n \in Nat, DOMAIN fields = 1..n,
           \A i \in 1..n : IsField(fields[i])
    PROVE  /\ Join(<<kind>> \o [i \in 1..n |-> WrittenField(fields[i])], <<Semi, Space>>) \in Seq(Int)
           /\ HeaderParams(Join(<<kind>> \o [i \in 1..n |-> WrittenField(fields[i])], <<Semi, Space>>))
                = [i \in 1..n |-> WrittenField(fields[i])]
<1> DEFINE W(i) == WrittenField(fields[i])
           ws == [i \in 1..n |-> W(i)]
           k1 == <<kind>>
           ss == k1 \o ws
           w == <<Semi>>
           g == <<Space>>
           rest == Join(ss, <<Semi, Space>>)
<1>1. ASSUME NEW i \in 1..n PROVE W(i) \in Seq(Int) /\ W(i) # <<>> /\ IsTrimmed(W(i)) /\ Lacks(W(i), Semi)
    BY FieldShape
<1> HIDE DEF W
<1>2. ws \in Seq(Texts) /\ Len(ws) = n /\ \A i \in 1..n : ws[i] = W(i)
    <2>1. \A i \in 1..n : W(i) \in Texts
        BY <1>1 DEF Texts
    <2> QED BY <2>1, IsASeq
<1>3. k1 \in Seq(Texts) /\ Len(k1) = 1 /\ k1[1] = kind
    BY DEF Texts
<1> HIDE DEF ws, k1
<1>4. /\ ss \in Seq(Texts) /\ Len(ss) = n + 1 /\ ss[1] = kind /\ DOMAIN ss = 1..n + 1
      /\ \A i \in 2..n + 1 : ss[i] = W(i - 1) /\ i - 1 \in 1..n
    <2>1. /\ ss \in Seq(Texts) /\ Len(ss) = Len(k1) + Len(ws) /\ (\A i \in 1..Len(k1) : ss[i] = k1[i])
          /\ DOMAIN ss = 1..Len(ss)
          /\ \A i \in Len(k1) + 1..Len(k1) + Len(ws) : ss[i] = ws[i - Len(k1)]
        <3>1. k1 \in Seq(Texts) /\ ws \in Seq(Texts)
            BY <1>2, <1>3
        <3> HIDE DEF Texts
        <3>2. ss \in Seq(Texts) /\ Len(ss) = Len(k1) + Len(ws)
            BY <3>1
        <3>3. DOMAIN ss = 1..Len(ss)
            <4> HIDE DEF ss
            <4> QED BY <3>2
        <3>4. \A i \in 1..Len(k1) : ss[i] = k1[i]
            BY <3>1
        <3>5. \A i \in Len(k1) + 1..Len(k1) + Len(ws) : ss[i] = ws[i - Len(k1)]
            BY <3>1
        <3> QED BY <3>2, <3>3, <3>4, <3>5
    <2> HIDE DEF ss
    <2>2. Len(ss) = n + 1 /\ ss[1] = kind /\ DOMAIN ss = 1..n + 1
        BY <1>2, <1>3, <2>1
    <2>3. ASSUME NEW i \in 2..n + 1 PROVE ss[i] = W(i - 1) /\ i - 1 \in 1..n
        <3>1. i - 1 \in 1..n /\ i \in Len(k1) + 1..Len(k1) + Len(ws) /\ i - Len(k1) = i - 1
            BY <1>2, <1>3
        <3> QED BY <1>2, <2>1, <3>1
    <2> QED BY <2>1, <2>2, <2>3
<1> HIDE DEF ss
<1>6. /\ w \in Seq(Int) /\ w # <<>> /\ g \in Seq(Int) /\ w \o g = <<Semi, Space>> /\ Semi \in Int /\ Lacks(g, Semi)
      /\ <<Semi, Space>> \in Seq(Int)
    <2>1. Semi \in Int /\ Space \in Int /\ Space # Semi
        BY DEF Semi, Space
    <2>2. Lacks(g, Semi)
        BY <2>1, LacksOne
    <2>3. w \o g = <<Semi, Space>>
        BY <2>1, TwoElements
    <2> QED BY <2>1, <2>2, <2>3
<1> DEFINE parts == SplitOn(rest, w)
<1>7. parts = [i \in 1..n + 1 |-> IF i = 1 THEN ss[1] ELSE g \o ss[i]]
    <2>1. Clear(ss[1], w)
        BY <1>4, <1>6, ClearOfByte
    <2>2. ASSUME NEW i \in 2..n + 1 PROVE Clear(g \o ss[i], w)
        <3>1. ss[i] \in Seq(Int) /\ Lacks(ss[i], Semi)
            BY <1>1, <1>4
        <3>2. g \o ss[i] \in Seq(Int) /\ Lacks(g \o ss[i], Semi)
            <4> HIDE DEF g
            <4> QED BY <1>6, <3>1, LacksConcat
        <3> HIDE DEF g
        <3> QED BY <1>6, <3>2, ClearOfByte
    <2> HIDE DEF w, g
    <2>4. SplitOn(Join(ss, w \o g), w) = [i \in 1..Len(ss) |-> IF i = 1 THEN ss[1] ELSE g \o ss[i]]
        <3>1. Len(ss) >= 1
            BY <1>4
        <3> QED BY <1>4, <1>6, <2>1, <2>2, <3>1, SplitsJoin
    <2> QED BY <1>4, <1>6, <2>4
<1>8. rest \in Seq(Int)
    <2> DEFINE sep == <<Semi, Space>>
    <2>1. sep \in Seq(Int) /\ ss \in Seq(Seq(Int))
        BY <1>4, <1>6 DEF Texts
    <2> HIDE DEF sep
    <2>2. Join(ss, sep) \in Seq(Int)
        BY <2>1, LowerJoin
    <2> QED BY <2>2 DEF sep
<1> HIDE DEF parts, w, rest
<1> DEFINE ps == Tail(parts)
<1>9. Len(ps) = n /\ DOMAIN ps = 1..n /\ \A i \in 1..n : ps[i] = g \o W(i)
    <2> DEFINE E(i) == IF i = 1 THEN ss[1] ELSE g \o ss[i]
    <2>1. parts = [i \in 1..n + 1 |-> E(i)]
        BY <1>7
    <2>2. \A i \in 1..n + 1 : E(i) \in Texts
        <3>1. \A i \in 1..n + 1 : ss[i] \in Seq(Int)
            BY <1>4 DEF Texts
        <3>2. \A x \in Seq(Int) : g \o x \in Seq(Int)
            <4> HIDE DEF g
            <4> QED BY <1>6
        <3>3. 1 \in 1..n + 1
            OBVIOUS
        <3> HIDE DEF g
        <3> QED BY <3>1, <3>2, <3>3 DEF Texts
    <2>3. \A i \in 1..n : E(i + 1) = g \o W(i)
        <3>1. \A i \in 1..n : i + 1 \in 2..n + 1 /\ (i + 1) - 1 = i /\ i + 1 # 1
            OBVIOUS
        <3> HIDE DEF g
        <3> QED BY <1>4, <3>1
    <2> HIDE DEF E, g
    <2>4. parts \in Seq(Texts) /\ Len(parts) = n + 1 /\ \A i \in 1..n + 1 : parts[i] = E(i)
        BY <2>1, <2>2
    <2> HIDE DEF parts
    <2>5. parts # <<>>
        <3>1. Len(parts) # 0
            BY <2>4
        <3> QED BY <3>1
    <2>6. ps \in Seq(Texts) /\ Len(ps) = Len(parts) - 1 /\ \A i \in 1..Len(ps) : ps[i] = parts[i + 1]
        BY <2>4, <2>5
    <2> HIDE DEF ps
    <2>7. Len(ps) = n /\ DOMAIN ps = 1..n /\ \A i \in 1..n : i + 1 \in 1..n + 1
        BY <2>4, <2>6
    <2> QED BY <2>3, <2>4, <2>6, <2>7
<1>10. HeaderParams(rest) = [i \in DOMAIN ps |-> Trim(ps[i])]
    BY DEF HeaderParams, parts, w
<1> HIDE DEF ps
<1>11. \A i \in 1..n : Trim(ps[i]) = W(i)
    BY <1>1, <1>9, TrimSpace
<1>12. HeaderParams(rest) = [i \in 1..n |-> W(i)]
    BY <1>9, <1>10, <1>11
<1> QED BY <1>8, <1>12 DEF rest, ss, k1, ws, W

\* The text of a parameter that is written at most once.
LEMMA ParamRead ==
    ASSUME NEW part, NEW n \in Nat, DOMAIN part.fields = 1..n, \A i \in 1..n : IsField(part.fields[i]),
           NEW key, \A i, k \in 1..n : part.fields[i].key = key /\ part.fields[k].key = key => i = k
    PROVE  ParamText([i \in 1..n |-> WrittenField(part.fields[i])], key) = FieldTexts(part, key)
<1> DEFINE F == part.fields
           W(i) == WrittenField(F[i])
           ws == [i \in 1..n |-> W(i)]
           hits == {i \in DOMAIN ws : ws[i] # <<>> /\ ws[i][1] = key}
           K == {k \in DOMAIN F : F[k].key = key}
<1>1. DOMAIN ws = 1..n /\ \A i \in 1..n : ws[i] = W(i)
    OBVIOUS
<1>2. \A i \in 1..n : W(i) # <<>> /\ W(i)[1] = F[i].key /\ TrimOf(Tail(W(i)), {Quote}) = F[i].text
    BY FieldShape
<1> HIDE DEF W
<1>3. hits = K
    BY <1>1, <1>2
<1>4. ParamText(ws, key) = IF hits = {} THEN {} ELSE {TrimOf(Tail(ws[Max(hits)]), {Quote})}
    BY DEF ParamText
<1>5. FieldTexts(part, key) = {F[i].text : i \in K}
    BY DEF FieldTexts
<1>6. K \subseteq 1..n /\ \A i, k \in K : i = k
    OBVIOUS
<1> HIDE DEF hits, K, ws, F
<1>7. CASE K = {}
    BY <1>3, <1>4, <1>5, <1>7 DEF ws, W, F
<1>8. CASE K # {}
    <2>1. PICK k \in K : TRUE
        BY <1>8
    <2>2. K = {k} /\ k \in 1..n
        BY <1>6, <2>1
    <2>3. Max({k}) = k
        BY <2>2 DEF Max
    <2>4. ParamText(ws, key) = {F[k].text}
        BY <1>1, <1>2, <1>3, <1>4, <2>2, <2>3
    <2>5. FieldTexts(part, key) = {F[k].text}
        BY <1>5, <2>2
    <2> QED BY <2>4, <2>5 DEF ws, W, F
<1> QED BY <1>7, <1>8

IsDisposition(line) == Trim(SplitPair(line, Colon)[1]) = <<DispositionName>>

\* The line of a disposition.
LEMMA DispositionRead ==
    ASSUME NEW part, part.kind \in Seq(Byte), Lacks(part.kind, Semi), part.fields \in Seq(ToSet(part.fields)),
           AreFields(part.fields)
    PROVE  /\ IsDisposition(DispositionLine(part)) /\ Colon \in ToSet(DispositionLine(part))
           /\ \A key \in {NameParam, FileParam} :
                ParamText(HeaderParams(SplitPair(DispositionLine(part), Colon)[2]), key) = FieldTexts(part, key)
<1> DEFINE F == part.fields
           n == Len(F)
           ws == [i \in 1..n |-> WrittenField(F[i])]
           rest == Join(<<part.kind>> \o ws, <<Semi, Space>>)
           d == <<DispositionName>>
           e == <<Colon>>
           line == (d \o e) \o rest
<1>1. n \in Nat /\ DOMAIN F = 1..n
    OBVIOUS
<1>2. \A i \in 1..n : IsField(F[i])
    BY <1>1 DEF AreFields, IsField
<1>3. part.kind \in Seq(Int)
    BY BytesAreText
<1>4. DispositionName \in Int /\ Colon \in Int /\ DispositionName # Colon /\ DispositionName \notin Blank
    BY DEF DispositionName, Colon, Blank
<1>5. d \o e = <<DispositionName, Colon>> /\ d \in Seq(Int) /\ <<DispositionName, Colon>> \in Seq(Int)
    BY <1>4, TwoElements
<1>6. DispositionLine(part) = line
    <2>1. DispositionLine(part) = <<DispositionName, Colon>> \o
            Join(<<part.kind>> \o [i \in DOMAIN F |-> WrittenField(F[i])], <<Semi, Space>>)
        BY Zenon DEF DispositionLine, WrittenField
    <2> QED BY <1>1, <1>5, <2>1, Zenon
<1>7. rest \in Seq(Int) /\ HeaderParams(rest) = ws
    <2>1. \A i \in 1..n : IsField(F[i])
        BY <1>2
    <2> HIDE DEF F, n
    <2> QED BY <1>1, <1>3, <2>1, ParamsRead
<1> HIDE DEF rest
<1>8. SplitPair(line, Colon) = <<d, rest>>
    <2>1. Lacks(d, Colon)
        BY <1>4, LacksOne
    <2> HIDE DEF d
    <2> QED BY <1>4, <1>5, <1>7, <2>1, SplitPairAt
<1>9. Trim(d) = d
    <2>1. d # <<>> => d[1] \notin Blank /\ d[Len(d)] \notin Blank
        BY <1>4
    <2>2. d \in Seq(Int) /\ IsTrimmed(d)
        BY <1>5, <2>1 DEF IsTrimmed
    <2> HIDE DEF d
    <2> QED BY <2>2, TrimNone
<1>10. Colon \in ToSet(line)
    <2> DEFINE h == <<DispositionName, Colon>>
    <2>1. h \in Seq(Int) /\ Len(h) = 2 /\ h[2] = Colon
        BY <1>5
    <2>2. line = h \o rest
        BY <1>5
    <2> HIDE DEF h, line
    <2>3. /\ h \o rest \in Seq(Int) /\ Len(h \o rest) = Len(h) + Len(rest) /\ Len(rest) \in Nat
          /\ \A i \in 1..Len(h) : (h \o rest)[i] = h[i]
        BY <1>7, <2>1, BehindFacts
    <2>4. 2 \in 1..Len(h) /\ 2 \in DOMAIN line /\ line[2] = Colon
        BY <2>1, <2>2, <2>3
    <2> QED BY <2>4 DEF ToSet
<1>11. ASSUME NEW key \in {NameParam, FileParam} PROVE ParamText(ws, key) = FieldTexts(part, key)
    <2>1. \A i, k \in 1..n : F[i].key = key /\ F[k].key = key => i = k
        <3>1. key # OtherParam
            BY DEF NameParam, FileParam, OtherParam
        <3> QED BY <1>1, <3>1 DEF AreFields
    <2> QED BY <1>1, <1>2, <2>1, ParamRead
<1> DEFINE sp == SplitPair(line, Colon)
<1>12. sp[1] = d /\ sp[2] = rest
    BY <1>8
<1> HIDE DEF sp, d, ws, line
<1>13. Trim(sp[1]) = d
    BY <1>9, <1>12
<1> QED BY <1>6, <1>7, <1>10, <1>11, <1>12, <1>13 DEF IsDisposition, sp, d

\* What the header lines of a part name.
MeantFields(part) == [name |-> The(FieldTexts(part, NameParam)), filename |-> FieldTexts(part, FileParam)]

\* Its header lines name what the part means.
LEMMA FieldsOfPart ==
    ASSUME NEW part, NEW boundary, IsPart(part, boundary)
    PROVE  /\ IsHead(Join(part.lines, CRLF))
           /\ DispositionFields(Join(part.lines, CRLF)) = {MeantFields(part)}
<1> DEFINE lines == part.lines
           n == Len(lines)
           head == Join(lines, CRLF)
           Is(i) == IsDisposition(lines[i])
           found == {i \in DOMAIN lines :
                        Is(i) /\ \A j \in 1..i : Colon \in ToSet(lines[j]) /\ (j < i => ~Is(j))}
           Ps(i) == HeaderParams(SplitPair(lines[i], Colon)[2])
           Fs(i) == {[name |-> x, filename |-> ParamText(Ps(i), FileParam)] : x \in ParamText(Ps(i), NameParam)}
<1>1. lines \in Seq(Texts) /\ n \in Nat /\ DOMAIN lines = 1..n
    <2>1. lines \in Seq(Seq(Nat))
        BY DEF IsPart
    <2> HIDE DEF lines
    <2>2. n \in Nat /\ DOMAIN lines = 1..n /\ \A i \in 1..n : lines[i] \in Texts
        <3>1. n \in Nat /\ DOMAIN lines = 1..n /\ \A i \in 1..n : lines[i] \in Seq(Nat)
            BY <2>1
        <3>2. \A x \in Seq(Nat) : x \in Seq(Int)
            OBVIOUS
        <3> QED BY <3>1, <3>2 DEF Texts
    <2>3. lines = [i \in 1..n |-> lines[i]]
        BY <2>1, <2>2
    <2> DEFINE L(i) == lines[i]
    <2>4. \A i \in 1..n : L(i) \in Texts
        BY <2>2
    <2> HIDE DEF L, n
    <2>5. [i \in 1..n |-> L(i)] \in Seq(Texts)
        BY <2>2, <2>4, IsASeq
    <2> QED BY <2>2, <2>3, <2>5 DEF L, n
<1>2. \A i \in 1..n : IsLine(lines[i])
    <2>1. ASSUME NEW i \in 1..n PROVE IsLine(lines[i])
        <3>1. lines[i] # <<>> /\ lines[i][1] # Dash /\ Lacks(lines[i], CR)
            BY <1>1 DEF IsPart
        <3>2. lines[i] \in Seq(Int)
            BY <1>1 DEF Texts
        <3> HIDE DEF lines
        <3>3. Len(lines[i]) >= 1
            BY <3>1, <3>2
        <3> QED BY <3>1, <3>2, <3>3 DEF IsLine
    <2> QED BY <2>1
<1>3. PICK j \in DOMAIN lines :
        lines[j] = DispositionLine(part) /\ \A l \in 1..j - 1 : IsOtherHeader(lines[l])
    BY DEF IsPart
<1>4. IsText(head) /\ part.kind \in Seq(Byte) /\ Lacks(part.kind, Semi)
    BY DEF IsPart
<1>5. part.fields \in Seq(ToSet(part.fields)) /\ AreFields(part.fields)
    BY DEF IsPart
<1>6. /\ Is(j) /\ Colon \in ToSet(lines[j])
      /\ ParamText(Ps(j), NameParam) = FieldTexts(part, NameParam)
      /\ ParamText(Ps(j), FileParam) = FieldTexts(part, FileParam)
    BY <1>3, <1>4, <1>5, DispositionRead
<1>7. FieldTexts(part, NameParam) = {The(FieldTexts(part, NameParam))}
    <2> DEFINE F == part.fields
    <2>1. PICK i \in DOMAIN F : F[i].key = NameParam
        BY <1>5 DEF AreFields
    <2>2. \A k \in DOMAIN F : F[k].key = NameParam => k = i
        <3>1. NameParam # OtherParam
            BY DEF NameParam, OtherParam
        <3> QED BY <1>5, <2>1, <3>1 DEF AreFields
    <2>3. FieldTexts(part, NameParam) = {F[k].text : k \in {k \in DOMAIN F : F[k].key = NameParam}}
        BY DEF FieldTexts
    <2> HIDE DEF F
    <2>4. {k \in DOMAIN F : F[k].key = NameParam} = {i}
        BY <2>1, <2>2
    <2>5. FieldTexts(part, NameParam) = {F[i].text}
        BY <2>3, <2>4
    <2> QED BY <2>5, TheOnly
<1> HIDE DEF lines
<1>8. n >= 1 /\ j \in 1..n
    BY <1>1, <1>3
<1>9. IsHead(head) /\ SplitOn(head, CRLF) = lines
    BY <1>1, <1>2, <1>8, HeadOfLines
<1>10. Lossy(head) = head
    <2>1. head \in Seq(Int)
        BY <1>9 DEF IsHead
    <2> HIDE DEF head
    <2> QED BY <1>4, <2>1, LossyText
<1>11. DispositionFields(head) = UNION {Fs(i) : i \in found}
    <2> HIDE DEF head
    <2> QED BY <1>9, <1>10 DEF DispositionFields, IsDisposition
<1>12. \A l \in 1..j - 1 : Colon \in ToSet(lines[l]) /\ ~Is(l)
    BY <1>3 DEF IsOtherHeader, IsDisposition
<1> HIDE DEF Is, head
<1>13. found = {j}
    <2>1. j \in found
        <3>1. ASSUME NEW l \in 1..j PROVE Colon \in ToSet(lines[l]) /\ (l < j => ~Is(l))
            <4>1. l = j \/ l \in 1..j - 1
                BY <1>8
            <4> QED BY <1>6, <1>8, <1>12, <4>1
        <3> QED BY <1>3, <1>6, <3>1
    <2>2. ASSUME NEW i \in found PROVE i = j
        <3>1. i \in 1..n /\ Is(i) /\ \A l \in 1..i : l < i => ~Is(l)
            BY <1>1
        <3>2. ~(i \in 1..j - 1)
            BY <1>12, <3>1
        <3>3. ~(j \in 1..i /\ j < i)
            BY <1>6, <3>1
        <3> HIDE DEF found
        <3> QED BY <1>1, <1>8, <3>1, <3>2, <3>3
    <2> HIDE DEF found
    <2> QED BY <2>1, <2>2
<1> DEFINE name == The(FieldTexts(part, NameParam))
           file == FieldTexts(part, FileParam)
<1>14. Fs(j) = {[name |-> x, filename |-> file] : x \in {name}}
    BY <1>6, <1>7
<1> HIDE DEF found, Fs, name, file
<1>15. Fs(j) = {[name |-> name, filename |-> file]}
    BY <1>14, Zenon
<1>16. UNION {Fs(i) : i \in {j}} = Fs(j)
    OBVIOUS
<1>17. DispositionFields(head) = {[name |-> name, filename |-> file]}
    BY <1>11, <1>13, <1>15, <1>16
<1> QED BY <1>9, <1>17 DEF MeantFields, name, file, head, lines

\* The parameter a part stands for.
Field(d, v) == <<d.name, IF d.filename = {} THEN Lossy(v) ELSE The(d.filename)>>

\* It is what the part means.
LEMMA FieldMeant ==
    ASSUME NEW part, part.value \in Seq(Int)
    PROVE  Field(MeantFields(part), part.value) = MeantOfPart(part)
<1> DEFINE d == MeantFields(part)
           v == part.value
<1>1. d.name = The(FieldTexts(part, NameParam)) /\ d.filename = FieldTexts(part, FileParam)
    BY DEF MeantFields
<1>2. IsText(v) => Lossy(v) = v
    <2> HIDE DEF v
    <2> QED BY LossyText DEF v
<1>3. Lossy(v) = IF IsText(v) THEN v ELSE Lossy(v)
    BY <1>2
<1> HIDE DEF d
<1> QED BY <1>1, <1>3, Zenon DEF Field, MeantOfPart, d

\* A segment seg, a line's end in front: its blank line at p, the head, the value
\* and the fields.
IsSegment(segment, seg, p, head, v, d) ==
    /\ StripPrefix(segment, CRLF) = seg /\ seg # <<>> /\ ~IsPrefix(<<Dash, Dash>>, seg)
    /\ FindSub(seg, CRLF \o CRLF) = {p} /\ SubSeq(seg, 1, p - 1) = head
    /\ StripSuffix(SubSeq(seg, p + 4, Len(seg)), CRLF) = v /\ DispositionFields(head) = {d}

\* What parse_multipart_args makes of a segment with a blank line.
LEMMA SegmentWithField ==
    ASSUME NEW segment, NEW seg, NEW p, NEW head, NEW v, NEW d, IsSegment(segment, seg, p, head, v, d)
    PROVE  PartArgs(segment) = <<Field(d, v)>>
<1>1. The({p}) = p /\ The({d}) = d /\ {p} # {} /\ {d} # {}
    BY TheOnly
<1>2. PartArgs(segment) = << <<d.name, IF d.filename = {} THEN Lossy(v) ELSE The(d.filename)>> >>
    BY <1>1 DEF IsSegment, PartArgs, Parsed
<1> QED BY <1>2 DEF Field

\* A part is read as what it means.
LEMMA PartParsed ==
    ASSUME NEW part, NEW boundary, IsPart(part, boundary), part.value \in Seq(Int)
    PROVE  PartArgs(Piece(Join(part.lines, CRLF), part.value)) = <<MeantOfPart(part)>>
<1> DEFINE j == Join(part.lines, CRLF)
           v == part.value
           w == CRLF \o CRLF
           c == CRLF
           vc == v \o c
           seg == j \o Tailed(v)
           n == Len(j)
           d == MeantFields(part)
<1>1. IsHead(j) /\ DispositionFields(j) = {d} /\ v \in Seq(Int)
    BY FieldsOfPart
<1>15. Field(d, v) = MeantOfPart(part)
    BY FieldMeant
<1> HIDE DEF j, v, d
<1>2. j \in Seq(Int) /\ n \in Nat /\ n >= 1 /\ j[1] # Dash
    BY <1>1 DEF IsHead
<1>3. /\ w \in Seq(Int) /\ vc \in Seq(Int) /\ Tailed(v) \in Seq(Int) /\ seg \in Seq(Int)
      /\ c \in Seq(Int) /\ Len(w) = 4
    <2>1. j \in Seq(Int) /\ v \in Seq(Int)
        BY <1>1, <1>2
    <2>2. w \in Seq(Int) /\ vc \in Seq(Int) /\ Tailed(v) \in Seq(Int) /\ seg \in Seq(Int)
        BY <2>1, PieceFacts
    <2> QED BY <2>2, LineEnd, BlankLine
<1>4. Tailed(v) = w \o vc /\ Piece(j, v) = c \o seg
    BY DEF Tailed, Piece
<1>5. FindSub(seg, w) = {n + 1}
    <2>1. vc \in Seq(Int)
        BY <1>3
    <2> HIDE DEF vc
    <2>2. FindSub(j \o (w \o vc), w) = {Len(j) + 1}
        BY <1>1, <2>1, FirstBlank
    <2> QED BY <1>4, <2>2
<1> HIDE DEF w, c, vc
<1>6. StripPrefix(Piece(j, v), c) = seg
    <2>1. c \in Seq(Int) /\ seg \in Seq(Int)
        BY <1>3
    <2> HIDE DEF seg
    <2>2. StripPrefix(c \o seg, c) = seg
        BY <2>1, StripFront
    <2> QED BY <1>4, <2>2
<1> DEFINE t == Tailed(v)
<1>7. SubSeq(seg, 1, n) = j /\ SubSeq(seg, n + 1, Len(seg)) = t /\ Len(seg) = n + Len(t)
    <2>1. t \in Seq(Int) /\ j \in Seq(Int)
        BY <1>2, <1>3
    <2> HIDE DEF t
    <2>2. SubSeq(j \o t, 1, Len(j)) = j /\ SubSeq(j \o t, Len(j) + 1, Len(j \o t)) = t
        BY <2>1, FrontOf, BackOf
    <2>3. Len(j \o t) = Len(j) + Len(t)
        BY <2>1, ConcatFacts
    <2> QED BY <2>2, <2>3 DEF t
<1>8. SubSeq(seg, (n + 1) + 4, Len(seg)) = vc
    <2>1. t \in Seq(Int) /\ j \in Seq(Int) /\ w \in Seq(Int) /\ vc \in Seq(Int) /\ t = w \o vc
        BY <1>2, <1>3, <1>4
    <2> HIDE DEF t
    <2>2. Len(t) = Len(w) + Len(vc) /\ Len(vc) \in Nat
        <3>1. w \in Seq(Int) /\ vc \in Seq(Int)
            BY <2>1
        <3>2. Len(w \o vc) = Len(w) + Len(vc) /\ Len(vc) \in Nat
            BY <3>1, ConcatFacts
        <3> QED BY <2>1, <3>2
    <2>3. 5 \in 1..Len(t) + 1 /\ Len(t) \in 5 - 1..Len(t) /\ n + 5 = (n + 1) + 4 /\ 4 + 1 = 5
        BY <1>2, <1>3, <2>2
    <2>4. SubSeq(j \o t, Len(j) + 5, Len(j) + Len(t)) = SubSeq(t, 5, Len(t))
        <3>1. t \in Seq(Int) /\ j \in Seq(Int) /\ 5 \in 1..Len(t) + 1 /\ Len(t) \in 5 - 1..Len(t)
            BY <2>1, <2>3
        <3> QED BY <3>1, SubBehind
    <2>5. SubSeq(w \o vc, Len(w) + 1, Len(w \o vc)) = vc
        <3>1. w \in Seq(Int) /\ vc \in Seq(Int)
            BY <2>1
        <3> QED BY <3>1, BackOf
    <2>6. SubSeq(t, 5, Len(t)) = vc
        BY <1>3, <2>1, <2>3, <2>5
    <2>7. seg = j \o t
        BY DEF t
    <2> HIDE DEF seg
    <2> QED BY <1>7, <2>3, <2>4, <2>6, <2>7
<1>9. StripSuffix(vc, c) = v
    <2>1. v \in Seq(Int) /\ c \in Seq(Int)
        BY <1>1, <1>3
    <2> QED BY <2>1, StripBack DEF vc
<1>10. Len(seg) >= 1 /\ seg[1] = j[1]
    <2>1. t \in Seq(Int) /\ j \in Seq(Int)
        BY <1>2, <1>3
    <2> HIDE DEF t
    <2>2. Len(j \o t) = Len(j) + Len(t) /\ Len(t) \in Nat /\ \A i \in 1..Len(j) : (j \o t)[i] = j[i]
        BY <2>1, ConcatFacts
    <2>3. 1 \in 1..Len(j)
        BY <1>2
    <2>4. seg = j \o t
        BY DEF t
    <2> HIDE DEF seg
    <2> QED BY <1>2, <2>2, <2>3, <2>4
<1> HIDE DEF seg
<1>11. seg # <<>>
    <2>1. seg \in Seq(Int) /\ Len(seg) # 0
        BY <1>3, <1>10
    <2> QED BY <2>1
<1>12. ~IsPrefix(<<Dash, Dash>>, seg)
    <2> DEFINE q == <<Dash, Dash>>
    <2>1. q \in Seq(Int) /\ Len(q) = 2 /\ q[1] = Dash
        BY DEF Dash
    <2> HIDE DEF q
    <2> SUFFICES ASSUME IsPrefix(q, seg) PROVE FALSE
        BY DEF q
    <2>2. 2 <= Len(seg) /\ SubSeq(q, 1, 2) = SubSeq(seg, 1, 2)
        BY <2>1 DEF IsPrefix
    <2>3. SubSeq(q, 1, 2)[1] = q[1]
        BY <2>1
    <2>4. SubSeq(seg, 1, 2)[1] = seg[1]
        <3>1. seg \in Seq(Int) /\ Len(seg) \in Nat
            BY <1>3
        <3> QED BY <2>2, <3>1
    <2> QED BY <1>2, <1>10, <2>1, <2>2, <2>3, <2>4
<1>13. (n + 1) - 1 = n
    BY <1>2
<1>14. PartArgs(Piece(j, v)) = <<Field(d, v)>>
    <2>1. SubSeq(seg, 1, (n + 1) - 1) = j
        BY <1>7, <1>13
    <2>2. StripSuffix(SubSeq(seg, (n + 1) + 4, Len(seg)), CRLF) = v
        BY <1>8, <1>9 DEF c
    <2>3. StripPrefix(Piece(j, v), CRLF) = seg /\ FindSub(seg, CRLF \o CRLF) = {n + 1}
        BY <1>5, <1>6 DEF c, w
    <2> HIDE DEF n
    <2>4. DispositionFields(j) = {d}
        BY <1>1
    <2>5. IsSegment(Piece(j, v), seg, n + 1, j, v, d)
        BY <1>11, <1>12, <2>1, <2>2, <2>3, <2>4 DEF IsSegment
    <2> QED BY <2>5, SegmentWithField
<1> QED BY <1>14, <1>15 DEF j, v

\* The boundary's line.
BoundaryLine(b) == <<Dash, Dash>> \o b

\* It starts with a dash and has no end of a line in it.
LEMMA BoundaryFacts ==
    ASSUME NEW b \in Seq(Int), Lacks(b, CR)
    PROVE  /\ BoundaryLine(b) \in Seq(Int) /\ BoundaryLine(b) # <<>> /\ BoundaryLine(b)[1] = Dash
           /\ Lacks(BoundaryLine(b), CR) /\ Len(BoundaryLine(b)) = 2 + Len(b)
           /\ <<Dash, Dash>> \in Seq(Int) /\ Len(<<Dash, Dash>>) = 2
<1> DEFINE q == <<Dash, Dash>>
           w == q \o b
<1>1. q \in Seq(Int) /\ Len(q) = 2 /\ q[1] = Dash /\ q[2] = Dash /\ DOMAIN q = 1..2
    BY DEF Dash
<1>2. Dash # CR
    BY DEF Dash, CR
<1> HIDE DEF q
<1>3. Lacks(q, CR)
    <2>1. \A i \in 1..2 : i = 1 \/ i = 2
        OBVIOUS
    <2> QED BY <1>1, <1>2, <2>1 DEF Lacks
<1>4. q \in Seq(Int)
    BY <1>1
<1>5. w \in Seq(Int) /\ Len(w) = Len(q) + Len(b) /\ Len(b) \in Nat /\ \A i \in 1..Len(q) : w[i] = q[i]
    BY <1>4, ConcatFacts
<1>6. Lacks(w, CR)
    BY <1>3, <1>4, LacksConcat
<1> HIDE DEF w
<1>7. w # <<>>
    <2>1. w \in Seq(Int) /\ Len(w) # 0
        BY <1>1, <1>5
    <2> QED BY <2>1
<1> QED BY <1>1, <1>5, <1>6, <1>7 DEF w, q, BoundaryLine

\* What ends the last boundary's line, and the body.
Closing == <<Dash, Dash>> \o CRLF

\* Its bytes.
LEMMA ClosingFacts ==
    /\ Closing \in Seq(Int) /\ Len(Closing) = 4
    /\ Closing[1] = Dash /\ Closing[2] = Dash /\ Closing[3] = CR /\ Closing[4] = LF
<1> DEFINE c == CRLF
           q == <<Dash, Dash>>
           w == q \o c
<1>1. c \in Seq(Int) /\ Len(c) = 2 /\ c[1] = CR /\ c[2] = LF
    BY LineEnd
<1> HIDE DEF c
<1>2. q \in Seq(Int) /\ Len(q) = 2 /\ q[1] = Dash /\ q[2] = Dash
    BY DEF Dash
<1> HIDE DEF q
<1>3. c \in Seq(Int) /\ q \in Seq(Int)
    BY <1>1, <1>2
<1>4. /\ w \in Seq(Int) /\ Len(w) = Len(q) + Len(c)
      /\ (\A i \in 1..Len(q) : w[i] = q[i]) /\ \A i \in 1..Len(c) : w[Len(q) + i] = c[i]
    BY <1>3, BehindFacts
<1> HIDE DEF w
<1>5. Len(w) = 4 /\ w[1] = Dash /\ w[2] = Dash
    BY <1>1, <1>2, <1>4
<1>6. w[2 + 1] = CR /\ w[2 + 2] = LF
    BY <1>1, <1>2, <1>4
<1>7. w[3] = CR /\ w[4] = LF
    BY <1>6
<1> QED BY <1>4, <1>5, <1>7 DEF w, q, c, Closing

\* What parse_multipart_args drops: nothing, an end of a line, the closing.
Dropped == {<<>>, CRLF, Closing}

\* None of these is a parameter.
LEMMA DroppedParsed ==
    ASSUME NEW x \in Dropped
    PROVE  PartArgs(x) = <<>>
<1> DEFINE c == CRLF
           q == <<Dash, Dash>>
<1>1. c \in Seq(Int) /\ Len(c) = 2 /\ c[1] = CR /\ CR # Dash
    BY LineEnd
<1>2. q \in Seq(Int)
    BY DEF Dash
<1>3. CASE x = <<>>
    <2>1. ~IsPrefix(c, x)
        <3>1. Len(x) = 0
            BY <1>3
        <3> HIDE DEF c
        <3> QED BY <1>1, <3>1 DEF IsPrefix
    <2>2. StripPrefix(x, c) = <<>>
        BY <1>3, <2>1 DEF StripPrefix
    <2> QED BY <2>2 DEF PartArgs
<1>4. CASE x = c
    <2>1. PICK e : e = <<>> 
        OBVIOUS
    <2>2. e \in Seq(Int)
        BY <2>1
    <2>3. c \in Seq(Int)
        BY <1>1
    <2> HIDE DEF c
    <2>4. c \o e = c
        BY <2>1, <2>3
    <2>5. StripPrefix(c \o e, c) = e
        BY <2>2, <2>3, StripFront
    <2>6. StripPrefix(x, c) = <<>>
        BY <1>4, <2>1, <2>4, <2>5
    <2> QED BY <2>6 DEF PartArgs, c
<1>5. CASE x = Closing
    <2>1. ~IsPrefix(c, x)
        <3> HIDE DEF c
        <3>1. x \in Seq(Int) /\ Len(x) = 4 /\ x[1] = Dash
            BY <1>5, ClosingFacts
        <3> SUFFICES ASSUME IsPrefix(c, x) PROVE FALSE
            OBVIOUS
        <3>2. SubSeq(c, 1, 2) = SubSeq(x, 1, 2)
            BY <1>1 DEF IsPrefix
        <3>3. SubSeq(c, 1, 2)[1] = c[1]
            BY <1>1
        <3>4. SubSeq(x, 1, 2)[1] = x[1]
            BY <3>1
        <3> QED BY <1>1, <3>1, <3>2, <3>3, <3>4
    <2>2. StripPrefix(x, c) = x
        BY <2>1 DEF StripPrefix
    <2>3. IsPrefix(q, q \o c)
        <3>1. c \in Seq(Int) /\ q \in Seq(Int)
            BY <1>1, <1>2
        <3> HIDE DEF c, q
        <3> QED BY <3>1, StripFront
    <2>4. IsPrefix(<<Dash, Dash>>, x)
        BY <1>5, <2>3 DEF Closing
    <2> HIDE DEF q
    <2> QED BY <2>2, <2>4 DEF PartArgs
<1> QED BY <1>3, <1>4, <1>5 DEF Dropped

\* The closing splits into what is dropped, whatever the boundary is.
LEMMA ClosingSplits ==
    ASSUME NEW b \in Seq(Int), Lacks(b, CR)
    PROVE  \E zs \in Seq(Texts) : Splits(Closing, zs, BoundaryLine(b)) /\ \A i \in 1..Len(zs) : zs[i] \in Dropped
<1> DEFINE w == BoundaryLine(b)
           e == Closing
           m == Len(b)
<1>1. w \in Seq(Int) /\ w # <<>> /\ w[1] = Dash /\ Lacks(w, CR) /\ Len(w) = 2 + m
    BY BoundaryFacts
<1>2. e \in Seq(Int) /\ Len(e) = 4 /\ e[1] = Dash /\ e[2] = Dash /\ e[3] = CR /\ e[4] = LF
    BY ClosingFacts
<1>3. m \in Nat
    OBVIOUS
<1>4. CASE m = 0
    <2> DEFINE c == CRLF
               q == <<Dash, Dash>>
    <2>1. w = q
        <3>1. b = <<>>
            BY <1>4
        <3>2. q \in Seq(Int)
            BY DEF Dash
        <3>3. q \o <<>> = q
            <4> HIDE DEF q
            <4> QED BY <3>2
        <3> QED BY <3>1, <3>3 DEF BoundaryLine
    <2>2. w \in Seq(Int) /\ w # <<>>
        BY <1>1
    <2>3. PICK x : x = <<>>
        OBVIOUS
    <2>4. x \in Texts /\ Splits(x, <<x>>, w)
        <3>1. x \in Texts
            BY <2>3 DEF Texts
        <3> HIDE DEF w
        <3> QED BY <2>2, <2>3, <3>1, SplitNothing
    <2>5. c \in Seq(Int) /\ c \in Texts /\ Lacks(c, Dash)
        BY LineEnd DEF Texts
    <2>6. Clear(c, w)
        <3>1. c \in Seq(Int) /\ Lacks(c, w[1])
            BY <1>1, <2>5
        <3> HIDE DEF w, c
        <3> QED BY <2>2, <3>1, ClearOfFirst
    <2>7. Splits(c, <<c>>, w)
        <3>1. c \in Seq(Int)
            BY <2>5
        <3> HIDE DEF w, c
        <3> QED BY <2>2, <2>6, <3>1, SplitsPiece
    <2> HIDE DEF w
    <2>8. Splits((x \o w) \o c, <<x>> \o <<c>>, w)
        <3> HIDE DEF c
        <3> QED BY <2>2, <2>4, <2>7, SplitsTogether
    <2>9. (x \o w) \o c = e
        <3>1. x \o w = w
            BY <2>2, <2>3
        <3> QED BY <2>1, <3>1 DEF Closing
    <2> DEFINE zs == <<x>> \o <<c>>
    <2>10. zs \in Seq(Texts) /\ Len(zs) = 2 /\ zs[1] = x /\ zs[2] = c
        <3>1. x \in Texts /\ c \in Texts
            BY <2>4, <2>5
        <3> HIDE DEF c
        <3> QED BY <3>1
    <2> HIDE DEF zs
    <2>11. \A i \in 1..Len(zs) : zs[i] \in Dropped
        <3>1. \A i \in 1..2 : i = 1 \/ i = 2
            OBVIOUS
        <3>2. x \in Dropped /\ c \in Dropped
            BY <2>3 DEF Dropped
        <3> QED BY <2>10, <3>1, <3>2
    <2>12. Splits(e, zs, w)
        BY <2>8, <2>9 DEF zs
    <2> QED BY <2>10, <2>11, <2>12 DEF w
<1>5. CASE m # 0
    <2> HIDE DEF w, e, m
    <2>1. Clear(e, w)
        <3> SUFFICES ASSUME NEW t \in Seq(Int), NEW j \in 1..Len(e), OccursAt(w, e \o t, j) PROVE FALSE
            BY DEF Clear
        <3> DEFINE s == e \o t
        <3>1. s \in Seq(Int) /\ Len(s) = Len(e) + Len(t) /\ Len(t) \in Nat /\ \A i \in 1..Len(e) : s[i] = e[i]
            <4>1. e \in Seq(Int)
                BY <1>2
            <4> QED BY <4>1, ConcatFacts
        <3> HIDE DEF s
        <3>2. s[3] = CR /\ s[4] = LF /\ j \in 1..4 /\ j \in 1..Len(s) + 1
            BY <1>2, <3>1
        <3>3. StandsAt(w, s, j)
            <4>1. s \in Seq(Int) /\ w \in Seq(Int) /\ OccursAt(w, s, j)
                BY <1>1, <3>1 DEF s
            <4> QED BY <3>2, <4>1, OccursAtMeans
        <3>4. \A k \in 1..2 + m : s[j + k - 1] = w[k] /\ w[k] # CR
            <4>1. DOMAIN w = 1..2 + m
                BY <1>1
            <4> QED BY <1>1, <3>3, <4>1 DEF StandsAt, Lacks
        <3>5. j = 1 \/ j = 2 \/ j = 3 \/ j = 4
            BY <3>2
        <3>6. 1 \in 1..2 + m /\ 2 \in 1..2 + m /\ 3 \in 1..2 + m
            BY <1>3, <1>5
        <3>7. CASE j = 1
            <4>1. s[1 + 3 - 1] # CR
                BY <3>4, <3>6, <3>7
            <4>2. 1 + 3 - 1 = 3
                OBVIOUS
            <4> QED BY <3>2, <4>1, <4>2
        <3>8. CASE j = 2
            <4>1. s[2 + 2 - 1] # CR
                BY <3>4, <3>6, <3>8
            <4>2. 2 + 2 - 1 = 3
                OBVIOUS
            <4> QED BY <3>2, <4>1, <4>2
        <3>9. CASE j = 3
            <4>1. s[3 + 1 - 1] # CR
                BY <3>4, <3>6, <3>9
            <4>2. 3 + 1 - 1 = 3
                OBVIOUS
            <4> QED BY <3>2, <4>1, <4>2
        <3>10. CASE j = 4
            <4>1. s[4 + 1 - 1] = Dash
                BY <1>1, <3>4, <3>6, <3>10
            <4>2. 4 + 1 - 1 = 4
                OBVIOUS
            <4> QED BY <3>2, <4>1, <4>2, LineEnd
        <3> QED BY <3>5, <3>7, <3>8, <3>9, <3>10
    <2>2. Splits(e, <<e>>, w)
        <3>1. e \in Seq(Int) /\ w \in Seq(Int) /\ w # <<>>
            BY <1>1, <1>2
        <3> QED BY <2>1, <3>1, SplitsPiece
    <2>3. <<e>> \in Seq(Texts) /\ Len(<<e>>) = 1 /\ \A i \in 1..1 : <<e>>[i] = e
        <3>1. e \in Texts
            BY <1>2 DEF Texts
        <3> QED BY <3>1
    <2>4. e \in Dropped
        BY DEF e, Dropped
    <2> QED BY <2>2, <2>3, <2>4 DEF e, w
<1> QED BY <1>4, <1>5

\* The boundary's line starts nowhere in a part.
LEMMA PieceClear ==
    ASSUME NEW j, IsHead(j), NEW v \in Seq(Int), NEW w \in Seq(Int), w # <<>>, w[1] = Dash, Lacks(w, CR),
           ~Occurs(w, j), ~Occurs(w, v)
    PROVE  Clear(Piece(j, v), w)
<1> DEFINE c == CRLF
           cc == c \o c
           vc == v \o c
           jc == j \o c
           d == c \o vc
           e == jc \o d
<1>1. c \in Seq(Int) /\ Lacks(c, w[1]) /\ cc \in Seq(Int)
    BY LineEnd, BlankLine
<1>2. j \in Seq(Int)
    BY DEF IsHead
<1>3. vc \in Seq(Int) /\ jc \in Seq(Int)
    BY <1>2, PieceFacts
<1>4. Clear(vc, w) /\ Clear(jc, w)
    BY <1>2, ValueClear
<1>5. Piece(j, v) = c \o (j \o (cc \o vc))
    BY DEF Piece, Tailed
<1> HIDE DEF c
<1>6. Clear(c, w)
    BY <1>1, ClearOfFirst
<1>7. jc \o (c \o vc) = j \o (cc \o vc)
    <2>1. c \in Seq(Int) /\ vc \in Seq(Int) /\ c \o vc \in Seq(Int)
        BY <1>1, <1>3
    <2> HIDE DEF vc
    <2>2. (c \o c) \o vc = c \o (c \o vc)
        BY <2>1, Associative, Zenon
    <2>3. (j \o c) \o (c \o vc) = j \o (c \o (c \o vc))
        BY <1>2, <2>1, Associative, Zenon
    <2> QED BY <2>2, <2>3
<1> HIDE DEF cc, vc, jc
<1>8. d \in Seq(Int) /\ Clear(d, w)
    BY <1>1, <1>3, <1>4, <1>6, ClearConcat
<1>9. Piece(j, v) = c \o e
    BY <1>5, <1>7
<1> HIDE DEF d
<1>10. e \in Seq(Int) /\ Clear(e, w)
    BY <1>3, <1>4, <1>8, ClearConcat
<1> HIDE DEF e
<1>11. Clear(c \o e, w)
    BY <1>1, <1>6, <1>10, ClearConcat
<1> QED BY <1>9, <1>11

\* One part as it stands in the body.
PartText(part) == Piece(Join(part.lines, CRLF), part.value)

\* A part is one segment, in which no boundary starts, and is read as it is meant.
LEMMA PartFacts ==
    ASSUME NEW part, NEW b \in Seq(Int), Lacks(b, CR), IsPart(part, b)
    PROVE  /\ PartText(part) \in Texts /\ Clear(PartText(part), BoundaryLine(b))
           /\ PartArgs(PartText(part)) = <<MeantOfPart(part)>>
           /\ BoundaryLine(b) \o CRLF \o Join(part.lines, CRLF) \o CRLF \o CRLF \o part.value \o CRLF
                = BoundaryLine(b) \o PartText(part)
<1> DEFINE j == Join(part.lines, CRLF)
           v == part.value
           w == BoundaryLine(b)
<1>1. v \in Seq(Int)
    <2>1. v \in Seq(Byte)
        BY DEF IsPart
    <2> HIDE DEF v
    <2> QED BY <2>1, BytesAreText
<1>2. IsHead(j)
    BY FieldsOfPart
<1>3. w \in Seq(Int) /\ w # <<>> /\ w[1] = Dash /\ Lacks(w, CR)
    BY BoundaryFacts
<1>4. ~Occurs(w, v) /\ ~Occurs(w, j)
    BY DEF IsPart, BoundaryLine
<1>5. PartArgs(Piece(j, v)) = <<MeantOfPart(part)>>
    BY <1>1, PartParsed
<1>6. j \in Seq(Int)
    BY <1>2 DEF IsHead
<1> HIDE DEF j, v, w
<1>7. Piece(j, v) \in Seq(Int)
    BY <1>1, <1>6, PieceFacts
<1>8. Clear(Piece(j, v), w)
    BY <1>1, <1>2, <1>3, <1>4, PieceClear
<1>9. (((((w \o CRLF) \o j) \o CRLF) \o CRLF) \o v) \o CRLF = w \o Piece(j, v)
    <2>1. w \in Seq(Int)
        BY <1>3
    <2> QED BY <1>1, <1>6, <2>1, PieceBehind
<1> QED BY <1>5, <1>7, <1>8, <1>9 DEF j, v, w, PartText, Texts

\* The parts of a body.
AreParts(parts, b) ==
    /\ Len(parts) \in Nat /\ DOMAIN parts = 1..Len(parts)
    /\ \A i \in DOMAIN parts : IsPart(parts[i], b)

\* A split of a prefix of the body: nothing, then its first k parts.
PartsSplit(x, parts, b, k) ==
    \E zs \in Seq(Texts) : /\ Splits(x, zs, BoundaryLine(b)) /\ Len(zs) = k + 1 /\ zs[1] = <<>>
                           /\ \A i \in 1..k : zs[i + 1] = PartText(parts[i])

\* The body without the parts splits into nothing.
LEMMA NoParts ==
    ASSUME NEW parts, NEW b \in Seq(Int), Lacks(b, CR)
    PROVE  PartsSplit(<<>>, parts, b, 0)
<1> DEFINE w == BoundaryLine(b)
<1>1. w \in Seq(Int) /\ w # <<>>
    BY BoundaryFacts
<1> HIDE DEF w
<1>2. PICK x : x = <<>>
    OBVIOUS
<1>3. Splits(x, <<x>>, w) /\ x \in Texts
    <2>1. x \in Texts
        BY <1>2 DEF Texts
    <2> QED BY <1>1, <1>2, <2>1, SplitNothing
<1>4. <<x>> \in Seq(Texts) /\ Len(<<x>>) = 0 + 1 /\ <<x>>[1] = x
    BY <1>3
<1>5. \A i \in 1..0 : FALSE
    OBVIOUS
<1> QED BY <1>2, <1>3, <1>4, <1>5 DEF PartsSplit, w

\* One more part.
LEMMA OnePartMore ==
    ASSUME NEW parts, NEW b \in Seq(Int), Lacks(b, CR), AreParts(parts, b), NEW k \in 1..Len(parts),
           NEW x, PartsSplit(x, parts, b, k - 1)
    PROVE  x \in Seq(Int) /\ PartsSplit((x \o BoundaryLine(b)) \o PartText(parts[k]), parts, b, k)
<1> DEFINE w == BoundaryLine(b)
           c == PartText(parts[k])
<1>1. w \in Seq(Int) /\ w # <<>>
    BY BoundaryFacts
<1>2. c \in Texts /\ Clear(c, w)
    BY PartFacts DEF AreParts
<1>3. k \in Nat /\ k >= 1 /\ (k - 1) + 1 = k
    BY DEF AreParts
<1> HIDE DEF w, c
<1>4. Splits(c, <<c>>, w)
    BY <1>1, <1>2, SplitsPiece DEF Texts
<1>5. PICK zs \in Seq(Texts) : /\ Splits(x, zs, w) /\ Len(zs) = k /\ zs[1] = <<>>
                               /\ \A i \in 1..k - 1 : zs[i + 1] = PartText(parts[i])
    BY <1>3 DEF PartsSplit, w
<1>6. x \in Seq(Int)
    BY <1>5 DEF Splits
<1> DEFINE ys == zs \o <<c>>
<1>7. Splits((x \o w) \o c, ys, w)
    BY <1>1, <1>4, <1>5, SplitsTogether
<1>8. /\ ys \in Seq(Texts) /\ Len(ys) = k + 1 /\ (\A i \in 1..k : ys[i] = zs[i]) /\ ys[k + 1] = c
    BY <1>2, <1>3, <1>5
<1> HIDE DEF ys
<1>9. ys[1] = <<>>
    BY <1>3, <1>5, <1>8
<1>10. ASSUME NEW i \in 1..k PROVE ys[i + 1] = PartText(parts[i])
    <2>1. CASE i = k
        BY <1>8, <2>1 DEF c
    <2>2. CASE i # k
        <3>1. i \in 1..k - 1 /\ i + 1 \in 1..k
            BY <1>3, <2>2
        <3> QED BY <1>5, <1>8, <3>1
    <2> QED BY <2>1, <2>2
<1>11. PartsSplit((x \o w) \o c, parts, b, k)
    BY <1>7, <1>8, <1>9, <1>10 DEF PartsSplit, w
<1> QED BY <1>6, <1>11 DEF w, c

\* Putting brackets.
LEMMA BracketsLast ==
    ASSUME NEW a \in Seq(Int), NEW w \in Seq(Int), NEW p \in Seq(Int)
    PROVE  (a \o <<>>) \o (w \o p) = (a \o w) \o p /\ (<<>> \o w) \o p = w \o p
<1>1. a \o <<>> = a /\ <<>> \o w = w
    OBVIOUS
<1>2. a \o (w \o p) = (a \o w) \o p
    BY Associative
<1> QED BY <1>1, <1>2

\* The parts, one behind the other.
PartTexts(parts, b) ==
    [i \in DOMAIN parts |->
        BoundaryLine(b) \o CRLF \o Join(parts[i].lines, CRLF) \o CRLF \o CRLF \o parts[i].value \o CRLF]

\* They split into the parts.
LEMMA AllPartsSplit ==
    ASSUME NEW parts, NEW b \in Seq(Int), Lacks(b, CR), AreParts(parts, b)
    PROVE  PartsSplit(Concat(PartTexts(parts, b)), parts, b, Len(parts))
<1> DEFINE n == Len(parts)
           ss == PartTexts(parts, b)
           w == BoundaryLine(b)
           none == <<>>
<1>1. n \in Nat /\ DOMAIN parts = 1..n
    BY DEF AreParts
<1>2. Len(ss) = n /\ Len(ss) \in Nat
    BY <1>1 DEF PartTexts
<1>3. ASSUME NEW k \in 1..n PROVE ss[k] = w \o PartText(parts[k]) /\ PartText(parts[k]) \in Seq(Int)
    <2>1. k \in DOMAIN parts /\ IsPart(parts[k], b)
        BY <1>1 DEF AreParts
    <2>2. ss[k] = w \o CRLF \o Join(parts[k].lines, CRLF) \o CRLF \o CRLF \o parts[k].value \o CRLF
        BY <2>1 DEF PartTexts
    <2> HIDE DEF ss, w
    <2>3. /\ PartText(parts[k]) \in Texts
          /\ w \o CRLF \o Join(parts[k].lines, CRLF) \o CRLF \o CRLF \o parts[k].value \o CRLF
                = w \o PartText(parts[k])
        BY <2>1, PartFacts DEF w
    <2> QED BY <2>2, <2>3 DEF Texts
<1>4. w \in Seq(Int)
    BY BoundaryFacts
<1> HIDE DEF n, ss, w
<1>5. PICK f : /\ Join(ss, none) = f[Len(ss)] /\ f[0] = <<>>
               /\ \A k \in 1..Len(ss) : f[k] = JoinStep(f[k - 1], ss, none, k)
    <2> HIDE DEF none
    <2> QED BY <1>2, JoinLoop
<1> DEFINE P == {k \in 0..n : PartsSplit(f[k], parts, b, k)}
<1>6. 0 \in P
    <2>1. PartsSplit(f[0], parts, b, 0)
        BY <1>5, NoParts
    <2> QED BY <1>1, <2>1
<1>7. ASSUME NEW k \in 1..n, k - 1 \in P PROVE k \in P
    <2> DEFINE p == PartText(parts[k])
               x == f[k - 1]
    <2>1. k \in 0..n /\ f[k] = JoinStep(x, ss, none, k)
        BY <1>1, <1>2, <1>5
    <2>2. PartsSplit(x, parts, b, k - 1)
        BY <1>7
    <2>3. p \in Seq(Int) /\ ss[k] = w \o p
        BY <1>3
    <2>4. x \in Seq(Int) /\ PartsSplit((x \o w) \o p, parts, b, k)
        <3>1. k \in 1..Len(parts)
            BY DEF n
        <3> HIDE DEF x
        <3> QED BY <2>2, <3>1, OnePartMore DEF w
    <2> HIDE DEF p
    <2>5. f[k] = (x \o w) \o p
        <3>1. CASE k = 1
            <4>1. x = <<>>
                BY <1>5, <3>1
            <4>2. f[k] = w \o p
                BY <2>1, <2>3, <3>1 DEF JoinStep
            <4>3. (<<>> \o w) \o p = w \o p
                BY <1>4, <2>3, <2>4, BracketsLast
            <4> QED BY <4>1, <4>2, <4>3
        <3>2. CASE k # 1
            <4>1. f[k] = (x \o <<>>) \o (w \o p)
                BY <2>1, <2>3, <3>2 DEF JoinStep
            <4>2. x \in Seq(Int)
                BY <2>4
            <4> HIDE DEF x
            <4>3. (x \o <<>>) \o (w \o p) = (x \o w) \o p
                BY <1>4, <2>3, <4>2, BracketsLast
            <4> QED BY <4>1, <4>3
        <3> QED BY <3>1, <3>2
    <2> QED BY <2>1, <2>4, <2>5
<1> HIDE DEF P
<1>8. n \in P
    BY <1>1, <1>6, <1>7, UpTo
<1>9. PartsSplit(f[n], parts, b, n)
    BY <1>8 DEF P
<1>10. Concat(ss) = f[n]
    BY <1>2, <1>5 DEF Concat
<1> QED BY <1>9, <1>10 DEF n, ss

\* What parse_multipart_args sees: nothing, the parts, and what it drops.
LEMMA BodySplits ==
    ASSUME NEW parts, NEW b \in Seq(Int), Lacks(b, CR), AreParts(parts, b)
    PROVE  \E segs \in Seq(Texts) :
                /\ SplitOn(MultipartBody(parts, b), BoundaryLine(b)) = segs
                /\ Len(segs) >= Len(parts) + 1 /\ segs[1] = <<>>
                /\ \A i \in 1..Len(parts) : segs[i + 1] = PartText(parts[i])
                /\ \A i \in Len(parts) + 2..Len(segs) : segs[i] \in Dropped
<1> DEFINE n == Len(parts)
           w == BoundaryLine(b)
           a == Concat(PartTexts(parts, b))
           q == <<Dash, Dash>>
           c == CRLF
<1>1. n \in Nat
    BY DEF AreParts
<1>2. w \in Seq(Int) /\ w # <<>> /\ q \in Seq(Int) /\ c \in Seq(Int)
    BY BoundaryFacts, LineEnd
<1>3. PICK zs \in Seq(Texts) : /\ Splits(a, zs, w) /\ Len(zs) = n + 1 /\ zs[1] = <<>>
                               /\ \A i \in 1..n : zs[i + 1] = PartText(parts[i])
    <2>1. PartsSplit(a, parts, b, n)
        BY AllPartsSplit
    <2> HIDE DEF a, n
    <2> QED BY <2>1 DEF PartsSplit
<1>4. PICK ys \in Seq(Texts) : Splits(Closing, ys, w) /\ \A i \in 1..Len(ys) : ys[i] \in Dropped
    BY ClosingSplits
<1>5. MultipartBody(parts, b) = ((a \o w) \o q) \o c
    BY DEF MultipartBody, PartTexts, BoundaryLine
<1>6. a \in Seq(Int)
    <2> HIDE DEF a
    <2> QED BY <1>3 DEF Splits
<1> HIDE DEF n, w, a
<1>7. ((a \o w) \o q) \o c = (a \o w) \o Closing
    <2>1. q \in Seq(Int) /\ c \in Seq(Int) /\ a \o w \in Seq(Int)
        BY <1>2, <1>6
    <2> HIDE DEF q, c
    <2>2. ((a \o w) \o q) \o c = (a \o w) \o (q \o c)
        BY <2>1, Associative
    <2> QED BY <2>2 DEF Closing, q, c
<1> DEFINE segs == zs \o ys
<1>8. Splits((a \o w) \o Closing, segs, w)
    BY <1>2, <1>3, <1>4, SplitsTogether
<1>9. /\ segs \in Seq(Texts) /\ Len(segs) = (n + 1) + Len(ys) /\ Len(ys) \in Nat
      /\ (\A i \in 1..n + 1 : segs[i] = zs[i])
      /\ \A i \in n + 2..Len(segs) : segs[i] = ys[i - (n + 1)] /\ i - (n + 1) \in 1..Len(ys)
    <2>1. /\ segs \in Seq(Texts) /\ Len(segs) = Len(zs) + Len(ys) /\ Len(ys) \in Nat
          /\ (\A i \in 1..Len(zs) : segs[i] = zs[i])
          /\ \A i \in Len(zs) + 1..Len(segs) : segs[i] = ys[i - Len(zs)]
        OBVIOUS
    <2> HIDE DEF segs
    <2>2. \A i \in n + 2..Len(segs) : i \in Len(zs) + 1..Len(segs) /\ i - (n + 1) \in 1..Len(ys)
        BY <1>1, <1>3, <2>1
    <2> QED BY <1>3, <2>1, <2>2
<1> HIDE DEF segs
<1>10. SplitOn(MultipartBody(parts, b), w) = segs
    BY <1>5, <1>7, <1>8 DEF Splits
<1>11. Len(segs) >= n + 1 /\ segs[1] = <<>>
    BY <1>1, <1>3, <1>9
<1>12. \A i \in 1..n : segs[i + 1] = PartText(parts[i])
    <2>1. \A i \in 1..n : i + 1 \in 1..n + 1
        BY <1>1
    <2> QED BY <1>3, <1>9, <2>1
<1>13. \A i \in n + 2..Len(segs) : segs[i] \in Dropped
    BY <1>4, <1>9
<1> QED BY <1>9, <1>10, <1>11, <1>12, <1>13 DEF n, w

\* The boundary of such a media type is found.
LEMMA BoundaryFound ==
    ASSUME NEW b
    PROVE  ExtractBoundary(BoundaryParams(b)) = {b}
<1> DEFINE p == BoundaryParams(b)
           I == {k \in DOMAIN p : /\ p[k].key = "boundary"
                                  /\ \A j \in 1..k : p[j].key # "flag" /\ (j < k => p[j].key # "boundary")}
<1>1. DOMAIN p = 1..2 /\ p[1].key = "charset" /\ p[2].key = "boundary" /\ p[2].value = b
    BY DEF BoundaryParams
<1>2. \A i \in 1..2 : i = 1 \/ i = 2
    OBVIOUS
<1>3. I = {2}
    <2> HIDE DEF p
    <2>1. 2 \in I
        BY <1>1, <1>2
    <2>2. \A k \in I : k = 2
        BY <1>1, <1>2
    <2> QED BY <2>1, <2>2
<1>4. ExtractBoundary(p) = {p[k].value : k \in I}
    BY DEF ExtractBoundary
<1> HIDE DEF I, p
<1>5. ExtractBoundary(p) = {b}
    BY <1>1, <1>3, <1>4
<1> QED BY <1>5 DEF p

\* A multipart body is read as what its parts mean.
LEMMA MultipartParsed ==
    ASSUME NEW parts, NEW b \in Seq(Int), Lacks(b, CR), AreParts(parts, b)
    PROVE  MultipartArgs(MultipartBody(parts, b), BoundaryParams(b))
              = [i \in DOMAIN parts |-> MeantOfPart(parts[i])]
<1> DEFINE n == Len(parts)
           body == MultipartBody(parts, b)
           xs == [i \in 1..n |-> MeantOfPart(parts[i])]
           S == {MeantOfPart(parts[i]) : i \in 1..n}
<1>1. n \in Nat /\ DOMAIN parts = 1..n
    BY DEF AreParts
<1>2. PICK segs \in Seq(Texts) :
                /\ SplitOn(body, BoundaryLine(b)) = segs
                /\ Len(segs) >= n + 1 /\ segs[1] = <<>>
                /\ \A i \in 1..n : segs[i + 1] = PartText(parts[i])
                /\ \A i \in n + 2..Len(segs) : segs[i] \in Dropped
    BY BodySplits
<1>3. MultipartArgs(body, BoundaryParams(b)) = Concat([i \in DOMAIN segs |-> PartArgs(segs[i])])
    <2>1. ExtractBoundary(BoundaryParams(b)) = {b} /\ The({b}) = b /\ {b} # {}
        BY BoundaryFound, TheOnly
    <2>2. SplitOn(body, <<Dash, Dash>> \o b) = segs
        BY <1>2 DEF BoundaryLine
    <2> HIDE DEF body
    <2> QED BY <2>1, <2>2 DEF MultipartArgs, Parsed
<1> DEFINE ss == [i \in DOMAIN segs |-> PartArgs(segs[i])]
           N == Len(segs)
<1>4. N \in Nat /\ Len(ss) = N /\ \A i \in 1..N : ss[i] = PartArgs(segs[i])
    OBVIOUS
<1>5. xs \in Seq(S) /\ Len(xs) = n /\ \A i \in 1..n : xs[i] = MeantOfPart(parts[i])
    <2> DEFINE F(i) == MeantOfPart(parts[i])
    <2>1. \A i \in 1..n : F(i) \in S
        OBVIOUS
    <2> HIDE DEF F, S, n
    <2>2. [i \in 1..n |-> F(i)] \in Seq(S) /\ Len([i \in 1..n |-> F(i)]) = n
        BY <1>1, <2>1
    <2> QED BY <2>2 DEF F
<1> HIDE DEF ss, xs, S, N, body
<1>6. ASSUME NEW i \in 1..N PROVE ss[i] = IF i - 1 \in 1..n THEN <<xs[i - 1]>> ELSE <<>>
    <2>1. ss[i] = PartArgs(segs[i])
        BY <1>4
    <2>2. CASE i = 1
        <3>1. segs[i] \in Dropped
            BY <1>2, <2>2 DEF Dropped
        <3>2. ss[i] = <<>>
            BY <2>1, <3>1, DroppedParsed
        <3>3. ~(i - 1 \in 1..n)
            BY <1>1, <2>2
        <3> QED BY <3>2, <3>3
    <2>3. CASE i - 1 \in 1..n
        <3> DEFINE k == i - 1
        <3>1. k \in 1..n /\ k + 1 = i
            BY <1>4, <2>3
        <3>2. segs[i] = PartText(parts[k])
            BY <1>2, <3>1
        <3>3. k \in DOMAIN parts /\ IsPart(parts[k], b)
            BY <1>1, <3>1 DEF AreParts
        <3> HIDE DEF k
        <3>4. PartArgs(PartText(parts[k])) = <<MeantOfPart(parts[k])>>
            BY <3>3, PartFacts
        <3>5. ss[i] = <<xs[k]>>
            BY <1>5, <2>1, <3>1, <3>2, <3>4
        <3> QED BY <2>3, <3>5 DEF k
    <2>4. CASE i # 1 /\ ~(i - 1 \in 1..n)
        <3>1. i \in n + 2..Len(segs)
            BY <1>1, <1>4, <2>4 DEF N
        <3>2. ss[i] = <<>>
            BY <1>2, <2>1, <3>1, DroppedParsed
        <3> QED BY <2>4, <3>2
    <2> QED BY <2>2, <2>3, <2>4
<1>7. Concat(ss) = xs
    <2>1. Len(ss) \in Nat /\ Len(ss) >= 1 + Len(xs)
        BY <1>1, <1>2, <1>4, <1>5 DEF N
    <2>2. \A i \in 1..Len(ss) : ss[i] = IF i - 1 \in 1..Len(xs) THEN <<xs[i - 1]>> ELSE <<>>
        BY <1>4, <1>5, <1>6
    <2>3. xs \in Seq(S) /\ 1 \in Nat
        BY <1>5
    <2> QED BY <2>1, <2>2, <2>3, Gathered
<1> QED BY <1>1, <1>3, <1>7 DEF ss, xs, body

-----------------------------------------------------------------------------
(* The rules see the parameters that were meant. *)

\* The query's parameters.
LEMMA QueryParsed ==
    ASSUME NEW m, IsMeaning(m), NEW r, WireOf(m, r)
    PROVE  Parsed(r.query, ParsePairs) = IF m.query = {} THEN <<>> ELSE VisiblePairs(The(m.query))
<1>1. CASE m.query = {}
    <2>1. r.query = {}
        BY <1>1 DEF WireOf
    <2> QED BY <1>1, <2>1 DEF Parsed
<1>2. CASE m.query # {}
    <2>1. PICK x \in m.query : \E w \in EncodedPairs(x) : r.query = {w}
        BY <1>2 DEF WireOf
    <2>2. PICK w \in EncodedPairs(x) : r.query = {w}
        BY <2>1
    <2>3. x \in PairLists /\ \A y \in m.query : y = x
        BY DEF IsMeaning
    <2>4. The(m.query) = x
        <3>1. m.query = {x}
            BY <2>3
        <3> QED BY <3>1, TheOnly
    <2>5. Parsed(r.query, ParsePairs) = ParsePairs(w)
        <3>1. The({w}) = w /\ {w} # {}
            BY TheOnly
        <3> QED BY <2>2, <3>1 DEF Parsed
    <2>6. ParsePairs(w) = VisiblePairs(x)
        BY <2>3, PairsParsed
    <2> QED BY <1>2, <2>4, <2>5, <2>6
<1> QED BY <1>1, <1>2

\* The parameters of collect_args behind the query's.
InBody(r) ==
    LET BodyArgs(ct) ==
            CASE ct.kind = "form" -> ParsePairs(Lossy(The(r.body)))
              [] ct.kind = "json" -> JsonArgs(r.json)
              [] ct.kind = "multipart" -> MultipartArgs(The(r.body), ct.params)
              [] OTHER -> <<>>
    IN IF r.body = {} THEN <<>> ELSE Parsed(r.ctype, BodyArgs)

\* By kind.
LEMMA InBodyOfKind ==
    ASSUME NEW r, NEW b, NEW ct, r.body = {b}, r.ctype = {ct}
    PROVE  /\ ct.kind = "form" => InBody(r) = ParsePairs(Lossy(b))
           /\ ct.kind = "json" => InBody(r) = JsonArgs(r.json)
           /\ ct.kind = "multipart" => InBody(r) = MultipartArgs(b, ct.params)
<1>1. The({b}) = b /\ The({ct}) = ct /\ {b} # {} /\ {ct} # {}
    BY TheOnly
<1>2. CASE ct.kind = "form"
    BY <1>1, <1>2 DEF InBody, Parsed
<1>3. CASE ct.kind = "json"
    BY <1>1, <1>3 DEF InBody, Parsed
<1>4. CASE ct.kind = "multipart"
    BY <1>1, <1>4 DEF InBody, Parsed
<1> QED BY <1>2, <1>3, <1>4

\* The body's parameters.
LEMMA BodyParsed ==
    ASSUME NEW m, IsMeaning(m), NEW r, WireOf(m, r), HeadersOf(m, r)
    PROVE  InBody(r) = MeantInBody(m)
<1> DEFINE ct == [kind |-> m.via, params |-> BoundaryParams(m.boundary)]
<1>1. ct.kind = m.via /\ ct.params = BoundaryParams(m.boundary)
    OBVIOUS
<1>2. m.via # "none" => r.ctype = {ct}
    BY DEF HeadersOf
<1> HIDE DEF ct
<1>3. m.via \in {"none", "form", "json", "multipart"}
    BY DEF IsMeaning
<1>4. CASE m.via = "none"
    <2>1. r.body = {}
        BY <1>4 DEF WireOf
    <2>2. MeantInBody(m) = <<>>
        BY <1>4 DEF MeantInBody
    <2> QED BY <2>1, <2>2 DEF InBody
<1>5. CASE m.via = "form"
    <2>1. PICK w \in EncodedPairs(m.pairs) : r.body = {w}
        BY <1>5 DEF WireOf
    <2>2. m.pairs \in PairLists
        BY DEF IsMeaning
    <2>3. ParsePairs(w) = VisiblePairs(m.pairs)
        BY <2>2, PairsParsed
    <2>6. Lossy(w) = w
        <3>1. w \in Seq(Int) /\ Over(w, Ascii)
            BY <2>2, PairsAscii
        <3> QED BY <3>1, AsciiIsText
    <2>7. InBody(r) = ParsePairs(Lossy(w))
        BY <1>1, <1>2, <1>5, <2>1, InBodyOfKind
    <2>4. InBody(r) = ParsePairs(w)
        BY <2>6, <2>7
    <2>5. MeantInBody(m) = VisiblePairs(m.pairs)
        BY <1>5 DEF MeantInBody
    <2> QED BY <2>3, <2>4, <2>5
<1>6. CASE m.via = "json"
    <2>1. r.body = {m.text} /\ r.json = {m.leaves} /\ AreLeaves(m.leaves)
        BY <1>6 DEF WireOf, HeadersOf, IsMeaning
    <2>2. InBody(r) = JsonArgs(r.json)
        BY <1>1, <1>2, <1>6, <2>1, InBodyOfKind
    <2> DEFINE leaves == m.leaves
    <2>3. JsonArgs(r.json) = LeafArgs(leaves)
        <3>1. The({leaves}) = leaves /\ {leaves} # {}
            BY TheOnly
        <3> QED BY <2>1, <3>1 DEF JsonArgs, Parsed
    <2>4. LeafArgs(leaves) = LET paths == SetToSeq(DOMAIN leaves)
                             IN [i \in DOMAIN paths |-> <<Join(paths[i], <<Dot>>), leaves[paths[i]]>>]
        BY <2>1, LeavesParsed
    <2>5. MeantInBody(m) = LET paths == SetToSeq(DOMAIN leaves)
                           IN [i \in DOMAIN paths |-> <<Join(paths[i], <<Dot>>), leaves[paths[i]]>>]
        BY <1>6 DEF MeantInBody
    <2> HIDE DEF leaves
    <2> QED BY <2>2, <2>3, <2>4, <2>5
<1>7. CASE m.via = "multipart"
    <2> DEFINE parts == m.parts
               b == m.boundary
    <2>1. r.body = {MultipartBody(parts, b)}
        BY <1>7 DEF WireOf
    <2>2. b \in Seq(Int) /\ Lacks(b, CR)
        <3>1. b \in Seq(Byte) /\ ToStr(b)
            BY DEF IsMeaning
        <3> HIDE DEF b
        <3>2. Lacks(b, CR)
            <4>1. \A x \in 32..126 \cup {9} : x # CR
                BY DEF CR
            <4>2. \A i \in DOMAIN b : b[i] \in 32..126 \cup {9}
                BY <3>1 DEF ToStr
            <4> QED BY <4>1, <4>2, Zenon DEF Lacks
        <3> QED BY <3>1, <3>2, BytesAreText
    <2>3. AreParts(parts, b)
        <3>1. parts \in Seq(ToSet(parts)) /\ \A i \in DOMAIN parts : IsPart(parts[i], b)
            BY DEF IsMeaning
        <3> HIDE DEF parts, b
        <3>2. Len(parts) \in Nat /\ DOMAIN parts = 1..Len(parts)
            BY <3>1
        <3> QED BY <3>1, <3>2 DEF AreParts
    <2>4. InBody(r) = MultipartArgs(MultipartBody(parts, b), BoundaryParams(b))
        BY <1>1, <1>2, <1>7, <2>1, InBodyOfKind
    <2>5. MeantInBody(m) = [i \in DOMAIN parts |-> MeantOfPart(parts[i])]
        BY <1>7 DEF MeantInBody
    <2> HIDE DEF parts, b
    <2>6. MultipartArgs(MultipartBody(parts, b), BoundaryParams(b))
            = [i \in DOMAIN parts |-> MeantOfPart(parts[i])]
        BY <2>2, <2>3, MultipartParsed
    <2> QED BY <2>4, <2>5, <2>6
<1> QED BY <1>3, <1>4, <1>5, <1>6, <1>7

\* The cookies.
LEMMA CookiesMeant ==
    ASSUME NEW m, IsMeaning(m), NEW r, HeadersOf(m, r)
    PROVE  CollectCookies(r) = MeantCookies(m)
<1> DEFINE cs == m.cookies
           h == Join([i \in DOMAIN cs |-> cs[i][1] \o <<Equals>> \o cs[i][2]], <<Semi, Space>>)
           read == \A i \in DOMAIN cs : ToStr(cs[i][1]) /\ ToStr(cs[i][2])
<1>1. r.cookie = IF cs = <<>> THEN {} ELSE {h}
    BY DEF HeadersOf
<1>2. AreCookies(cs)
    BY DEF IsMeaning
<1>3. cs # <<>> => ParseCookies(h) = cs /\ (ToStr(h) <=> read)
    <2> HIDE DEF cs
    <2> QED BY <1>2, CookiesParsed, CookieHeader
<1>4. MeantCookies(m) = IF read THEN cs ELSE <<>>
    BY DEF MeantCookies
<1> HIDE DEF cs, h, read
<1>5. The({h}) = h /\ {h} # {}
    BY TheOnly
<1>6. CASE cs = <<>>
    <2>1. {c \in r.cookie : ToStr(c)} = {}
        BY <1>1, <1>6
    <2> QED BY <1>4, <1>6, <2>1 DEF CollectCookies, Parsed
<1>7. CASE cs # <<>> /\ ToStr(h)
    <2>1. {c \in r.cookie : ToStr(c)} = {h}
        BY <1>1, <1>7
    <2> QED BY <1>3, <1>4, <1>5, <1>7, <2>1 DEF CollectCookies, Parsed
<1>8. CASE cs # <<>> /\ ~ToStr(h)
    <2>1. {c \in r.cookie : ToStr(c)} = {}
        BY <1>1, <1>8
    <2> QED BY <1>3, <1>4, <1>8, <2>1 DEF CollectCookies, Parsed
<1> QED BY <1>6, <1>7, <1>8

\* However a client writes its parameters, collect_args gives the rules exactly
\* the ones that were meant, in their order, and collect_cookies the cookies.
LEMMA CollectedAsMeant ==
    ASSUME NEW m, IsMeaning(m), NEW r, WireOf(m, r), HeadersOf(m, r)
    PROVE  CollectArgs(r) = MeantArgs(m) /\ CollectCookies(r) = MeantCookies(m)
<1>1. CollectArgs(r) = Parsed(r.query, ParsePairs) \o InBody(r)
    BY DEF CollectArgs, InBody
<1>2. MeantArgs(m) = (IF m.query = {} THEN <<>> ELSE VisiblePairs(The(m.query))) \o MeantInBody(m)
    BY DEF MeantArgs
<1> QED BY <1>1, <1>2, QueryParsed, BodyParsed, CookiesMeant

\* Whatever the cases mean, however a client writes a parameter (any character of a
\* name or a value escaped or not, in the query, a form, a JSON document or a
\* multipart body whose dispositions are quoted) collect_args returns what was meant:
\* of an escaped byte that is not ASCII a '?', of a part's value that is not UTF-8
\* what from_utf8_lossy leaves of it.  collect_cookies returns all of the cookies, or
\* none where one byte of the header is not visible ASCII (HeaderValue::to_str).
THEOREM Meant == Spec => []ArgsAsMeant
<1>1. WireInv => ArgsAsMeant
    <2> SUFFICES ASSUME WireInv, Written PROVE ArgsAsMeant
        BY DEF ArgsAsMeant
    <2>1. IsMeaning(case.means) /\ WireOf(case.means, req) /\ HeadersOf(case.means, req)
        BY CasesAssumption DEF WireInv
    <2>2. CollectArgs(req) = MeantArgs(case.means) /\ CollectCookies(req) = MeantCookies(case.means)
        BY <2>1, CollectedAsMeant
    <2> QED BY <2>2, Zenon DEF ArgsAsMeant
<1> QED BY <1>1, WireAlways, PTL

-----------------------------------------------------------------------------
(* The moments of an evaluation. *)

\* What matches_request says of a condition at a moment: a clock and a counter.
MatchedAt(c, r, s) == MatchesRequest(c, r, s[1], s[2])

\* A rule matched only if matches_request accepted each condition at a moment of
\* the evaluation, and failed only if it refused one at such a moment.
EvaluatedInTime ==
    pc \in {"scan", "done"} =>
        IF out THEN \A i \in DOMAIN case.when : \E s \in seen : MatchedAt(case.when[i], req, s)
        ELSE \E i \in DOMAIN case.when : \E s \in seen : ~MatchedAt(case.when[i], req, s)

\* While the conditions are evaluated, the present moment is one of the
\* evaluation's and the conditions in front of the next one were accepted.
VerdictInv ==
    /\ pc \in {"start", "compiled", "rejected", "wire"} => pos = 1
    /\ pc = "rule" =>
        /\ <<now, count>> \in seen
        /\ \A i \in 1..pos - 1 : \E s \in seen : MatchedAt(case.when[i], req, s)
    /\ EvaluatedInTime

\* One turn of conds.iter().all(...) keeps it.
LEMMA TurnStep ==
    ASSUME TypeInv, VerdictInv, EvalCondition
    PROVE  VerdictInv'
<1> DEFINE when == case.when
           n == Len(when)
           here == <<now, count>>
           holds == MatchesRequest(when[pos], req, now, count)
           At(i) == \E s \in seen : MatchedAt(when[i], req, s)
<1>1. /\ pc = "rule" /\ pos' = (IF holds /\ pos # n THEN pos + 1 ELSE pos) /\ out' = (holds /\ pos = n)
      /\ pc' = (IF holds /\ pos # n THEN "rule" ELSE "scan")
      /\ case' = case /\ req' = req /\ now' = now /\ count' = count /\ seen' = seen
    BY DEF EvalCondition
<1>2. here \in seen /\ \A i \in 1..pos - 1 : At(i)
    BY <1>1 DEF VerdictInv
<1>3. n \in Nat /\ DOMAIN when = 1..n /\ pos \in 1..n
    <2>1. when \in Seq(ToSet(when))
        BY CasesAssumption DEF TypeInv
    <2>2. when # <<>> /\ pos \in 1..(IF when = <<>> THEN 1 ELSE n)
        BY <1>1 DEF TypeInv, TypeOK
    <2> HIDE DEF when
    <2> QED BY <2>1, <2>2
<1>4. MatchedAt(when[pos], req, here) = holds
    BY DEF MatchedAt
<1> HIDE DEF holds, when, n, here
<1>5. holds => \A i \in 1..pos : At(i)
    <2>1. ASSUME holds, NEW i \in 1..pos PROVE At(i)
        <3>1. i \in 1..pos - 1 \/ i = pos
            BY <1>3
        <3> QED BY <1>2, <1>4, <2>1, <3>1
    <2> QED BY <2>1
<1>6. ~holds => \E i \in DOMAIN when : \E s \in seen : ~MatchedAt(when[i], req, s)
    BY <1>2, <1>3, <1>4
<1>7. CASE holds /\ pos # n
    <2>1. pc' = "rule" /\ pos' = pos + 1 /\ pos' - 1 = pos
        BY <1>1, <1>3, <1>7
    <2>2. \A i \in 1..pos' - 1 : At(i)
        BY <1>5, <1>7, <2>1
    <2> QED BY <1>1, <1>2, <2>1, <2>2 DEF VerdictInv, EvaluatedInTime, when, here
<1>8. CASE holds /\ pos = n
    <2>1. pc' = "scan" /\ out' = TRUE
        BY <1>1, <1>8
    <2>2. \A i \in DOMAIN when : At(i)
        BY <1>3, <1>5, <1>8
    <2> QED BY <1>1, <2>1, <2>2 DEF VerdictInv, EvaluatedInTime, when
<1>9. CASE ~holds
    <2>1. pc' = "scan" /\ out' = FALSE
        BY <1>1, <1>9
    <2> QED BY <1>1, <1>6, <1>9, <2>1 DEF VerdictInv, EvaluatedInTime, when
<1> QED BY <1>7, <1>8, <1>9

\* And so does every other step.
LEMMA VerdictStep ==
    ASSUME TypeInv, VerdictInv, [Next]_vars
    PROVE  VerdictInv'
<1>1. CASE Compile
    BY <1>1 DEF Compile, VerdictInv, EvaluatedInTime
<1>2. CASE Send
    <2>1. pc = "compiled" /\ pc' = "wire" /\ pos' = pos
        BY <1>2 DEF Send
    <2> QED BY <2>1 DEF VerdictInv, EvaluatedInTime
<1>3. CASE EarlyStack
    <2>1. /\ pc = "wire" /\ pc' = "rule" /\ pos' = pos /\ seen' = {<<now, count>>}
          /\ now' = now /\ count' = count
        BY <1>3 DEF EarlyStack
    <2>2. pos' = 1 /\ \A i \in 1..pos' - 1 : FALSE
        BY <2>1 DEF VerdictInv
    <2> QED BY <2>1, <2>2 DEF VerdictInv, EvaluatedInTime
<1>4. CASE EvalCondition
    BY <1>4, TurnStep
<1>5. CASE ScanSignatures
    <2>1. /\ pc = "scan" /\ pc' = "done"
          /\ case' = case /\ req' = req /\ out' = out /\ seen' = seen
        BY <1>5 DEF ScanSignatures
    <2> QED BY <2>1 DEF VerdictInv, EvaluatedInTime
<1>6. CASE Tick \/ OthersBump
    <2>1. /\ pc \notin {"scan", "done"} /\ pc' = pc /\ case' = case /\ req' = req /\ pos' = pos
          /\ pc = "rule" => seen' = seen \cup {<<now', count'>>}
        BY <1>6 DEF Tick, OthersBump
    <2> QED BY <2>1 DEF VerdictInv, EvaluatedInTime
<1>7. CASE UNCHANGED vars
    BY <1>7 DEF vars, VerdictInv, EvaluatedInTime
<1> QED BY <1>1, <1>2, <1>3, <1>4, <1>5, <1>6, <1>7 DEF Next

\* However many conditions a rule has, and whatever the clock and the other
\* requests of the client do meanwhile, no verdict rests on a clock or a counter
\* read before the evaluation began (matches_request, utc_minutes_now,
\* utc_epoch_minutes): each condition was accepted, or one was refused, at a
\* moment of it, on the parameters and cookies that were meant.
THEOREM Explained == Spec => [](EvaluatedInTime /\ ArgsAsMeant)
<1>1. Init => VerdictInv
    BY DEF Init, VerdictInv, EvaluatedInTime
<1>2. TypeInv /\ VerdictInv /\ [Next]_vars => VerdictInv'
    BY VerdictStep
<1>3. VerdictInv => EvaluatedInTime
    BY DEF VerdictInv
<1> QED BY <1>1, <1>2, <1>3, TypeAlways, Meant, PTL DEF Spec

-----------------------------------------------------------------------------
(* Numbers, written and read again. *)

\* One call of the recursion that writes a number.
RenderStep(f, m) == IF m < 10 THEN <<48 + m>> ELSE Append(f[m \div 10], 48 + (m % 10))
RendersUpTo(f, n) == f = [m \in 0..n |-> RenderStep(f, m)]

\* A number without its last digit is smaller.
LEMMA LastDigit ==
    ASSUME NEW m \in Nat, m >= 10
    PROVE  m \div 10 \in 0..m - 1 /\ m % 10 \in 0..9 /\ m = 10 * (m \div 10) + (m % 10)
OBVIOUS

\* Writing a number is well defined.
LEMMA RenderExists ==
    ASSUME NEW n \in Nat
    PROVE  \E f : RendersUpTo(f, n)
<1> DEFINE P == {m \in Nat : \E f : RendersUpTo(f, m)}
<1>1. 0 \in P
    <2> DEFINE x == <<48 + 0>>
               f == [k \in 0..0 |-> x]
    <2>1. \A g : RenderStep(g, 0) = x
        BY DEF RenderStep
    <2>2. \A k \in 0..0 : k = 0
        OBVIOUS
    <2> HIDE DEF x
    <2>3. [k \in 0..0 |-> x] = [k \in 0..0 |-> RenderStep(f, k)]
        BY <2>1, <2>2
    <2>4. f = [k \in 0..0 |-> RenderStep(f, k)]
        <3> HIDE DEF f
        <3> QED BY <2>3 DEF f
    <2> HIDE DEF f
    <2>5. RendersUpTo(f, 0)
        BY <2>4 DEF RendersUpTo
    <2> QED BY <2>5
<1>2. ASSUME NEW m \in 1..n, m - 1 \in P PROVE m \in P
    <2>1. PICK f : RendersUpTo(f, m - 1)
        BY <1>2
    <2> DEFINE g == [k \in 0..m |-> IF k = m THEN RenderStep(f, m) ELSE f[k]]
    <2>2. \A k \in 0..(m - 1) : f[k] = RenderStep(f, k)
        BY <2>1 DEF RendersUpTo
    <2>3. /\ g = [k \in 0..m |-> g[k]] /\ g[m] = RenderStep(f, m)
          /\ \A k \in 0..(m - 1) : g[k] = f[k]
        OBVIOUS
    <2> HIDE DEF g
    <2>4. ASSUME NEW k \in 0..m PROVE g[k] = RenderStep(g, k)
        <3>1. k >= 10 => k \div 10 \in 0..(m - 1)
            <4>1. k \in Nat /\ k <= m /\ m \in Nat
                OBVIOUS
            <4> QED BY <4>1, LastDigit
        <3>2. RenderStep(g, k) = RenderStep(f, k)
            <4>1. k >= 10 => g[k \div 10] = f[k \div 10]
                BY <2>3, <3>1
            <4>2. CASE k < 10
                BY <4>2 DEF RenderStep
            <4>3. CASE ~(k < 10)
                BY <4>1, <4>3 DEF RenderStep
            <4> QED BY <4>2, <4>3
        <3>3. k = m \/ k \in 0..(m - 1)
            OBVIOUS
        <3> QED BY <2>2, <2>3, <3>2, <3>3
    <2>5. RendersUpTo(g, m)
        BY <2>3, <2>4 DEF RendersUpTo
    <2> QED BY <2>5
<1> HIDE DEF P
<1>3. n \in P
    BY <1>1, <1>2, UpTo
<1> QED BY <1>3 DEF P

\* The loop that reads one.
ReadsUpTo(v, s) == v = [i \in 0..Len(s) |-> IF i = 0 THEN 0 ELSE 10 * v[i - 1] + s[i] - 48]

\* Digits, and the number they are read as.
AreDigits(s) == s \in Seq(Int) /\ Len(s) >= 1 /\ \A i \in 1..Len(s) : s[i] \in Digit
ReadsAs(s, n) == AreDigits(s) /\ \E v : ReadsUpTo(v, s) /\ v[Len(s)] = n

\* One digit.
LEMMA ReadOne ==
    ASSUME NEW d \in 0..9
    PROVE  ReadsAs(<<48 + d>>, d)
<1> DEFINE s == <<48 + d>>
           v == [i \in 0..1 |-> IF i = 0 THEN 0 ELSE d]
<1>1. s \in Seq(Int) /\ Len(s) = 1 /\ s[1] = 48 + d /\ 48 + d \in Digit
    BY DEF Digit
<1>2. v = [i \in 0..1 |-> v[i]] /\ v[0] = 0 /\ v[1] = d
    OBVIOUS
<1> HIDE DEF s, v
<1>3. AreDigits(s)
    <2>1. \A i \in 1..1 : i = 1
        OBVIOUS
    <2> QED BY <1>1, <2>1 DEF AreDigits
<1>4. ASSUME NEW i \in 0..1 PROVE v[i] = IF i = 0 THEN 0 ELSE 10 * v[i - 1] + s[i] - 48
    <2>1. i = 0 \/ i = 1
        OBVIOUS
    <2> QED BY <1>1, <1>2, <2>1
<1>5. ReadsUpTo(v, s)
    BY <1>1, <1>2, <1>4 DEF ReadsUpTo
<1> QED BY <1>1, <1>2, <1>3, <1>5 DEF ReadsAs, s

\* One digit more.
LEMMA ReadMore ==
    ASSUME NEW s, NEW n \in Nat, ReadsAs(s, n), NEW d \in 0..9
    PROVE  ReadsAs(Append(s, 48 + d), 10 * n + d)
<1> DEFINE m == Len(s)
           t == Append(s, 48 + d)
<1>1. s \in Seq(Int) /\ m \in Nat /\ \A i \in 1..m : s[i] \in Digit
    BY DEF ReadsAs, AreDigits
<1>2. PICK v : ReadsUpTo(v, s) /\ v[m] = n
    BY DEF ReadsAs
<1>3. 48 + d \in Digit /\ 48 + d \in Int
    BY DEF Digit
<1>4. t \in Seq(Int) /\ Len(t) = m + 1 /\ (\A i \in 1..m : t[i] = s[i]) /\ t[m + 1] = 48 + d
    BY <1>1, <1>3
<1> DEFINE u == [i \in 0..m + 1 |-> IF i = m + 1 THEN 10 * n + d ELSE v[i]]
<1>5. u = [i \in 0..m + 1 |-> u[i]] /\ u[m + 1] = 10 * n + d /\ \A i \in 0..m : u[i] = v[i]
    BY <1>1
<1>6. \A i \in 0..m : v[i] = IF i = 0 THEN 0 ELSE 10 * v[i - 1] + s[i] - 48
    BY <1>2 DEF ReadsUpTo
<1> HIDE DEF t, u, m
<1>7. ASSUME NEW i \in 0..m + 1 PROVE u[i] = IF i = 0 THEN 0 ELSE 10 * u[i - 1] + t[i] - 48
    <2>1. CASE i = m + 1
        <3>1. i # 0 /\ i - 1 = m /\ m \in 0..m
            BY <1>1, <2>1
        <3>2. u[i - 1] = n /\ t[i] = 48 + d /\ u[i] = 10 * n + d
            BY <1>2, <1>4, <1>5, <2>1, <3>1
        <3>3. 10 * n + d = 10 * n + (48 + d) - 48
            OBVIOUS
        <3> QED BY <3>1, <3>2, <3>3
    <2>2. CASE i # m + 1
        <3>1. i \in 0..m /\ (i # 0 => i - 1 \in 0..m /\ i \in 1..m)
            BY <1>1, <2>2
        <3>2. u[i] = v[i] /\ (i # 0 => u[i - 1] = v[i - 1] /\ t[i] = s[i])
            BY <1>4, <1>5, <3>1
        <3> QED BY <1>6, <3>1, <3>2
    <2> QED BY <2>1, <2>2
<1>8. ReadsUpTo(u, t)
    BY <1>4, <1>5, <1>7 DEF ReadsUpTo
<1>9. AreDigits(t)
    <2>1. \A i \in 1..m + 1 : i \in 1..m \/ i = m + 1
        BY <1>1
    <2>2. m + 1 >= 1
        BY <1>1
    <2> QED BY <1>1, <1>3, <1>4, <2>1, <2>2 DEF AreDigits
<1> QED BY <1>4, <1>5, <1>8, <1>9 DEF ReadsAs, t

\* What is written reads as the number.
LEMMA RenderReads ==
    ASSUME NEW n \in Nat
    PROVE  ReadsAs(Render(n), n)
<1> DEFINE f == CHOOSE g : RendersUpTo(g, n)
<1>1. RendersUpTo(f, n)
    BY RenderExists
<1>2. Render(n) = f[n]
    BY DEF Render, RendersUpTo, RenderStep
<1> HIDE DEF f
<1>3. \A m \in 0..n : f[m] = RenderStep(f, m)
    BY <1>1 DEF RendersUpTo
<1> DEFINE T == {m \in 0..n : ~ReadsAs(f[m], m)}
<1>4. T = {}
    <2> SUFFICES ASSUME T # {} PROVE FALSE
        OBVIOUS
    <2>1. T \in SUBSET Nat
        OBVIOUS
    <2>2. PICK m \in T : \A k \in T : m <= k
        <3> HIDE DEF T
        <3> QED BY <2>1, LeastNat
    <2>3. m \in 0..n /\ m \in Nat /\ ~ReadsAs(f[m], m) /\ f[m] = RenderStep(f, m)
        BY <1>3
    <2>4. CASE m < 10
        <3>1. f[m] = <<48 + m>> /\ m \in 0..9
            BY <2>3, <2>4 DEF RenderStep
        <3> QED BY <2>3, <3>1, ReadOne
    <2>5. CASE ~(m < 10)
        <3> DEFINE q == m \div 10
                   d == m % 10
        <3>1. q \in 0..m - 1 /\ d \in 0..9 /\ m = 10 * q + d
            BY <2>3, <2>5, LastDigit
        <3>2. f[m] = Append(f[q], 48 + d)
            BY <2>3, <2>5 DEF RenderStep
        <3> HIDE DEF q, d
        <3>3. q \in Nat /\ q \in 0..n /\ ~(m <= q)
            BY <2>3, <3>1
        <3>4. ReadsAs(f[q], q)
            BY <2>2, <3>3
        <3>5. ReadsAs(Append(f[q], 48 + d), 10 * q + d)
            BY <3>1, <3>3, <3>4, ReadMore
        <3> QED BY <2>3, <3>1, <3>2, <3>5
    <2> QED BY <2>4, <2>5
<1>5. n \in 0..n
    OBVIOUS
<1> QED BY <1>2, <1>4, <1>5

\* The loop has one result.
LEMMA ReadsOnce ==
    ASSUME NEW s \in Seq(Int), NEW u, NEW v, ReadsUpTo(u, s), ReadsUpTo(v, s)
    PROVE  u[Len(s)] = v[Len(s)]
<1> DEFINE n == Len(s)
           P == {k \in 0..n : u[k] = v[k]}
<1>1. n \in Nat
    OBVIOUS
<1>2. /\ \A i \in 0..n : u[i] = IF i = 0 THEN 0 ELSE 10 * u[i - 1] + s[i] - 48
      /\ \A i \in 0..n : v[i] = IF i = 0 THEN 0 ELSE 10 * v[i - 1] + s[i] - 48
    BY DEF ReadsUpTo
<1> HIDE DEF n
<1>3. 0 \in P
    BY <1>1, <1>2
<1>4. ASSUME NEW k \in 1..n, k - 1 \in P PROVE k \in P
    <2>1. k \in 0..n /\ k # 0 /\ u[k - 1] = v[k - 1]
        BY <1>1, <1>4
    <2>2. u[k] = 10 * u[k - 1] + s[k] - 48 /\ v[k] = 10 * v[k - 1] + s[k] - 48
        BY <1>2, <2>1
    <2> QED BY <2>1, <2>2
<1> HIDE DEF P
<1>5. n \in P
    BY <1>1, <1>3, <1>4, UpTo
<1> QED BY <1>5 DEF P, n

\* A number that the rules write into a candidate (a counter, a count, the clock)
\* is read back as that number, if it is within the bound (to_string, parse).
THEOREM ReadBack ==
    ASSUME NEW n \in Nat, NEW max \in Int
    PROVE  ParseInt(Render(n), max) = IF n <= max THEN {n} ELSE {}
<1> DEFINE s == Render(n)
<1>1. ReadsAs(s, n)
    BY RenderReads
<1> HIDE DEF s
<1>2. s \in Seq(Int) /\ Len(s) >= 1 /\ \A i \in 1..Len(s) : s[i] \in Digit
    BY <1>1 DEF ReadsAs, AreDigits
<1>3. DOMAIN s = 1..Len(s) /\ Len(s) \in Nat /\ s \in Seq(Int)
    BY <1>2
<1>4. s[1] \in Digit /\ s[Len(s)] \in Digit
    BY <1>2, <1>3
<1>5. s # <<>>
    <2>1. s \in Seq(Int) /\ Len(s) # 0
        BY <1>2, <1>3
    <2> QED BY <2>1
<1>6. \A d \in Digit : d \notin Blank /\ d # Plus /\ d # Dash
    BY DEF Digit, Blank, Plus, Dash
<1>7. Trim(s) = s
    <2>1. IsTrimmed(s)
        BY <1>4, <1>6 DEF IsTrimmed
    <2> QED BY <1>3, <2>1, TrimNone
<1>8. ~(s # <<>> /\ s[1] \in {Plus, Dash})
    BY <1>4, <1>6
<1> DEFINE value == CHOOSE v : ReadsUpTo(v, s)
<1>9. value[Len(s)] = n
    <2>1. PICK v : ReadsUpTo(v, s) /\ v[Len(s)] = n
        BY <1>1 DEF ReadsAs
    <2>2. ReadsUpTo(value, s)
        BY <2>1
    <2> HIDE DEF value
    <2> QED BY <1>3, <2>1, <2>2, ReadsOnce
<1>10. value = CHOOSE v : v = [i \in 0..Len(s) |-> IF i = 0 THEN 0 ELSE 10 * v[i - 1] + s[i] - 48]
    BY DEF ReadsUpTo
<1> HIDE DEF value
<1>11. \A i \in DOMAIN s : s[i] \in Digit
    BY <1>2, <1>3
<1>12. ParseInt(s, max) = IF s # <<>> /\ (\A i \in DOMAIN s : s[i] \in Digit) /\ value[Len(s)] <= max
                          THEN {value[Len(s)]} ELSE {}
    <2> DEFINE Signed(t) == t # <<>> /\ t[1] \in {Plus, Dash}
               Digits(t) == IF Signed(t) THEN Tail(t) ELSE t
               ReadOf(d) == CHOOSE v : v = [i \in 0..Len(d) |-> IF i = 0 THEN 0 ELSE 10 * v[i - 1] + d[i] - 48]
               Value(t) == IF Signed(t) /\ t[1] = Dash THEN -ReadOf(Digits(t))[Len(Digits(t))]
                           ELSE ReadOf(Digits(t))[Len(Digits(t))]
               Result(t) == IF Digits(t) # <<>> /\ (\A i \in DOMAIN Digits(t) : Digits(t)[i] \in Digit)
                                /\ Value(t) <= max
                            THEN {Value(t)} ELSE {}
    <2>1. ParseInt(s, max) = Result(Trim(s))
        BY DEF ParseInt
    <2>2. ~Signed(s)
        BY <1>8
    <2>3. ReadOf(s) = value
        BY <1>10
    <2> HIDE DEF Signed, ReadOf
    <2>4. Digits(s) = s
        BY <2>2
    <2> HIDE DEF Digits
    <2>5. Value(s) = value[Len(s)]
        BY <2>2, <2>3, <2>4
    <2> HIDE DEF Value
    <2>6. Result(s) = IF s # <<>> /\ (\A i \in DOMAIN s : s[i] \in Digit) /\ value[Len(s)] <= max
                      THEN {value[Len(s)]} ELSE {}
        BY <2>4, <2>5
    <2> HIDE DEF Result
    <2> QED BY <1>7, <2>1, <2>6
<1> QED BY <1>5, <1>9, <1>11, <1>12 DEF s
-----------------------------------------------------------------------------
(* What a condition says of what was meant. *)

\* Without transformations a candidate is tried as it is.
LEMMA Untransformed ==
    ASSUME NEW c, c.transform = <<>>, NEW v
    PROVE  Transformed(c, v) = v
<1> DEFINE q == c.transform
           Iter(g) == [s \in SUBSET (DOMAIN q) |->
                            IF s = {} THEN v ELSE ApplyTransform(q[Max(s)], g[s \ {Max(s)}])]
           f == CHOOSE g : g = Iter(g)
<1>1. DOMAIN q = {}
    OBVIOUS
<1>2. Transformed(c, v) = f[DOMAIN q]
    BY DEF Transformed, FoldLeft, MapThenFoldSet
<1>3. \A s \in SUBSET (DOMAIN q) : s = {}
    BY <1>1
<1>4. \A g : Iter(g) = [s \in SUBSET (DOMAIN q) |-> v]
    BY <1>3
<1>5. f = [s \in SUBSET (DOMAIN q) |-> v]
    BY <1>4
<1> HIDE DEF f
<1> QED BY <1>1, <1>2, <1>5

\* Reading a text gives at most one number.
LEMMA ReadAtMostOne ==
    ASSUME NEW s, NEW max, ParseInt(s, max) # {}
    PROVE  \E k : ParseInt(s, max) = {k}
BY DEF ParseInt

\* A condition on a number that was written compares that number.
LEMMA NumberMeant ==
    ASSUME NEW c, c.op \in NumOp, c.transform = <<>>, ParseInt(c.value, NumMax) # {},
           NEW x \in Nat, x <= NumMax
    PROVE  EvalOp(c, Transformed(c, Render(x))) <=> Compare(c.op, x, The(ParseInt(c.value, NumMax)))
<1>1. PICK k : ParseInt(c.value, NumMax) = {k}
    BY ReadAtMostOne
<1>2. ParseInt(Render(x), NumMax) = {x}
    <2>1. NumMax \in Int
        BY BoundsAssumption
    <2> QED BY <2>1, ReadBack
<1>3. EvalOp(c, Render(x)) <=> \E y \in {x} : \E z \in {k} : Compare(c.op, y, z)
    BY <1>1, <1>2 DEF EvalOp, NumOp
<1>4. Transformed(c, Render(x)) = Render(x) /\ The({k}) = k
    BY Untransformed, TheOnly
<1> QED BY <1>1, <1>3, <1>4

\* The wall clock of a zone is the division by days.
LEMMA WallClock ==
    ASSUME NEW t \in Nat, NEW o, IsOffset(o)
    PROVE  WallDay(t, o) = (t + o) \div Day /\ WallMinute(t, o) = (t + o) % Day
<1> DEFINE u == t + o
           q == u \div Day
           r == u % Day
<1>1. u \in Int /\ -32768 <= u /\ u <= t + 32767
    BY DEF IsOffset
<1> HIDE DEF u
<1>2. q \in Int /\ r \in 0..Day - 1 /\ u = (Day * q) + r
    BY <1>1, DivideByDay
<1> HIDE DEF q, r
<1>3. -30 <= q /\ q <= t + 30
    BY <1>1, <1>2 DEF Day
<1>4. q \in (-30)..(t + 30)
    BY <1>2, <1>3
<1>5. \A d \in Int : t + o - Day * d = u - Day * d
    BY <1>1 DEF u, IsOffset, Day
<1>6. \A d \in Int : 0 <= t + o - Day * d /\ t + o - Day * d < Day <=> d = q
    <2>1. \A d \in Int : 0 <= u - Day * d /\ u - Day * d < Day <=> d = q
        BY <1>1, <1>2 DEF Day
    <2> QED BY <1>5, <2>1
<1>7. \A d \in (-30)..(t + 30) : d \in Int
    OBVIOUS
<1>8. WallDay(t, o) = q
    BY <1>4, <1>6, <1>7, Zenon DEF WallDay
<1>9. WallMinute(t, o) = u - Day * q
    BY <1>2, <1>5, <1>8 DEF WallMinute
<1>10. u - Day * q = r
    BY <1>1, <1>2 DEF Day
<1> QED BY <1>8, <1>9, <1>10, Zenon DEF q, r, u

\* A zone that is written in full resolves to the offset it says.
LEMMA ZoneMeant ==
    ASSUME NEW c, PlainZone(c.tz)
    PROVE  ResolveTz(c) = {ZoneOf(c)} /\ IsOffset(ZoneOf(c))
<1>1. CASE c.tz = <<>>
    BY <1>1, BoundsAssumption DEF ResolveTz, ZoneOf
<1>2. CASE c.tz # <<>>
    <2> DEFINE g == c.tz[1]
               h == c.tz[2]
               m == c.tz[3]
    <2>1. g \in {-1, 1} /\ h \in 0..14 /\ m \in 0..59
        BY <1>2 DEF PlainZone
    <2>2. ResolveTz(c) = ParseTzOffset(g, h, m) /\ ZoneOf(c) = g * (60 * h + m)
        BY <1>2 DEF ResolveTz, ZoneOf
    <2> HIDE DEF g, h, m
    <2>3. Wrap16(60 * h) = 60 * h /\ Wrap16(60 * h + m) = 60 * h + m /\ Wrap16(-(60 * h + m)) = -(60 * h + m)
        BY <2>1 DEF Wrap16
    <2>4. g * (60 * h + m) = IF g = 1 THEN 60 * h + m ELSE -(60 * h + m)
        BY <2>1
    <2>5. ParseTzOffset(g, h, m) = {Wrap16(g * (60 * h + m))}
        BY <2>1, <2>3 DEF ParseTzOffset
    <2>6. Wrap16(g * (60 * h + m)) = g * (60 * h + m)
        BY <2>3, <2>4
    <2>7. IsOffset(g * (60 * h + m))
        BY <2>1, <2>4 DEF IsOffset
    <2> QED BY <2>2, <2>5, <2>6, <2>7
<1> QED BY <1>1, <1>2

\* An hour and a minute are a minute of the day.
LEMMA HhmmRange ==
    ASSUME NEW x \in 0..23, NEW y \in 0..59
    PROVE  60 * x + y \in 0..Day - 1
BY DEF Day

\* A time of day is in a window as the wall clock of the zone says.
LEMMA TimeMeant ==
    ASSUME NEW c, c.op = "time_between", c.transform = <<>>, PlainZone(c.tz),
           ParseTimeWindow(c.window) # {}, NEW t \in Nat
    PROVE  EvalOp(c, Transformed(c, Render(UtcMinutes(t)))) <=> InTime(c, t)
<1> DEFINE o == ZoneOf(c)
           m == UtcMinutes(t)
           w == c.window
           from == 60 * w[1] + w[2]
           to == 60 * w[3] + w[4]
<1>1. ResolveTz(c) = {o} /\ IsOffset(o)
    BY ZoneMeant
<1>2. m \in 0..Day - 1
    BY DivideByDay DEF UtcMinutes
<1>3. ParseInt(Render(m), 65535) = {m}
    <2> HIDE DEF m
    <2>1. m \in Nat /\ m <= 65535 /\ 65535 \in Int
        BY <1>2 DEF Day
    <2> QED BY <2>1, ReadBack
<1>4. ParseTimeWindow(w) = {<<from, to>>} /\ from \in 0..Day - 1 /\ to \in 0..Day - 1
    <2>1. ParseTimeWindow(w) = ParseHhmm(w[1], w[2]) \X ParseHhmm(w[3], w[4])
        BY DEF ParseTimeWindow
    <2>2. ParseHhmm(w[1], w[2]) # {} /\ ParseHhmm(w[3], w[4]) # {}
        BY <2>1
    <2>3. /\ w[1] \in 0..23 /\ w[2] \in 0..59 /\ w[3] \in 0..23 /\ w[4] \in 0..59
          /\ ParseHhmm(w[1], w[2]) = {from} /\ ParseHhmm(w[3], w[4]) = {to}
        BY <2>2 DEF ParseHhmm
    <2>4. from \in 0..Day - 1 /\ to \in 0..Day - 1
        BY <2>3, HhmmRange
    <2> HIDE DEF from, to
    <2> QED BY <2>1, <2>3, <2>4
<1>5. WallMinute(t, o) = (t + o) % Day
    BY <1>1, WallClock
<1>6. EvalOp(c, Render(m)) <=> \E x \in {m} : \E v \in {<<from, to>>} : \E y \in {o} : InWindow(x, v[1], v[2], y)
    <2> HIDE DEF m, from, to, o
    <2> QED BY <1>1, <1>3, <1>4 DEF EvalOp, NumOp
<1>7. EvalOp(c, Render(m)) <=> InWindow(m, from, to, o)
    <2> HIDE DEF m, from, to, o
    <2> QED BY <1>6
<1>8. InWindow(m, from, to, o) <=> (((t + o) % Day) - from) % Day <= (to - from) % Day
    <2>1. from \in 0..Day - 1 /\ to \in 0..Day - 1 /\ o \in Int /\ t \in Int
        BY <1>1, <1>4 DEF IsOffset
    <2> HIDE DEF from, to, o
    <2> QED BY <2>1, WindowIsCyclic
<1>9. Transformed(c, Render(m)) = Render(m)
    BY Untransformed
<1> HIDE DEF m, from, to, o
<1> QED BY <1>5, <1>7, <1>8, <1>9 DEF InTime, m, from, to, o, w

\* Where a day stands among the names of the wall calendar follows from its number.
LEMMA WallIndexed ==
    ASSUME NEW d \in 0..6
    PROVE  WallIndex(DayNames[d + 1]) = ((d + 3) % 7) + 1
<1> DEFINE j == ((d + 3) % 7) + 1
           hits == {i \in 1..Len(WallNames) : WallNames[i] = DayNames[d + 1]}
<1>1. j \in 1..7
    OBVIOUS
<1>2. Len(WallNames) = 7
    BY DEF WallNames
<1>3. \A i \in 1..7 : WallNames[i] = DayNames[d + 1] <=> i = j
    <2>1. d = 0 \/ d = 1 \/ d = 2 \/ d = 3 \/ d = 4 \/ d = 5 \/ d = 6
        OBVIOUS
    <2> QED BY <2>1 DEF WallNames, DayNames
<1> HIDE DEF j
<1>4. hits = {j}
    BY <1>1, <1>2, <1>3
<1>5. WallIndex(DayNames[d + 1]) = IF hits # {} THEN Min(hits) ELSE 0
    BY DEF WallIndex, SelectInSeq
<1> HIDE DEF hits
<1>6. Min({j}) = j
    BY <1>1 DEF Min
<1> QED BY <1>4, <1>5, <1>6 DEF j

\* The name of a day says which day it is.
LEMMA DayNamed ==
    ASSUME NEW name, ParseDayName(name) # {}
    PROVE  \E d \in 0..6 : ParseDayName(name) = {d} /\ name = DayNames[d + 1]
<1>1. PICK d \in 0..6 : name = DayNames[d + 1]
    BY DEF ParseDayName
<1>2. \A e \in 0..6 : DayNames[e + 1] = DayNames[d + 1] => e = d
    BY DEF DayNames
<1> QED BY <1>1, <1>2 DEF ParseDayName

\* How far a day is behind another, around the week, is the difference of their numbers.
LEMMA DaysApart ==
    ASSUME NEW a \in 0..6, NEW b \in 0..6
    PROVE  Apart(DayNames[a + 1], DayNames[b + 1]) = (b - a) % 7
<1>1. Apart(DayNames[a + 1], DayNames[b + 1]) = ((((b + 3) % 7) + 1) - (((a + 3) % 7) + 1)) % 7
    BY WallIndexed, Zenon DEF Apart
<1>2. \A x \in 0..6, y \in 0..6 : ((((x + 3) % 7) + 1) - (((y + 3) % 7) + 1)) % 7 = (x - y) % 7
    OBVIOUS
<1> QED BY <1>1, <1>2

\* Today by name is today by number.
LEMMA TodayNamed ==
    ASSUME NEW t \in Nat, NEW o, IsOffset(o)
    PROVE  /\ Weekday(t, o) \in 0..6
           /\ WallNames[(WallDay(t, o) % 7) + 1] = DayNames[Weekday(t, o) + 1]
<1> DEFINE q == (t + o) \div Day
<1>1. t + o \in Int
    BY DEF IsOffset
<1>2. q \in Int
    BY <1>1, DivideByDay
<1>3. WallDay(t, o) = q /\ Weekday(t, o) = (q + 4) % 7
    BY WallClock, Zenon DEF Weekday
<1> HIDE DEF q
<1>4. (q + 4) % 7 \in 0..6 /\ q % 7 \in 0..6 /\ (q + 4) % 7 = ((q % 7) + 4) % 7
    BY <1>2
<1>5. \A k \in 0..6 : WallNames[k + 1] = DayNames[((k + 4) % 7) + 1]
    <2>1. \A k \in 0..6 : k = 0 \/ k = 1 \/ k = 2 \/ k = 3 \/ k = 4 \/ k = 5 \/ k = 6
        OBVIOUS
    <2> QED BY <2>1 DEF WallNames, DayNames
<1> QED BY <1>3, <1>4, <1>5

\* A day is in a list of days and ranges of days as the calendar of the zone says.
LEMMA DayMeant ==
    ASSUME NEW c, c.op = "day_of_week", c.transform = <<>>, PlainZone(c.tz), PlainDays(c.days),
           ParseDayMask(c.days) # {}, NEW t \in Nat, t <= NumMax
    PROVE  EvalOp(c, Transformed(c, Render(t))) <=> OnDay(c, t)
<1> DEFINE o == ZoneOf(c)
           days == c.days
           today == WallNames[(WallDay(t, o) % 7) + 1]
           w == Weekday(t, o)
           Opens(i) == days[i][1]
           Closes(i) == days[i][Len(days[i])]
           mask == UNION {UNION {DayRange(a, b) : a \in ParseDayName(Opens(i)), b \in ParseDayName(Closes(i))}
                          : i \in DOMAIN days}
<1>1. ResolveTz(c) = {o} /\ IsOffset(o)
    BY ZoneMeant
<1>2. w \in 0..6 /\ today = DayNames[w + 1]
    <2> HIDE DEF o
    <2> QED BY <1>1, TodayNamed
<1>3. ParseInt(Render(t), NumMax) = {t}
    <2>1. NumMax \in Int
        BY BoundsAssumption
    <2> QED BY <2>1, ReadBack
<1>4. /\ ParseDayMask(days) = {mask}
      /\ \A i \in DOMAIN days : \A j \in DOMAIN days[i] : ParseDayName(days[i][j]) # {}
    BY DEF ParseDayMask
<1>5. EvalOp(c, Render(t)) <=> w \in mask
    <2> HIDE DEF o, mask, days, today
    <2>1. EvalOp(c, Render(t)) <=> \E x \in {t} : \E v \in {mask} : \E y \in {o} : Weekday(x, y) \in v
        BY <1>1, <1>3, <1>4 DEF EvalOp, NumOp, days
    <2> QED BY <2>1, Zenon
<1>6. w \in mask <=> \E i \in DOMAIN days : \E a \in ParseDayName(Opens(i)), b \in ParseDayName(Closes(i)) :
                                                w \in DayRange(a, b)
    <2> HIDE DEF w, days, o
    <2> QED OBVIOUS
<1>7. \A i \in DOMAIN days :
        (\E a \in ParseDayName(Opens(i)), b \in ParseDayName(Closes(i)) : w \in DayRange(a, b))
        <=> Apart(Opens(i), today) <= Apart(Opens(i), Closes(i))
    <2> SUFFICES ASSUME NEW i \in DOMAIN days
                 PROVE  (\E a \in ParseDayName(Opens(i)), b \in ParseDayName(Closes(i)) : w \in DayRange(a, b))
                        <=> Apart(Opens(i), today) <= Apart(Opens(i), Closes(i))
        BY Zenon
    <2>1. ParseDayName(Opens(i)) # {} /\ ParseDayName(Closes(i)) # {}
        BY <1>4 DEF PlainDays
    <2> DEFINE f == Opens(i)
               l == Closes(i)
    <2> HIDE DEF f, l, w, today, days, o
    <2>2. PICK a \in 0..6 : ParseDayName(f) = {a} /\ f = DayNames[a + 1]
        BY <2>1, DayNamed, Zenon DEF f, l
    <2>3. PICK b \in 0..6 : ParseDayName(l) = {b} /\ l = DayNames[b + 1]
        BY <2>1, DayNamed, Zenon DEF f, l
    <2>4. Apart(f, today) = (w - a) % 7 /\ Apart(f, l) = (b - a) % 7
        BY <1>2, <2>2, <2>3, DaysApart, Zenon
    <2>5. w \in DayRange(a, b) <=> (w - a) % 7 <= (b - a) % 7
        BY <1>2, DaysAreCyclic, Zenon
    <2>6. (\E x \in ParseDayName(f), y \in ParseDayName(l) : w \in DayRange(x, y)) <=> w \in DayRange(a, b)
        BY <2>2, <2>3, Zenon
    <2>7. (\E x \in ParseDayName(f), y \in ParseDayName(l) : w \in DayRange(x, y))
          <=> Apart(f, today) <= Apart(f, l)
        BY <2>4, <2>5, <2>6, Zenon
    <2> QED BY <2>7, Zenon DEF f, l
<1>8. Transformed(c, Render(t)) = Render(t)
    BY Untransformed
<1> HIDE DEF w, mask
<1>9. OnDay(c, t) <=> \E i \in DOMAIN days : Apart(Opens(i), today) <= Apart(Opens(i), Closes(i))
    BY Zenon DEF OnDay
<1> HIDE DEF today, days, Opens, Closes
<1> QED BY <1>5, <1>6, <1>7, <1>8, <1>9, Zenon DEF days

\* A meaning has a number of parameters.
LEMMA MeantCounted ==
    ASSUME NEW m, IsMeaning(m)
    PROVE  Len(MeantArgs(m)) \in Nat
<1> DEFINE Listed(s) == \E n \in Nat : DOMAIN s = 1..n /\ s = [i \in 1..n |-> s[i]]
           a == IF m.query = {} THEN <<>> ELSE VisiblePairs(The(m.query))
           b == MeantInBody(m)
<1>1. \A pairs \in PairLists : Listed(VisiblePairs(pairs))
    <2> SUFFICES ASSUME NEW pairs \in PairLists PROVE Listed(VisiblePairs(pairs))
        OBVIOUS
    <2>1. DOMAIN pairs = 1..Len(pairs) /\ Len(pairs) \in Nat
        BY DEF PairLists
    <2> QED BY <2>1 DEF VisiblePairs
<1>2. Listed(<<>>)
    <2>1. <<>> = [i \in 1..0 |-> <<>>[i]] /\ DOMAIN <<>> = 1..0
        OBVIOUS
    <2> QED BY <2>1
<1>3. Listed(a)
    <2>1. m.query # {} => The(m.query) \in m.query
        BY DEF The
    <2>2. m.query \subseteq PairLists
        BY DEF IsMeaning
    <2> HIDE DEF Listed
    <2> QED BY <1>1, <1>2, <2>1, <2>2
<1>4. Listed(b)
    <2>1. m.via = "none" => b = <<>>
        BY DEF MeantInBody
    <2>2. m.via = "form" => b = VisiblePairs(m.pairs) /\ m.pairs \in PairLists
        BY DEF MeantInBody, IsMeaning
    <2>3. ASSUME m.via = "json" PROVE Listed(b)
        <3> DEFINE paths == SetToSeq(DOMAIN m.leaves)
                   n == Cardinality(DOMAIN m.leaves)
                   A(i) == <<Join(paths[i], <<Dot>>), m.leaves[paths[i]]>>
        <3>1. DOMAIN paths = 1..n /\ n \in Nat
            BY PathsOfLeaves DEF IsMeaning, AreLeaves
        <3>2. b = [i \in DOMAIN paths |-> A(i)]
            BY <2>3 DEF MeantInBody
        <3> HIDE DEF paths, n, A
        <3> QED BY <3>1, <3>2
    <2>4. ASSUME m.via = "multipart" PROVE Listed(b)
        <3> DEFINE n == Len(m.parts)
                   A(i) == MeantOfPart(m.parts[i])
        <3>1. DOMAIN m.parts = 1..n /\ n \in Nat
            BY DEF IsMeaning
        <3>2. b = [i \in DOMAIN m.parts |-> A(i)]
            BY <2>4 DEF MeantInBody
        <3> HIDE DEF n, A
        <3> QED BY <3>1, <3>2
    <2>5. m.via \in {"none", "form", "json", "multipart"}
        BY DEF IsMeaning
    <2> HIDE DEF Listed, b
    <2> QED BY <1>1, <1>2, <2>1, <2>2, <2>3, <2>4, <2>5
<1>5. \A s : Listed(s) => s \in Seq({s[i] : i \in DOMAIN s})
    OBVIOUS
<1>6. MeantArgs(m) = a \o b
    BY DEF MeantArgs
<1> DEFINE X == {a[i] : i \in DOMAIN a}
           Y == {b[i] : i \in DOMAIN b}
<1>7. a \in Seq(X) /\ b \in Seq(Y)
    <2> HIDE DEF a, b, Listed
    <2> QED BY <1>3, <1>4, <1>5
<1> HIDE DEF a, b, X, Y
<1>8. a \in Seq(X \cup Y) /\ b \in Seq(X \cup Y)
    BY <1>7
<1>9. a \o b \in Seq(X \cup Y)
    BY <1>8
<1> QED BY <1>6, <1>9

\* Every comparison is decided.
LEMMA Decided ==
    ASSUME NEW c, NEW t, NEW n
    PROVE  /\ InTime(c, t) \in BOOLEAN /\ OnDay(c, t) \in BOOLEAN
           /\ OnNumber(c) => InOrder(c, n) \in BOOLEAN
<1>1. InTime(c, t) \in BOOLEAN
    BY DEF InTime
<1>2. OnDay(c, t) \in BOOLEAN
    BY DEF OnDay
<1>3. ASSUME NEW op \in NumOp, NEW x, NEW y PROVE Compare(op, x, y) \in BOOLEAN
    <2>1. /\ op = "gt" => Compare(op, x, y) = (x > y)
          /\ op = "lt" => Compare(op, x, y) = (x < y)
          /\ op = "ge" => Compare(op, x, y) = (x >= y)
          /\ op = "le" => Compare(op, x, y) = (x <= y)
        BY DEF Compare
    <2>2. (x > y) \in BOOLEAN /\ (x < y) \in BOOLEAN /\ (x >= y) \in BOOLEAN /\ (x <= y) \in BOOLEAN
        OBVIOUS
    <2> QED BY <2>1, <2>2 DEF NumOp
<1>4. OnNumber(c) => InOrder(c, n) \in BOOLEAN
    <2>1. OnNumber(c) => c.op \in NumOp /\ (c.field = "counter" \/ c.field = "args_count" \/ c.field = "arg")
        BY DEF OnNumber
    <2> DEFINE k == The(ParseInt(c.value, NumMax))
               args == MeantArgs(case.means)
    <2>2. /\ c.field = "counter" => InOrder(c, n) = Compare(c.op, n, k)
          /\ c.field = "args_count" => InOrder(c, n) = Compare(c.op, Len(args), k)
          /\ c.field = "arg" => InOrder(c, n) \in BOOLEAN
        BY DEF InOrder
    <2> HIDE DEF k, args
    <2> QED BY <1>3, <2>1, <2>2
<1> QED BY <1>1, <1>2, <1>4

\* The header that HeaderMap::get finds is the first of that name.
LEMMA HeaderMeant ==
    ASSUME NEW headers, NEW n \in Nat, Len(headers) = n, DOMAIN headers = 1..n, NEW name
    PROVE  HeaderGet(headers, name) =
            {v \in {headers[k][2] : k \in {j \in DOMAIN headers : headers[j][1] = ToLower(name)
                                            /\ \A l \in 1..j - 1 : headers[l][1] # ToLower(name)}} : ToStr(v)}
<1> DEFINE w == ToLower(name)
           I == {i \in 1..n : headers[i][1] = w}
           J == {j \in DOMAIN headers : headers[j][1] = w /\ \A l \in 1..j - 1 : headers[l][1] # w}
           V == {headers[k][2] : k \in J}
           i0 == IF I # {} THEN Min(I) ELSE 0
<1>1. HeaderGet(headers, name) = IF i0 # 0 /\ ToStr(headers[i0][2]) THEN {headers[i0][2]} ELSE {}
    BY DEF HeaderGet, SelectInSeq
<1> HIDE DEF w
<1>2. CASE I = {}
    <2>1. J = {}
        BY <1>2
    <2>2. V = {}
        BY <2>1
    <2> QED BY <1>1, <1>2, <2>2 DEF w
<1>3. CASE I # {}
    <2>1. I \in SUBSET Nat
        OBVIOUS
    <2>2. PICK k \in I : \A i \in I : k <= i
        <3> HIDE DEF I
        <3> QED BY <1>3, <2>1, LeastNat
    <2>3. Min(I) = k
        <3>1. \A x \in I : (\A y \in I : x <= y) => x = k
            <4>1. \A x, y \in Nat : x <= y /\ y <= x => x = y
                OBVIOUS
            <4> HIDE DEF I
            <4> QED BY <2>1, <2>2, <4>1
        <3> HIDE DEF I
        <3> QED BY <2>2, <3>1, Zenon DEF Min
    <2>4. i0 = k /\ k # 0 /\ k \in 1..n
        <3>1. k \in 1..n /\ k # 0
            BY <2>2
        <3> HIDE DEF I
        <3> QED BY <1>3, <2>3, <3>1
    <2>5. J = {k}
        <3>1. ASSUME NEW l \in 1..k - 1 PROVE headers[l][1] # w
            <4>1. l \in 1..n /\ ~(k <= l)
                BY <2>4
            <4> QED BY <2>2, <4>1
        <3>2. k \in J
            BY <2>2, <2>4, <3>1
        <3>3. ASSUME NEW j \in J PROVE j = k
            <4>1. j \in 1..n /\ j \in I /\ k <= j /\ ~(k \in 1..j - 1)
                BY <2>2
            <4> QED BY <2>4, <4>1
        <3> HIDE DEF J
        <3> QED BY <3>2, <3>3
    <2> HIDE DEF J, i0
    <2>6. V = {headers[k][2]}
        BY <2>5
    <2> HIDE DEF V
    <2>7. HeaderGet(headers, name) = {v \in V : ToStr(v)}
        BY <1>1, <2>4, <2>6
    <2> QED BY <2>7 DEF V, J, w
<1> QED BY <1>2, <1>3

\* The texts that a condition is about are the candidates that collect_candidates
\* collects, but for the fields that rules see undecoded and the clock.
LEMMA CandidatesMeant ==
    ASSUME WireInv, Written, NEW c, NEW t, NEW n, c.field \notin RawField, c.field \notin {"time", "day"}
    PROVE  MeantTexts(c, n) = CollectCandidates(c, req, t, n)
<1> DEFINE m == case.means
<1>0. IsMeaning(m) /\ WireOf(m, req) /\ HeadersOf(m, req)
    BY CasesAssumption DEF WireInv
<1>1. CollectArgs(req) = MeantArgs(m) /\ CollectCookies(req) = MeantCookies(m)
    BY <1>0, CollectedAsMeant
<1>2. req.ip = m.ip /\ req.method = m.method /\ req.headers = m.headers /\ req.country = m.country
    BY <1>0 DEF HeadersOf
<1>3. CASE c.field \in {"arg", "args", "arg_names", "args_count"}
    BY <1>1, <1>3 DEF MeantTexts, CollectCandidates
<1>4. CASE c.field \in {"cookie", "cookies", "cookie_names"}
    BY <1>1, <1>4 DEF MeantTexts, CollectCandidates
<1>5. CASE c.field = "header"
    <2> DEFINE hs == m.headers
    <2>1. hs \in Seq(ToSet(hs))
        BY <1>0 DEF IsMeaning
    <2>2. MeantTexts(c, n) =
            {v \in {hs[k][2] : k \in {j \in DOMAIN hs : hs[j][1] = ToLower(c.name)
                                        /\ \A l \in 1..j - 1 : hs[l][1] # ToLower(c.name)}} : ToStr(v)}
        BY <1>5 DEF MeantTexts
    <2>3. CollectCandidates(c, req, t, n) = HeaderGet(hs, c.name)
        BY <1>2, <1>5 DEF CollectCandidates
    <2> HIDE DEF hs
    <2>4. Len(hs) \in Nat /\ DOMAIN hs = 1..Len(hs)
        BY <2>1
    <2>5. HeaderGet(hs, c.name) =
            {v \in {hs[k][2] : k \in {j \in DOMAIN hs : hs[j][1] = ToLower(c.name)
                                        /\ \A l \in 1..j - 1 : hs[l][1] # ToLower(c.name)}} : ToStr(v)}
        BY <2>4, HeaderMeant
    <2> QED BY <2>2, <2>3, <2>5
<1>6. CASE c.field \in {"headers", "header_names"}
    BY <1>2, <1>6 DEF MeantTexts, CollectCandidates
<1>7. CASE c.field \in {"method", "ip", "country", "counter"}
    BY <1>2, <1>7 DEF MeantTexts, CollectCandidates
<1>8. CASE c.field \notin {"arg", "args", "arg_names", "args_count", "cookie", "cookies", "cookie_names",
                           "header", "headers", "header_names", "method", "ip", "country", "counter"}
    BY <1>8 DEF MeantTexts, CollectCandidates, RawField
<1> QED BY <1>3, <1>4, <1>5, <1>6, <1>7, <1>8

\* The condition on such a text.
LEMMA TextMeant ==
    ASSUME WireInv, Written, NEW c, Plain(c, case.means), CompileCond(c), NEW t, NEW n, ~OnNumber(c),
           c.op # "time_between", c.op # "day_of_week"
    PROVE  Holds(c, t, n) = MatchesRequest(c, req, t, n)
<1> DEFINE cands == CollectCandidates(c, req, t, n)
<1>0. c.field \notin RawField /\ c.field \notin {"time", "day"}
    BY DEF Plain, CompileCond
<1>1. MeantTexts(c, n) = cands
    BY <1>0, CandidatesMeant
<1>2. req.ip = case.means.ip
    BY DEF WireInv, HeadersOf
<1> HIDE DEF cands
<1>3. CASE c.op = "cidr"
    <2>1. ~OnNumber(c)
        OBVIOUS
    <2> QED BY <1>2, <1>3, <2>1 DEF Holds, MatchesRequest
<1>4. CASE c.op # "cidr"
    BY <1>1, <1>4 DEF Holds, MatchesRequest, cands
<1> QED BY <1>3, <1>4

\* The condition on a number: the counter's, or the number of the parameters.
LEMMA CountMeant ==
    ASSUME WireInv, Written, NEW c, Plain(c, case.means), CompileCond(c),
           OnNumber(c), c.field # "arg", NEW t, NEW n \in Nat, n <= NumMax
    PROVE  (\E v \in CollectCandidates(c, req, t, n) : EvalOp(c, Transformed(c, v))) <=> InOrder(c, n)
<1> DEFINE args == MeantArgs(case.means)
           x == IF c.field = "counter" THEN n ELSE Len(args)
           k == The(ParseInt(c.value, NumMax))
<1>1. /\ c.op \in NumOp /\ c.field \in {"counter", "args_count"}
      /\ c.transform = <<>> /\ ParseInt(c.value, NumMax) # {}
    BY DEF OnNumber, Plain, CompileCond, CompileOp, TextOp, NumOp
<1>2. CollectArgs(req) = args /\ Len(args) \in Nat
    <2>1. IsMeaning(case.means) /\ WireOf(case.means, req) /\ HeadersOf(case.means, req)
        BY CasesAssumption DEF WireInv
    <2> QED BY <2>1, CollectedAsMeant, MeantCounted
<1>3. x \in Nat /\ x <= NumMax
    BY <1>1, <1>2 DEF Plain
<1>4. CollectCandidates(c, req, t, n) = {Render(x)}
    BY <1>1, <1>2 DEF CollectCandidates
<1>5. InOrder(c, n) <=> Compare(c.op, x, k)
    <2>1. c.field = "counter" \/ c.field = "args_count"
        BY <1>1
    <2> QED BY <2>1 DEF InOrder
<1> HIDE DEF x, args
<1>6. EvalOp(c, Transformed(c, Render(x))) <=> Compare(c.op, x, k)
    BY <1>1, <1>3, NumberMeant
<1> QED BY <1>4, <1>5, <1>6, Zenon

\* Or the one that a parameter holds.
LEMMA ArgMeant ==
    ASSUME WireInv, Written, NEW c, Plain(c, case.means), CompileCond(c),
           OnNumber(c), c.field = "arg", NEW t, NEW n
    PROVE  (\E v \in CollectCandidates(c, req, t, n) : EvalOp(c, Transformed(c, v))) <=> InOrder(c, n)
<1> DEFINE args == MeantArgs(case.means)
           values == SecondOf(args, c.name)
           k == The(ParseInt(c.value, NumMax))
<1>1. /\ c.op \in NumOp /\ c.transform = <<>> /\ ParseInt(c.value, NumMax) # {}
      /\ \A v \in values : \A x \in ParseInt(v, NumMax) : x \in Nat /\ v = Render(x)
    BY DEF OnNumber, Plain, CompileCond, CompileOp, TextOp, NumOp
<1>2. CollectArgs(req) = args
    <2>1. IsMeaning(case.means) /\ WireOf(case.means, req) /\ HeadersOf(case.means, req)
        BY CasesAssumption DEF WireInv
    <2> QED BY <2>1, CollectedAsMeant
<1>3. CollectCandidates(c, req, t, n) = values
    BY <1>2 DEF CollectCandidates
<1>4. InOrder(c, n) <=> \E v \in values : \E x \in 0..NumMax : v = Render(x) /\ Compare(c.op, x, k)
    BY DEF InOrder
<1>5. NumMax \in Nat /\ \A x \in 0..NumMax : x \in Nat /\ x <= NumMax
    BY BoundsAssumption
<1> HIDE DEF values, k
<1>6. \A x \in 0..NumMax : EvalOp(c, Transformed(c, Render(x))) <=> Compare(c.op, x, k)
    BY <1>1, <1>5, NumberMeant DEF k
<1>7. ASSUME NEW v \in values, EvalOp(c, Transformed(c, v))
      PROVE  \E x \in 0..NumMax : v = Render(x)
    <2>1. EvalOp(c, v)
        BY <1>1, <1>7, Untransformed
    <2>2. PICK x \in ParseInt(v, NumMax) : TRUE
        BY <1>1, <2>1 DEF EvalOp, NumOp
    <2>3. x \in Nat /\ v = Render(x)
        BY <1>1, <2>2
    <2>4. ParseInt(v, NumMax) = IF x <= NumMax THEN {x} ELSE {}
        BY <1>5, <2>3, ReadBack
    <2>5. x \in 0..NumMax
        BY <1>5, <2>2, <2>3, <2>4
    <2> QED BY <2>3, <2>5
<1> QED BY <1>3, <1>4, <1>6, <1>7, Zenon

\* What matches_request says of a condition is what the condition says of the
\* content that was meant, if that is told at all.
LEMMA PlainMeant ==
    ASSUME WireInv, Written, NEW c, Plain(c, case.means), CompileCond(c),
           NEW t \in Nat, t <= NumMax, NEW n \in Nat, n <= NumMax
    PROVE  Holds(c, t, n) = MatchesRequest(c, req, t, n)
<1> DEFINE cands == CollectCandidates(c, req, t, n)
           among == \E v \in cands : EvalOp(c, Transformed(c, v))
<1>1. /\ c.op = "time_between" => c.field = "time" /\ ParseTimeWindow(c.window) # {}
      /\ c.op = "day_of_week" => c.field = "day" /\ ParseDayMask(c.days) # {}
    BY DEF CompileCond, CompileOp, TextOp, NumOp
<1>2. c.op # "cidr" => MatchesRequest(c, req, t, n) = (among # c.negate)
    BY DEF MatchesRequest
<1> HIDE DEF among, cands
<1>3. CASE c.op = "time_between"
    <2>1. cands = {Render(UtcMinutes(t))}
        BY <1>1, <1>3 DEF CollectCandidates, cands
    <2>2. EvalOp(c, Transformed(c, Render(UtcMinutes(t)))) <=> InTime(c, t)
        BY <1>1, <1>3, TimeMeant DEF Plain
    <2>3. among <=> InTime(c, t)
        BY <2>1, <2>2, Zenon DEF among
    <2>4. ~OnNumber(c)
        BY <1>3 DEF OnNumber, NumOp
    <2>5. Holds(c, t, n) = (InTime(c, t) # c.negate)
        BY <1>3, <2>4 DEF Holds
    <2>6. InTime(c, t) \in BOOLEAN /\ among \in BOOLEAN
        BY Decided DEF among
    <2> QED BY <1>2, <1>3, <2>3, <2>5, <2>6
<1>4. CASE c.op = "day_of_week"
    <2>1. cands = {Render(t)}
        BY <1>1, <1>4 DEF CollectCandidates, cands
    <2>2. EvalOp(c, Transformed(c, Render(t))) <=> OnDay(c, t)
        BY <1>1, <1>4, DayMeant DEF Plain
    <2>3. among <=> OnDay(c, t)
        BY <2>1, <2>2, Zenon DEF among
    <2>4. ~OnNumber(c)
        BY <1>4 DEF OnNumber, NumOp
    <2>5. Holds(c, t, n) = (OnDay(c, t) # c.negate)
        BY <1>4, <2>4 DEF Holds
    <2>6. OnDay(c, t) \in BOOLEAN /\ among \in BOOLEAN
        BY Decided DEF among
    <2> QED BY <1>2, <1>4, <2>3, <2>5, <2>6
<1>5. CASE OnNumber(c)
    <2>1. c.op # "time_between" /\ c.op # "day_of_week" /\ c.op # "cidr"
        BY <1>5 DEF OnNumber, NumOp
    <2>2. among <=> InOrder(c, n)
        <3>1. CASE c.field = "arg"
            BY <1>5, <3>1, ArgMeant DEF among, cands
        <3>2. CASE c.field # "arg"
            BY <1>5, <3>2, CountMeant DEF among, cands
        <3> QED BY <3>1, <3>2
    <2>3. Holds(c, t, n) = (InOrder(c, n) # c.negate)
        BY <1>5, <2>1 DEF Holds
    <2>4. InOrder(c, n) \in BOOLEAN /\ among \in BOOLEAN
        BY <1>5, Decided DEF among, OnNumber
    <2> QED BY <1>2, <2>1, <2>2, <2>3, <2>4
<1>6. CASE ~OnNumber(c) /\ c.op # "time_between" /\ c.op # "day_of_week"
    BY <1>6, TextMeant
<1> QED BY <1>3, <1>4, <1>5, <1>6

-----------------------------------------------------------------------------
(* Verdicts. *)

\* Only conditions that compiled are evaluated (RuleSet::load).
CompiledInv ==
    pc \notin {"start", "rejected"} => \A i \in DOMAIN case.when : CompileCond(case.when[i])

\* It holds in every state.
LEMMA CompiledAlways == Spec => []CompiledInv
<1>1. Init => CompiledInv
    BY DEF Init, CompiledInv
<1>2. ASSUME CompiledInv, [Next]_vars PROVE CompiledInv'
    <2>1. CASE Compile
        <3>1. case' = case /\ (pc' # "rejected" => \A i \in DOMAIN case.when : CompileCond(case.when[i]))
            BY <2>1 DEF Compile
        <3> QED BY <3>1 DEF CompiledInv
    <2>2. CASE ~Compile
        <3>1. /\ case' = case /\ (pc' \notin {"start", "rejected"} => pc \notin {"start", "rejected"})
            BY <1>2, <2>2 DEF Next, Send, EarlyStack, EvalCondition, ScanSignatures, Tick, OthersBump, vars
        <3> QED BY <1>2, <3>1 DEF CompiledInv
    <2> QED BY <2>1, <2>2
<1> QED BY <1>1, <1>2, PTL DEF Spec

\* The clock has moved by the minutes that passed, and no moment of the evaluation
\* lies ahead of it.
MomentsInv ==
    /\ now = case.at + ticks
    /\ \A s \in seen : s[1] <= now

\* Time only goes forward.
LEMMA MomentsStep ==
    ASSUME TypeInv, MomentsInv, [Next]_vars
    PROVE  MomentsInv'
<1>1. /\ now \in Nat /\ ticks \in Nat /\ case.at \in Nat
      /\ seen \subseteq Nat \X Nat
    <2>1. case \in Cases /\ ticks \in 0..case.ticks /\ seen \subseteq Nat \X (0..case.counts) /\ now \in Nat
        BY DEF TypeInv, TypeOK
    <2>2. case.at \in Nat /\ case.ticks \in Nat /\ case.counts \in Nat
        BY <2>1, ClockAssumption, CasesAssumption
    <2> QED BY <2>1, <2>2
<1>2. now = case.at + ticks /\ \A s \in seen : s[1] <= now
    BY DEF MomentsInv
<1>3. CASE Tick
    <2>1. /\ now' = now + 1 /\ ticks' = ticks + 1 /\ case' = case
          /\ seen' \subseteq seen \cup {<<now + 1, count>>}
        BY <1>3 DEF Tick
    <2>2. \A s \in seen' : s[1] <= now + 1
        <3> SUFFICES ASSUME NEW s \in seen' PROVE s[1] <= now + 1
            OBVIOUS
        <3>1. CASE s \in seen
            <4>1. s[1] \in Nat /\ s[1] <= now
                BY <1>1, <1>2, <3>1
            <4> QED BY <1>1, <4>1
        <3>2. CASE s = <<now + 1, count>>
            BY <1>1, <3>2
        <3> QED BY <2>1, <3>1, <3>2
    <2>3. now + 1 = case.at + (ticks + 1)
        BY <1>1, <1>2
    <2> QED BY <2>1, <2>2, <2>3 DEF MomentsInv
<1>4. CASE EarlyStack \/ OthersBump
    <2>1. /\ now' = now /\ ticks' = ticks /\ case' = case
          /\ \A s \in seen' : s \in seen \/ s[1] = now
        BY <1>4 DEF EarlyStack, OthersBump
    <2>2. now <= now
        BY <1>1
    <2> QED BY <1>2, <2>1, <2>2 DEF MomentsInv
<1>5. CASE Compile \/ Send \/ EvalCondition \/ ScanSignatures \/ UNCHANGED vars
    <2>1. now' = now /\ ticks' = ticks /\ case' = case /\ seen' = seen
        BY <1>5 DEF Compile, Send, EvalCondition, ScanSignatures, vars
    <2> QED BY <1>2, <2>1 DEF MomentsInv
<1> QED BY <1>3, <1>4, <1>5 DEF Next

\* However many conditions a rule has and however the request is written, whatever
\* the clock and the other requests of the client do meanwhile: a rule of plain
\* conditions (none on path, query, uri or body) matches only if each condition held
\* of the content that was meant, at some moment of the evaluation, and fails only if
\* one did not (matches_request, eval_op).
THEOREM Verdict == Spec => []VerdictExplained
<1>1. Init => MomentsInv
    <2>1. ASSUME Init PROVE MomentsInv
        <3>1. now = case.at /\ ticks = 0 /\ seen = {} /\ case \in Cases
            BY <2>1 DEF Init
        <3>2. case.at \in Nat
            BY <3>1, ClockAssumption
        <3> QED BY <3>1, <3>2 DEF MomentsInv
    <2> QED BY <2>1
<1>2. TypeInv /\ MomentsInv /\ [Next]_vars => MomentsInv'
    BY MomentsStep
<1>3. ASSUME TypeInv, MomentsInv, WireInv, CompiledInv, EvaluatedInTime PROVE VerdictExplained
    <2> SUFFICES ASSUME \A i \in DOMAIN case.when : Plain(case.when[i], case.means), pc \in {"scan", "done"}
                 PROVE  VerdictExplained
        BY DEF VerdictExplained
    <2>1. Written /\ \A i \in DOMAIN case.when : CompileCond(case.when[i])
        BY <1>3 DEF Written, CompiledInv
    <2>2. ASSUME NEW s \in seen PROVE s[1] \in Nat /\ s[1] <= NumMax /\ s[2] \in Nat /\ s[2] <= NumMax
        <3>1. /\ case \in Cases /\ ticks \in 0..case.ticks /\ now \in Nat
              /\ s[1] \in Nat /\ s[2] \in 0..case.counts
            BY <1>3 DEF TypeInv, TypeOK
        <3>2. /\ case.at \in Nat /\ case.ticks \in Nat /\ case.counts \in Nat /\ NumMax \in Nat
              /\ case.at + case.ticks <= NumMax /\ case.counts <= NumMax
            BY <3>1, ClockAssumption, CasesAssumption, BoundsAssumption
        <3>3. s[1] <= case.at + ticks
            BY <1>3 DEF MomentsInv
        <3> QED BY <3>1, <3>2, <3>3
    <2>3. ASSUME NEW i \in DOMAIN case.when, NEW s \in seen
          PROVE  Holds(case.when[i], s[1], s[2]) = MatchedAt(case.when[i], req, s)
        BY <1>3, <2>1, <2>2, PlainMeant DEF MatchedAt
    <2>4. IF out THEN \A i \in DOMAIN case.when : \E s \in seen : MatchedAt(case.when[i], req, s)
          ELSE \E i \in DOMAIN case.when : \E s \in seen : ~MatchedAt(case.when[i], req, s)
        BY <1>3 DEF EvaluatedInTime
    <2> QED BY <2>3, <2>4 DEF VerdictExplained
<1>4. TypeInv /\ MomentsInv /\ WireInv /\ CompiledInv /\ EvaluatedInTime => VerdictExplained
    BY <1>3
<1> QED BY <1>1, <1>2, <1>4, TypeAlways, WireAlways, CompiledAlways, Explained, PTL DEF Spec
=============================================================================
