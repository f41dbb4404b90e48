-------------------------------- MODULE Text --------------------------------
(***************************************************************************)
(* Text as the code sees it, a sequence of bytes, and the conversions that  *)
(* the normalisation layer (budu-parser) and the rule engine apply to it.   *)
(* A number above the bytes stands for a fixed word of ASCII characters.    *)
(***************************************************************************)
EXTENDS Integers, Sequences, SequencesExt

Byte == 0..255

LF == 10
CR == 13
Space == 32
Quote == 34
Percent == 37
Amp == 38
Plus == 43
Dash == 45
Dot == 46
Slash == 47
Colon == 58
Semi == 59
Equals == 61
Question == 63

IsAscii(b) == b \notin 128..255
Blank == {9, 10, 11, 12, 13, 32}
Digit == 48..57
Upper == 65..90
Lower == 97..122

LowerByte(b) == IF b \in Upper THEN b + 32 ELSE b
UpperByte(b) == IF b \in Lower THEN b - 32 ELSE b

ToLower(s) == [i \in DOMAIN s |-> LowerByte(s[i])]
ToUpper(s) == [i \in DOMAIN s |-> UpperByte(s[i])]

-----------------------------------------------------------------------------
(* Percent-decoding. *)

IsHex(b) == b \in Digit \cup 65..70 \cup 97..102
Hex(b) == CASE b \in Digit -> b - 48
            [] b \in 65..70 -> b - 55
            [] b \in 97..102 -> b - 87

\* push_byte: a byte that is not ASCII stays visible as '?'.
PushByte(b, lowercase) ==
    IF ~IsAscii(b) THEN Question ELSE IF lowercase THEN LowerByte(b) ELSE b

\* decode_fold_into: escapes are decoded once; one that is cut short or is not
\* hexadecimal is kept as it is.
DecodeFold(s, plus, lowercase) ==
    LET IsEscape(i) == /\ s[i] = Percent /\ i + 2 <= Len(s)
                       /\ IsHex(s[i + 1]) /\ IsHex(s[i + 2])
        from[i \in 1..Len(s) + 1] ==
            IF i > Len(s) THEN <<>>
            ELSE IF IsEscape(i)
            THEN <<PushByte(16 * Hex(s[i + 1]) + Hex(s[i + 2]), lowercase)>> \o from[i + 3]
            ELSE <<PushByte(IF plus /\ s[i] = Plus THEN Space ELSE s[i], lowercase)>> \o from[i + 1]
    IN from[1]

NormalizeText(s, plus) == DecodeFold(s, plus, TRUE)
Decode(s, plus) == DecodeFold(s, plus, FALSE)

-----------------------------------------------------------------------------
(* Searching and cutting. *)

OccursAt(w, s, i) == i + Len(w) - 1 <= Len(s) /\ SubSeq(s, i, i + Len(w) - 1) = w
Occurs(w, s) == \E i \in 1..Len(s) + 1 : OccursAt(w, s, i)

\* find_sub: where the needle first occurs, as a set of at most one position.
FindSub(s, w) ==
    IF w = <<>> THEN {}
    ELSE {i \in DOMAIN s : OccursAt(w, s, i) /\ \A j \in 1..i - 1 : ~OccursAt(w, s, j)}

\* split_on (and str::split): the segments between occurrences that do not overlap.
SplitOn(s, w) ==
    LET from[i \in 1..Len(s) + 1] ==
            LET found == {j \in i..Len(s) : OccursAt(w, s, j)}
            IN IF found = {} THEN <<SubSeq(s, i, Len(s))>>
               ELSE <<SubSeq(s, i, Min(found) - 1)>> \o from[Min(found) + Len(w)]
    IN IF w = <<>> THEN <<s>> ELSE from[1]

\* str::split_once, and unwrap_or((s, "")).
SplitPair(s, b) ==
    LET p == SelectInSeq(s, LAMBDA c : c = b)
    IN IF p = 0 THEN <<s, <<>>>> ELSE <<SubSeq(s, 1, p - 1), SubSeq(s, p + 1, Len(s))>>

\* trim and trim_matches('"')
TrimOf(s, chars) ==
    LET ink == {i \in DOMAIN s : s[i] \notin chars}
    IN IF ink = {} THEN <<>> ELSE SubSeq(s, Min(ink), Max(ink))

Trim(s) == TrimOf(s, Blank)

StripPrefix(s, w) == IF IsPrefix(w, s) THEN SubSeq(s, Len(w) + 1, Len(s)) ELSE s
StripSuffix(s, w) == IF IsSuffix(w, s) THEN SubSeq(s, 1, Len(s) - Len(w)) ELSE s

Join(ss, sep) ==
    LET upTo[i \in 0..Len(ss)] ==
            CASE i = 0 -> <<>>
              [] i = 1 -> ss[1]
              [] OTHER -> upTo[i - 1] \o sep \o ss[i]
    IN upTo[Len(ss)]

Concat(ss) == Join(ss, <<>>)

NonEmpty(ss) == Concat([i \in DOMAIN ss |-> IF ss[i] = <<>> THEN <<>> ELSE <<ss[i]>>])

\* split_whitespace, joined by single spaces.
CompressWs(s) ==
    Join(NonEmpty(SplitOn([i \in DOMAIN s |-> IF s[i] \in Blank THEN Space ELSE s[i]], <<Space>>)), <<Space>>)

-----------------------------------------------------------------------------
(* UTF-8. *)

Continuation == 128..191
Replacement == <<239, 191, 189>>

\* How many bytes the first one of a character announces, and what may come second.
Width(b) ==
    CASE b \in 194..223 -> 2 [] b \in 224..239 -> 3 [] b \in 240..244 -> 4 [] OTHER -> 1
Second(b) ==
    CASE b = 224 -> 160..191 [] b = 237 -> 128..159 [] b = 240 -> 144..191 [] b = 244 -> 128..143
      [] OTHER -> Continuation

\* How many bytes from j on may belong to one character, and whether they are all of it.
Fits(s, j, k) ==
    /\ j + k - 1 <= Len(s)
    /\ \A l \in 1..k - 1 : s[j + l] \in IF l = 1 THEN Second(s[j]) ELSE Continuation
Run(s, j) == Max({k \in 1..Width(s[j]) : Fits(s, j, k)})
Whole(s, j) == s[j] \notin (128..193) \cup (245..255) /\ Run(s, j) = Width(s[j])

\* String::from_utf8_lossy: a byte goes with the run that reached it; a run that is
\* no whole character is replaced.
Lossy(s) ==
    LET Begin(i) == Min({j \in 1..i : i < j + Run(s, j)})
        Shown(i) == IF Whole(s, Begin(i)) THEN <<s[i]>>
                    ELSE IF i = Begin(i) THEN Replacement ELSE <<>>
    IN Concat([i \in DOMAIN s |-> Shown(i)])

-----------------------------------------------------------------------------
(* Numbers. *)

\* to_string of a natural number.
Render(n) ==
    LET digits[m \in 0..n] == IF m < 10 THEN <<48 + m>> ELSE Append(digits[m \div 10], 48 + (m % 10))
    IN digits[n]

\* trim().parse(): a set of at most one number; none beyond max.
ParseInt(s, max) ==
    LET t == Trim(s)
        signed == t # <<>> /\ t[1] \in {Plus, Dash}
        digits == IF signed THEN Tail(t) ELSE t
        value[i \in 0..Len(digits)] == IF i = 0 THEN 0 ELSE 10 * value[i - 1] + digits[i] - 48
        n == IF signed /\ t[1] = Dash THEN -value[Len(digits)] ELSE value[Len(digits)]
    IN IF digits # <<>> /\ (\A i \in DOMAIN digits : digits[i] \in Digit) /\ n <= max THEN {n} ELSE {}
=============================================================================
