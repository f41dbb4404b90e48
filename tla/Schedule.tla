------------------------------ MODULE Schedule ------------------------------
(***************************************************************************)
(* Time windows and days of the week in custom rules (budu-rules): parsing, *)
(* and membership of an instant, given in minutes since the epoch, in a     *)
(* window or a set of days of a fixed-offset time zone.                     *)
(***************************************************************************)
EXTENDS Integers, Sequences

Day == 1440

-----------------------------------------------------------------------------
(* Instants. *)

\* Fault: days change at UTC midnight.
WeekdayUtc(epochMin, offset) == ((epochMin \div Day) + 4) % 7

\* weekday: 0 is Sunday; the epoch was a Thursday (div_euclid, rem_euclid).
Weekday(epochMin, offset) == (((epochMin + offset) \div Day) + 4) % 7

\* utc_minutes_now
UtcMinutes(epochMin) == epochMin % Day

LocalMinute(utc, offset) == (utc + offset) % Day

\* in_window: both ends belong to it; start > end wraps past midnight.
InWindow(utc, start, end, offset) ==
    LET local == LocalMinute(utc, offset)
    IN IF start <= end THEN start <= local /\ local <= end
       ELSE start <= local \/ local <= end

-----------------------------------------------------------------------------
(* Parsing.  A result is a set of at most one value, empty when refused. *)

\* parse_hhmm, of the numbers on the two sides of the colon.
ParseHhmm(h, m) == IF h \in 0..23 /\ m \in 0..59 THEN {60 * h + m} ELSE {}

\* parse_time_window, of its four numbers (none if they do not parse).
ParseTimeWindow(w) ==
    IF Len(w) # 4 THEN {} ELSE ParseHhmm(w[1], w[2]) \X ParseHhmm(w[3], w[4])

\* An i16 wraps in a release build.
Wrap16(n) == ((n + 32768) % 65536) - 32768

\* parse_tz_offset: no number is no zone, that is UTC; the numbers are bounded
\* from above only.
ParseTzOffset(sign, h, m) ==
    IF h <= 14 /\ m <= 59 THEN {Wrap16(sign * Wrap16(Wrap16(60 * h) + m))} ELSE {}

DayNames == <<"sun", "mon", "tue", "wed", "thu", "fri", "sat">>

\* parse_day_name
ParseDayName(name) == {d \in 0..6 : DayNames[d + 1] = name}

\* The loop of parse_day_mask over an inclusive range that may wrap.
DayRange(a, b) == {(a + k) % 7 : k \in 0..((b - a) % 7)}

\* parse_day_mask, of the comma-separated tokens: a name, or two for a range.
ParseDayMask(tokens) ==
    LET known == \A i \in DOMAIN tokens : \A j \in DOMAIN tokens[i] : ParseDayName(tokens[i][j]) # {}
        mask == UNION {UNION {DayRange(a, b) : a \in ParseDayName(tokens[i][1]),
                                               b \in ParseDayName(tokens[i][Len(tokens[i])])}
                       : i \in DOMAIN tokens}
    IN IF known /\ mask # {} THEN {mask} ELSE {}
=============================================================================
