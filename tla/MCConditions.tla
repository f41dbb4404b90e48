---------------------------- MODULE MCConditions ----------------------------
(* Instances of Conditions for TLC. *)
EXTENDS Conditions

\* Bytes: a b c A B / 0 1
a == 97
b == 98
A == 65
B == 66

Means == [path |-> <<Slash>>, query |-> {}, via |-> "none", pairs |-> <<>>, leaves |-> <<>>,
          text |-> <<>>, parts |-> <<>>, boundary |-> <<>>, cookies |-> <<>>,
          method |-> <<A>>, headers |-> <<>>, ip |-> <<49>>, country |-> {}]

Cond == [field |-> "path", name |-> <<>>, op |-> "eq", value |-> <<>>, values |-> {}, regex |-> {},
         net |-> {}, window |-> <<>>, days |-> <<>>, tz |-> <<>>, negate |-> FALSE, transform |-> <<>>]

Sig(literal, regex) == [literal |-> literal, regex |-> regex, status |-> 403]

\* "Ab" as a literal; "bb" or "b b" as a regex.
MCSigs == <<Sig({}, {{<<b, b>>, <<b, Space, b>>}}), Sig({<<A, b>>}, {})>>

Case(means, when) == [means |-> means, when |-> when, sigs |-> MCSigs, at |-> 0, ticks |-> 0, counts |-> 0]

\* Every value of two bytes out of these: letters, what a form must escape, a
\* control character and a byte that is not ASCII.
Alphabet == {A, Percent, Plus, Space, Amp, 0, 233}
Values == BoundedSeq(Alphabet, 2)

ArgIs(op, value) == [Cond EXCEPT !.field = "arg", !.name = <<A>>, !.op = op, !.value = value]
ArgLower == [ArgIs("contains", <<a>>) EXCEPT !.transform = <<"url_decode", "lowercase">>]
NotArg == [ArgIs("contains", <<b>>) EXCEPT !.negate = TRUE]

ByQuery == {Case([Means EXCEPT !.query = {<< <<<<A>>, v>> >>}],
                 <<NotArg, [Cond EXCEPT !.field = "args_count", !.op = "ge", !.value = <<49>>]>>) : v \in Values}

\* Names need escapes too, and may be empty.
ByForm == {Case([Means EXCEPT !.via = "form", !.pairs = << <<k, v>>, <<<<A>>, v>> >>], <<ArgLower>>)
           : k \in {<<>>, <<Equals>>, <<Amp, A>>, <<Percent>>}, v \in {<<>>, <<A>>, <<Percent, 52>>, <<b, Plus>>}}

Leaves == {
    (<<<<a>>>> :> <<A>>),
    (<<<<a>>, <<b>>>> :> <<A, b>>) @@ (<<<<a>>, <<48>>>> :> <<>>),
    (<<<<a>>, <<b>>, <<48>>>> :> <<b, Space, b>>) @@ (<<<<b>>>> :> <<49>>) @@ (<<<<A>>>> :> <<Percent, 52, 49>>) }

ByJson == {Case([Means EXCEPT !.via = "json", !.text = <<123, 125>>, !.leaves = l],
                <<[Cond EXCEPT !.field = f, !.name = <<a, Dot, b>>, !.op = "contains", !.value = <<A>>]>>)
           : l \in Leaves, f \in {"arg", "args", "arg_names"}}

\* Parts whose values hold line breaks, dashes and bytes that are not UTF-8 or only
\* together; a filename, a name that is not ASCII, another header first, one last.
Param(key, text) == [key |-> key, text |-> text]
Part(before, fields, after, value) ==
    LET part == [kind |-> <<Space, a>>, fields |-> fields, value |-> value]
    IN [lines |-> before \o <<DispositionLine(part)>> \o after, kind |-> part.kind,
        fields |-> fields, value |-> value]
NameOnly == <<Param(NameParam, <<a>>)>>
Parts == {<<Part(<<>>, NameOnly, <<>>, v)>> : v \in BoundedSeq({Dash, CR, LF}, 2)
                \cup {p \o q : p \in {<<>>, <<226>>}, q \in BoundedSeq({195, 130, A}, 2)}}
         \cup {<<Part(<<<<A, Colon, b>>>>, NameOnly, <<>>, <<A>>),
                 Part(<<>>, fs, <<<<B>>>>, <<b>>)>>
                : fs \in {<<Param(NameParam, <<>>), Param(OtherParam, <<a>>), Param(FileParam, <<A, Dot, b>>)>>,
                          <<Param(FileParam, <<Space>>), Param(NameParam, <<195, 169>>)>>}}

ByMultipart == {Case([Means EXCEPT !.via = "multipart", !.parts = p, !.boundary = <<b>>, !.query = q],
                     <<[Cond EXCEPT !.field = "args", !.op = "ends_with", !.value = <<b>>]>>)
                : p \in Parts, q \in {{}, {<< <<<<A>>, <<b>>>> >>}}}

ByCookie == {Case([Means EXCEPT !.cookies = c, !.path = p],
                  <<[Cond EXCEPT !.field = "cookie", !.name = <<a>>, !.op = op, !.value = <<b>>, !.negate = n]>>)
             : c \in {<<>>, << <<<<a>>, <<b>>>> >>, << <<<<a>>, <<A>>>>, <<<<a>>, <<b>>>> >>,
                      << <<<<a>>, <<b>>>>, <<<<b>>, <<233>>>> >>},
               p \in {<<Slash, A, b>>, <<Slash, Plus, a, Space>>}, op \in {"eq", "ne"}, n \in BOOLEAN}

\* Nothing bridges: "a" ends the path and "b" starts the query.
Bridges == {Case([Means EXCEPT !.path = <<Slash, A>>, !.query = {<< <<<<b>>, <<B>>>> >>},
                               !.via = "form", !.pairs = << <<<<b>>, <<>>>> >>],
                 <<[Cond EXCEPT !.field = f, !.op = op, !.value = <<Slash>>, !.values = {<<Slash, A>>},
                                !.regex = {{<<A>>}}]>>)
            : f \in {"uri", "query", "path", "body", "method", "country", "ip", "headers", "header_names"},
              op \in {"starts_with", "in", "regex"}}

TimeIs(window, tz) == [Cond EXCEPT !.field = "time", !.op = "time_between", !.window = window, !.tz = tz]
DayIs(days, tz) == [Cond EXCEPT !.field = "day", !.op = "day_of_week", !.days = days, !.tz = tz]

Windows == {<<22, 0, 6, 0>>, <<8, 0, 23, 59>>, <<0, 0, 0, 0>>}
DayLists == {<<<<"mon", "fri">>>>, <<<<"fri", "mon">>>>, <<<<"sat">>, <<"sun">>>>}
TimeZones == {<<>>, <<1, 8, 0>>, <<-1, 5, 30>>}

\* From two minutes before midnight in one of the zones, or before the window opens.
ByClock ==
    {[Case(Means, when) EXCEPT !.at = t, !.ticks = 3]
     : when \in {<<TimeIs(w, z), DayIs(d, z)>> : w \in Windows, d \in DayLists, z \in TimeZones}
                \cup {<<[DayIs(d, <<>>) EXCEPT !.negate = TRUE]>> : d \in DayLists},
       t \in {n * Day + m : n \in {2, 10}, m \in {358, 958, 1438}}}

CounterIs(op, n) == [Cond EXCEPT !.field = "counter", !.name = <<a>>, !.op = op, !.value = <<48 + n>>]

\* A number of five digits, on both sides of NumMax.
ByNumber == {Case([Means EXCEPT !.query = {<< <<<<A>>, <<50, d, 48, 48, 48>>>> >>}], <<ArgIs(op, <<57>>)>>)
             : d \in {48, 49}, op \in NumOp}

ByCounter == {[Case(Means, <<CounterIs(x, 1), CounterIs(y, 2)>>) EXCEPT !.counts = 5]
              : x \in {"gt", "ge"}, y \in {"lt", "le", "ge"}}

\* By address and header, and definitions that do not compile.
ByHead == {Case([Means EXCEPT !.headers = << <<<<a>>, h>>, <<<<a>>, <<b>>>> >>],
                <<[Cond EXCEPT !.field = "ip", !.op = "cidr", !.net = {{<<49>>}}],
                  [Cond EXCEPT !.field = "header", !.name = <<A>>, !.op = "ne", !.value = v,
                               !.transform = tr]>>)
           : h \in {<<b>>, <<Space, B, Space, Space, b>>, <<0>>}, v \in {<<b>>, <<b, Space, b>>},
             tr \in {<<>>, <<"compress_ws", "lowercase">>, <<"trim", "remove_nulls", "uppercase">>}}

Refused == {Case(Means, when) : when \in {
    <<>>, <<[Cond EXCEPT !.field = "arg"]>>, <<[Cond EXCEPT !.op = "gt", !.value = <<a>>]>>,
    <<[Cond EXCEPT !.op = "cidr", !.net = {{<<49>>}}]>>, <<[Cond EXCEPT !.op = "in"]>>,
    <<TimeIs(<<24, 0, 6, 0>>, <<>>)>>, <<TimeIs(<<22, 0, 6, 0>>, <<1, 15, 0>>)>>,
    <<DayIs(<<<<"someday">>>>, <<>>)>>, <<DayIs(<<>>, <<>>)>>,
    <<[Cond EXCEPT !.transform = <<"rot13">>]>>, <<[Cond EXCEPT !.field = "time"]>> }}

MCCases == ByQuery \cup ByForm \cup ByJson \cup ByMultipart \cup ByCookie \cup Bridges
           \cup ByClock \cup ByNumber \cup ByCounter \cup ByHead \cup Refused

\* No rule that compiles has a condition whose meaning Holds does not tell, but those
\* on raw fields.
ASSUME PlainAssumption ==
    \A c \in MCCases : (\A i \in DOMAIN c.when : CompileCond(c.when[i]))
                        => \A i \in DOMAIN c.when : \/ c.when[i].field \in RawField
                                                     \/ Plain(c.when[i], c.means)

MCZones == {0, 480, -330, 840}
=============================================================================
