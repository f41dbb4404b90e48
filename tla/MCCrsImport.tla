---------------------------- MODULE MCCrsImport -----------------------------
(* Instances of CrsImport for TLC. *)
EXTENDS CrsImport, TLC

\* Texts: letters, blanks and a null around them, an escape, numbers.
a == <<97>>
A == <<65>>
x == <<120>>
y == <<121>>
ab == <<97, 98>>
ba == <<98, 97>>
q == <<113>>
z == <<122>>
Blanks == <<32, 97, 32, 32, 98>>
Trailing == <<97, 9>>
Nulled == <<97, 0>>
Escaped == <<37, 54, 49>>
One == <<49>>
Padded == <<48, 49>>

MCSqliTexts == {q}
MCXssTexts == {z}

Var(name) == [name |-> name, selector |-> {}, regexSelector |-> FALSE, count |-> FALSE, exclude |-> FALSE]
VarAt(name, sel) == [Var(name) EXCEPT !.selector = {sel}]
Span(kind) == [kind |-> kind, vars |-> <<>>, name |-> "", arg |-> <<>>, words |-> <<>>, macro |-> FALSE,
               negate |-> FALSE, actions |-> <<>>]
Op(name, arg) == [Span("operator") EXCEPT !.name = name, !.arg = arg, !.words = <<arg>>]
Ops(name, words) == [Span("operator") EXCEPT !.name = name, !.words = words]
Act(key) == [key |-> key, val |-> "none"]
Val(key, val) == [key |-> key, val |-> val]

Line(tokens) == [tokens |-> tokens, continued |-> FALSE]
Sec == Span("SecRule")
VarsOf(vs) == [Span("vars") EXCEPT !.vars = vs]
ActsOf(as) == [Span("actions") EXCEPT !.actions = as]
Rule(vs, op, as) == Line(<<Sec, VarsOf(vs), op, ActsOf(as)>>)

Deny(n) == <<Val("id", n), Act("deny")>>
Scored(v) == <<Act("pass"), Val("setvar", v)>>
SetVar(anomaly, severity, literal) == [anomaly |-> anomaly, severity |-> severity, literal |-> literal]

Comment == Line(<<Span("comment")>>)
CommentContinued == [Comment EXCEPT !.continued = TRUE]
Marker == Line(<<Span("SecMarker")>>)
Cut == Line(<<Sec, VarsOf(<<Var("ARGS")>>)>>)
Start == Rule(<<Var("REQUEST_METHOD")>>, Op("streq", a), Append(Deny("1"), Act("chain")))
Split == [Start EXCEPT !.tokens = SubSeq(@, 1, 3), !.continued = TRUE]
SplitRest == Line(<<ActsOf(<<Act("chain"), Val("t", "lowercase")>>)>>)
PathIs == Rule(<<Var("REQUEST_FILENAME")>>, Op("contains", a), <<Val("t", "lowercase")>>)
Either == Rule(<<Var("ARGS"), Var("ARGS_NAMES")>>, Ops("pm", <<a, x>>), Deny("2"))
NotPath == Rule(<<Var("REQUEST_FILENAME")>>, [Op("rx", a) EXCEPT !.negate = TRUE], Deny("3"))

\* What may follow what: chains whole, broken and split over lines.
Flow == {Comment, CommentContinued, Marker, Cut, Start, Split, SplitRest, PathIs, Either, NotPath}

\* One rule of every other kind: dropped targets, exclusions and transforms,
\* counts, macros, files, phases, scores, detectors.
Singles == {
    Rule(<<VarAt("ARGS", x), Var("TX")>>, Op("rx", a), Deny("4")),
    Rule(<<Var("ARGS"), [VarAt("ARGS", x) EXCEPT !.exclude = TRUE]>>, Op("rx", a), Deny("5")),
    Rule(<<Var("ARGS_GET")>>, Op("beginsWith", a), <<Act("allow")>>),
    Rule(<<Var("REQUEST_FILENAME")>>, Op("rx", a), <<Val("t", "lowercase"), Val("t", "htmlEntityDecode")>>),
    Rule(<<Var("REQUEST_FILENAME")>>, Op("rx", A), <<Val("t", "lowercase"), Val("t", "none"), Val("t", "urlDecodeUni")>>),
    Rule(<<[Var("ARGS") EXCEPT !.count = TRUE]>>, Op("eq", One), <<Val("phase", [name |-> "", number |-> {1}])>>),
    Rule(<<[Var("TX") EXCEPT !.count = TRUE]>>, Op("eq", One), Deny("6")),
    Rule(<<[VarAt("ARGS", x) EXCEPT !.regexSelector = TRUE]>>, Op("rx", a), Deny("7")),
    Rule(<<Var("ARGS")>>, [Op("rx", a) EXCEPT !.macro = TRUE], Deny("8")),
    Rule(<<Var("ARGS")>>, [Op("rx", a) EXCEPT !.negate = TRUE], Deny("9")),
    Rule(<<Var("REMOTE_ADDR")>>, Ops("ipMatch", <<x, y>>), Deny("10")),
    Rule(<<Var("REMOTE_ADDR")>>, Op("pmFromFile", a), Deny("11")),
    Rule(<<Var("ARGS")>>, Ops("detectSQLi", <<>>), Scored(SetVar(TRUE, "critical", {}))),
    Rule(<<VarAt("ARGS", x)>>, Op("streq", a), Scored(SetVar(TRUE, "", {7})) \o <<Val("status", 403)>>),
    Rule(<<Var("RESPONSE_BODY")>>, Op("rx", a), <<Val("phase", [name |-> "response", number |-> {}])>>),
    Rule(<<Var("ARGS")>>, Ops("detectXSS", <<>>), Scored(SetVar(FALSE, "", {})) \o <<Val("phase", [name |-> "", number |-> {5}])>>) }

\* Every operator and every transform, on a path and on a count.
Operators == {
    Rule(<<Var("REQUEST_FILENAME")>>, [Op(o, w) EXCEPT !.negate = n], Deny("12"))
    : o \in {"rx", "contains", "beginsWith", "endsWith", "streq", "pm"}, w \in {a, ab}, n \in BOOLEAN}
    \cup {Rule(<<[Var("ARGS") EXCEPT !.count = TRUE]>>, Op(o, w), Deny("13"))
          : o \in {"eq", "gt", "lt", "ge", "le"}, w \in {One, Padded}}
    \cup {Rule(<<Var("ARGS")>>, Ops(o, <<>>), Deny("14")) : o \in {"detectSQLi", "detectXSS", "pm"}}
    \cup {Rule(<<Var("REQUEST_FILENAME")>>, Op("streq", w), <<Val("t", t), Val("t", f)>>)
          : w \in {a, A, ab}, f \in {"none", "lowercase"},
            t \in {"lowercase", "uppercase", "urlDecode", "urlDecodeUni", "compressWhitespace", "removeNulls",
                   "trim", "trimLeft", "trimRight"}}
    \cup {Rule(<<Var("REQUEST_FILENAME")>>, Op("streq", w), <<Val("t", "none"), Val("t", t)>>)
          : w \in {a, A, ab, Blanks},
            t \in {"uppercase", "urlDecode", "urlDecodeUni", "compressWhitespace", "removeNulls",
                   "trim", "trimLeft", "trimRight", "htmlEntityDecode"}}

MCInputs ==
    {<<f>> : f \in SeqOf(Flow, 3) \cup {<<l>> : l \in Singles \cup Operators} \cup {<<Start, l>> : l \in Singles}}
    \cup {<<<<f>>, <<Comment, g>>>> : f \in {Start, Split, CommentContinued}, g \in Flow}

MCRequests ==
    {[get |-> g, post |-> p, path |-> w, method |-> m, other |-> a]
     : g \in {{}, {<<x, a>>}, {<<y, ab>>, <<x, A>>}, {<<x, q>>}, {<<y, z>>}}, p \in {{}, {<<x, a>>}, {<<a, x>>}},
       w \in {a, A}, m \in {a, x}}
    \cup {[get |-> {}, post |-> {}, path |-> w, method |-> a, other |-> a]
          : w \in {ab, ba, Blanks, Trailing, Nulled, Escaped}}
    \cup {[get |-> {<<x, <<n>>>> : n \in Digit}, post |-> {}, path |-> a, method |-> a, other |-> a]}
=============================================================================
