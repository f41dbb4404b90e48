----------------------------- MODULE CrsImport ------------------------------
(***************************************************************************)
(* budu import-crs: ModSecurity SecRule files converted into custom rules   *)
(* (import_crs of the budu binary, budu-rules/src/modsec.rs).               *)
(*                                                                         *)
(* The input is read as lines of tokens.  A token stands for one quoted     *)
(* span: its kind, if it is the first of a line, and what parse_vars,       *)
(* parse_operator and split_actions make of it.  An operator has its         *)
(* argument as a text, and as the words it lists: the phrases of @pm, what  *)
(* a regex finds, the networks of @ipMatch.                                 *)
(***************************************************************************)
EXTENDS Text, FiniteSets

CONSTANTS
    Inputs,     \* the sequences of files that are imported
    Requests,   \* requests that source and imported rules are compared on
    SqliTexts, XssTexts,    \* what libinjection recognises
    NumMax      \* i64::MAX

\* The tokens of all inputs.
Tokens == UNION {ToSet(l.tokens) : l \in UNION {ToSet(f) : f \in UNION {ToSet(fs) : fs \in Inputs}}}

\* An input is a sequence of files of lines of tokens; every token can be read
\* as variables, as an operator and as actions.
ASSUME InputsAssumption ==
    /\ Inputs \subseteq Seq(Seq([tokens : Seq(Tokens), continued : BOOLEAN]))
    /\ \A t \in Tokens :
        /\ t.vars \in Seq(ToSet(t.vars)) /\ t.actions \in Seq(ToSet(t.actions))
        /\ \A v \in ToSet(t.vars) : {v.exclude, v.count, v.regexSelector} \subseteq BOOLEAN
        /\ {t.negate, t.macro} \subseteq BOOLEAN
    /\ NumMax \in Nat

VARIABLES
    pc,         \* control
    files, text,    \* what is left to read; the lines read so far
    lines, i,   \* the logical lines; the next one
    members,    \* the chain being collected, as indices of lines
    rules,      \* the rules emitted
    report,     \* converted, skipped (with the line) and warnings of ConvertReport
    units       \* history: the chains built, how they ended and what they emitted

vars == <<pc, files, text, lines, i, members, rules, report, units>>

-----------------------------------------------------------------------------
(* Lines and tokens. *)

EmptyLine == [tokens |-> <<>>, continued |-> FALSE]

\* join_continuations, also inside comments.
JoinContinuations(physical) ==
    LET upTo[k \in 0..Len(physical)] ==
            IF k = 0 THEN [out |-> <<>>, cur |-> <<>>]
            ELSE IF physical[k].continued
            THEN [out |-> upTo[k - 1].out, cur |-> upTo[k - 1].cur \o physical[k].tokens]
            ELSE [out |-> Append(upTo[k - 1].out, upTo[k - 1].cur \o physical[k].tokens), cur |-> <<>>]
        joined == upTo[Len(physical)]
    IN IF joined.cur = <<>> THEN joined.out ELSE Append(joined.out, joined.cur)

IsSkippable(line) == line # <<>> => line[1].kind = "comment"

\* directive_arg(line, "SecRule"): nothing after the name is no directive.
IsSecRule(line) == Len(line) > 1 /\ line[1].kind = "SecRule"

\* parse_secrule refuses fewer than two tokens.
IsWellFormed(line) == Len(line) >= 3

-----------------------------------------------------------------------------
(* Parsing one SecRule. *)

\* map_transform
Transforms == [lowercase |-> "lowercase", uppercase |-> "uppercase", urlDecode |-> "url_decode",
               urlDecodeUni |-> "url_decode", compressWhitespace |-> "compress_ws",
               removeNulls |-> "remove_nulls", trim |-> "trim", trimLeft |-> "trim", trimRight |-> "trim"]

\* anomaly_score: a severity, a literal increment, or critical by default.
Severity == [critical |-> 5, error |-> 4, warning |-> 3, notice |-> 2]
AnomalyScore(v) ==
    IF ~v.anomaly THEN {}
    ELSE IF v.severity \in DOMAIN Severity THEN {Severity[v.severity]}
    ELSE IF v.literal # {} THEN v.literal ELSE {5}

\* The "phase" action: a name, or a number if it parses.
Phase(v) == CASE v.name = "request" -> 2 [] v.name = "response" -> 4
              [] v.number # {} -> CHOOSE n \in v.number : TRUE [] OTHER -> 2

NoActions == [id |-> {}, phase |-> 2, disrupt |-> FALSE, allow |-> FALSE, status |-> {},
              score |-> {}, transforms |-> <<>>, chain |-> FALSE]

\* One turn of the loop over split_actions; tags, severities, ctl and the like
\* are ignored.
ParseAction(r, a) ==
    CASE a.key = "id" -> [r EXCEPT !.id = {a.val}]
      [] a.key = "phase" -> [r EXCEPT !.phase = Phase(a.val)]
      [] a.key \in {"deny", "block", "drop"} -> [r EXCEPT !.disrupt = TRUE]
      [] a.key = "allow" -> [r EXCEPT !.allow = TRUE]
      [] a.key = "status" -> [r EXCEPT !.status = {a.val}]
      [] a.key = "t" -> [r EXCEPT !.transforms =
                            IF a.val = "none" THEN <<>>
                            ELSE IF a.val \in DOMAIN Transforms THEN Append(@, Transforms[a.val])
                            ELSE @]
      [] a.key = "setvar" -> [r EXCEPT !.score = IF AnomalyScore(a.val) = {} THEN @ ELSE AnomalyScore(a.val)]
      [] a.key = "chain" -> [r EXCEPT !.chain = TRUE]
      [] OTHER -> r

\* The third token, if there is one.
Actions(line) == IF Len(line) >= 4 THEN line[4].actions ELSE <<>>

\* The loop over them.
ParseActions(as) ==
    LET upTo[k \in 0..Len(as)] == IF k = 0 THEN NoActions ELSE ParseAction(upTo[k - 1], as[k])
    IN upTo[Len(as)]

\* parse_secrule, parse_vars and parse_operator: a bare argument means @rx.
ParseSecRule(line) ==
    [vars |-> line[2].vars, op |-> line[3], acts |-> ParseActions(Actions(line))]

-----------------------------------------------------------------------------
(* Mapping into rules. *)

Plain == [ARGS_NAMES |-> "arg_names", ARGS_GET_NAMES |-> "arg_names", ARGS_POST_NAMES |-> "arg_names",
          QUERY_STRING |-> "query", REQUEST_URI |-> "uri", REQUEST_URI_RAW |-> "uri",
          REQUEST_FILENAME |-> "path", REQUEST_BASENAME |-> "path", PATH_INFO |-> "path",
          REQUEST_METHOD |-> "method", REQUEST_BODY |-> "body", REQUEST_HEADERS_NAMES |-> "header_names",
          REQUEST_COOKIES_NAMES |-> "cookie_names", REMOTE_ADDR |-> "ip"]

\* The fields of one element and of the whole collection.
Selectable == [ARGS |-> <<"arg", "args">>, ARGS_GET |-> <<"arg", "args">>, ARGS_POST |-> <<"arg", "args">>,
               ARGS_COMBINED |-> <<"arg", "args">>, REQUEST_HEADERS |-> <<"header", "headers">>,
               REQUEST_COOKIES |-> <<"cookie", "cookies">>]

\* map_var, as a set of at most one target: a count only of ARGS, no regex
\* selector.
MapVar(v) ==
    IF v.count THEN {[field |-> "args_count", name |-> {}] : n \in {v.name} \cap {"ARGS", "ARGS_GET", "ARGS_POST"}}
    ELSE IF v.name \in DOMAIN Plain THEN {[field |-> Plain[v.name], name |-> {}]}
    ELSE IF v.name \notin DOMAIN Selectable THEN {}
    ELSE IF v.selector = {} THEN {[field |-> Selectable[v.name][2], name |-> {}]}
    ELSE IF v.regexSelector THEN {}
    ELSE {[field |-> Selectable[v.name][1], name |-> v.selector]}

\* Fault: a prefix is looked for anywhere.
OneToOneLoose == [rx |-> "regex", contains |-> "contains", beginsWith |-> "contains", endsWith |-> "ends_with",
                  streq |-> "eq", eq |-> "eq", gt |-> "gt", lt |-> "lt", ge |-> "ge", le |-> "le"]

OneToOne == [rx |-> "regex", contains |-> "contains", beginsWith |-> "starts_with", endsWith |-> "ends_with",
             streq |-> "eq", eq |-> "eq", gt |-> "gt", lt |-> "lt", ge |-> "ge", le |-> "le"]
Detectors == [detectSQLi |-> "detect_sqli", detectXSS |-> "detect_xss"]

\* map_operator, as a set of at most one operator.  The phrases of @pm become a
\* case-insensitive alternation (phrases_to_regex), of no phrases one that finds
\* the empty word; files of phrases or addresses are not supported.
Operator(op, arg, words, fold) == [op |-> op, arg |-> arg, words |-> words, fold |-> fold]
MapOperator(o) ==
    IF o.macro THEN {}
    ELSE IF o.name \in DOMAIN OneToOne THEN {Operator(OneToOne[o.name], o.arg, o.words, FALSE)}
    ELSE IF o.name \in DOMAIN Detectors THEN {Operator(Detectors[o.name], <<>>, <<>>, FALSE)}
    ELSE IF o.name = "pm" THEN {Operator("regex", <<>>, IF o.words = <<>> THEN <<<<>>>> ELSE o.words, TRUE)}
    ELSE IF o.name = "ipMatch" /\ Len(o.words) = 1 THEN {Operator("cidr", <<>>, o.words, FALSE)}
    ELSE {}

The(opt) == CHOOSE x \in opt : TRUE

\* map_member_conditions: one condition for every target that can be
\* represented; none is an error.
MapMemberConditions(m) ==
    LET upTo[k \in 0..Len(m.vars)] ==
            IF k = 0 THEN <<>>
            ELSE IF m.vars[k].exclude \/ MapVar(m.vars[k]) = {} THEN upTo[k - 1]
            ELSE Append(upTo[k - 1], [target |-> The(MapVar(m.vars[k])), op |-> The(MapOperator(m.op)),
                                      negate |-> m.op.negate, transform |-> m.acts.transforms])
    IN IF MapOperator(m.op) = {} THEN <<>> ELSE upTo[Len(m.vars)]

\* The action comes from the starter.
RuleAction(a) ==
    CASE a.allow -> [kind |-> "allow", score |-> 0, status |-> {}]
      [] ~a.allow /\ a.score # {} -> [kind |-> "score", score |-> CHOOSE n \in a.score : TRUE, status |-> {}]
      [] ~a.allow /\ a.score = {} /\ a.disrupt ->
            [kind |-> "block", score |-> 0, status |-> IF a.status = {} THEN {403} ELSE a.status]
      [] OTHER -> [kind |-> "log", score |-> 0, status |-> {}]

\* build_rules: the rules emitted, none when the chain cannot be represented.
BuildRules(ms) ==
    LET conds == [k \in DOMAIN ms |-> MapMemberConditions(ms[k])]
        Rule(when) == [id |-> ms[1].acts.id, action |-> RuleAction(ms[1].acts), when |-> when]
    IN IF ms[1].acts.phase >= 3 \/ \E k \in DOMAIN ms : conds[k] = <<>> THEN <<>>
       ELSE IF Len(ms) = 1 THEN [j \in DOMAIN conds[1] |-> Rule(<<conds[1][j]>>)]
       ELSE IF \A k \in DOMAIN ms : Len(conds[k]) = 1 THEN <<Rule([k \in DOMAIN ms |-> conds[k][1]])>>
       ELSE <<>>

\* The warnings of build_rules: it stops at the first member it cannot map.
BuildWarnings(ms) ==
    {ms[k].op.name : k \in {n \in DOMAIN ms :
        /\ ms[1].acts.phase < 3 /\ ms[n].op.name \in DOMAIN Detectors /\ ~ms[n].op.macro
        /\ \A j \in 1..n - 1 : MapMemberConditions(ms[j]) # <<>>}}

-----------------------------------------------------------------------------
(* The program. *)

Init ==
    /\ pc = "read"
    /\ files \in Inputs
    /\ text = <<>> /\ lines = <<>> /\ i = 1
    /\ members = <<>>
    /\ rules = <<>>
    /\ report = [converted |-> 0, skipped |-> <<>>, warnings |-> {}]
    /\ units = <<>>

\* import_crs reads its files one after the other; a newline goes after each.
ReadFile ==
    /\ pc = "read" /\ files # <<>>
    /\ text' = Append(text \o Head(files), EmptyLine)
    /\ files' = Tail(files)
    /\ UNCHANGED <<pc, lines, i, members, rules, report, units>>

\* One that cannot be read ends the import, with nothing written.
ReadFails ==
    /\ pc = "read" /\ files # <<>>
    /\ pc' = "failed"
    /\ UNCHANGED <<files, text, lines, i, members, rules, report, units>>

JoinLines ==
    /\ pc = "read" /\ files = <<>>
    /\ lines' = JoinContinuations(text)
    /\ pc' = "scan"
    /\ UNCHANGED <<files, text, i, members, rules, report, units>>

AtEnd == i > Len(lines)

\* A blank line, a comment, or a directive that is no SecRule.
PassOver ==
    /\ pc = "scan" /\ ~AtEnd
    /\ ~IsSecRule(lines[i])
    /\ i' = i + 1
    /\ UNCHANGED <<pc, files, text, lines, members, rules, report, units>>

Malformed ==
    /\ pc = "scan" /\ ~AtEnd
    /\ IsSecRule(lines[i]) /\ ~IsWellFormed(lines[i])
    /\ report' = [report EXCEPT !.skipped = Append(@, [id |-> {}, at |-> i])]
    /\ i' = i + 1
    /\ UNCHANGED <<pc, files, text, lines, members, rules, units>>

IsChained(m) == ParseSecRule(lines[m]).acts.chain

\* Fault: the line is not consumed.
TakeMemberTwice(from) ==
    /\ pc = from /\ ~AtEnd
    /\ IsSecRule(lines[i]) /\ IsWellFormed(lines[i])
    /\ members' = Append(members, i)
    /\ pc' = IF IsChained(i) THEN "chain" ELSE "build"
    /\ i' = IF from = "scan" \/ IsChained(i) THEN i + 1 ELSE i
    /\ UNCHANGED <<files, text, lines, rules, report, units>>

\* A starter, or a further member of an open chain.
TakeMember(from) ==
    /\ pc = from /\ ~AtEnd
    /\ IsSecRule(lines[i]) /\ IsWellFormed(lines[i])
    /\ members' = Append(members, i)
    /\ pc' = IF IsChained(i) THEN "chain" ELSE "build"
    /\ i' = i + 1
    /\ UNCHANGED <<files, text, lines, rules, report, units>>

\* Fault: the search for the next member does not advance.
PassOverInChainStuck ==
    /\ pc = "chain" /\ ~AtEnd /\ IsSkippable(lines[i])
    /\ UNCHANGED vars

PassOverInChain ==
    /\ pc = "chain" /\ ~AtEnd /\ IsSkippable(lines[i])
    /\ i' = i + 1
    /\ UNCHANGED <<pc, files, text, lines, members, rules, report, units>>

\* The chain ends early: at the end of the input, or at a directive that is no
\* SecRule or does not parse, which is consumed.
BreakChain ==
    /\ pc = "chain"
    /\ ~AtEnd => ~IsSkippable(lines[i]) /\ ~(IsSecRule(lines[i]) /\ IsWellFormed(lines[i]))
    /\ i' = IF AtEnd THEN i ELSE i + 1
    /\ pc' = "build"
    /\ UNCHANGED <<files, text, lines, members, rules, report, units>>

Build ==
    /\ pc = "build"
    /\ LET ms == [k \in DOMAIN members |-> ParseSecRule(lines[members[k]])]
           emitted == BuildRules(ms)
       IN /\ rules' = rules \o emitted
          /\ report' = [converted |-> report.converted + (IF emitted = <<>> THEN 0 ELSE 1),
                        skipped |-> IF emitted # <<>> THEN report.skipped
                                    ELSE Append(report.skipped, [id |-> ms[1].acts.id, at |-> members[1]]),
                        warnings |-> report.warnings \cup BuildWarnings(ms)]
          /\ units' = Append(units, [members |-> members, broken |-> ms[Len(ms)].acts.chain,
                                     next |-> i, emitted |-> emitted])
    /\ members' = <<>>
    /\ pc' = "scan"
    /\ UNCHANGED <<files, text, lines, i>>

\* The output is written and the report printed, or writing fails.
Write ==
    /\ pc = "scan" /\ AtEnd
    /\ pc' \in {"done", "failed"}
    /\ UNCHANGED <<files, text, lines, i, members, rules, report, units>>

Next ==
    \/ ReadFile \/ ReadFails \/ JoinLines
    \/ PassOver \/ Malformed \/ TakeMember("scan")
    \/ TakeMember("chain") \/ PassOverInChain \/ BreakChain
    \/ Build \/ Write

Spec == Init /\ [][Next]_vars /\ WF_vars(Next)

-----------------------------------------------------------------------------
(* What the imported rules find in a request: get and post are sets of       *)
(* <<name, value>>, path, method and other (what the converter knows no      *)
(* field for) are texts.                                                     *)

\* collect_candidates
Candidates(target, r) ==
    CASE target.field = "args" -> {p[2] : p \in r.get \cup r.post}
      [] target.field = "arg" -> {p[2] : p \in {q \in r.get \cup r.post : {q[1]} = target.name}}
      [] target.field = "arg_names" -> {p[1] : p \in r.get \cup r.post}
      [] target.field = "args_count" -> {Render(Cardinality(r.get) + Cardinality(r.post))}
      [] target.field = "path" -> {r.path}
      [] target.field = "method" -> {r.method}
      [] OTHER -> {}

WithoutNulls(s) == SelectSeq(s, LAMBDA b : b # 0)

\* apply_transform, and one after the other.
ApplyTransform(t, s) ==
    CASE t = "lowercase" -> ToLower(s)
      [] t = "uppercase" -> ToUpper(s)
      [] t = "url_decode" -> Decode(s, TRUE)
      [] t = "compress_ws" -> CompressWs(s)
      [] t = "remove_nulls" -> WithoutNulls(s)
      [] t = "trim" -> Trim(s)
Applied(ts, s) ==
    LET upTo[k \in 0..Len(ts)] == IF k = 0 THEN s ELSE ApplyTransform(ts[k], upTo[k - 1])
    IN upTo[Len(ts)]

\* eval_op: a regex finds one of its words; a number is one that parses.
EvalOp(o, x) ==
    CASE o.op = "regex" -> \E k \in DOMAIN o.words : IF o.fold THEN Occurs(ToLower(o.words[k]), ToLower(x))
                                                     ELSE Occurs(o.words[k], x)
      [] o.op = "contains" -> Occurs(o.arg, x)
      [] o.op = "starts_with" -> IsPrefix(o.arg, x)
      [] o.op = "ends_with" -> IsSuffix(o.arg, x)
      [] o.op = "eq" -> x = o.arg
      [] o.op = "gt" -> \E n \in ParseInt(x, NumMax) : \E m \in ParseInt(o.arg, NumMax) : n > m
      [] o.op = "lt" -> \E n \in ParseInt(x, NumMax) : \E m \in ParseInt(o.arg, NumMax) : n < m
      [] o.op = "ge" -> \E n \in ParseInt(x, NumMax) : \E m \in ParseInt(o.arg, NumMax) : n >= m
      [] o.op = "le" -> \E n \in ParseInt(x, NumMax) : \E m \in ParseInt(o.arg, NumMax) : n <= m
      [] o.op = "detect_sqli" -> x \in SqliTexts
      [] o.op = "detect_xss" -> x \in XssTexts
      [] OTHER -> FALSE

\* matches_request: any candidate, negated as a whole.
CondHolds(c, r) ==
    (\E x \in Candidates(c.target, r) : EvalOp(c.op, Applied(c.transform, x))) # c.negate

Fires(unit, r) ==
    \E j \in DOMAIN unit.emitted : \A k \in DOMAIN unit.emitted[j].when : CondHolds(unit.emitted[j].when[k], r)

-----------------------------------------------------------------------------
(* What the source finds, by ModSecurity's names and none of the importer's  *)
(* tables: every element of the variables, with its name, is tried by itself,*)
(* those named with '!' left out; the members of a chain must all match.     *)

Args == {"ARGS", "ARGS_GET", "ARGS_POST"}

Elements(v, r) ==
    LET Selected(pairs) == {q \in pairs : v.selector \in {{}, {q[1]}}}
        get == IF v.name = "ARGS_POST" THEN {} ELSE Selected(r.get)
        post == IF v.name = "ARGS_GET" THEN {} ELSE Selected(r.post)
    IN CASE v.count /\ v.name \in Args -> {<<"", Render(Cardinality(get) + Cardinality(post))>>}
         [] ~v.count /\ v.name \in Args -> get \cup post
         [] ~v.count /\ v.name = "ARGS_NAMES" -> {<<p[1], p[1]>> : p \in get \cup post}
         [] ~v.count /\ v.name = "REQUEST_FILENAME" -> {<<"", r.path>>}
         [] ~v.count /\ v.name = "REQUEST_METHOD" -> {<<"", r.method>>}
         [] OTHER -> {<<"", r.other>>}

Ink(s) == {k \in DOMAIN s : s[k] \notin Blank}
TrimLeft(s) == IF Ink(s) = {} THEN <<>> ELSE SubSeq(s, Min(Ink(s)), Len(s))
TrimRight(s) == IF Ink(s) = {} THEN <<>> ELSE SubSeq(s, 1, Max(Ink(s)))
BeginsBlank(s) == s # <<>> /\ s[1] \in Blank
EndsBlank(s) == s # <<>> /\ s[Len(s)] \in Blank

\* White space becomes one space, also at the ends.
CompressWhitespace(s) ==
    IF s # <<>> /\ Ink(s) = {} THEN <<Space>>
    ELSE (IF BeginsBlank(s) THEN <<Space>> ELSE <<>>) \o CompressWs(s) \o (IF EndsBlank(s) THEN <<Space>> ELSE <<>>)

\* One transform of ModSecurity: SameText leaves out the texts on which its decoders
\* do not do what Decode does, and the transforms not listed.
SourceTransform(t, s) ==
    CASE t = "lowercase" -> ToLower(s)
      [] t = "uppercase" -> ToUpper(s)
      [] t \in {"urlDecode", "urlDecodeUni"} -> Decode(s, TRUE)
      [] t = "compressWhitespace" -> CompressWhitespace(s)
      [] t = "removeNulls" -> WithoutNulls(s)
      [] t = "trim" -> Trim(s)
      [] t = "trimLeft" -> TrimLeft(s)
      [] t = "trimRight" -> TrimRight(s)
      [] OTHER -> s

\* The transforms as the source wrote them, the unsupported too.
SourceTransforms(as) ==
    LET upTo[k \in 0..Len(as)] ==
            IF k = 0 THEN <<>>
            ELSE IF as[k].key # "t" THEN upTo[k - 1]
            ELSE IF as[k].val = "none" THEN <<>>
            ELSE Append(upTo[k - 1], as[k].val)
    IN upTo[Len(as)]

\* A text after the first k transforms.
Stages(ts, s) ==
    LET upTo[k \in 0..Len(ts)] == IF k = 0 THEN s ELSE SourceTransform(ts[k], upTo[k - 1])
    IN upTo

Number(s) == The(ParseInt(s, NumMax))

SourceOperator(o, x) ==
    CASE o.name = "rx" -> \E k \in DOMAIN o.words : Occurs(o.words[k], x)
      [] o.name = "pm" -> \E k \in DOMAIN o.words : Occurs(ToLower(o.words[k]), ToLower(x))
      [] o.name = "contains" -> Occurs(o.arg, x)
      [] o.name = "beginsWith" -> IsPrefix(o.arg, x)
      [] o.name = "endsWith" -> IsSuffix(o.arg, x)
      [] o.name = "streq" -> x = o.arg
      [] o.name = "eq" -> Number(x) = Number(o.arg)
      [] o.name = "gt" -> Number(x) > Number(o.arg)
      [] o.name = "lt" -> Number(x) < Number(o.arg)
      [] o.name = "ge" -> Number(x) >= Number(o.arg)
      [] o.name = "le" -> Number(x) <= Number(o.arg)
      [] o.name = "detectSQLi" -> x \in SqliTexts
      [] o.name = "detectXSS" -> x \in XssTexts
      [] OTHER -> FALSE

\* What the operator of a line is applied to.
Shown(line, s) == LET ts == SourceTransforms(Actions(line)) IN Stages(ts, s)[Len(ts)]

Vars(line, excluded) == {line[2].vars[k] : k \in {n \in DOMAIN line[2].vars : line[2].vars[n].exclude = excluded}}

SourceMatches(line, r) ==
    \E v \in Vars(line, FALSE) : \E w \in Elements(v, r) \ UNION {Elements(x, r) : x \in Vars(line, TRUE)} :
        SourceOperator(line[3], Shown(line, w[2])) # line[3].negate

\* The lines that a unit's chain has in the source, up to where it broke.
ChainMatches(unit, r) == \A k \in DOMAIN unit.members : SourceMatches(lines[unit.members[k]], r)

-----------------------------------------------------------------------------
(* Properties. *)

SecRules == {l \in DOMAIN lines : IsSecRule(lines[l])}

\* Every variable of the converter keeps its type.
TypeOK ==
    /\ pc \in {"read", "scan", "chain", "build", "done", "failed"}
    /\ i \in 1..Len(lines) + 1
    /\ ToSet(members) \subseteq SecRules
    /\ (pc \in {"chain", "build"}) = (members # <<>>)
    /\ report.converted \in Nat /\ report.converted <= Len(rules)

\* Every SecRule of the input goes into the report once: as a member of one
\* chain that is converted or skipped, or as malformed; the only ones that
\* leave no trace are those a broken chain consumed (convert).
EachRuleOnce ==
    pc = "done" =>
        LET Uses(l) == {u \in DOMAIN units : l \in ToSet(units[u].members)}
            malformed == {l \in SecRules : \E k \in DOMAIN report.skipped : report.skipped[k] = [id |-> {}, at |-> l]
                                               /\ Uses(l) = {}}
            swallowed == {units[u].next - 1 : u \in {n \in DOMAIN units : units[n].broken}}
        IN /\ \A l \in SecRules : Cardinality(Uses(l)) <= 1
           /\ \A l \in SecRules : Uses(l) = {} => l \in malformed \cup swallowed
           /\ report.converted + Len(report.skipped) = Len(units) + Cardinality(malformed)

\* What the conversion loses, by what the source says: targets it has no field
\* for, exclusions, the difference between a part and the whole of a collection,
\* and that a negated operator asks each element of one by itself.
Lost(v) ==
    \/ v.count /\ v.name \notin Args
    \/ v.selector # {} /\ v.regexSelector /\ ~v.count /\ v.name \in Args
    \/ v.name \notin Args \cup {"ARGS_NAMES", "REQUEST_FILENAME", "REQUEST_METHOD"}
DropsTarget(l) == \E v \in Vars(lines[l], FALSE) : Lost(v)
DropsExclusion(l) == Vars(lines[l], TRUE) # {}
WidensTarget(l) == \E v \in Vars(lines[l], FALSE) :
    v.name \in {"ARGS_GET", "ARGS_POST"} \/ (v.selector # {} /\ (v.count \/ v.name = "ARGS_NAMES"))
NegatesCollection(l) ==
    lines[l][3].negate /\ \E v \in Vars(lines[l], FALSE) : ~v.count /\ v.name \in Args \cup {"ARGS_NAMES"}

\* The texts on which ModSecurity's transform and the one it is mapped to agree:
\* ASCII; trimLeft and trimRight become trim, compress_ws trims too, url_decode
\* shows a byte that is not ASCII as '?' and knows no %u.
SameText(t, s) ==
    /\ s \in Seq(0..127)
    /\ CASE t \in {"lowercase", "uppercase", "removeNulls", "trim"} -> TRUE
         [] t \in {"urlDecode", "urlDecodeUni"} ->
                \A k \in 1..Len(s) - 1 : s[k] = Percent => s[k + 1] \notin {56, 57, 85, 117} \cup 65..70 \cup 97..102
         [] t = "compressWhitespace" -> ~BeginsBlank(s) /\ ~EndsBlank(s)
         [] t = "trimLeft" -> ~EndsBlank(s)
         [] t = "trimRight" -> ~BeginsBlank(s)
         [] OTHER -> FALSE

\* The operators and texts on which they agree: @eq becomes equality of texts, the
\* other comparisons need natural numbers, @pm its phrases; requests carry no
\* addresses.
IsNumber(s) == \E n \in ParseInt(s, NumMax) : n \in Nat
IsWritten(s) == IsNumber(s) /\ Render(Number(s)) = s
SameOperand(o, x) ==
    /\ o.name = "eq" => IsWritten(x) /\ IsWritten(o.arg)
    /\ o.name \in {"gt", "lt", "ge", "le"} => IsNumber(x) /\ IsNumber(o.arg)
    /\ o.name = "pm" => o.words # <<>>
    /\ o.name # "ipMatch"

\* Nothing that the source's line does to the request lies outside them.
SameReading(l, r) ==
    LET ts == SourceTransforms(Actions(lines[l]))
    IN \A v \in Vars(lines[l], FALSE) : \A w \in Elements(v, r) :
        /\ \A k \in DOMAIN ts : SameText(ts[k], Stages(ts, w[2])[k - 1])
        /\ SameOperand(lines[l][3], Shown(lines[l], w[2]))

\* The variables that the requests carry no value for are not compared.
Uncarried == {"ARGS_COMBINED", "ARGS_GET_NAMES", "ARGS_POST_NAMES", "QUERY_STRING", "REQUEST_URI", "REQUEST_URI_RAW",
              "REQUEST_BASENAME", "PATH_INFO", "REQUEST_BODY", "REQUEST_HEADERS", "REQUEST_HEADERS_NAMES",
              "REQUEST_COOKIES", "REQUEST_COOKIES_NAMES", "REMOTE_ADDR"}
Compared(l) == \A v \in Vars(lines[l], FALSE) : v.name \notin Uncarried

\* An imported chain fires only on requests that the members it collected match
\* (all of the source's, unless the chain was broken), unless it lost an
\* exclusion, its variable stands for more than the source's or a collection is
\* negated as a whole; and on all of them, unless it also lost a target.  What
\* the source finds is told by ModSecurity's own transforms and operators, on
\* the texts that the importer's stand-ins read alike (build_rules,
\* map_member_conditions, map_var, map_operator, map_transform).
MeaningKept ==
    pc = "done" =>
        \A u \in DOMAIN units : \A r \in Requests :
            LET ls == ToSet(units[u].members)
                Exact(l) == Compared(l) /\ ~NegatesCollection(l) /\ ~WidensTarget(l) /\ SameReading(l, r)
            IN (units[u].emitted # <<>> /\ \A l \in ls : Exact(l)) =>
                    /\ (\A l \in ls : ~DropsExclusion(l)) => (Fires(units[u], r) => ChainMatches(units[u], r))
                    /\ (\A l \in ls : ~DropsTarget(l)) => (ChainMatches(units[u], r) => Fires(units[u], r))

\* The import ends: no loop over lines or members goes on for ever (convert).
Terminates == <>(pc \in {"done", "failed"})
=============================================================================
