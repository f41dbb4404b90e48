----------------------------- MODULE Conditions -----------------------------
(***************************************************************************)
(* One request against one custom rule and the signatures: compile_cond,     *)
(* collect_candidates, the transforms and eval_op of budu-rules, and the     *)
(* scan of budu-signatures, on what the client wrote on the wire.           *)
(*                                                                         *)
(* The client means some content and writes it in any of the encodings that *)
(* stand for it.  The rule is compiled some time before; its conditions are *)
(* evaluated one after the other, and each condition on the time, the day   *)
(* or a counter reads the clock or the counter when its turn comes, so both *)
(* may move between two conditions.                                         *)
(***************************************************************************)
EXTENDS Parameters, Schedule, FiniteSets

CONSTANTS
    Cases,          \* what is meant, the rule and the signatures it meets, and the
                    \* bounds of the case: start time, minutes that pass, counts
    DefaultTz,      \* [server] timezone, as an offset in minutes
    Zones,          \* offsets whose calendars are watched
    NumMax          \* i64::MAX

\* A list of parameters: names and values of any bytes.
PairLists == Seq(Seq(Byte) \X Seq(Byte))

Lacks(s, b) == \A i \in DOMAIN s : s[i] # b
IsTrimmed(s) == s # <<>> => s[1] \notin Blank /\ s[Len(s)] \notin Blank

\* Cookies that can be written: a Cookie header has no escapes, and no control
\* character but the tab.
HeaderBytes == {9} \cup (32..126) \cup (128..255)

AreCookies(cookies) ==
    /\ cookies \in Seq(Seq(HeaderBytes) \X Seq(HeaderBytes))
    /\ \A i \in DOMAIN cookies :
        /\ Lacks(cookies[i][1], Semi) /\ Lacks(cookies[i][1], Equals) /\ Lacks(cookies[i][2], Semi)
        /\ IsTrimmed(cookies[i][1]) /\ IsTrimmed(cookies[i][2])

\* The leaves of a JSON document whose outermost keys are not empty.
AreLeaves(leaves) ==
    /\ IsFiniteSet(DOMAIN leaves)
    /\ \A keys \in DOMAIN leaves : keys \in Seq(Seq(Byte)) /\ (keys # <<>> => keys[1] # <<>>)

\* Well-formed UTF-8: the grammar of a character, and a text every byte of which is
\* part of one.
IsChar(c) ==
    \/ Len(c) = 1 /\ IsAscii(c[1])
    \/ Len(c) = 2 /\ c[1] \in 194..223 /\ c[2] \in Continuation
    \/ /\ Len(c) = 3 /\ c[3] \in Continuation
       /\ \/ c[1] = 224 /\ c[2] \in 160..191
          \/ c[1] \in (225..236) \cup {238, 239} /\ c[2] \in Continuation
          \/ c[1] = 237 /\ c[2] \in 128..159
    \/ /\ Len(c) = 4 /\ c[3] \in Continuation /\ c[4] \in Continuation
       /\ \/ c[1] = 240 /\ c[2] \in 144..191
          \/ c[1] \in 241..243 /\ c[2] \in Continuation
          \/ c[1] = 244 /\ c[2] \in 128..143

IsText(s) ==
    \A i \in DOMAIN s : \E j \in 1..i : \E w \in 1..4 :
        i < j + w /\ j + w - 1 <= Len(s) /\ IsChar(SubSeq(s, j, j + w - 1))

\* The parameters of a Content-Disposition, as clients write them: quoted, after a
\* semicolon and a space.  OtherParam stands for any other parameter's name.
OtherParam == 259

DispositionLine(part) ==
    LET written == [i \in DOMAIN part.fields |->
                        <<part.fields[i].key, Quote>> \o part.fields[i].text \o <<Quote>>]
    IN <<DispositionName, Colon>> \o Join(<<part.kind>> \o written, <<Semi, Space>>)

FieldTexts(part, key) ==
    {part.fields[i].text : i \in {k \in DOMAIN part.fields : part.fields[k].key = key}}

\* One name, at most one filename; nothing that ends a quoted text or a header early.
AreFields(fields) ==
    /\ \A i \in DOMAIN fields :
        /\ fields[i].key \in {NameParam, FileParam, OtherParam}
        /\ fields[i].text \in Seq(Byte)
        /\ Lacks(fields[i].text, Quote) /\ Lacks(fields[i].text, Semi)
    /\ \A i, k \in DOMAIN fields : fields[i].key = fields[k].key /\ fields[i].key # OtherParam => i = k
    /\ \E i \in DOMAIN fields : fields[i].key = NameParam

\* A header of another name.
IsOtherHeader(line) ==
    Colon \in ToSet(line) /\ Trim(SplitPair(line, Colon)[1]) # <<DispositionName>>

\* A part that the boundary separates from the others: header lines in UTF-8, the
\* first Content-Disposition among them, and a value of any bytes.
IsPart(part, boundary) ==
    /\ part.lines \in Seq(Seq(Nat))
    /\ \A j \in DOMAIN part.lines :
        part.lines[j] # <<>> /\ part.lines[j][1] # Dash /\ Lacks(part.lines[j], CR)
    /\ part.kind \in Seq(Byte) /\ Lacks(part.kind, Semi)
    /\ part.fields \in Seq(ToSet(part.fields)) /\ AreFields(part.fields)
    /\ \E j \in DOMAIN part.lines :
        /\ part.lines[j] = DispositionLine(part)
        /\ \A l \in 1..j - 1 : IsOtherHeader(part.lines[l])
    /\ IsText(Join(part.lines, CRLF)) /\ ~Occurs(<<Dash, Dash>> \o boundary, Join(part.lines, CRLF))
    /\ part.value \in Seq(Byte) /\ ~Occurs(<<Dash, Dash>> \o boundary, part.value)

\* What a request may mean: a path, at most one query, a body of one of four
\* kinds, cookies.
IsMeaning(m) ==
    /\ m.path \in Seq(Byte)
    /\ m.query \subseteq PairLists /\ \A x, y \in m.query : x = y
    /\ m.via \in {"none", "form", "json", "multipart"}
    /\ m.pairs \in PairLists /\ m.text \in Seq(Byte) /\ AreLeaves(m.leaves) /\ AreCookies(m.cookies)
    /\ m.boundary \in Seq(Byte) /\ ToStr(m.boundary)
    /\ m.headers \in Seq(ToSet(m.headers))
    /\ m.parts \in Seq(ToSet(m.parts)) /\ \A i \in DOMAIN m.parts : IsPart(m.parts[i], m.boundary)

\* Signatures: literals and the words of regexes are texts.
IsSignatures(sigs) ==
    /\ sigs \in Seq(ToSet(sigs))
    /\ \A i \in DOMAIN sigs : sigs[i].literal \subseteq Seq(Byte) /\ UNION sigs[i].regex \subseteq Seq(Byte)

ASSUME ClockAssumption == \A c \in Cases : c.at \in Nat
ASSUME CasesAssumption ==
    \A c \in Cases : /\ IsMeaning(c.means) /\ IsSignatures(c.sigs)
                     /\ c.when \in Seq(ToSet(c.when))
                     /\ c.ticks \in Nat /\ c.counts \in Nat
ASSUME ZonesAssumption == Zones \subseteq Int
\* An offset is an i16; clocks and counters are well below the largest i64.
IsOffset(o) == o \in Int /\ -32768 <= o /\ o <= 32767

ASSUME BoundsAssumption ==
    /\ IsOffset(DefaultTz) /\ NumMax \in Nat
    /\ \A c \in Cases : c.at + c.ticks <= NumMax /\ c.counts <= NumMax

VARIABLES
    pc,             \* control
    case, req,      \* the case; the request as it was written
    norm,           \* ctx.normalized
    hit,            \* what the scan reported
    pos, out,       \* the next condition; whether the rule matched
    now, count,     \* the clock; the client's counter
    ticks, seen     \* history: minutes passed; clock and counter during the evaluation

vars == <<pc, case, req, norm, hit, pos, out, now, count, ticks, seen>>

-----------------------------------------------------------------------------
(* Compilation: compile_cond. *)

Named == {"header", "arg", "counter", "resp_header", "cookie"}
Unnamed == {"method", "path", "query", "uri", "body", "ip", "country", "status", "resp_body",
            "arg_names", "args_count", "args", "headers", "header_names", "cookies",
            "cookie_names", "time", "day"}
TextOp == {"eq", "ne", "contains", "starts_with", "ends_with"}
NumOp == {"gt", "lt", "ge", "le"}
TransformName == {"lowercase", "uppercase", "url_decode", "compress_ws", "remove_nulls", "trim"}

\* resolve_tz: the rule's zone, if it has one, or the server's.
ResolveTz(c) == IF c.tz = <<>> THEN {DefaultTz} ELSE ParseTzOffset(c.tz[1], c.tz[2], c.tz[3])

\* A regex is the set of words it finds, a CIDR the set of its addresses; one
\* that does not parse is absent.  The build is one without libinjection.
CompileOp(c) ==
    \/ c.op \in TextOp
    \/ c.op = "regex" /\ c.regex # {}
    \/ c.op = "cidr" /\ c.field = "ip" /\ c.net # {}
    \/ c.op = "in" /\ c.values # {}
    \/ c.op \in NumOp /\ ParseInt(c.value, NumMax) # {}
    \/ c.op = "time_between" /\ c.field = "time" /\ ParseTimeWindow(c.window) # {} /\ ResolveTz(c) # {}
    \/ c.op = "day_of_week" /\ c.field = "day" /\ ParseDayMask(c.days) # {} /\ ResolveTz(c) # {}

CompileCond(c) ==
    /\ c.field \in Unnamed \/ (c.field \in Named /\ Trim(c.name) # <<>>)
    /\ CompileOp(c)
    /\ c.field = "time" => c.op = "time_between"
    /\ c.field = "day" => c.op = "day_of_week"
    /\ \A i \in DOMAIN c.transform : c.transform[i] \in TransformName

-----------------------------------------------------------------------------
(* Evaluation. *)

\* apply_transform
ApplyTransform(t, s) ==
    CASE t = "lowercase" -> ToLower(s)
      [] t = "uppercase" -> ToUpper(s)
      [] t = "url_decode" -> Decode(s, TRUE)
      [] t = "compress_ws" -> CompressWs(s)
      [] t = "remove_nulls" -> SelectSeq(s, LAMBDA b : b # 0)
      [] t = "trim" -> Trim(s)

Transformed(c, s) == FoldLeft(LAMBDA v, t : ApplyTransform(t, v), s, c.transform)

SecondOf(pairs, name) == {pairs[i][2] : i \in {k \in DOMAIN pairs : pairs[k][1] = name}}
Firsts(pairs) == {pairs[i][1] : i \in DOMAIN pairs}
Seconds(pairs) == {pairs[i][2] : i \in DOMAIN pairs}

\* headers.get(name), then to_str: the first value or nothing.
HeaderGet(headers, name) ==
    LET i == SelectInSeq(headers, LAMBDA h : h[1] = ToLower(name))
    IN IF i # 0 /\ ToStr(headers[i][2]) THEN {headers[i][2]} ELSE {}

\* collect_candidates, as the set of texts the operator is tried on, when the
\* clock shows t and the counter n.
CollectCandidates(c, r, t, n) ==
    CASE c.field = "counter" -> {Render(n)}
      [] c.field = "method" -> {r.method}
      [] c.field = "path" -> {r.path}
      [] c.field = "query" -> IF r.query = {} THEN {<<>>} ELSE r.query
      [] c.field = "uri" -> IF r.query = {} THEN {r.path}
                            ELSE {r.path \o <<Question>> \o q : q \in r.query}
      [] c.field = "header" -> HeaderGet(r.headers, c.name)
      [] c.field = "headers" -> {v \in Seconds(r.headers) : ToStr(v)}
      [] c.field = "header_names" -> Firsts(r.headers)
      [] c.field = "body" -> {Lossy(b) : b \in r.body}
      [] c.field = "ip" -> {r.ip}
      [] c.field = "country" -> r.country
      [] c.field = "arg" -> SecondOf(CollectArgs(r), c.name)
      [] c.field = "args" -> Seconds(CollectArgs(r))
      [] c.field = "arg_names" -> Firsts(CollectArgs(r))
      [] c.field = "args_count" -> {Render(Len(CollectArgs(r)))}
      [] c.field = "cookie" -> SecondOf(CollectCookies(r), c.name)
      [] c.field = "cookies" -> Seconds(CollectCookies(r))
      [] c.field = "cookie_names" -> Firsts(CollectCookies(r))
      [] c.field = "time" -> {Render(UtcMinutes(t))}
      [] c.field = "day" -> {Render(t)}
      [] OTHER -> {}

Compare(op, x, k) ==
    CASE op = "gt" -> x > k [] op = "lt" -> x < k [] op = "ge" -> x >= k [] op = "le" -> x <= k

\* eval_op
EvalOp(c, v) ==
    CASE c.op = "eq" -> v = c.value
      [] c.op = "ne" -> v # c.value
      [] c.op = "contains" -> Occurs(c.value, v)
      [] c.op = "starts_with" -> IsPrefix(c.value, v)
      [] c.op = "ends_with" -> IsSuffix(c.value, v)
      [] c.op = "regex" -> \E lang \in c.regex : \E w \in lang : Occurs(w, v)
      [] c.op = "in" -> v \in c.values
      [] c.op \in NumOp ->
            \E x \in ParseInt(v, NumMax) : \E k \in ParseInt(c.value, NumMax) : Compare(c.op, x, k)
      [] c.op = "time_between" ->
            \E m \in ParseInt(v, 65535) : \E w \in ParseTimeWindow(c.window) : \E o \in ResolveTz(c) :
                InWindow(m, w[1], w[2], o)
      [] c.op = "day_of_week" ->
            \E m \in ParseInt(v, NumMax) : \E mask \in ParseDayMask(c.days) : \E o \in ResolveTz(c) :
                Weekday(m, o) \in mask
      [] OTHER -> FALSE

\* Fault: negate applies to each candidate.
MatchesRequestEach(c, r, t, n) ==
    IF c.op = "cidr" THEN (\E net \in c.net : r.ip \in net) # c.negate
    ELSE \E v \in CollectCandidates(c, r, t, n) : EvalOp(c, Transformed(c, v)) # c.negate

\* matches_request: any candidate will do, and negate inverts the whole; CIDR
\* looks at the address itself.
MatchesRequest(c, r, t, n) ==
    (IF c.op = "cidr" THEN \E net \in c.net : r.ip \in net
     ELSE \E v \in CollectCandidates(c, r, t, n) : EvalOp(c, Transformed(c, v))) # c.negate

-----------------------------------------------------------------------------
(* How a client may write what it means. *)

\* A hexadecimal digit, in lower case (letters from 87 on) or in upper case (55).
HexDigit(n, letters) == IF n < 10 THEN 48 + n ELSE letters + n

\* The forms of one byte: raw where that is unambiguous, escaped, or '+'; a slash
\* of the path stays one.
Forms(b, reserved, plus) ==
    (IF b = Slash /\ ~plus THEN {}
     ELSE {<<Percent, HexDigit(b \div 16, letters), HexDigit(b % 16, letters)>> : letters \in {55, 87}})
    \cup (IF b \in reserved \/ b = Percent \/ b <= Space \/ ~IsAscii(b) THEN {} ELSE {<<b>>})
    \cup (IF plus /\ b = Space THEN {<<Plus>>} ELSE {})

Encodings(s, reserved, plus) ==
    LET upTo[i \in 0..Len(s)] ==
            IF i = 0 THEN {<<>>}
            ELSE {p \o f : p \in upTo[i - 1], f \in Forms(s[i], reserved, plus)}
    IN upTo[Len(s)]

EncodedPairs(pairs) ==
    LET Pair(p) == {k \o <<Equals>> \o v : k \in Encodings(p[1], {Amp, Equals, Plus}, TRUE),
                                           v \in Encodings(p[2], {Amp, Plus}, TRUE)}
        upTo[i \in 0..Len(pairs)] ==
            CASE i = 0 -> {<<>>}
              [] i = 1 -> Pair(pairs[1])
              [] OTHER -> {a \o <<Amp>> \o b : a \in upTo[i - 1], b \in Pair(pairs[i])}
    IN upTo[Len(pairs)]

\* The serialisation of parts, each with its own header lines.
MultipartBody(parts, boundary) ==
    LET sep == <<Dash, Dash>> \o boundary
    IN Concat([i \in DOMAIN parts |->
            sep \o CRLF \o Join(parts[i].lines, CRLF) \o CRLF \o CRLF \o parts[i].value \o CRLF])
       \o sep \o <<Dash, Dash>> \o CRLF

-----------------------------------------------------------------------------
\* What a case means before it is written.
NoRequest == [path |-> <<>>, query |-> {}, body |-> {}, ctype |-> {}, json |-> {}, cookie |-> {},
              method |-> <<>>, headers |-> <<>>, ip |-> <<>>, country |-> {}]

Init ==
    /\ case \in Cases
    /\ now = case.at
    /\ pc = "start"
    /\ req = NoRequest
    /\ norm = NotNormalized
    /\ hit = {}
    /\ pos = 1 /\ out = FALSE
    /\ count = 0
    /\ ticks = 0 /\ seen = {}

\* RuleSet::load and SignatureDb::load, at start-up or on a reload.
Compile ==
    /\ pc = "start"
    /\ pc' = IF /\ case.when # <<>> /\ \A i \in DOMAIN case.when : CompileCond(case.when[i])
                /\ CompilesDb(case.sigs)
             THEN "compiled" ELSE "rejected"
    /\ UNCHANGED <<case, req, norm, hit, pos, out, now, count, ticks, seen>>

\* The client writes its request; the body gate buffers the body.
Send ==
    /\ pc = "compiled"
    /\ LET m == case.means
           bodies == CASE m.via = "none" -> {{}}
                       [] m.via = "form" -> {{b} : b \in EncodedPairs(m.pairs)}
                       [] m.via = "json" -> {{m.text}}
                       [] m.via = "multipart" -> {{MultipartBody(m.parts, m.boundary)}}
       IN \E p \in Encodings(m.path, {Question}, FALSE), b \in bodies,
            q \in {{}} \cup {{w} : w \in UNION {EncodedPairs(x) : x \in m.query}} :
            /\ (q = {}) = (m.query = {})
            /\ req' = [path |-> p, query |-> q, body |-> b,
                       ctype |-> IF m.via = "none" THEN {} ELSE {[kind |-> m.via,
                            params |-> <<[key |-> "charset", value |-> <<>>],
                                         [key |-> "boundary", value |-> m.boundary]>>]},
                       json |-> IF m.via = "json" THEN {m.leaves} ELSE {},
                       cookie |-> IF m.cookies = <<>> THEN {} ELSE
                            {Join([i \in DOMAIN m.cookies |->
                                    m.cookies[i][1] \o <<Equals>> \o m.cookies[i][2]], <<Semi, Space>>)},
                       method |-> m.method, headers |-> m.headers, ip |-> m.ip, country |-> m.country]
    /\ pc' = "wire"
    /\ UNCHANGED <<case, norm, hit, pos, out, now, count, ticks, seen>>

\* The early stack: NormalizeStage runs, unless detect mode let the request
\* through after an earlier stage's verdict had ended the stack.
EarlyStack ==
    /\ pc = "wire"
    /\ norm' \in {Normalized(req), NotNormalized}
    /\ seen' = {<<now, count>>}
    /\ pc' = "rule"
    /\ UNCHANGED <<case, req, hit, pos, out, now, count, ticks>>

\* One turn of conds.iter().all(...).
EvalCondition ==
    /\ pc = "rule"
    /\ LET holds == MatchesRequest(case.when[pos], req, now, count)
           last == pos = Len(case.when)
       IN /\ pos' = IF holds /\ ~last THEN pos + 1 ELSE pos
          /\ out' = (holds /\ last)
          /\ pc' = IF holds /\ ~last THEN "rule" ELSE "scan"
    /\ UNCHANGED <<case, req, norm, hit, now, count, ticks, seen>>

\* SignatureStage::inspect
ScanSignatures ==
    /\ pc = "scan"
    /\ LET found == Scan(case.sigs, Haystack(req, norm))
       IN IF found = {} THEN hit' = {} ELSE \E i \in found : hit' = {i}
    /\ pc' = "done"
    /\ UNCHANGED <<case, req, norm, pos, out, now, count, ticks, seen>>

\* A minute passes (SystemTime).
Tick ==
    /\ pc \in {"start", "compiled", "wire", "rule"} /\ ticks < case.ticks
    /\ now' = now + 1 /\ ticks' = ticks + 1
    /\ seen' = IF pc = "rule" THEN seen \cup {<<now', count>>} ELSE seen
    /\ UNCHANGED <<pc, case, req, norm, hit, pos, out, count>>

\* Another request of the client bumps the counter, or its window ends.
OthersBump ==
    /\ pc \in {"wire", "rule"} /\ case.counts > 0
    /\ count' \in {0} \cup {n \in {count + 1} : n <= case.counts}
    /\ seen' = IF pc = "rule" THEN seen \cup {<<now, count'>>} ELSE seen
    /\ UNCHANGED <<pc, case, req, norm, hit, pos, out, now, ticks>>

Next == Compile \/ Send \/ EarlyStack \/ EvalCondition \/ ScanSignatures \/ Tick \/ OthersBump

Spec == Init /\ [][Next]_vars

-----------------------------------------------------------------------------
(* The meaning of a case, against which the code is checked. *)

\* A byte that is not ASCII is shown as '?'.
Visible(s) == [i \in DOMAIN s |-> IF IsAscii(s[i]) THEN s[i] ELSE Question]

VisiblePairs(pairs) == [i \in DOMAIN pairs |-> <<Visible(pairs[i][1]), Visible(pairs[i][2])>>]

\* A value that is not UTF-8 is shown with what is ill-formed replaced; the filename,
\* if there is one, stands for the value.
MeantOfPart(part) ==
    LET value == IF IsText(part.value) THEN part.value ELSE Lossy(part.value)
        file == FieldTexts(part, FileParam)
    IN <<The(FieldTexts(part, NameParam)), IF file = {} THEN value ELSE The(file)>>

MeantInBody(m) ==
    CASE m.via = "none" -> <<>>
      [] m.via = "form" -> VisiblePairs(m.pairs)
      [] m.via = "json" -> LET paths == SetToSeq(DOMAIN m.leaves)
                           IN [i \in DOMAIN paths |-> <<Join(paths[i], <<Dot>>), m.leaves[paths[i]]>>]
      [] m.via = "multipart" -> [i \in DOMAIN m.parts |-> MeantOfPart(m.parts[i])]

MeantArgs(m) == (IF m.query = {} THEN <<>> ELSE VisiblePairs(The(m.query))) \o MeantInBody(m)

\* A cookie header is read as a whole or, if some byte of it is not visible ASCII,
\* not at all.
MeantCookies(m) ==
    IF \A i \in DOMAIN m.cookies : ToStr(m.cookies[i][1]) /\ ToStr(m.cookies[i][2])
    THEN m.cookies ELSE <<>>

\* The wall clock of a zone: days and minutes since the epoch began there.
WallDay(t, o) == CHOOSE d \in (-30)..(t + 30) : 0 <= t + o - Day * d /\ t + o - Day * d < Day
WallMinute(t, o) == t + o - Day * WallDay(t, o)

\* Names of the days, from the epoch's.
WallNames == <<"thu", "fri", "sat", "sun", "mon", "tue", "wed">>

ZoneOf(c) == IF c.tz = <<>> THEN DefaultTz ELSE c.tz[1] * (60 * c.tz[2] + c.tz[3])

\* How many days after a the day b comes, around the week.
WallIndex(name) == SelectInSeq(WallNames, LAMBDA x : x = name)
Apart(a, b) == (WallIndex(b) - WallIndex(a)) % 7

\* On the wall clock and the calendar of the zone, t is in the window, or on one of
\* the days.
InTime(c, t) ==
    LET from == 60 * c.window[1] + c.window[2]
        to == 60 * c.window[3] + c.window[4]
    IN (WallMinute(t, ZoneOf(c)) - from) % Day <= (to - from) % Day

OnDay(c, t) ==
    LET today == WallNames[(WallDay(t, ZoneOf(c)) % 7) + 1]
    IN \E i \in DOMAIN c.days :
            Apart(c.days[i][1], today) <= Apart(c.days[i][1], c.days[i][Len(c.days[i])])

\* A condition on a number that the client caused or sent.
OnNumber(c) == c.op \in NumOp /\ c.field \in {"counter", "arg", "args_count"}

InOrder(c, n) ==
    LET k == The(ParseInt(c.value, NumMax))
        args == MeantArgs(case.means)
    IN CASE c.field = "counter" -> Compare(c.op, n, k)
         [] c.field = "args_count" -> Compare(c.op, Len(args), k)
         [] c.field = "arg" -> \E v \in SecondOf(args, c.name) : \E x \in 0..NumMax :
                                    v = Render(x) /\ Compare(c.op, x, k)

\* Fields that rules see as they were written, undecoded: what was meant says nothing
\* of them.
RawField == {"path", "query", "uri", "body"}

\* The texts that any other condition is about.
MeantTexts(c, n) ==
    LET m == case.means
        IsFirst(k) == /\ m.headers[k][1] = ToLower(c.name)
                      /\ \A j \in 1..k - 1 : m.headers[j][1] # ToLower(c.name)
    IN CASE c.field = "arg" -> SecondOf(MeantArgs(m), c.name)
         [] c.field = "args" -> Seconds(MeantArgs(m))
         [] c.field = "arg_names" -> Firsts(MeantArgs(m))
         [] c.field = "args_count" -> {Render(Len(MeantArgs(m)))}
         [] c.field = "cookie" -> SecondOf(MeantCookies(m), c.name)
         [] c.field = "cookies" -> Seconds(MeantCookies(m))
         [] c.field = "cookie_names" -> Firsts(MeantCookies(m))
         [] c.field = "header" -> {v \in {m.headers[k][2] : k \in {j \in DOMAIN m.headers : IsFirst(j)}}
                                     : ToStr(v)}
         [] c.field = "headers" -> {v \in Seconds(m.headers) : ToStr(v)}
         [] c.field = "header_names" -> Firsts(m.headers)
         [] c.field = "method" -> {m.method}
         [] c.field = "ip" -> {m.ip}
         [] c.field = "country" -> m.country
         [] c.field = "counter" -> {Render(n)}
         [] OTHER -> {}

\* What a condition says of the content that was meant, at time t with count n.
Holds(c, t, n) ==
    LET raw == CASE c.op = "time_between" -> InTime(c, t)
                 [] c.op = "day_of_week" -> OnDay(c, t)
                 [] c.op = "cidr" -> \E net \in c.net : case.means.ip \in net
                 [] OnNumber(c) -> InOrder(c, n)
                 [] OTHER -> \E v \in MeantTexts(c, n) : EvalOp(c, Transformed(c, v))
    IN raw # c.negate

\* Zones and days as they are written: a sign, hours and minutes; one name or two.
PlainZone(tz) == tz = <<>> \/ (tz[1] \in {-1, 1} /\ tz[2] \in 0..14 /\ tz[3] \in 0..59)
PlainDays(days) == \A i \in DOMAIN days : {1, Len(days[i])} \subseteq DOMAIN days[i]

\* The conditions whose meaning Holds tells: any on an address or on a text that is
\* not raw; one on a number, a time or a day if nothing transforms it and the numbers
\* that the client sends, like the zone, are spelled the plain way.
Plain(c, m) ==
    /\ c.field \notin RawField
    /\ c.op \in {"time_between", "day_of_week"} => c.transform = <<>> /\ PlainZone(c.tz)
    /\ c.op = "day_of_week" => PlainDays(c.days)
    /\ OnNumber(c) => c.transform = <<>>
    /\ OnNumber(c) /\ c.field = "arg" =>
            \A v \in SecondOf(MeantArgs(m), c.name) :
                \A x \in ParseInt(v, NumMax) : x \in Nat /\ v = Render(x)
    /\ OnNumber(c) /\ c.field = "args_count" => Len(MeantArgs(m)) <= NumMax

PairsText(pairs) == Join([i \in DOMAIN pairs |-> pairs[i][1] \o <<Equals>> \o pairs[i][2]], <<Amp>>)

\* The three parts of a request that signatures look at, in canonical form.
MeantParts(m) ==
    <<{Visible(m.path)}, {PairsText(VisiblePairs(x)) : x \in m.query},
      IF m.via = "form" THEN {PairsText(VisiblePairs(m.pairs))} ELSE {NormalizeText(b, TRUE) : b \in req.body}>>

-----------------------------------------------------------------------------
(* Properties. *)

Written == pc \in {"wire", "rule", "scan", "done"}

\* Every variable of the evaluation keeps its type.
TypeOK ==
    /\ pc \in {"start", "compiled", "rejected", "wire", "rule", "scan", "done"}
    /\ now \in Nat /\ count \in 0..case.counts /\ ticks \in 0..case.ticks
    /\ pos \in 1..(IF case.when = <<>> THEN 1 ELSE Len(case.when)) /\ out \in BOOLEAN
    /\ hit \subseteq DOMAIN case.sigs
    /\ seen \subseteq Nat \X (0..case.counts)

\* However a client writes its parameters (any character escaped or not, in the
\* query, a form, a JSON document or a multipart body whose dispositions are quoted)
\* the rules see each of them once, with the name and the value that were meant: what
\* is not ASCII in an escape shown as '?', what is not UTF-8 in a part replaced.  They
\* see the cookies as they are, or none of them where one byte of the header is not
\* visible ASCII (collect_args, collect_cookies).
ArgsAsMeant ==
    Written =>
        LET args == CollectArgs(req)
        IN /\ Len(args) = Len(MeantArgs(case.means))
           /\ ToSet(args) = ToSet(MeantArgs(case.means))
           /\ CollectCookies(req) = MeantCookies(case.means)

\* Signatures scan one canonical text, whichever characters were escaped and
\* whether or not the normalisation stage ran (haystack, NormalizeStage).
HaystackCanonical ==
    pc \in {"scan", "done"} =>
        LET parts == MeantParts(case.means)
            Part(i, sep) == IF parts[i] = {} THEN <<>> ELSE sep \o ToLower(The(parts[i]))
        IN Haystack(req, norm) = Part(1, <<>>) \o Part(2, <<Question>>) \o Part(3, <<LF>>)

\* The words a signature looks for.
Words(sig) == IF sig.literal # {} THEN {ToLower(w) : w \in sig.literal} ELSE UNION sig.regex

\* The words hold none of the characters that separate the parts.
NoSeparators(sigs) ==
    \A i \in DOMAIN sigs : \A w \in Words(sigs[i]) : Lacks(w, Question) /\ Lacks(w, LF)

\* A signature without '?' or a line break is found exactly when one part of the
\* request contains it in some case or encoding; no match bridges two parts
\* (SignatureDb::scan, "separated so a token can't bridge two parts").
ScanExact ==
    pc = "done" /\ NoSeparators(case.sigs) =>
        (hit # {} <=> \E i \in DOMAIN case.sigs : \E w \in Words(case.sigs[i]) :
                        \E k \in 1..3 : \E part \in MeantParts(case.means)[k] : Occurs(w, ToLower(part)))

\* A rule of plain conditions (none on path, query, uri or body, which rules see as
\* they were written) matches only if each held of what was meant at some moment of
\* its evaluation, and fails only if one did not at some moment: no verdict rests on a
\* clock or a counter read before the request came in (matches_request,
\* utc_minutes_now, utc_epoch_minutes).
VerdictExplained ==
    pc \in {"scan", "done"} /\ (\A i \in DOMAIN case.when : Plain(case.when[i], case.means)) =>
        IF out THEN \A i \in DOMAIN case.when : \E s \in seen : Holds(case.when[i], s[1], s[2])
        ELSE \E i \in DOMAIN case.when : \E s \in seen : ~Holds(case.when[i], s[1], s[2])

\* The minute and the day of a zone advance as a wall clock does: the day changes
\* at the zone's own midnight, and only then (weekday, in_window).
CalendarStep(o) ==
    LET m == LocalMinute(UtcMinutes(now), o)
    IN /\ LocalMinute(UtcMinutes(now'), o) = IF m = Day - 1 THEN 0 ELSE m + 1
       /\ Weekday(now', o) = IF m = Day - 1 THEN (Weekday(now, o) + 1) % 7 ELSE Weekday(now, o)

\* Every zone's calendar carries, at every tick.
CalendarCarries == [][now' = now + 1 => \A o \in Zones : CalendarStep(o)]_vars
=============================================================================
