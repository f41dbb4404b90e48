----------------------------- MODULE Parameters -----------------------------
(***************************************************************************)
(* What a request offers to inspection: its parameters (collect_args of     *)
(* budu-rules: query string, form, JSON and multipart bodies), its cookies,  *)
(* and the normalised text that signatures scan (SignatureStage::haystack    *)
(* and SignatureDb of budu-signatures).                                     *)
(*                                                                         *)
(* A request is a record: path; query and body, sets of at most one text;   *)
(* ctype, the Content-Type, as its kind and its parameters; headers and      *)
(* cookie.  Two parts of a body are symbols instead of bytes: what           *)
(* serde_json makes of it (json: the leaves of the document, by path), and   *)
(* the three words disposition_fields looks for in the head of a part.      *)
(***************************************************************************)
EXTENDS Text

CRLF == <<CR, LF>>

\* "content-disposition" in any case, "name=" and "filename=".
DispositionName == 256
NameParam == 257
FileParam == 258

\* HeaderValue::to_str
ToStr(v) == \A i \in DOMAIN v : v[i] \in 32..126 \cup {9}

\* The value of an option, a set of at most one element; and what is parsed from it.
The(opt) == CHOOSE x \in opt : TRUE
Parsed(opt, Parse(_)) == IF opt = {} THEN <<>> ELSE Parse(The(opt))

-----------------------------------------------------------------------------
(* Parameters, as sequences of <<name, value>>. *)

\* Fault: names are not decoded.
ParsePairsRawNames(s) ==
    LET pairs == NonEmpty(SplitOn(s, <<Amp>>))
    IN [i \in DOMAIN pairs |->
            LET kv == SplitPair(pairs[i], Equals) IN <<kv[1], Decode(kv[2], TRUE)>>]

\* parse_pairs
ParsePairs(s) ==
    LET pairs == NonEmpty(SplitOn(s, <<Amp>>))
    IN [i \in DOMAIN pairs |->
            LET kv == SplitPair(pairs[i], Equals)
            IN <<Decode(kv[1], TRUE), Decode(kv[2], TRUE)>>]

\* The pairs of a Cookie header: names and values trimmed, not decoded.
ParseCookies(s) ==
    LET parts == SplitOn(s, <<Semi>>)
        pairs == NonEmpty([i \in DOMAIN parts |-> Trim(parts[i])])
    IN [i \in DOMAIN pairs |->
            LET kv == SplitPair(pairs[i], Equals) IN <<Trim(kv[1]), Trim(kv[2])>>]

\* The prefix flatten_json has built when it reaches a leaf: while it is empty,
\* so is the separator.
DottedPath(keys) ==
    LET upTo[i \in 0..Len(keys)] ==
            IF i = 0 THEN <<>>
            ELSE IF upTo[i - 1] = <<>> THEN keys[i]
            ELSE upTo[i - 1] \o <<Dot>> \o keys[i]
    IN upTo[Len(keys)]

\* parse_json_args, flatten_json: one parameter for every leaf, none if malformed.
LeafArgs(leaves) ==
    LET paths == SetToSeq(DOMAIN leaves)
    IN [i \in DOMAIN paths |-> <<DottedPath(paths[i]), leaves[paths[i]]>>]

JsonArgs(json) == Parsed(json, LeafArgs)

\* extract_boundary, of the parameters after the media type: one without '='
\* ends the search.
ExtractBoundary(params) ==
    {params[i].value : i \in {k \in DOMAIN params :
        /\ params[k].key = "boundary"
        /\ \A j \in 1..k : params[j].key # "flag" /\ (j < k => params[j].key # "boundary")}}

\* split(';').skip(1), each trimmed.
HeaderParams(v) == LET ps == Tail(SplitOn(v, <<Semi>>)) IN [i \in DOMAIN ps |-> Trim(ps[i])]

\* The last parameter with that prefix, without its quotes, if there is one.
ParamText(params, prefix) ==
    LET hits == {i \in DOMAIN params : params[i] # <<>> /\ params[i][1] = prefix}
    IN IF hits = {} THEN {} ELSE {TrimOf(Tail(params[Max(hits)]), {Quote})}

\* disposition_fields: the parameters of the first Content-Disposition line, unless
\* a line without a colon comes before it; none without a name.
DispositionFields(head) ==
    LET lines == SplitOn(Lossy(head), CRLF)
        IsDisposition(i) == Trim(SplitPair(lines[i], Colon)[1]) = <<DispositionName>>
        found == {i \in DOMAIN lines :
                    /\ IsDisposition(i)
                    /\ \A j \in 1..i : Colon \in ToSet(lines[j]) /\ (j < i => ~IsDisposition(j))}
        Fields(params) == {[name |-> n, filename |-> ParamText(params, FileParam)]
                           : n \in ParamText(params, NameParam)}
    IN UNION {Fields(HeaderParams(SplitPair(lines[i], Colon)[2])) : i \in found}

\* A segment of a multipart body, as a sequence of at most one parameter.
PartArgs(segment) ==
    LET seg == StripPrefix(segment, CRLF)
        blank == FindSub(seg, CRLF \o CRLF)
    IN IF seg = <<>> \/ IsPrefix(<<Dash, Dash>>, seg) \/ blank = {} THEN <<>>
       ELSE LET pos == The(blank)
                value == StripSuffix(SubSeq(seg, pos + 4, Len(seg)), CRLF)
                Field(d) == << <<d.name, IF d.filename = {} THEN Lossy(value) ELSE The(d.filename)>> >>
            IN Parsed(DispositionFields(SubSeq(seg, 1, pos - 1)), Field)

\* parse_multipart_args
MultipartArgs(body, params) ==
    LET Segments(b) == SplitOn(body, <<Dash, Dash>> \o b)
        Args(b) == Concat([i \in DOMAIN Segments(b) |-> PartArgs(Segments(b)[i])])
    IN Parsed(ExtractBoundary(params), Args)

\* collect_args: the query's parameters, then those of a buffered body of a
\* known type.
CollectArgs(req) ==
    LET BodyArgs(ct) ==
            CASE ct.kind = "form" -> ParsePairs(Lossy(The(req.body)))
              [] ct.kind = "json" -> JsonArgs(req.json)
              [] ct.kind = "multipart" -> MultipartArgs(The(req.body), ct.params)
              [] OTHER -> <<>>
    IN Parsed(req.query, ParsePairs) \o (IF req.body = {} THEN <<>> ELSE Parsed(req.ctype, BodyArgs))

\* collect_cookies: one byte that is not visible ASCII hides them all.
CollectCookies(req) == Parsed({c \in req.cookie : ToStr(c)}, ParseCookies)

-----------------------------------------------------------------------------
(* The haystack and the signatures. *)

NotNormalized == [path |-> {}, query |-> {}]

\* NormalizeStage::inspect
Normalized(req) == [path |-> {NormalizeText(req.path, FALSE)},
                    query |-> {NormalizeText(q, TRUE) : q \in req.query}]

\* Fault: what the normalisation stage did not provide is scanned raw.
HaystackRaw(req, norm) ==
    LET query == IF norm.query # {} THEN norm.query ELSE req.query
    IN (IF norm.path # {} THEN The(norm.path) ELSE req.path)
       \o (IF query = {} THEN <<>> ELSE <<Question>> \o The(query))
       \o (IF req.body = {} THEN <<>> ELSE <<LF>> \o NormalizeText(The(req.body), TRUE))

\* haystack: normalised here if the stage did not run.
Haystack(req, norm) ==
    LET query == IF norm.query # {} THEN norm.query
                 ELSE {NormalizeText(q, TRUE) : q \in req.query}
    IN (IF norm.path # {} THEN The(norm.path) ELSE NormalizeText(req.path, FALSE))
       \o (IF query = {} THEN <<>> ELSE <<Question>> \o The(query))
       \o (IF req.body = {} THEN <<>> ELSE <<LF>> \o NormalizeText(The(req.body), TRUE))

\* SignatureDb::compile.  A regex is the set of words it finds.
CompilesDb(sigs) ==
    /\ sigs # <<>>
    /\ \A i \in DOMAIN sigs : (sigs[i].literal # {} \/ sigs[i].regex # {}) /\ sigs[i].status \in 100..999

\* Fault: literals are matched as they were written.
ScanLiteralRaw(sig, hay) == \E w \in sig.literal : Occurs(w, hay)

\* The literal tier: a literal is lowercased, as the haystack is.
ScanLiteral(sig, hay) == \E w \in sig.literal : Occurs(ToLower(w), hay)

\* The regex tier: only signatures without a literal.
ScanRegex(sig, hay) == sig.literal = {} /\ \E lang \in sig.regex : \E w \in lang : Occurs(w, hay)

\* SignatureDb::scan: the signatures that may be reported (the automaton picks
\* among its own; of the regexes the first).
Scan(sigs, hay) ==
    LET literals == {i \in DOMAIN sigs : ScanLiteral(sigs[i], hay)}
        regexes == {i \in DOMAIN sigs : ScanRegex(sigs[i], hay)}
    IN IF literals # {} THEN literals
       ELSE {i \in regexes : \A j \in regexes : i <= j}
=============================================================================
