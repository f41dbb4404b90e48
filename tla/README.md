# A TLA+ model of B.U.D.U

B.U.D.U is a reverse-proxy web application firewall written in Rust: one process
sits between a front proxy and a backend, inspects every request (and, if rules
ask for it, every reply), and either answers the client itself or forwards. This
directory holds a TLA+ model of the parts of it that have state, the TLC
configurations that check the model, and proofs checked by TLAPS.

Run everything from this directory:

    tlc -workers 2 -config RequestPathOne.cfg MCRequestPath
    tlapm RequestPathProofs.tla

`PROJECT.json` lists the runs, which source lines every definition models
(`map`), the mutants that show each property can fail, the hazards the properties
are aimed at, and the points where the code and its documentation disagree.

## 1. Inventory of the system

| Part | State it keeps | Operations | Talks to |
|---|---|---|---|
| request handler (`budu-proxy`) | per request: config snapshot, client, buffered body, verdicts | `handle`, `act_on`, `forward`, `inspect_response` | pipeline, backend, counters, audit log |
| pipeline (`budu-pipeline`) | two stacks of stages, fail policy, handles on shared cells | `run`, `apply`, `refresh_blocklist`, `run_maintenance` | every stage, supervisor |
| supervisor and process (`budu/src/main.rs`) | cancellation token, signal streams, timers, config cell | `run`, `supervise` | files, signals, pipeline handle, accept loop |
| lists (`budu-reputation`) | blocklist and allowlist cells, entries with expiry | build, parse, match, prune, fetch feeds | supervisor, reputation stage, bypass check |
| rate limiter (`budu-ratelimit`) | a bucket per client in a cache with time-to-idle and capacity | `check`, `run_maintenance` | rate-limit stage, `rate_limit` rules |
| counters (`budu-ratelimit`) | a count per (name, client) with its own window | `incr`, `get` | rule engine, both phases |
| rule engine (`budu-rules`) | compiled rule set cell, log-hit count | compile, evaluate request, evaluate response | counters, limiters, proxy |
| ban commands (`budu/src/ban.rs`) | the blocklist file and its temporary file | `ban`, `unban` | the file the supervisor reads, SIGHUP through the pidfile |
| metrics and audit | seven counters, one record per verdict | bumped inside the handler | admin endpoint |
| conditions of a rule (`budu-rules`) | none; read the request, the clock and a counter | compile, collect candidates, transform, compare | rule engine |
| signatures and normalisation (`budu-signatures`, `budu-parser`) | the signature database cell, normalised text of one request | compile, `haystack`, `scan` | pipeline |
| CRS import (`budu-rules/src/modsec.rs`) | lines, the chain being collected, the report | read, join, parse, map, write | a rules file that is reviewed and loaded later |
| stages without state: sanity, GeoIP | limits captured at start | `inspect` | pipeline |
| config, admin endpoint, request id | none at run time | parse, render | |

What is hard here. Requests run concurrently with each other and with reloads that
replace four shared cells one at a time; a request keeps the config it started
with and re-reads everything else. A request waits at three points (its client's
body, the backend's head, the backend's body) and can be dropped at each. Stages
may panic. Signals arrive at any moment, and what they do depends on whether a
handler is installed and whether somebody is listening. Entries, buckets and
counters expire between a read and a use. Ban commands are separate processes
that share a file name and may die anywhere. A request may be written in many ways
that mean the same, and rules, signatures and the backend must agree on what it is.
The conditions of one rule read the clock and the counters one after the other. The
importer walks its lines with one index in two nested loops.

What makes each part correct:

* request path: nothing reaches the backend in blocking mode that was not cleared
  or allowlisted; inspected bodies arrive whole; verdicts of one request follow
  one mode; every request is accounted for; only a peer can hold a request;
* supervisor: no announced reload is lost, a failed one leaves no trace, bans hold
  exactly until they expire or are lifted, a cancelled process exits;
* rate limiter: the documented rate over every window, and an honest Retry-After;
* rule engine: the verdict of one rule set; counters exact unless a client races itself or
  the counter's window ends inside a bump;
* ban commands: the list changes in one step, by the entry that was named, unless two
  commands meet;
* conditions and signatures: what is inspected is what was meant, however it was
  encoded, and a verdict about time is that of the zone's wall clock;
* CRS import: every source rule is accounted for, and an imported rule fires on what its
  source matches, wherever the importer has a counterpart for what the source says;
* the whole process: an announced ban keeps its address out, and a reload governs the
  requests that come after it and their replies.

## 2. Modules

| Module | Models | Composed with |
|---|---|---|
| `Gate` | what an inline gate promises (abstract) | implemented by `RequestPath` |
| `RequestPath` | `handle` ... `inspect_response`, `Pipeline::run`, counters, audit | `Gate` |
| `BlockEntries` | list entries: parse, expiry, match, prune | used by `Supervisor` |
| `Supervisor` | `main::run`, `supervise`, `Reloadable`, signals, blocklist | `BlockEntries` |
| `TokenBucket` | the documented token bucket (abstract) | implemented by `RateLimiter` |
| `RateLimiter` | `IpRateLimiter` | `TokenBucket` |
| `RuleEngine` | rule compilation, both evaluation loops, `CounterStore` | |
| `Text` | bytes, percent-decoding, searching, UTF-8, numbers | used by `Parameters`, `CrsImport` |
| `Schedule` | time windows, days of the week, zones | used by `Conditions` |
| `Parameters` | parameters and cookies, the haystack, the signature database | used by `Conditions` |
| `Conditions` | one request, as written, against one rule and the signatures | `Parameters`, `Schedule` |
| `CrsImport` | `import_crs`, `convert`, the mapping of rules and what the two sides match | `Text` |
| `Firewall` | the process: supervisor and requests on the cells they share | `Supervisor`, `RequestPath`; implements `RequestPath` |
| `BanList` | what ban and unban promise (abstract) | implemented by `BanFile` |
| `BanFile` | `ban`, `unban`, `read_lines`, `write_lines` by system call | `BanList` |
| `MC*` | instances for TLC | |
| `RequestPathProofs`, `SupervisorProofs`, `FirewallProofs`, `RateLimiterProofs`, `RuleEngineProofs`, `BanFileProofs`, `ConditionsProofs`, `CrsImportProofs` | theorems, each about the module it is named after | `FirewallProofs` instantiates the first two |

Every module states the types of its variables as `TypeOK`; those of `RequestPath`,
`Supervisor`, `RateLimiter`, `RuleEngine`, `BanFile`, `Conditions` and `CrsImport` are proved,
the others say what the variables hold.

An operator whose comment starts with "Fault:" is a plausible bug in the definition
that follows it; no specification uses it. `PROJECT.json` names the property that
each of them breaks.

### RequestPath

One action is the code between two points where another task can be observed: a
load of a shared cell, a counter, an await. `pc[r]` names the point a request has
reached: `allowlist`, then the `early` stack stage by stage, the body `gate` and
`collect`, the `late` stack, `admit`, `forward`, `upstream` (waiting for the head),
`respond` (first load of the rules), `frames` (buffering the reply), `judge_head` or
`judge_body` (second load), `deliver`. `cfg[r]` is the config snapshot of `handle`;
`config`, `rules`, `allow`, `blocks` are the cells, and `Swap` lets a reload store
any of them between any two steps. `ran`, `excused`, `bypass`, `sent`, `judged` are
history: which stages let the request through, whether an allow rule cut the late
stack short, whether the allowlist did, whether the backend was sent the request,
and with what a reply was judged.

The verdict of the blocklist stage is computed from the cell; the other stages
return any verdict their code can return, or panic. Bodies are sizes against a cap,
with a declared length that may be absent or wrong. Header clean-up, the URI, the
request id and the text of answers are left out.

### Supervisor and BlockEntries

`sup` is the supervisor's position: start-up, `select`, and inside the SIGHUP branch
`load_config`, the three compilations and three stores of `apply`, `build`, `fetch`
and `store_config`. Config, rules, signatures and allowlist are known by the number
of the edit that wrote them and by whether they compile; the blocklist by its
entries, because they expire. `handlers` records which signal handlers are
installed: SIGTERM's only when `shutdown_signal()` is first polled. A pending SIGHUP
is one bit, as in tokio's signal stream; a SIGTERM is noticed only by a
`shutdown_signal()` that is being polled, and taking another branch drops it.
The allowlist's timed entries are not modelled: pruning it changes no verdict.

### RateLimiter

Time is in ticks. A bucket is governor's theoretical arrival time; `held` and `seen`
are the moka cache. governor and moka are external: a new bucket admits exactly
`burst` requests at once, an entry idle for `ttl_secs` is gone, and beyond
`max_capacity` any entry may go. `since` and `used` observe each client over a
window that may start at any moment. A bucket dropped for lack of room starts a new
window: the rate is claimed between such losses only.

### RuleEngine

An evaluation loads a rule set, then handles one rule per step; `incr` takes two
steps, the cache's `get` and its `insert`. Matching a rule and acting on it is one
step. A condition is the set of values its operator accepts after its transforms,
with `negate`; `Conditions` is about how it comes to accept them. The verdict of a `rate_limit` rule is left open (it is RateLimiter's).
`ideal` is what the counters would be if every bump were atomic; `raced` and
`straddled` are the keys two bumps of which overlapped, or whose window ended inside a bump.
`u32::MAX` and `u64::MAX` are the constants `ScoreMax` and `CountMax`.

### BanFile

Names point to inodes, so a process goes on writing into a file that another has
renamed, and a write past the end leaves a hole. Each `writeln!` is one step. A
process may stop after any system call. With `Unreadable`, reading the list may fail in
a behaviour whose `flaky` is true, and reads as an empty list. Commands take no lock:
`crossed` and `mingled` are the commands under way that met another one between its read
and its rename, or with the temporary file open. Such a command may lose an entry or install
a torn list, whatever `ban.rs` and `OPERATIONS.md` say of atomic edits; the properties
excuse its steps, and no others.

### Text, Schedule, Parameters and Conditions

A text is a sequence of bytes, so that decoding, splitting and searching are the code's
and not an assumption. A `case` says what the client means: a path, parameters and how
they travel (query, form, JSON, multipart), cookies, headers, and the rule and signatures
they meet. `Compile` accepts or refuses the rule and the signatures; `Send` picks any
encoding of the meaning (each byte raw where that is unambiguous, escaped with upper or
lower case digits, a space as `+`); `EarlyStack` normalises or, as in detect mode, does not;
`EvalCondition` evaluates one condition with the clock and the counter of that moment;
`ScanSignatures` scans. `Tick` and `OthersBump` move the clock and the counter in between,
and `seen` remembers what they showed during the evaluation.

Three things are symbols: a regex is the set of words it finds, a JSON document is the
set of its leaves by path (serde_json is external), and the words `content-disposition`,
`name=` and `filename=` are one symbol each; the rest of a part's head is bytes. `Lossy` is
`String::from_utf8_lossy`, `ToStr` the check of `HeaderValue::to_str`. White space is that of
ASCII. `i64::MAX` is the constant `NumMax`. The build is one without `libinjection`.

The properties compare the code with the meaning, computed without the code's operators
where they matter: `MeantArgs` never decodes, `WallDay` and `WallMinute` search for the day
instead of dividing, windows and day ranges are distances on a circle. Where a value
of a multipart part is no UTF-8 the meaning has U+FFFD; cookies are seen if their header is visible
ASCII, and otherwise none of them (`MeantCookies`). A name or filename in a
part's head has no quote and no semicolon: `disposition_fields` cuts at semicolons inside
quotes, too.

`Plain` says of which conditions `Holds` tells the meaning, and `VerdictExplained` is about rules
of such conditions: any on an address or a text that is decoded for it; one on a counter, the number of parameters, a
number in a parameter, the time or the day if no transform is applied to it, a zone has a sign,
hours and minutes that are not negative, and a number in a parameter is a natural one, spelled
without leading zeros, a sign or blanks. Conditions on `path`, `query`, `uri` and `body`
(`RawField`) are about the request as it was written and not as it was meant, so no claim is made
of them; their evaluation is part of the run. `MCConditions` assumes, and TLC evaluates, that every
other condition of a rule that compiles is plain.

### CrsImport

A line is a sequence of tokens, one for each quoted span, and says whether a backslash
continues it. `pc` is the loop the converter is in: `scan` for the outer one, `chain` for
the search of a further member, `build` for `build_rules`. `units` remembers each chain that
was built, whether it was broken, and what it emitted.

A request has parameters by query and by body, a path and a method, all of them bytes.
`Fires` evaluates the emitted rules the way the rule engine does (`Candidates`,
`ApplyTransform`, `EvalOp`). `ChainMatches` evaluates the source's lines, from ModSecurity's names
alone: `Elements` of a variable, `SourceTransform`, `SourceOperator`. It shares no table with
the importer, so a wrong entry in `map_var`, `map_operator` or `map_transform` shows. A
detector is a set of texts on both sides.

`MeaningKept` leaves out what the importer does not carry over, again by the source's names:
`DropsTarget`, `DropsExclusion`, `WidensTarget` (`ARGS_GET` becomes all parameters),
`NegatesCollection`, and the texts that `SameText` and `SameOperand` rule out, per line and
request. These are real differences: `trimLeft` and `trimRight` become `trim`;
`compress_ws` also trims; `url_decode` shows a byte that is not ASCII as `?` and knows no `%u`;
`@eq` becomes equality of texts, and comparisons with what is no number are false;
an empty `@pm` becomes a regex that matches everything. `CRS-IMPORT.md` (line 16) says
that the importer skips what it cannot represent "rather than mistranslating it", and (line
77) that unsupported transforms appear under warnings, which they do not. Argument names are
compared exactly, and variables the requests carry no value for (`Uncarried`) are not compared.

### Firewall

`S` is `Supervisor` unchanged and `R` is `RequestPath` with its four cells defined from the
supervisor's: config, rules and allowlist by the generation that is live, the blocklist
as it matches at this second. `ServeRequest` needs an accept loop that serves or has served:
a connection that is kept alive brings further requests after the cancellation. A request in
flight needs only a process. `banned` and `current` are history: requests accepted under
an announced ban that still lasts, and after a reload with nothing edited since.

## 3. Runs

| Run | Instance | Shows |
|---|---|---|
| `request_path_one` | 1 request, full stacks, cap 1, sizes 0..2 | ForwardedWasCleared, WholeBodyInspected, BypassIsTotal, PathInv, OneModePerRequest, ReemittedWhole, OnlyPeersStall |
| `request_path_two` | 2 requests, one stage on each side of the gate | EveryRequestTallied, AuditMatchesMetrics, ImplementsGate |
| `supervisor` | 2 edits, clock 0..2, one feed, edit 1 of the config has a bad timezone | ApplyAllOrNothing, ReloadTookEffect, BansInForce, HangupSurvived, MaintenanceIsInvisible |
| `supervisor_live` | 1 edit, any signals | ReloadEventually, ExitAfterCancel |
| `rate_limiter` | 2 clients, room for 1, burst 2, 5 ticks | SustainedRate, RetryHonoured, BucketInv, ImplementsTokenBucket |
| `rule_engine` | 3 evaluations, 2 clients, 3 files, clock 0..2, tasks and clients symmetric | VerdictIsReference, NeverInvented, CountsExact, RacesOnlyLose |
| `ban_file` | 2 editors, 3 commands, 2 networks, readable and unreadable lists, editors symmetric | EditsAreAtomic, ImplementsBanList |
| `conditions` | values of up to 2 bytes of 7 in every encoding, forms, 3 JSON shapes, multipart with values and names in and out of UTF-8, cookies in and out of ASCII; clocks around midnight in 3 zones; counter 0..5; definitions that do not compile | ArgsAsMeant, HaystackCanonical, ScanExact, VerdictExplained, CalendarCarries |
| `crs_import` | files of up to 3 lines of 10 kinds, whole, broken and split chains over 1 and 2 files, single rules with every operator, every transform and every kind of target; 68 requests | EachRuleOnce, MeaningKept, Terminates |
| `firewall` | 1 request, 1 edit, clock 0..1, the blocklist stage; the first generation is in detect mode and trusts a client | BanKeepsOut, ReloadReachesRequests, BodyRuleReachesReplies, ImplementsRequestPath |

Why the bounds are enough. One request with every reload between its steps shows
everything about one request, because requests share nothing but the cells (which
`Swap` changes anyhow) and the counters (which the two-request run is about); the
theorems lift the one-request properties to any number. A cap of 1 with sizes 0, 1
and 2 gives a body under, at and over the cap, declared honestly, falsely or not at
all. Two edits give a good file after a broken one and an edit during a reload. Five
ticks with two ticks to the second cover a full burst, its repayment and an idle
expiry. Three evaluations let two race on a client's counter while a third disturbs
from another client; one rule file bumps in both phases, one scores, one is broken.
Three commands allow one to die, leave its temporary file, and be followed by two, at once or
one after the other. The
seven bytes of `conditions` are a letter, the four characters that mean something in a
form, a control character and a byte that is not ASCII: two of them in a row show every
way in which one could be taken for part of another. Three ticks from two minutes before
midnight cross it with a minute to spare on either side. One request and one edit show a
reload at every point of a request, and every request sees the cells the same way.

Deadlock is checked except in `Supervisor` and `Firewall` (the process exits), `BanFile`
(commands run out), `Conditions` (one evaluation) and `CrsImport` (one import).

### Statements of the documentation that the code does not keep

Two have a run that TLC must find violated; the quotations are in `PROJECT.json`.

| Property | What happens |
|---|---|
| FailedFeedKept | a failed feed's entries are dropped by the refresh |
| TermHonoured | a SIGTERM during a reload or refresh is swallowed |

The models contain more behaviour that the documentation does not suggest, without a
run of its own; the properties are stated so as to leave it out. In detect mode a would-be
block ends the early stack before the rate limiter. The upstream timeout covers the head
only, so a backend can hold a request by its body (`OnlyPeersStall` allows it). Two ban
commands at once share one temporary file, tear it and lose entries (`EditsAreAtomic` and
`ImplementsBanList` excuse them and only them). A reload that installs a body rule between the
two loads of `inspect_response` has it judge an unbuffered reply (`BodyRuleReachesReplies`
speaks of requests taken up after the reload). A reload becomes visible store by
store. A SIGHUP during start-up, before its handler is installed, ends the process
(`HangupSurvived` confines it to there). The sanity limits are captured at start-up. A time-to-idle below
burst / rate refills a bucket early. A bump that straddles its counter's expiry brings the
old count back (`straddled`; `NeverInvented` bounds it). A ban that cannot read the list
replaces it (`ImplementsBanList` says so). Two conditions of one rule may be evaluated on
two sides of midnight (`VerdictExplained` allows it). A byte that is not
visible ASCII in the Cookie header hides all cookies, and one in any other header that header
(`MeantTexts` says so). The importer drops unsupported transforms without a warning, consumes the line that breaks a chain without a trace, and
imports `ARGS_GET` as all parameters, a negated collection as a negated whole and the operators
and transforms listed under CrsImport above as others (`EachRuleOnce` and `MeaningKept` name
each of these as an exception). A number beyond
`i64::MAX` fails every comparison.

### Fairness

`RequestPath`: weak fairness on the steps the proxy takes by itself and on the
upstream timer: tokio runs every runnable task and fires its timers. Nothing is
assumed of clients or of the backend. `Supervisor`: weak fairness on the
supervisor's own work (a fetch ends within its 15 s client timeout) and on main's;
strong fairness on the SIGHUP, cancellation and shutdown branches, since `select!`
starts polling at a random branch and a branch that is ready again and again is
taken. Files, signals and the clock are never fair. `CrsImport`: weak fairness on the next
step, the import being one thread that nothing blocks. The other modules state no fairness.

## 4. Proofs

Proved for every value of the constants, from the named assumptions only. TLC checked the
inductive invariants on the instance of their module's run (all but the conjuncts that say no
more than the type of a sequence).

### The request path

`RequestPathProofs`, from `DataAssumption` (the data sets have their types) and
`StageAssumption` (the stacks are sequences of stages, and the rules, the only stage
with an allow verdict, run behind the body gate):

* `TypeCorrect`;
* `PathInvariant`: `TypeOK /\ PathInv` is inductive. The three properties it serves are
  not inductive by themselves: they speak of requests already sent, and say nothing of
  one that is half-way. `Screened` says how much of each stack has been cleared at each
  point (in the middle of a stack, the stages before `idx`), `Answered` what has been
  buffered, sent and answered. A step of one request touches only that request
  (lemma `Frame`), so the invariant is proved per request, one lemma for the stacks
  (`RunStageInv`, `ClearStackInv`) and one case per other action;
* `OnlyClearedForwarded`, `OnlyWholeBodies`, `BypassTotal`: its consequences;
* `PathIsGate`: `RequestPath` implements `Gate`. Each step moves one request along the
  gate's phases (`StepMoves`), which is a step of the gate (`MoveIsGateStep`);
* `OneMode` and `Reemitted`, from `RecordInvariant`: what the audit trail of a request may
  hold at each point (`Trail`: records of the places it has left, enforced
  only where the request ended) and how much of its reply has been read (`ReplyRead`);
* `Tallied` and `AuditExact`, the accounting over all requests. `Request` may be infinite:
  that the requests under way, and the records written, are finitely many is part of the
  inductive invariants (`TallyInv`, `AuditInv`). Each step adds, removes or keeps one element
  of the counted set (`TallyStep`, `WriteStep`), and the counters move with it.

### The supervisor

`SupervisorProofs`, from `SupervisorAssumption` and `Fail2banAssumption` (types of the files,
lists and feeds):

* `TypeCorrect`;
* `HangupSafe` (`HangupInv`: there is a handler from the first refresh on), with a SIGHUP at any
  moment from the start of the process;
* `ApplyAtomic` (`ApplyInv`: during the three stores, what is stored already and what is
  still to be stored come from the same compilation);
* `ReloadComplete`. `ReloadTookEffect` speaks of a supervisor at rest; `ReloadInv` says which
  files a reload has got right at each of its steps, provided no edit came after the SIGHUP
  that started it and no further SIGHUP is pending. `CauseInv` ties the steps to the branch
  of the `select!` they belong to;
* `BansHold` (`BansInv`: the list under construction, the one waiting for its config and the
  one in force are `Faithful`: they hold all that their local sources say, and nothing in
  force that no source says). Time enters through `FaithfulLater`: as entries expire, a list
  and what its file would now yield shrink together;
* `MaintenanceInvisible`, an action property;
* `SupervisorInvariant`: `TypeOK`, `CauseInv`, `ReloadInv` and `BansInv` together.

### The process

`FirewallProofs`, from `FirewallAssumption` (the assumptions of both halves; every generation
of a file holds what its cell can hold; any set of addresses may come to be blocked; the early
stack contains the blocklist stage, as `Pipeline::from_config` always builds it):

* `IsSupervisor` and `IsRequestPath`: the process implements both halves. A step of the
  supervisor, seen through the mapping of the cells, stores one cell or none (`OneCell`,
  `StoresOneCell`). So all theorems about the two halves hold of the process;
* `BanKept`, from `BanInv`: while some request is held to a ban, the entries of the file are
  in the list in force and in the one under construction (`BanArrives`, `BanStays`), and
  under `on_error = "closed"` the blocklist stage has not let that request through
  (`ListedIsStopped`). `OnlyClearedForwarded`'s invariant then says it was not forwarded;
* `ReloadReached`, from `CurrentInv`: until the next edit, what is in force stays what is on
  disk, through any further reloads (`ReloadArrives`, `ReloadStays`), so the snapshot and the
  allowlist a request meets are those;
* `BodyRuleReached`, from `CurrentInv` and `BodyStep`: the rules that such a request's reply is
  buffered for and judged by are those on disk, at both loads, whatever reloads run between.

`SP` and `RP` are further instances of the two halves, of their proof modules this time;
`SupervisorSame` and `PathSame` say that they are the same specifications.

### The rate limiter

`RateLimiterProofs`, from `RateAssumption` (natural numbers, a whole positive number of
ticks between tokens):

* `TypeCorrect`;
* `RetryAfterHonest`, for every quota and every time-to-idle: every announced time
  leaves the bucket ready (`PromiseCovered`), and rounding up never announces too early
  (`RoundingUp`);
* `BucketInvariant`, `RateSustained`, `LimiterIsTokenBucket`, assuming `TtlCoversBurst`:
  the time-to-idle is at least the time a full burst takes to refill. Without
  it the theorems are false: a burst of 3 at one request a second with a time-to-idle of
  one second is admitted again in full before it is repaid. `BucketInv` adds what
  `SustainedRate` lacks: the window's use never exceeds how far the bucket has moved
  (`WindowCovered`), and a bucket is never further ahead of its last touch than a full
  burst (`Bounded`), so that one dropped for idleness had already refilled.

### The rule engine

`RuleEngineProofs`, from `RulesAssumption` (types and widths, finitely many evaluations) and
`SelectionAssumption` (the rules of a phase are rules of the file, which is what `SelectSeq`
does and the provers have no theory of; TLC evaluates it for the files of the run):

* `TypeCorrect`;
* `CountersExact` and `CountersOnlyLose`, both for keys whose window never ended inside a bump,
  from `CountInv`: an evaluation that has read a
  counter and not yet written it back is the only one (`ExactInv`), or has at least not read
  more than the ideal counter holds (`LoseInv`);
* `VerdictCorrect`, from `VerdictInv`: half-way through the rules an evaluation has the score
  of the rules matched so far, saturated, none of which was decisive (`ScanInv`). Sums are
  over the set of positions matched;
* `CountersNeverInvent`, from `StoreInv`: no counter, expired or not, and no count read for a
  bump exceeds the sum of what all evaluations have added.

### The ban commands

`BanFileProofs`, from `BanFileAssumption` (finitely many commands at once, an inode to spare):

* `EditIsExact`, about the operators: after a ban exactly one line is about its network, after
  an unban none, and the other lines are all there and no more. `Without` is a loop over the
  lines, so this is an induction; see below;
* `TypeCorrect`, for any number of commands at once: a free inode can always be found because
  each name and each open file takes one (`NamesInv`);
* `EditsAtomic` and `FileIsBanList`, for any number of commands at once and without a
  hypothesis on their order. `EditInv` says of a command that has not met another: the temporary
  file it writes is not the list and holds the first `at[e]` lines of what it means to
  write, so that its rename installs the whole of it, and the list is still the one it read.
  The first half needs the temporary file to itself (`mingled`), the second that nothing was
  renamed since the read (`crossed`).

### What rules and signatures see of a request

`ConditionsProofs`, from `CasesAssumption` (what a request may mean: texts are sequences of
bytes; cookies that can be written without escapes, having no `;` and no blanks at their ends,
of any bytes a header can hold; the heads of parts are UTF-8 and their quoted texts have no quote
or `;`; a JSON document has finitely many leaves and outermost keys that are not empty; the boundary
occurs in no part, which is what a boundary is), `ClockAssumption`, `ZonesAssumption` and `BoundsAssumption` (an offset is an i16; clocks and counters are within
`i64::MAX`):

* `CalendarTheorem`: `CalendarCarries` for every zone and every instant. `in_window` takes
  the time of day in UTC before it adds the offset, `weekday` adds it before it divides;
  `LocalIsShifted` shows that both see the same local time, `NextMinute` that quotient and
  remainder carry together. `WindowIsCyclic` and `DaysAreCyclic`: a window past midnight and a
  range of days past Saturday are what distances around the clock and the week say;
* `Canonical`: the haystack, for every text and every encoding of it. Decoding distributes over
  what cannot be taken for part of an escape (`DecodesConcat`), each form of a byte decodes to it
  (`FormDecodes`), so every encoding decodes to its text (`EncodingDecodes`, `PairsDecode`), and
  what is folded already is folded again without a change (`NormalizedIsLower`). `WireInv` says
  that the request is one of the encodings of what was meant;
* `Exact`: the scan. A word without separators that occurs in two texts joined by one occurs
  in one of the two (`OccursBeside`); the separators are the reason why no match bridges;
* `Meant`: the parameters and cookies. `split_on` cuts a join of pieces free of the separator
  into those pieces (`SplitsPiece`, `SplitsJoin`), encoded names and values are free of `&` and
  names of `=` (`EncodingLacks`), the dotted path of a JSON leaf is the join of its keys
  (`DottedIsJoined`), and the segments between boundaries are the parts, with the first blank
  line between head and value (`BodySplits`, `PartParsed`). A form that was escaped is ASCII
  (`PairsAscii`) and the head of a part is UTF-8, so the lossy conversion leaves them alone
  (`LossyText`); the Content-Disposition line yields its name and filename
  (`DispositionRead`); a Cookie header passes `to_str` exactly if all its cookies are visible
  ASCII (`CookieHeader`);
* `TypeCorrect`;
* `Verdict`: `VerdictExplained`. `VerdictInv` says that the moment at which a condition is
  evaluated is one of the evaluation's, and that the conditions in front of it were accepted at
  such a moment; by itself it gives `Explained`, without a hypothesis on the conditions.
  `CompiledInv` and `MomentsInv` say that conditions have compiled and that no moment lies
  ahead of the clock. `PlainMeant` then goes from what `matches_request` computes to what the
  condition says of the meaning: texts by `Meant` and `HeaderMeant`, numbers by `ReadBack` (what `to_string` writes,
  `parse` reads as the same number, for every number), the time and the day by `WallClock`,
  `TimeMeant` and `DayMeant`.

### The CRS import

`CrsImportProofs`, from `InputsAssumption` (files are sequences of lines of tokens):

* `Accounted`: `EachRuleOnce`. `ScanInv` says what the scan has done with the lines it has
  passed: the open chain consists of members it has seen (`ChainInv`), no line is in two chains
  (`UnitsInv`), every SecRule passed is in a chain, reported as malformed or consumed by a chain
  that broke (`CoverInv`), and the report counts the chains and the malformed lines (`ReportInv`).
  A broken chain leaves the scan before the line it consumed is covered, so `CoverInv` speaks
  of the chain that is about to be built;
* `Faithful`: `MeaningKept`. `MeaningInv` says that each unit emitted what `BuildRules` makes of
  its members. `TransformsKept` says that these are the source's transforms under
  `map_transform`; `TransformAlike` compares each of them with ModSecurity's on the texts of
  `SameText`, and `AppliedAlike` all in a row, by induction. `LostIsUnmapped` and `TargetExact`
  compare variables, `OperatorExact` operators, `MemberMeaning` one member as a whole;
* `TypeCorrect`.

### Induction

The library's induction theorems have an operator for a parameter, which the provers cannot
instantiate. `LeastNat` goes round this: a nonempty set of natural numbers has a least element,
and an induction is the remark that the set of counterexamples has none. Sums over finite sets
(`SumIsAdditive`, `SumRemove`), the loop in `Without`, and the recursive functions by which texts
are decoded, split, joined, written and read are dealt with in this way: first that the function
exists (`DecodeExists`, `SplitExists`, `RenderExists`...), then what it computes. `LeastNat` is
stated in each of the modules that use it.

### Only model-checked

Liveness (`OnlyPeersStall`, `ReloadEventually`, `ExitAfterCancel`, `Terminates`), which the
prover does not handle. Every invariant and every other action property that a passing run
checks is proved, `SustainedRate` and what belongs to it for a time-to-idle that covers a
burst. What the proofs say of the documents' claims they say with the exceptions that the
properties name.

## 5. Not modelled

How regular expressions and the automaton match (a regex is the set of words it finds) and
what libinjection detects; quoting inside a SecRule line; white space outside ASCII; spellings of numbers, windows,
zones and days beyond the ones the parsers tell apart; GeoIP look-ups and the country
policy, whose verdict is left open; header clean-up and URI rewriting; config validation
field by field; the admin endpoint, request ids and logging; eviction of counters at a
million keys. Response-phase conditions are modelled in `RuleEngine` only, as sets of
accepted values. Requests in flight when the process exits are dropped, which `Drop`
covers.

## 6. Plan

1. Done: request path, supervisor and lists, rate limiter, rule engine with counters, ban
   commands; conditions, parameters, schedule, normalisation and signatures; CRS import;
   the composition of supervisor and requests.
2. Done: proofs of every safety property of every module, with the hypotheses that section 4
   names.
3. Left open: the country policy and the sanity limits as computed verdicts; conditions on
   numbers that were transformed or are spelled in other ways, and on fields seen as written
   (`Plain`).
