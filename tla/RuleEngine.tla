----------------------------- MODULE RuleEngine -----------------------------
(***************************************************************************)
(* Custom rules of budu-rules: what compiles, how a rule set is evaluated   *)
(* in the request and in the response phase (RulesStage), and the per-client *)
(* counters (CounterStore of budu-ratelimit) that evaluations share and that *)
(* outlive a reload of the rules.                                           *)
(*                                                                         *)
(* An evaluation holds the rule set it loaded.  Evaluations interleave rule *)
(* by rule; inside an incr, the read and the insert of a counter are two    *)
(* steps, as they are two cache calls.  A condition is the set of values    *)
(* its operator accepts; what a request offers is a set of values per field. *)
(***************************************************************************)
EXTENDS Integers, Sequences, FiniteSetsExt, SequencesExt

CONSTANTS
    Task,           \* evaluations, each run once
    IP,             \* clients
    Counter,        \* counter names
    Files,          \* the rule files (sequences of rule definitions) a reload may find
    Facts,          \* what requests and responses offer: field -> set of values
    threshold,      \* [scoring] threshold
    ScoreMax,       \* u32::MAX
    CountMax,       \* u64::MAX
    MaxTime         \* bound: the clock

Phase == {"request", "response"}
ActionKind == {"block", "allow", "log", "rate_limit", "score", "incr"}

\* Fields a response rule may use, and those only a response has.
RespOnly == {"status", "resp_header", "resp_body"}
RespField == RespOnly \cup {"ip", "path", "counter"}

VARIABLES
    now,
    rules,                  \* the compiled file in force
    store,                  \* CounterStore: count and time of expiry
    pc, phase, ip, facts,   \* per evaluation: control, phase, client, candidates
    held, pos,              \* the rule set it loaded, the next rule
    score, read,            \* score_total; the count incr read
    log_hits,               \* RulesStage.log_hits: log rules matched so far
    out,                    \* its Outcome
    hits, over,             \* history: rules that matched; limiters that refused
    ideal,                  \* history: the counters, had every bump been atomic
    raced, straddled        \* history: keys two bumps of which overlapped, or whose
                            \* window ended inside a bump

evals == <<pc, phase, ip, facts, held, pos, score, read, out, hits, over>>
vars == <<now, rules, store, log_hits, evals, ideal, raced, straddled>>

Key == Counter \X IP

-----------------------------------------------------------------------------
(* Compilation. *)

\* compile_with_tz, rule by rule: at least one condition, fields that exist in
\* the rule's phase, an action the phase supports, non-zero parameters (points is
\* the score, the rps or the amount of an incr, of which only the last may be 0).
CompilesRule(def) ==
    /\ def.when # {}
    /\ \A c \in def.when :
        IF def.phase = "request" THEN c.field \notin RespOnly ELSE c.field \in RespField
    /\ def.phase = "response" => def.action \in {"block", "log", "incr"}
    /\ def.action \in {"score", "rate_limit"} => def.points > 0
    /\ def.action = "incr" => def.counter # {}

\* One bad rule refuses the file.
CompilesFile(f) == \A i \in DOMAIN f : CompilesRule(f[i])

\* The rules of a phase, in file order.
OfPhase(f, p) == SelectSeq(f, LAMBDA def : def.phase = p)

\* Amounts and windows are unsigned, the threshold is of the width of the score,
\* and a rule names counters.
ASSUME RulesAssumption ==
    /\ IsFiniteSet(Task)
    /\ ScoreMax \in Nat /\ CountMax \in Nat /\ MaxTime \in Nat /\ threshold \in 0..ScoreMax
    /\ \A f \in Files : \A i \in DOMAIN f :
        f[i].points \in Nat /\ f[i].ttl \in Nat /\ f[i].counter \subseteq Counter

\* A phase has rules of its file only: what SelectSeq is, for the provers, which
\* have no theory of it.
ASSUME SelectionAssumption ==
    \A f \in Files, p \in Phase : OfPhase(f, p) \in Seq({def \in Range(f) : def.phase = p})

-----------------------------------------------------------------------------
(* Counters. *)

\* CounterStore::get: zero when unset or expired.
Get(s, key) == IF now < s[key].dies THEN s[key].count ELSE 0

SaturatingAdd(a, b, max) == IF a + b > max THEN max ELSE a + b

\* A write restarts the key's window, of at least one second.
Entry(count, ttl) == [count |-> count, dies |-> now + (IF ttl = 0 THEN 1 ELSE ttl)]

-----------------------------------------------------------------------------
(* Matching. *)

\* collect_candidates: the counter's value, or what the request offers.
Candidates(t, c) == IF c.field = "counter" THEN {Get(store, <<c.name, ip[t]>>)}
                    ELSE facts[t][c.field]

\* matches_request / matches_response: any candidate will do; negate inverts.
MatchesCond(t, c) == (\E v \in Candidates(t, c) : v \in c.accepts) # c.negate

MatchesRule(t, def) == \A c \in def.when : MatchesCond(t, c)

-----------------------------------------------------------------------------
Init ==
    /\ now = 0
    /\ rules \in {f \in Files : CompilesFile(f)}
    /\ store = [k \in Key |-> [count |-> 0, dies |-> 0]]
    /\ pc = [t \in Task |-> "idle"]
    /\ phase = [t \in Task |-> "request"]
    /\ ip \in [Task -> IP]
    /\ facts \in [Task -> Facts]
    /\ held = [t \in Task |-> <<>>]
    /\ pos = [t \in Task |-> 1]
    /\ score = [t \in Task |-> 0]
    /\ read = [t \in Task |-> 0]
    /\ log_hits = 0
    /\ out = [t \in Task |-> "none"]
    /\ hits = [t \in Task |-> {}]
    /\ over = [t \in Task |-> {}]
    /\ ideal = store
    /\ raced = {} /\ straddled = {}

\* RulesStage::inspect or inspect_response loads the rule set once.
Load(t) ==
    /\ pc[t] = "idle"
    /\ pc' = [pc EXCEPT ![t] = "scan"]
    /\ \E p \in Phase :
        /\ phase' = [phase EXCEPT ![t] = p]
        /\ held' = [held EXCEPT ![t] = OfPhase(rules, p)]
    /\ UNCHANGED <<now, rules, store, log_hits, ip, facts, pos, score, read, out, hits, over,
                   ideal, raced, straddled>>

Rule(t) == held[t][pos[t]]

\* The loop reaches a rule that does not match.
SkipRule(t) ==
    /\ pc[t] = "scan" /\ pos[t] <= Len(held[t])
    /\ ~MatchesRule(t, Rule(t))
    /\ pos' = [pos EXCEPT ![t] = @ + 1]
    /\ UNCHANGED <<now, rules, store, log_hits, pc, phase, ip, facts, held, score, read, out,
                   hits, over, ideal, raced, straddled>>

\* An outcome ends the evaluation.
Return(t, outcome) ==
    /\ out' = [out EXCEPT ![t] = outcome]
    /\ pc' = [pc EXCEPT ![t] = "done"]
    /\ UNCHANGED <<pos, score, over>>

Proceed(t) ==
    /\ pos' = [pos EXCEPT ![t] = @ + 1]
    /\ UNCHANGED <<pc, out>>

\* The match on rule.action.  In the response phase allow, rate_limit and score
\* do nothing.  A rate_limit rule's verdict is its limiter's (see RateLimiter).
ApplyRule(t) ==
    /\ pc[t] = "scan" /\ pos[t] <= Len(held[t])
    /\ MatchesRule(t, Rule(t))
    /\ hits' = [hits EXCEPT ![t] = @ \cup {pos[t]}]
    /\ log_hits' = IF Rule(t).action = "log" THEN log_hits + 1 ELSE log_hits
    /\ LET rule == Rule(t)
           live == phase[t] = "request"
       IN \/ rule.action = "block" /\ Return(t, "block")
          \/ rule.action = "allow" /\ live /\ Return(t, "allow")
          \/ /\ rule.action = "rate_limit" /\ live
             /\ over' = [over EXCEPT ![t] = @ \cup {pos[t]}]
             /\ out' = [out EXCEPT ![t] = "limit"]
             /\ pc' = [pc EXCEPT ![t] = "done"]
             /\ UNCHANGED <<pos, score>>
          \/ /\ rule.action \in {"log", "rate_limit"} \/ (rule.action = "allow" /\ ~live)
             /\ Proceed(t)
             /\ UNCHANGED <<score, over>>
          \/ /\ rule.action = "score"
             /\ score' = IF live
                         THEN [score EXCEPT ![t] = SaturatingAdd(@, rule.points, ScoreMax)]
                         ELSE score
             /\ Proceed(t)
             /\ UNCHANGED over
          \/ /\ rule.action = "incr"
             /\ pc' = [pc EXCEPT ![t] = "get"]
             /\ UNCHANGED <<pos, score, over, out>>
    /\ UNCHANGED <<now, rules, store, phase, ip, facts, held, read, ideal, raced, straddled>>

\* The counter an incr rule bumps for this client.
Bumped(t) == <<CHOOSE n \in Rule(t).counter : TRUE, ip[t]>>

\* Evaluations between the read and the insert of a key.
Bumping(key) == {t \in Task : pc[t] = "insert" /\ Bumped(t) = key}

\* Fault: incr reads a counter that has expired.
ReadCounterExpired(t) ==
    /\ pc[t] = "get"
    /\ read' = [read EXCEPT ![t] = store[Bumped(t)].count]
    /\ raced' = IF Bumping(Bumped(t)) = {} THEN raced ELSE raced \cup {Bumped(t)}
    /\ pc' = [pc EXCEPT ![t] = "insert"]
    /\ UNCHANGED <<now, rules, store, log_hits, phase, ip, facts, held, pos, score, out,
                   hits, over, ideal, straddled>>

\* CounterStore::incr, first half: cache.get.
ReadCounter(t) ==
    /\ pc[t] = "get"
    /\ read' = [read EXCEPT ![t] = Get(store, Bumped(t))]
    /\ raced' = IF Bumping(Bumped(t)) = {} THEN raced ELSE raced \cup {Bumped(t)}
    /\ pc' = [pc EXCEPT ![t] = "insert"]
    /\ UNCHANGED <<now, rules, store, log_hits, phase, ip, facts, held, pos, score, out,
                   hits, over, ideal, straddled>>

\* Fault: the amount is added on reading and on inserting.
InsertCounterTwice(t) ==
    /\ pc[t] = "insert"
    /\ LET rule == Rule(t)
           key == Bumped(t)
       IN /\ store' = [store EXCEPT ![key] =
                Entry(SaturatingAdd(read[t] + rule.points, rule.points, CountMax), rule.ttl)]
          /\ ideal' = [ideal EXCEPT ![key] =
                Entry(SaturatingAdd(Get(ideal, key), rule.points, CountMax), rule.ttl)]
    /\ pc' = [pc EXCEPT ![t] = "scan"]
    /\ pos' = [pos EXCEPT ![t] = @ + 1]
    /\ UNCHANGED <<now, rules, log_hits, phase, ip, facts, held, score, read, out, hits, over, raced, straddled>>

\* CounterStore::incr, second half: cache.insert.
InsertCounter(t) ==
    /\ pc[t] = "insert"
    /\ LET rule == Rule(t)
           key == Bumped(t)
       IN /\ store' = [store EXCEPT ![key] =
                Entry(SaturatingAdd(read[t], rule.points, CountMax), rule.ttl)]
          /\ ideal' = [ideal EXCEPT ![key] =
                Entry(SaturatingAdd(Get(ideal, key), rule.points, CountMax), rule.ttl)]
    /\ pc' = [pc EXCEPT ![t] = "scan"]
    /\ pos' = [pos EXCEPT ![t] = @ + 1]
    /\ UNCHANGED <<now, rules, log_hits, phase, ip, facts, held, score, read, out, hits, over, raced, straddled>>

\* Fault: the threshold must be exceeded, not reached.
ConcludeAbove(t) ==
    /\ pc[t] = "scan" /\ pos[t] > Len(held[t])
    /\ LET tripped == phase[t] = "request" /\ threshold > 0 /\ score[t] > threshold
       IN out' = [out EXCEPT ![t] = IF tripped THEN "block" ELSE "none"]
    /\ pc' = [pc EXCEPT ![t] = "done"]
    /\ UNCHANGED <<now, rules, store, log_hits, phase, ip, facts, held, pos, score, read,
                   hits, over, ideal, raced, straddled>>

\* The loop is over: the anomaly threshold, in the request phase only.
Conclude(t) ==
    /\ pc[t] = "scan" /\ pos[t] > Len(held[t])
    /\ LET tripped == phase[t] = "request" /\ threshold > 0 /\ score[t] >= threshold
       IN out' = [out EXCEPT ![t] = IF tripped THEN "block" ELSE "none"]
    /\ pc' = [pc EXCEPT ![t] = "done"]
    /\ UNCHANGED <<now, rules, store, log_hits, phase, ip, facts, held, pos, score, read,
                   hits, over, ideal, raced, straddled>>

\* Fault: the counters are rebuilt with the rules.
ReloadForgets ==
    /\ \E f \in Files : rules' = IF CompilesFile(f) THEN f ELSE rules
    /\ store' = [k \in Key |-> [count |-> 0, dies |-> 0]]
    /\ UNCHANGED <<now, log_hits, evals, ideal, raced, straddled>>

\* RuleSet::load of whatever is on disk: a file that does not compile changes
\* nothing, and the counters live on.
Reload ==
    /\ \E f \in Files : rules' = IF CompilesFile(f) THEN f ELSE rules
    /\ UNCHANGED <<now, store, log_hits, evals, ideal, raced, straddled>>

\* The key's window ends with this second.
WindowEnds(k) == store[k].dies = now + 1

Tick ==
    /\ now < MaxTime
    /\ now' = now + 1
    /\ straddled' = straddled \cup {k \in Key : Bumping(k) # {} /\ WindowEnds(k)}
    /\ UNCHANGED <<rules, store, log_hits, evals, ideal, raced>>

Next ==
    \/ Reload \/ Tick
    \/ \E t \in Task : \/ Load(t) \/ SkipRule(t) \/ ApplyRule(t)
                       \/ ReadCounter(t) \/ InsertCounter(t) \/ Conclude(t)

Spec == Init /\ [][Next]_vars

-----------------------------------------------------------------------------
(* Properties. *)

EntryType == [count : 0..CountMax, dies : Nat]

\* Every variable of the rule engine keeps its type.
TypeOK ==
    /\ now \in 0..MaxTime
    /\ rules \in Files
    /\ store \in [Key -> EntryType] /\ ideal \in [Key -> EntryType]
    /\ pc \in [Task -> {"idle", "scan", "get", "insert", "done"}]
    /\ phase \in [Task -> Phase] /\ ip \in [Task -> IP] /\ facts \in [Task -> Facts]
    /\ pos \in [Task -> Nat \ {0}]
    /\ score \in [Task -> 0..ScoreMax] /\ read \in [Task -> 0..CountMax]
    /\ log_hits \in Nat
    /\ out \in [Task -> {"none", "block", "allow", "limit"}]
    /\ raced \subseteq Key /\ straddled \subseteq Key

\* The reference: the first decisive rule that matched decides, an allow beating
\* any score before it; without one the points of all matching rules do.
Decisive(t) ==
    {i \in hits[t] : held[t][i].action \in {"block", "allow"} \/ i \in over[t]}

\* What each rule of a set scores, and what those that matched score together.
Scores(rs) == [i \in DOMAIN rs |-> IF rs[i].action = "score" THEN rs[i].points ELSE 0]
Points(t) == SumFunctionOnSet(Scores(held[t]), hits[t])

Reference(t) ==
    IF Decisive(t) # {}
    THEN LET a == held[t][Min(Decisive(t))].action IN IF a = "rate_limit" THEN "limit" ELSE a
    ELSE IF phase[t] = "request" /\ threshold > 0 /\ Points(t) >= threshold THEN "block" ELSE "none"

\* The loop of evaluate_inner, its early returns, its saturating score and its
\* final threshold compute the reference verdict of the one rule set the
\* evaluation loaded, whatever was reloaded meanwhile; evaluate_response too.
VerdictIsReference == \A t \in Task : pc[t] = "done" => out[t] = Reference(t)

\* A client's counter is exact unless two of its own bumps overlap or its window ends
\* inside one of them, between the read and the insert: other clients, other
\* counters, time that merely passes, a window that ends at any other moment and
\* reloads never disturb it (CounterStore::incr and get).
CountsExact ==
    \A k \in Key \ (raced \cup straddled) : Get(store, k) = Get(ideal, k)

\* "Concurrent increments may rarely under-count": bumps that overlap lose
\* increments and never invent any, as long as the counter's window does not end
\* inside one of them (CounterStore::incr).
RacesOnlyLose ==
    \A k \in Key \ straddled : Get(store, k) <= Get(ideal, k)

\* The matched rules that bump a counter, and what they have added, or are about to
\* add, to it.
Bumps(t, key) ==
    {i \in hits[t] : held[t][i].action = "incr" /\ key \in held[t][i].counter \X {ip[t]}}
Amounts(rs) == [i \in DOMAIN rs |-> rs[i].points]
Added(t, key) == SumFunctionOnSet(Amounts(held[t]), Bumps(t, key))

\* Not even a window that ends between the read and the insert of a bump, which
\* brings an expired count back, makes a counter show more than the client's
\* evaluations ever added (CounterStore::incr).
NeverInvented ==
    \A k \in Key : Get(store, k) <= SumFunction([t \in Task |-> Added(t, k)])
=============================================================================
