----------------------------- MODULE RequestPath -----------------------------
(***************************************************************************)
(* The life of a request inside B.U.D.U: Proxy::handle / handle_inner      *)
(* (budu-proxy), the two stage stacks of Pipeline::run (budu-pipeline), the *)
(* body gate between them, the forward to the backend and the response     *)
(* phase.  Every request is a task of its own; the tasks share the counters *)
(* (budu_common::Metrics) and four hot-swapped cells (ArcSwap): the config, *)
(* the rule set, the allowlist and the blocklist, any of which the          *)
(* supervisor may replace between two steps of a request.                   *)
(*                                                                         *)
(* One action is the code between two points where another task can be     *)
(* observed: a load of a shared cell, an atomic counter, an await.          *)
(***************************************************************************)
EXTENDS Naturals, Sequences, FiniteSets

CONSTANTS
    Request,    \* request slots; each is used once
    IP,         \* client and peer addresses
    IpLists,    \* the allowlists and blocklists a reload may install
    Configs,    \* the configurations a reload may install
    RuleSets,   \* the rule sets a reload may install
    Attrs,      \* the requests a client may send
    Replies,    \* the responses the backend may give
    Early,      \* stages run on the head alone, in order
    Late        \* stages run after the body gate, in order

StageName == {"reputation", "geoip", "ratelimit", "sanity", "normalize", "rules", "signatures"}

\* A header that may be absent (or not parse) is a set of at most one value.
ConfigType == [detect : BOOLEAN, trusted : SUBSET IP, cap : Nat]
RuleSetType == [needsBody : BOOLEAN]
AttrType == [peer : IP, header : SUBSET IP, inspect : BOOLEAN, declared : SUBSET Nat, size : Nat]
ReplyType == [inspect : BOOLEAN, declared : SUBSET Nat, size : Nat]

ASSUME DataAssumption ==
    /\ IpLists \subseteq SUBSET IP
    /\ Attrs # {} /\ Replies # {}
    /\ Configs \subseteq ConfigType
    /\ RuleSets \subseteq RuleSetType
    /\ Attrs \subseteq AttrType
    /\ Replies \subseteq ReplyType

\* Pipeline::from_config puts the rules (the only stage with an allow verdict)
\* behind the body gate.
ASSUME StageAssumption ==
    /\ Early \in Seq(StageName) /\ Late \in Seq(StageName)
    /\ \A i \in DOMAIN Early : Early[i] # "rules"

VARIABLES
    config, rules, allow, blocks,  \* the shared cells, as in force
    onError,                       \* Pipeline.on_error, captured when the pipeline is built
    pc, attr, cfg,                 \* per request: control, the request, its config snapshot
    idx, body,                     \* next stage to run; bytes of the body buffered, if any
    reply, got,                    \* the backend's response and the bytes of it buffered
    resp,                          \* the answer handed to the client
    metrics,                       \* budu_common::Metrics
    bypass, ran, excused,          \* what let the request through (history)
    sent, audit, judged            \* what the backend saw, the audit trail, what the reply was judged by

shared == <<config, rules, allow, blocks>>
control == <<pc, attr, cfg, idx, body, reply, got, resp>>
history == <<bypass, ran, excused, sent, audit, judged>>
vars == <<shared, onError, control, metrics, history>>

PC == {"idle", "allowlist", "early", "gate", "collect", "late", "admit", "forward",
       "upstream", "respond", "frames", "judge_head", "judge_body", "deliver", "done", "dropped"}

\* The awaits at which the task of a request can be cancelled.
AtAwait == {"collect", "upstream", "frames"}

Answer == {"none", "blocked", "limited", "reply", "bad_gateway", "gateway_timeout"}

CounterName == {"requests", "allowed", "blocked", "ratelimited", "upstream_errors",
                "would_block", "whitelisted"}

Count(m, names) == [c \in CounterName |-> IF c \in names THEN m[c] + 1 ELSE m[c]]

StageNames(stack) == {stack[i] : i \in DOMAIN stack}

-----------------------------------------------------------------------------
Init ==
    /\ config \in Configs
    /\ rules \in RuleSets
    /\ allow \in IpLists
    /\ blocks \in IpLists
    /\ onError \in {"closed", "open"}
    /\ pc = [r \in Request |-> "idle"]
    /\ attr = [r \in Request |-> CHOOSE a \in Attrs : TRUE]
    /\ cfg = [r \in Request |-> config]
    /\ idx = [r \in Request |-> 1]
    /\ body = [r \in Request |-> {}]
    /\ reply = [r \in Request |-> CHOOSE p \in Replies : TRUE]
    /\ got = [r \in Request |-> 0]
    /\ resp = [r \in Request |-> "none"]
    /\ metrics = [c \in CounterName |-> 0]
    /\ bypass = [r \in Request |-> FALSE]
    /\ ran = [r \in Request |-> {}]
    /\ excused = [r \in Request |-> FALSE]
    /\ sent = [r \in Request |-> FALSE]
    /\ audit = [r \in Request |-> {}]
    /\ judged = [r \in Request |-> {}]

-----------------------------------------------------------------------------
(* Helpers of the request path. *)

Goto(r, label) == pc' = [pc EXCEPT ![r] = label]

\* resolve_client: the header names the client only when the socket peer is
\* the trusted edge and the header parses; otherwise the peer is the client.
ResolveClient(a, c) ==
    IF a.peer \in c.trusted /\ a.header # {} THEN a.header ELSE {a.peer}

Client(r) == ResolveClient(attr[r], cfg[r])

\* declared_len_over: a Content-Length that parses and exceeds the cap.
DeclaredLenOver(declared, cap) == \E n \in declared : n > cap

\* Proxy::act_on.  A decision that keeps the request going moves it to next;
\* detect downgrades a block (never a rate limit) to an audit record.
ActOn(r, decision, detect, next) ==
    \/ /\ decision = "allow"
       /\ Goto(r, next)
       /\ UNCHANGED <<resp, metrics, audit>>
    \/ /\ decision = "block" /\ detect
       /\ metrics' = Count(metrics, {"would_block"})
       /\ audit' = [audit EXCEPT ![r] = @ \cup {[at |-> pc[r], enforced |-> FALSE]}]
       /\ Goto(r, next)
       /\ UNCHANGED resp
    \/ /\ decision = "limit" \/ (decision = "block" /\ ~detect)
       /\ metrics' = Count(metrics, {IF decision = "limit" THEN "ratelimited" ELSE "blocked"})
       /\ audit' = [audit EXCEPT ![r] = @ \cup {[at |-> pc[r], enforced |-> TRUE]}]
       /\ resp' = [resp EXCEPT ![r] = IF decision = "limit" THEN "limited" ELSE "blocked"]
       /\ Goto(r, "done")

\* error_response after metrics.upstream_error().
UpstreamError(r, answer) ==
    /\ metrics' = Count(metrics, {"upstream_errors"})
    /\ resp' = [resp EXCEPT ![r] = answer]
    /\ Goto(r, "done")

-----------------------------------------------------------------------------
(* Accept to allowlist. *)

\* handle: one config snapshot for the whole request; metrics.request().
Accept(r) ==
    /\ pc[r] = "idle"
    /\ attr' \in {[attr EXCEPT ![r] = a] : a \in Attrs}
    /\ cfg' = [cfg EXCEPT ![r] = config]
    /\ metrics' = Count(metrics, {"requests"})
    /\ Goto(r, "allowlist")
    /\ UNCHANGED <<shared, onError, idx, body, reply, got, resp, history>>

\* The trusted-IP bypass: no stage, no body gate, no response phase.
CheckAllowlist(r) ==
    /\ pc[r] = "allowlist"
    /\ IF Client(r) \subseteq allow
       THEN /\ bypass' = [bypass EXCEPT ![r] = TRUE]
            /\ metrics' = Count(metrics, {"whitelisted", "allowed"})
            /\ Goto(r, "forward")
       ELSE /\ Goto(r, "early")
            /\ UNCHANGED <<bypass, metrics>>
    /\ UNCHANGED <<shared, onError, attr, cfg, idx, body, reply, got, resp,
                   ran, excused, sent, audit, judged>>

-----------------------------------------------------------------------------
(* Pipeline::run over the two stacks. *)

Stack(label) == IF label = "early" THEN Early ELSE Late

\* Fault: the early stack leads straight to the backend.
AfterStackNoGate(label) == "admit"

AfterStack(label) == IF label = "early" THEN "gate" ELSE "admit"

\* Fault: the socket peer is looked up, not the client it speaks for.
ReputationInspectPeer(r) == IF attr[r].peer \in blocks THEN {"block"} ELSE {"continue"}

\* What each stage can return.  The blocklist stage reads its cell; the other
\* verdicts depend on data the model does not hold (a country, a bucket, the
\* bytes of the request).
ReputationInspect(r) == IF Client(r) \subseteq blocks THEN {"block"} ELSE {"continue"}
GeoInspect == {"continue", "block"}
RateLimitInspect == {"continue", "limit"}
SanityInspect == {"continue", "block"}
NormalizeInspect == {"continue"}
RulesInspect == {"continue", "block", "limit", "allow"}
SignatureInspect == {"continue", "block"}

\* Stage::inspect under catch_unwind: every stage may panic.
Inspect(r, stage) ==
    {"panic"} \cup
    CASE stage = "reputation" -> ReputationInspect(r)
      [] stage = "geoip" -> GeoInspect
      [] stage = "ratelimit" -> RateLimitInspect
      [] stage = "sanity" -> SanityInspect
      [] stage = "normalize" -> NormalizeInspect
      [] stage = "rules" -> RulesInspect
      [] stage = "signatures" -> SignatureInspect

\* The loop goes on after Continue, and after a panic when on_error = "open".
Skips(verdict) == verdict = "continue" \/ (verdict = "panic" /\ onError = "open")

\* Fault: a stage that panics lets the request through under "closed" too.
DecisionOpen(verdict) == IF verdict = "panic" THEN "allow" ELSE verdict

\* A panic under on_error = "closed" is a block (rule_id "pipeline.panic").
Decision(verdict) == IF verdict = "panic" THEN "block" ELSE verdict

RunStage(r) ==
    /\ pc[r] \in {"early", "late"}
    /\ idx[r] \in DOMAIN Stack(pc[r])
    /\ LET stage == Stack(pc[r])[idx[r]]
       IN \E verdict \in Inspect(r, stage) :
            \/ /\ Skips(verdict)
               /\ idx' = [idx EXCEPT ![r] = @ + 1]
               /\ ran' = [ran EXCEPT ![r] = @ \cup {stage}]
               /\ UNCHANGED <<pc, resp, metrics, audit, excused>>
            \/ /\ ~Skips(verdict)
               /\ ActOn(r, Decision(verdict), cfg[r].detect, AfterStack(pc[r]))
               /\ excused' = [excused EXCEPT ![r] = @ \/ verdict = "allow"]
               /\ idx' = [idx EXCEPT ![r] = 1]
               /\ UNCHANGED ran
    /\ UNCHANGED <<shared, onError, attr, cfg, body, reply, got, bypass, sent, judged>>

\* Fault: the next stack starts before its first stage.
ClearStackFromZero(r) ==
    /\ pc[r] \in {"early", "late"}
    /\ idx[r] \notin DOMAIN Stack(pc[r])
    /\ ActOn(r, "allow", cfg[r].detect, AfterStack(pc[r]))
    /\ idx' = [idx EXCEPT ![r] = 0]
    /\ UNCHANGED <<shared, onError, attr, cfg, body, reply, got,
                   bypass, ran, excused, sent, judged>>

\* The loop fell off its end: Allow.
ClearStack(r) ==
    /\ pc[r] \in {"early", "late"}
    /\ idx[r] \notin DOMAIN Stack(pc[r])
    /\ ActOn(r, "allow", cfg[r].detect, AfterStack(pc[r]))
    /\ idx' = [idx EXCEPT ![r] = 1]
    /\ UNCHANGED <<shared, onError, attr, cfg, body, reply, got,
                   bypass, ran, excused, sent, judged>>

-----------------------------------------------------------------------------
(* The body gate. *)

\* Fault: detect mode waves a declared overrun through.
BodyGateDetect(r) ==
    /\ pc[r] = "gate"
    /\ IF ~attr[r].inspect
       THEN Goto(r, "late") /\ UNCHANGED <<resp, metrics, audit>>
       ELSE IF DeclaredLenOver(attr[r].declared, cfg[r].cap)
            THEN ActOn(r, "block", cfg[r].detect, "late")
            ELSE Goto(r, "collect") /\ UNCHANGED <<resp, metrics, audit>>
    /\ UNCHANGED <<shared, onError, attr, cfg, idx, body, reply, got,
                   bypass, ran, excused, sent, judged>>

\* should_inspect_body, declared_too_large; a declared overrun is refused
\* before a byte is read, in detect mode too.
BodyGate(r) ==
    /\ pc[r] = "gate"
    /\ IF ~attr[r].inspect
       THEN Goto(r, "late") /\ UNCHANGED <<resp, metrics, audit>>
       ELSE IF DeclaredLenOver(attr[r].declared, cfg[r].cap)
            THEN ActOn(r, "block", FALSE, "late")
            ELSE Goto(r, "collect") /\ UNCHANGED <<resp, metrics, audit>>
    /\ UNCHANGED <<shared, onError, attr, cfg, idx, body, reply, got,
                   bypass, ran, excused, sent, judged>>

\* Fault: a 413 for a body that overran is counted and not audited.
CollectBodyUnaudited(r) ==
    /\ pc[r] = "collect"
    /\ \/ /\ attr[r].size <= cfg[r].cap
          /\ body' = [body EXCEPT ![r] = {attr[r].size}]
          /\ Goto(r, "late")
          /\ UNCHANGED <<resp, metrics>>
       \/ /\ metrics' = Count(metrics, {"blocked"})
          /\ resp' = [resp EXCEPT ![r] = "blocked"]
          /\ Goto(r, "done")
          /\ UNCHANGED body
    /\ UNCHANGED <<shared, onError, attr, cfg, idx, reply, got,
                   bypass, ran, excused, sent, audit, judged>>

\* Limited::collect ended: the whole body, or an overrun or read error, which
\* are both answered 413.  Nothing bounds how long the client takes.
CollectBody(r) ==
    /\ pc[r] = "collect"
    /\ \/ /\ attr[r].size <= cfg[r].cap
          /\ body' = [body EXCEPT ![r] = {attr[r].size}]
          /\ Goto(r, "late")
          /\ UNCHANGED <<resp, metrics, audit>>
       \/ /\ ActOn(r, "block", FALSE, "late")
          /\ UNCHANGED body
    /\ UNCHANGED <<shared, onError, attr, cfg, idx, reply, got,
                   bypass, ran, excused, sent, judged>>

-----------------------------------------------------------------------------
(* Forwarding. *)

\* Fault: an inspected request that is let through is not counted.
AdmitUncounted(r) ==
    /\ pc[r] = "admit"
    /\ Goto(r, "forward")
    /\ UNCHANGED <<shared, onError, attr, cfg, idx, body, reply, got, resp, metrics, history>>

Admit(r) ==
    /\ pc[r] = "admit"
    /\ metrics' = Count(metrics, {"allowed"})
    /\ Goto(r, "forward")
    /\ UNCHANGED <<shared, onError, attr, cfg, idx, body, reply, got, resp, history>>

\* forward: the request goes out under upstream_timeout_secs.
Forward(r) ==
    /\ pc[r] = "forward"
    /\ sent' = [sent EXCEPT ![r] = TRUE]
    /\ Goto(r, "upstream")
    /\ UNCHANGED <<shared, onError, attr, cfg, idx, body, reply, got, resp, metrics,
                   bypass, ran, excused, audit, judged>>

\* Fault: the reply to a bypassed request is inspected like any other.
UpstreamHeadAll(r) ==
    /\ pc[r] = "upstream"
    /\ reply' \in {[reply EXCEPT ![r] = p] : p \in Replies}
    /\ Goto(r, "respond")
    /\ UNCHANGED <<shared, onError, attr, cfg, idx, body, got, resp, metrics, history>>

\* The head arrived in time; a bypassed request's reply streams back as it is.
UpstreamHead(r) ==
    /\ pc[r] = "upstream"
    /\ reply' \in {[reply EXCEPT ![r] = p] : p \in Replies}
    /\ IF bypass[r]
       THEN resp' = [resp EXCEPT ![r] = "reply"] /\ Goto(r, "done")
       ELSE Goto(r, "respond") /\ UNCHANGED resp
    /\ UNCHANGED <<shared, onError, attr, cfg, idx, body, got, metrics, history>>

\* Fault: a failed forward is answered as an empty reply.
UpstreamFailedAsReply(r) ==
    /\ pc[r] \in {"forward", "upstream"}
    /\ UpstreamError(r, "reply")
    /\ UNCHANGED <<shared, onError, attr, cfg, idx, body, reply, got, history>>

\* on_forward_error: the upstream URI could not be built, or the connection or
\* the request to the backend failed.
UpstreamFailed(r) ==
    /\ pc[r] \in {"forward", "upstream"}
    /\ UpstreamError(r, "bad_gateway")
    /\ UNCHANGED <<shared, onError, attr, cfg, idx, body, reply, got, history>>

\* Fault: the bypass forwards without the timeout.
UpstreamTimeoutScreened(r) ==
    /\ pc[r] = "upstream" /\ ~bypass[r]
    /\ UpstreamError(r, "gateway_timeout")
    /\ UNCHANGED <<shared, onError, attr, cfg, idx, body, reply, got, history>>

\* on_forward_error: no head within the timeout.
UpstreamTimeout(r) ==
    /\ pc[r] = "upstream"
    /\ UpstreamError(r, "gateway_timeout")
    /\ UNCHANGED <<shared, onError, attr, cfg, idx, body, reply, got, history>>

-----------------------------------------------------------------------------
(* inspect_response. *)

\* Fault: a reply without a declared length is not buffered.
WorthBufferingDeclared(r, ruleset) ==
    /\ ruleset.needsBody
    /\ reply[r].inspect
    /\ reply[r].declared # {}
    /\ ~DeclaredLenOver(reply[r].declared, cfg[r].cap)

\* First load of the rule set: is the body worth buffering?
WorthBuffering(r, ruleset) ==
    /\ ruleset.needsBody
    /\ reply[r].inspect
    /\ ~DeclaredLenOver(reply[r].declared, cfg[r].cap)

DecideBuffer(r) ==
    /\ pc[r] = "respond"
    /\ Goto(r, IF WorthBuffering(r, rules) THEN "frames" ELSE "judge_head")
    /\ UNCHANGED <<shared, onError, attr, cfg, idx, body, reply, got, resp, metrics, history>>

\* Fault: a reply that overruns the cap is cut and handed on.
ReadFrameCut(r) ==
    /\ pc[r] = "frames"
    /\ got[r] < reply[r].size
    /\ IF got[r] + 1 > cfg[r].cap
       THEN Goto(r, "judge_body") /\ UNCHANGED <<got, resp, metrics>>
       ELSE got' = [got EXCEPT ![r] = @ + 1] /\ UNCHANGED <<pc, resp, metrics>>
    /\ UNCHANGED <<shared, onError, attr, cfg, idx, body, reply, history>>

\* body.frame(): a chunk (one unit of size), within the running cap or not.
ReadFrame(r) ==
    /\ pc[r] = "frames"
    /\ got[r] < reply[r].size
    /\ IF got[r] + 1 > cfg[r].cap
       THEN UpstreamError(r, "bad_gateway") /\ UNCHANGED got
       ELSE got' = [got EXCEPT ![r] = @ + 1] /\ UNCHANGED <<pc, resp, metrics>>
    /\ UNCHANGED <<shared, onError, attr, cfg, idx, body, reply, history>>

\* body.frame(): an error instead of a chunk.
FrameError(r) ==
    /\ pc[r] = "frames"
    /\ UpstreamError(r, "bad_gateway")
    /\ UNCHANGED <<shared, onError, attr, cfg, idx, body, reply, got, history>>

\* body.frame(): the end of the body.
LastFrame(r) ==
    /\ pc[r] = "frames"
    /\ got[r] = reply[r].size
    /\ Goto(r, "judge_body")
    /\ UNCHANGED <<shared, onError, attr, cfg, idx, body, reply, got, resp, metrics, history>>

\* Fault: the reply is judged under the mode in force, not the request's.
EvaluateResponseLive(r) ==
    /\ pc[r] \in {"judge_head", "judge_body"}
    /\ judged' = [judged EXCEPT ![r] = {IF pc[r] = "judge_body" THEN "body" ELSE "head"}]
    /\ \E decision \in {"allow", "block"} : ActOn(r, decision, config.detect, "deliver")
    /\ UNCHANGED <<shared, onError, attr, cfg, idx, body, reply, got,
                   bypass, ran, excused, sent>>

\* Second load of the rule set: evaluate_response, with or without the body.
\* Nothing catches a panic here; it ends the connection's task.
EvaluateResponse(r) ==
    /\ pc[r] \in {"judge_head", "judge_body"}
    /\ judged' = [judged EXCEPT ![r] = {IF pc[r] = "judge_body" THEN "body" ELSE "head"}]
    /\ \/ \E decision \in {"allow", "block"} : ActOn(r, decision, cfg[r].detect, "deliver")
       \/ Goto(r, "dropped") /\ UNCHANGED <<resp, metrics, audit>>
    /\ UNCHANGED <<shared, onError, attr, cfg, idx, body, reply, got,
                   bypass, ran, excused, sent>>

\* The reply goes back: streamed, or the buffered bytes with their length pinned.
Deliver(r) ==
    /\ pc[r] = "deliver"
    /\ resp' = [resp EXCEPT ![r] = "reply"]
    /\ Goto(r, "done")
    /\ UNCHANGED <<shared, onError, attr, cfg, idx, body, reply, got, metrics, history>>

-----------------------------------------------------------------------------
(* The environment of a request. *)

\* The client hangs up, or the runtime is dropped at shutdown, while the
\* request awaits: its future is dropped where it stands.
Drop(r) ==
    /\ pc[r] \in AtAwait
    /\ Goto(r, "dropped")
    /\ UNCHANGED <<shared, onError, attr, cfg, idx, body, reply, got, resp, metrics, history>>

\* The supervisor stores one cell (see Supervisor).
Swap ==
    /\ \/ config' \in Configs /\ UNCHANGED <<rules, allow, blocks>>
       \/ rules' \in RuleSets /\ UNCHANGED <<config, allow, blocks>>
       \/ allow' \in IpLists /\ UNCHANGED <<config, rules, blocks>>
       \/ blocks' \in IpLists /\ UNCHANGED <<config, rules, allow>>
    /\ UNCHANGED <<onError, control, metrics, history>>

-----------------------------------------------------------------------------
\* The steps the proxy takes by itself, without waiting for a peer.
OwnStep(r) ==
    \/ CheckAllowlist(r) \/ RunStage(r) \/ ClearStack(r) \/ BodyGate(r) \/ Admit(r)
    \/ Forward(r) \/ DecideBuffer(r) \/ EvaluateResponse(r) \/ Deliver(r)

\* The steps a client or the backend takes part in.
PeerStep(r) ==
    \/ Accept(r) \/ CollectBody(r) \/ UpstreamHead(r) \/ UpstreamFailed(r)
    \/ ReadFrame(r) \/ FrameError(r) \/ LastFrame(r) \/ Drop(r)

Next == Swap \/ \E r \in Request : OwnStep(r) \/ PeerStep(r) \/ UpstreamTimeout(r)

Spec == Init /\ [][Next]_vars

\* The runtime schedules every runnable task and fires its timers.  Nothing is
\* assumed of clients or of the backend.
Fairness ==
    \A r \in Request : WF_vars(OwnStep(r)) /\ WF_vars(UpstreamTimeout(r))

FairSpec == Spec /\ Fairness

-----------------------------------------------------------------------------
(* Properties. *)

AuditType == [at : PC, enforced : BOOLEAN]

\* Where a request is before its verdict, and between the verdict and the answer.
Undecided == {"allowlist", "early", "gate", "collect", "late", "admit"}
Returning == {"respond", "frames", "judge_head", "judge_body", "deliver"}
Outbound == {"forward", "upstream"} \cup Returning

\* Every variable of the request path keeps its type.
TypeOK ==
    /\ config \in Configs /\ rules \in RuleSets
    /\ allow \in IpLists /\ blocks \in IpLists
    /\ onError \in {"closed", "open"}
    /\ pc \in [Request -> PC]
    /\ attr \in [Request -> Attrs]
    /\ cfg \in [Request -> Configs]
    /\ idx \in [Request -> Nat \ {0}]
    /\ body \in [Request -> SUBSET Nat]
    /\ reply \in [Request -> Replies]
    /\ got \in [Request -> Nat]
    /\ resp \in [Request -> Answer]
    /\ metrics \in [CounterName -> Nat]
    /\ bypass \in [Request -> BOOLEAN]
    /\ ran \in [Request -> SUBSET StageName]
    /\ excused \in [Request -> BOOLEAN]
    /\ sent \in [Request -> BOOLEAN]
    /\ audit \in [Request -> SUBSET AuditType]
    /\ judged \in [Request -> SUBSET {"head", "body"}]

EarlyCleared(r) == StageNames(Early) \subseteq ran[r]

\* What entitles a request to reach the backend: both stacks were cleared stage
\* by stage, the late one being cut short only by an allow rule.
Cleared(r) == EarlyCleared(r) /\ (StageNames(Late) \subseteq ran[r] \/ excused[r])

\* When blocking is enforced, the backend is sent a request only if the client
\* was on the allowlist or every stage let the request through, whatever was
\* reloaded meanwhile and whichever stage panicked (handle_inner, Pipeline::run).
ForwardedWasCleared ==
    \A r \in Request : sent[r] => bypass[r] \/ cfg[r].detect \/ Cleared(r)

\* A body of an inspectable type reaches the backend only whole, inspected and
\* within the cap the request was accepted under, in detect mode too (the body
\* gate of handle_inner).
WholeBodyInspected ==
    \A r \in Request :
        sent[r] /\ ~bypass[r] /\ attr[r].inspect
            => body[r] = {attr[r].size} /\ attr[r].size <= cfg[r].cap

\* The bypass is total and final: an allowlisted request is never inspected,
\* audited, refused or judged on its reply, even if the allowlist is swapped
\* while it is in flight (the early return of handle_inner).
BypassIsTotal ==
    \A r \in Request :
        bypass[r] => /\ ran[r] = {} /\ audit[r] = {} /\ judged[r] = {} /\ body[r] = {}
                     /\ resp[r] \in {"none", "reply", "bad_gateway", "gateway_timeout"}

\* The stages of a stack before the next one have all let the request through.
Passed(r, stack) == \A i \in DOMAIN stack : i < idx[r] => stack[i] \in ran[r]

\* How far a request is cleared, at each point of its path.
Screened(r) ==
    /\ pc[r] \in {"idle"} \cup Undecided => ~sent[r] /\ ~bypass[r]
    /\ pc[r] \in {"idle", "allowlist", "gate", "collect"} => idx[r] = 1
    /\ pc[r] = "early" => Passed(r, Early)
    /\ pc[r] = "late" => Passed(r, Late)
    /\ pc[r] \in {"gate", "collect", "late"} => cfg[r].detect \/ EarlyCleared(r)
    /\ pc[r] \in {"admit"} \cup Outbound => bypass[r] \/ cfg[r].detect \/ Cleared(r)

BodyHeld(r) == attr[r].inspect => body[r] = {attr[r].size} /\ attr[r].size <= cfg[r].cap

\* Nothing has been decided, recorded or buffered for a request.
Untouched(r) ==
    /\ ran[r] = {} /\ audit[r] = {} /\ judged[r] = {} /\ body[r] = {}
    /\ resp[r] = "none"

\* What has been decided, sent and answered, at each point of its path.
Answered(r) ==
    /\ pc[r] \in {"late", "admit"} \cup Outbound => bypass[r] \/ BodyHeld(r)
    /\ pc[r] \in {"idle", "allowlist"} => Untouched(r)
    /\ bypass[r] => pc[r] \in {"forward", "upstream", "done", "dropped"}
    /\ pc[r] = "forward" => ~sent[r]
    /\ pc[r] \in {"upstream"} \cup Returning => sent[r]
    /\ pc[r] # "done" <=> resp[r] = "none"
    /\ resp[r] = "reply" => sent[r]

\* The inductive invariant behind the three properties above: what the two
\* stacks, the gate and the bypass of handle_inner have established at each
\* await, for every request in flight.
PathInv ==
    /\ ForwardedWasCleared /\ WholeBodyInspected /\ BypassIsTotal
    /\ \A r \in Request : Screened(r) /\ Answered(r)

\* All verdicts on a request follow the enforcement mode it was accepted under,
\* the verdict on its reply too, although a reload may have changed the mode in
\* between (the cfg snapshot of handle).
OneModePerRequest ==
    \A r \in Request : \A a \in audit[r] :
        /\ ~a.enforced => cfg[r].detect
        /\ a.enforced /\ resp[r] = "blocked" => ~cfg[r].detect \/ a.at \in {"gate", "collect"}

\* A reply judged with its body is handed on complete and within the cap
\* (the frame loop of inspect_response and the pinned Content-Length).
ReemittedWhole ==
    \A r \in Request :
        resp[r] = "reply" /\ "body" \in judged[r]
            => got[r] = reply[r].size /\ got[r] <= cfg[r].cap

\* The counters account for every request exactly once until it is forwarded:
\* allowed, refused by the request phase, still undecided, or abandoned by its
\* client before the verdict (Metrics::record, Metrics::request).
EveryRequestTallied ==
    metrics["requests"] =
        metrics["allowed"] +
        Cardinality({r \in Request :
            \/ pc[r] \in Undecided
            \/ ~sent[r] /\ (pc[r] = "dropped" \/ resp[r] \in {"blocked", "limited"})})

AuditCount(flag) ==
    Cardinality({p \in Request \X AuditType : p[2] \in audit[p[1]] /\ p[2].enforced = flag})

\* The audit trail and the counters agree: one enforced record for each block or
\* rate limit counted, one detection record for each would-be block (act_on).
AuditMatchesMetrics ==
    /\ metrics["blocked"] + metrics["ratelimited"] = AuditCount(TRUE)
    /\ metrics["would_block"] = AuditCount(FALSE)

\* A request comes to rest only in an answer, a drop, or a wait for its client's
\* body or the backend's body: the proxy itself, and a backend that sends no
\* head, never hold it (upstream_timeout_secs in forward).
OnlyPeersStall ==
    \A r \in Request :
        (pc[r] # "idle") ~> (pc[r] \in {"done", "dropped", "collect", "frames"})

\* The mapping to the abstract gate.
GatePhase(r) ==
    CASE pc[r] = "idle" -> "new"
      [] pc[r] \in Undecided -> "screening"
      [] pc[r] = "dropped" -> "gone"
      [] pc[r] = "done" -> (CASE resp[r] = "reply" -> "replied"
                              [] resp[r] \in {"blocked", "limited"} -> "refused"
                              [] OTHER -> "failed")
      [] OTHER -> "cleared"

G == INSTANCE Gate WITH phase <- [r \in Request |-> GatePhase(r)],
                        backend <- {r \in Request : sent[r]}

\* The request path implements the gate: shown to the backend only once cleared,
\* never after a refusal, answered at most once (handle_inner as a whole).
ImplementsGate == G!GateSpec
=============================================================================
