-------------------------- MODULE RequestPathProofs --------------------------
(***************************************************************************)
(* What the request path guarantees for any number of concurrent requests, *)
(* any addresses, lists, configurations, rule sets and stage stacks.        *)
(***************************************************************************)
EXTENDS RequestPath, FiniteSetTheorems, TLAPS

-----------------------------------------------------------------------------
(* Types. *)

\* The counters stay natural numbers.
LEMMA CountType ==
    ASSUME NEW m \in [CounterName -> Nat], NEW names
    PROVE  Count(m, names) \in [CounterName -> Nat]
BY DEF Count

\* What act_on writes is well typed.
LEMMA ActOnType ==
    ASSUME TypeOK, NEW r \in Request, NEW decision, NEW detect, NEW next \in PC,
           ActOn(r, decision, detect, next)
    PROVE  /\ pc' \in [Request -> PC]
           /\ resp' \in [Request -> Answer]
           /\ metrics' \in [CounterName -> Nat]
           /\ audit' \in [Request -> SUBSET AuditType]
<1>1. \A b \in BOOLEAN : [at |-> pc[r], enforced |-> b] \in AuditType
    BY DEF TypeOK, AuditType
<1>2. \A names : Count(metrics, names) \in [CounterName -> Nat]
    BY CountType DEF TypeOK
<1>3. "done" \in PC /\ "limited" \in Answer /\ "blocked" \in Answer
    BY DEF PC, Answer
<1>4. CASE /\ Goto(r, next)
           /\ UNCHANGED <<resp, metrics, audit>>
    BY <1>4 DEF Goto, TypeOK
<1>5. CASE /\ metrics' = Count(metrics, {"would_block"})
           /\ audit' = [audit EXCEPT ![r] = @ \cup {[at |-> pc[r], enforced |-> FALSE]}]
           /\ Goto(r, next)
           /\ UNCHANGED resp
    BY <1>1, <1>2, <1>5 DEF Goto, TypeOK
<1>6. CASE /\ metrics' = Count(metrics, {IF decision = "limit" THEN "ratelimited" ELSE "blocked"})
           /\ audit' = [audit EXCEPT ![r] = @ \cup {[at |-> pc[r], enforced |-> TRUE]}]
           /\ resp' = [resp EXCEPT ![r] = IF decision = "limit" THEN "limited" ELSE "blocked"]
           /\ Goto(r, "done")
    BY <1>1, <1>2, <1>3, <1>6 DEF Goto, TypeOK
<1> QED BY <1>4, <1>5, <1>6, Zenon DEF ActOn

\* What error_response and its counter write is well typed.
LEMMA UpstreamErrorType ==
    ASSUME TypeOK, NEW r \in Request, NEW answer \in Answer, UpstreamError(r, answer)
    PROVE  /\ pc' \in [Request -> PC]
           /\ resp' \in [Request -> Answer]
           /\ metrics' \in [CounterName -> Nat]
<1>1. Count(metrics, {"upstream_errors"}) \in [CounterName -> Nat]
    BY CountType DEF TypeOK
<1> QED BY <1>1 DEF UpstreamError, Goto, TypeOK, PC

\* The initial state is typed.
LEMMA TypeInit == Init => TypeOK
<1> SUFFICES ASSUME Init PROVE TypeOK
    OBVIOUS
<1>1. (CHOOSE a \in Attrs : TRUE) \in Attrs /\ (CHOOSE p \in Replies : TRUE) \in Replies
    BY DataAssumption
<1> QED BY <1>1 DEF Init, TypeOK, PC, Answer

\* Every step of the request path keeps the types.
LEMMA TypeStep == TypeOK /\ [Next]_vars => TypeOK'
<1> SUFFICES ASSUME TypeOK, [Next]_vars PROVE TypeOK'
    OBVIOUS
<1> USE DEF shared, control, history
<1>1. ASSUME NEW r \in Request, Accept(r) PROVE TypeOK'
    <2>1. metrics' \in [CounterName -> Nat]
        BY <1>1, CountType DEF Accept, TypeOK
    <2> QED BY <1>1, <2>1 DEF Accept, Goto, TypeOK, PC
<1>2. ASSUME NEW r \in Request, CheckAllowlist(r) PROVE TypeOK'
    <2>1. metrics' \in [CounterName -> Nat]
        BY <1>2, CountType DEF CheckAllowlist, TypeOK
    <2> QED BY <1>2, <2>1 DEF CheckAllowlist, Goto, TypeOK, PC
<1>3. ASSUME NEW r \in Request, RunStage(r) PROVE TypeOK'
    <2>1. PICK verdict \in Inspect(r, Stack(pc[r])[idx[r]]) :
            \/ /\ Skips(verdict)
               /\ idx' = [idx EXCEPT ![r] = @ + 1]
               /\ ran' = [ran EXCEPT ![r] = @ \cup {Stack(pc[r])[idx[r]]}]
               /\ UNCHANGED <<pc, resp, metrics, audit, excused>>
            \/ /\ ~Skips(verdict)
               /\ ActOn(r, Decision(verdict), cfg[r].detect, AfterStack(pc[r]))
               /\ excused' = [excused EXCEPT ![r] = @ \/ verdict = "allow"]
               /\ idx' = [idx EXCEPT ![r] = 1]
               /\ UNCHANGED ran
        BY <1>3 DEF RunStage
    <2>2. Stack(pc[r])[idx[r]] \in StageName /\ AfterStack(pc[r]) \in PC
        BY <1>3, StageAssumption DEF RunStage, Stack, AfterStack, PC
    <2>3. UNCHANGED <<shared, onError, attr, cfg, body, reply, got, bypass, sent, judged>>
        BY <1>3 DEF RunStage
    <2>4. CASE Skips(verdict)
        <3>1. idx' \in [Request -> Nat \ {0}]
            BY <2>1, <2>4 DEF TypeOK
        <3>2. ran' \in [Request -> SUBSET StageName]
            BY <2>1, <2>2, <2>4 DEF TypeOK
        <3> QED BY <2>1, <2>3, <2>4, <3>1, <3>2 DEF TypeOK
    <2>5. CASE ~Skips(verdict)
        <3>1. idx' \in [Request -> Nat \ {0}] /\ excused' \in [Request -> BOOLEAN]
            <4>1. (excused[r] \/ verdict = "allow") \in BOOLEAN
                OBVIOUS
            <4>2. \A b \in BOOLEAN : [excused EXCEPT ![r] = b] \in [Request -> BOOLEAN]
                BY DEF TypeOK
            <4>3. excused' = [excused EXCEPT ![r] = excused[r] \/ verdict = "allow"]
                BY <2>1, <2>5
            <4>4. excused' \in [Request -> BOOLEAN]
                BY <4>1, <4>2, <4>3, Zenon
            <4> QED BY <2>1, <2>5, <4>4 DEF TypeOK
        <3>2. /\ pc' \in [Request -> PC]
              /\ resp' \in [Request -> Answer]
              /\ metrics' \in [CounterName -> Nat]
              /\ audit' \in [Request -> SUBSET AuditType]
            BY <2>1, <2>2, <2>5, ActOnType
        <3>3. UNCHANGED ran
            BY <2>1, <2>5
        <3> QED BY <2>3, <3>1, <3>2, <3>3 DEF TypeOK
    <2> QED BY <2>4, <2>5
<1>4. ASSUME NEW r \in Request, ClearStack(r) PROVE TypeOK'
    <2>1. AfterStack(pc[r]) \in PC
        BY DEF AfterStack, PC
    <2>2. /\ pc' \in [Request -> PC] /\ resp' \in [Request -> Answer]
          /\ metrics' \in [CounterName -> Nat] /\ audit' \in [Request -> SUBSET AuditType]
        BY <1>4, <2>1, ActOnType DEF ClearStack
    <2>3. /\ UNCHANGED <<shared, onError, attr, cfg, body, reply, got,
                          bypass, ran, excused, sent, judged>>
          /\ idx' = [idx EXCEPT ![r] = 1]
        BY <1>4 DEF ClearStack
    <2> QED BY <2>2, <2>3 DEF TypeOK
<1>5. ASSUME NEW r \in Request, BodyGate(r) PROVE TypeOK'
    <2>1. "late" \in PC /\ "collect" \in PC
        BY DEF PC
    <2>2. CASE ActOn(r, "block", FALSE, "late")
        <3>1. /\ pc' \in [Request -> PC] /\ resp' \in [Request -> Answer]
              /\ metrics' \in [CounterName -> Nat] /\ audit' \in [Request -> SUBSET AuditType]
            BY <2>1, <2>2, ActOnType
        <3> QED BY <1>5, <3>1 DEF BodyGate, TypeOK
    <2>3. CASE ~ActOn(r, "block", FALSE, "late")
        BY <1>5, <2>1, <2>3, ZenonT(40) DEF BodyGate, Goto, TypeOK
    <2> QED BY <2>2, <2>3
<1>6. ASSUME NEW r \in Request, CollectBody(r) PROVE TypeOK'
    <2>1. "late" \in PC /\ attr[r].size \in Nat
        BY DataAssumption DEF PC, TypeOK, AttrType
    <2>2. CASE ActOn(r, "block", FALSE, "late") /\ UNCHANGED body
        <3>1. /\ pc' \in [Request -> PC] /\ resp' \in [Request -> Answer]
              /\ metrics' \in [CounterName -> Nat] /\ audit' \in [Request -> SUBSET AuditType]
            BY <2>1, <2>2, ActOnType
        <3> QED BY <1>6, <2>2, <3>1 DEF CollectBody, TypeOK
    <2>3. CASE /\ body' = [body EXCEPT ![r] = {attr[r].size}]
               /\ Goto(r, "late")
               /\ UNCHANGED <<resp, metrics, audit>>
        BY <1>6, <2>1, <2>3 DEF CollectBody, Goto, TypeOK
    <2> QED BY <1>6, <2>2, <2>3 DEF CollectBody
<1>7. ASSUME NEW r \in Request, Admit(r) PROVE TypeOK'
    <2>1. metrics' \in [CounterName -> Nat]
        BY <1>7, CountType DEF Admit, TypeOK
    <2> QED BY <1>7, <2>1 DEF Admit, Goto, TypeOK, PC
<1>8. ASSUME NEW r \in Request, Forward(r) PROVE TypeOK'
    BY <1>8 DEF Forward, Goto, TypeOK, PC
<1>9. ASSUME NEW r \in Request, UpstreamHead(r) PROVE TypeOK'
    BY <1>9 DEF UpstreamHead, Goto, TypeOK, PC, Answer
<1>10. ASSUME NEW r \in Request,
              \/ UpstreamFailed(r) \/ UpstreamTimeout(r) \/ FrameError(r)
       PROVE TypeOK'
    <2>1. "bad_gateway" \in Answer /\ "gateway_timeout" \in Answer
        BY DEF Answer
    <2>2. /\ pc' \in [Request -> PC] /\ resp' \in [Request -> Answer]
          /\ metrics' \in [CounterName -> Nat]
        BY <1>10, <2>1, UpstreamErrorType DEF UpstreamFailed, UpstreamTimeout, FrameError
    <2> QED BY <1>10, <2>2 DEF UpstreamFailed, UpstreamTimeout, FrameError, TypeOK
<1>11. ASSUME NEW r \in Request, DecideBuffer(r) PROVE TypeOK'
    BY <1>11 DEF DecideBuffer, Goto, TypeOK, PC
<1>12. ASSUME NEW r \in Request, ReadFrame(r) PROVE TypeOK'
    <2>1. CASE UpstreamError(r, "bad_gateway") /\ UNCHANGED got
        <3>1. /\ pc' \in [Request -> PC] /\ resp' \in [Request -> Answer]
              /\ metrics' \in [CounterName -> Nat]
            BY <2>1, UpstreamErrorType DEF Answer
        <3> QED BY <1>12, <2>1, <3>1 DEF ReadFrame, TypeOK
    <2>2. CASE got' = [got EXCEPT ![r] = @ + 1] /\ UNCHANGED <<pc, resp, metrics>>
        BY <1>12, <2>2 DEF ReadFrame, TypeOK
    <2> QED BY <1>12, <2>1, <2>2 DEF ReadFrame
<1>13. ASSUME NEW r \in Request, LastFrame(r) PROVE TypeOK'
    BY <1>13 DEF LastFrame, Goto, TypeOK, PC
<1>14. ASSUME NEW r \in Request, EvaluateResponse(r) PROVE TypeOK'
    <2>1. /\ pc' \in [Request -> PC] /\ resp' \in [Request -> Answer]
          /\ metrics' \in [CounterName -> Nat] /\ audit' \in [Request -> SUBSET AuditType]
        <3>1. "deliver" \in PC /\ "dropped" \in PC
            BY DEF PC
        <3>2. CASE Goto(r, "dropped") /\ UNCHANGED <<resp, metrics, audit>>
            BY <3>1, <3>2 DEF Goto, TypeOK
        <3> QED BY <1>14, <3>1, <3>2, ActOnType DEF EvaluateResponse
    <2>2. judged' \in [Request -> SUBSET {"head", "body"}]
        BY <1>14 DEF EvaluateResponse, TypeOK
    <2> QED BY <1>14, <2>1, <2>2 DEF EvaluateResponse, TypeOK
<1>15. ASSUME NEW r \in Request, Deliver(r) PROVE TypeOK'
    BY <1>15 DEF Deliver, Goto, TypeOK, PC, Answer
<1>16. ASSUME NEW r \in Request, Drop(r) PROVE TypeOK'
    BY <1>16 DEF Drop, Goto, TypeOK, PC
<1>17. CASE Swap
    BY <1>17 DEF Swap, TypeOK
<1>18. CASE UNCHANGED vars
    BY <1>18 DEF vars, TypeOK
<1> QED BY <1>1, <1>2, <1>3, <1>4, <1>5, <1>6, <1>7, <1>8, <1>9, <1>10, <1>11, <1>12,
           <1>13, <1>14, <1>15, <1>16, <1>17, <1>18
        DEF Next, OwnStep, PeerStep

\* Type correctness of the request path (Proxy::handle and what it calls).
THEOREM TypeCorrect == Spec => []TypeOK
BY TypeInit, TypeStep, PTL DEF Spec

-----------------------------------------------------------------------------
(* The inductive invariant. *)

\* The part of the invariant that is about one request.
Inv(q) ==
    /\ sent[q] => bypass[q] \/ cfg[q].detect \/ Cleared(q)
    /\ sent[q] /\ ~bypass[q] /\ attr[q].inspect
            => body[q] = {attr[q].size} /\ attr[q].size <= cfg[q].cap
    /\ bypass[q] => /\ ran[q] = {} /\ audit[q] = {} /\ judged[q] = {} /\ body[q] = {}
                    /\ resp[q] \in {"none", "reply", "bad_gateway", "gateway_timeout"}
    /\ Screened(q) /\ Answered(q)

\* The invariant is the conjunction over the requests.
LEMMA PathInvSplit == PathInv <=> \A q \in Request : Inv(q)
BY DEF PathInv, Inv, ForwardedWasCleared, WholeBodyInspected, BypassIsTotal

Step(r) == OwnStep(r) \/ PeerStep(r) \/ UpstreamTimeout(r)

SameRequest(q) ==
    /\ pc'[q] = pc[q] /\ attr'[q] = attr[q] /\ cfg'[q] = cfg[q] /\ idx'[q] = idx[q]
    /\ body'[q] = body[q] /\ resp'[q] = resp[q] /\ bypass'[q] = bypass[q]
    /\ ran'[q] = ran[q] /\ excused'[q] = excused[q] /\ sent'[q] = sent[q]
    /\ audit'[q] = audit[q] /\ judged'[q] = judged[q]
    /\ reply'[q] = reply[q] /\ got'[q] = got[q]

\* A step of one request leaves every other request where it was.
LEMMA Frame ==
    ASSUME TypeOK, NEW r \in Request, NEW q \in Request \ {r}, Step(r)
    PROVE  SameRequest(q)
<1> USE DEF shared, control, history, SameRequest, Goto, TypeOK
<1>1. CASE Accept(r) \/ CheckAllowlist(r) \/ Admit(r) \/ Forward(r) \/ UpstreamHead(r)
    BY <1>1 DEF Accept, CheckAllowlist, Admit, Forward, UpstreamHead
<1>2. CASE RunStage(r) \/ ClearStack(r)
    BY <1>2, ZenonT(40) DEF RunStage, ClearStack, ActOn
<1>3. CASE BodyGate(r) \/ CollectBody(r) \/ EvaluateResponse(r)
    BY <1>3 DEF BodyGate, CollectBody, EvaluateResponse, ActOn
<1>4. CASE UpstreamFailed(r) \/ UpstreamTimeout(r) \/ ReadFrame(r) \/ FrameError(r)
    BY <1>4 DEF UpstreamFailed, UpstreamTimeout, ReadFrame, FrameError, UpstreamError
<1>5. CASE DecideBuffer(r) \/ LastFrame(r) \/ Deliver(r) \/ Drop(r)
    BY <1>5 DEF DecideBuffer, LastFrame, Deliver, Drop
<1> QED BY <1>1, <1>2, <1>3, <1>4, <1>5 DEF Step, OwnStep, PeerStep

\* What a request has established depends on nothing but its own state.
LEMMA Stable ==
    ASSUME NEW q \in Request, Inv(q), SameRequest(q)
    PROVE  Inv(q)'
BY DEF Inv, SameRequest, Screened, Answered, Passed, Cleared, EarlyCleared, BodyHeld, Untouched

\* No stage comes before the first.
LEMMA NoneBefore ==
    \A i : i \in DOMAIN Early \/ i \in DOMAIN Late => i \in Nat /\ ~(i < 1)
BY StageAssumption

\* An enforced block ends the request; only a block in detect mode goes on.
LEMMA ActOnControl ==
    ASSUME TypeOK, NEW r \in Request, NEW decision, NEW detect, NEW next,
           ActOn(r, decision, detect, next)
    PROVE  \/ /\ pc'[r] = next /\ resp' = resp
              /\ decision = "allow" \/ (decision = "block" /\ detect)
           \/ pc'[r] = "done" /\ resp'[r] \in {"blocked", "limited"}
BY DEF ActOn, Goto, TypeOK

\* Only the rules stage has an allow verdict, and it comes behind the gate.
LEMMA AllowIsLate ==
    ASSUME TypeOK, NEW r \in Request, pc[r] \in {"early", "late"},
           idx[r] \in DOMAIN Stack(pc[r]), "allow" \in Inspect(r, Stack(pc[r])[idx[r]])
    PROVE  pc[r] = "late"
<1>1. Stack(pc[r])[idx[r]] \in StageName
    BY StageAssumption DEF Stack
<1>2. Stack(pc[r])[idx[r]] = "rules"
    BY <1>1 DEF Inspect, StageName, ReputationInspect, GeoInspect, RateLimitInspect,
                SanityInspect, NormalizeInspect, RulesInspect, SignatureInspect
<1> QED BY <1>2, StageAssumption DEF Stack

\* Running a stage keeps what its request has established.
LEMMA RunStageInv ==
    ASSUME TypeOK, TypeOK', NEW r \in Request, Inv(r), RunStage(r)
    PROVE  Inv(r)'
<1> USE DEF Inv, Screened, Answered, Outbound, Returning, Undecided
<1> DEFINE stage == Stack(pc[r])[idx[r]]
<1>1. PICK verdict \in Inspect(r, stage) :
            \/ /\ Skips(verdict)
               /\ idx' = [idx EXCEPT ![r] = @ + 1]
               /\ ran' = [ran EXCEPT ![r] = @ \cup {stage}]
               /\ UNCHANGED <<pc, resp, metrics, audit, excused>>
            \/ /\ ~Skips(verdict)
               /\ ActOn(r, Decision(verdict), cfg[r].detect, AfterStack(pc[r]))
               /\ excused' = [excused EXCEPT ![r] = @ \/ verdict = "allow"]
               /\ idx' = [idx EXCEPT ![r] = 1]
               /\ UNCHANGED ran
    BY DEF RunStage
<1>2. /\ pc[r] \in {"early", "late"} /\ idx[r] \in DOMAIN Stack(pc[r])
      /\ UNCHANGED <<attr, cfg, body, bypass, sent, judged>>
    BY DEF RunStage
<1>3. ~sent[r] /\ ~bypass[r] /\ idx[r] \in Nat
    BY <1>2 DEF TypeOK
<1>4. CASE Skips(verdict)
    <2>1. /\ idx'[r] = idx[r] + 1 /\ ran'[r] = ran[r] \cup {stage}
          /\ pc' = pc /\ resp' = resp /\ excused' = excused
        BY <1>1, <1>4 DEF TypeOK
    <2>2. Passed(r, Stack(pc[r]))'
        <3>1. Passed(r, Stack(pc[r]))
            BY <1>2 DEF Stack
        <3>2. \A i \in DOMAIN Stack(pc[r]) : i < idx[r] + 1 => i < idx[r] \/ i = idx[r]
            BY <1>2, <1>3, NoneBefore DEF Stack
        <3> HIDE DEF Inv
        <3> QED BY <2>1, <3>1, <3>2 DEF Passed, Stack
    <2>3. EarlyCleared(r) => EarlyCleared(r)'
        BY <2>1 DEF EarlyCleared
    <2> QED BY <1>2, <1>3, <2>1, <2>2, <2>3 DEF Stack, BodyHeld
<1>5. CASE ~Skips(verdict)
    <2>1. ActOn(r, Decision(verdict), cfg[r].detect, AfterStack(pc[r])) /\ ran' = ran
        BY <1>1, <1>5
    <2>2. idx'[r] = 1
        BY <1>1, <1>5 DEF TypeOK
    <2>3. CASE pc'[r] = "done" /\ resp'[r] \in {"blocked", "limited"}
        BY <1>2, <1>3, <2>3
    <2>4. CASE /\ pc'[r] = AfterStack(pc[r]) /\ resp' = resp
               /\ Decision(verdict) = "allow" \/ (Decision(verdict) = "block" /\ cfg[r].detect)
        <3>1. CASE cfg[r].detect
            BY <1>2, <1>3, <2>1, <2>2, <2>4, <3>1 DEF AfterStack, BodyHeld
        <3>2. CASE ~cfg[r].detect
            <4>1. verdict = "allow"
                BY <2>4, <3>2 DEF Decision
            <4>2. pc[r] = "late"
                BY <1>2, <4>1, AllowIsLate
            <4>3. excused'[r]
                BY <1>1, <1>5, <4>1 DEF TypeOK
            <4>4. Cleared(r)'
                BY <2>1, <3>2, <4>2, <4>3 DEF Cleared, EarlyCleared
            <4> QED BY <1>2, <1>3, <2>4, <4>2, <4>4 DEF AfterStack, BodyHeld
        <3> QED BY <3>1, <3>2
    <2> QED BY <2>1, <2>3, <2>4, ActOnControl
<1> QED BY <1>4, <1>5

\* Falling off the end of a stack keeps what its request has established.
LEMMA ClearStackInv ==
    ASSUME TypeOK, TypeOK', NEW r \in Request, Inv(r), ClearStack(r)
    PROVE  Inv(r)'
<1> USE DEF Inv, Screened, Answered, Outbound, Returning, Undecided
<1>1. /\ pc[r] \in {"early", "late"} /\ idx[r] \notin DOMAIN Stack(pc[r])
      /\ idx'[r] = 1
      /\ UNCHANGED <<attr, cfg, body, bypass, ran, excused, sent, judged>>
    BY DEF ClearStack, TypeOK
<1>2. pc'[r] = AfterStack(pc[r]) /\ resp' = resp
    BY DEF ClearStack, ActOn, Goto, TypeOK
<1>3. \A i \in DOMAIN Stack(pc[r]) : i < idx[r]
    BY <1>1, StageAssumption DEF Stack, TypeOK
<1>4. StageNames(Stack(pc[r])) \subseteq ran[r]
    BY <1>1, <1>3 DEF Passed, Stack, StageNames
<1>5. CASE pc[r] = "early"
    <2>1. EarlyCleared(r)'
        BY <1>1, <1>4, <1>5 DEF EarlyCleared, Stack
    <2> QED BY <1>1, <1>2, <1>5, <2>1 DEF AfterStack
<1>6. CASE pc[r] = "late"
    <2>1. (cfg[r].detect \/ Cleared(r))'
        BY <1>1, <1>4, <1>6 DEF Cleared, EarlyCleared, Stack
    <2> QED BY <1>1, <1>2, <1>6, <2>1 DEF AfterStack, BodyHeld
<1> QED BY <1>1, <1>5, <1>6

\* A step of the proxy keeps what its request has established.
LEMMA OwnInv ==
    ASSUME TypeOK, TypeOK', NEW r \in Request, Inv(r), Step(r)
    PROVE  Inv(r)'
<1> USE DEF shared, control, history, Goto, Inv, Screened, Answered, Outbound, Returning, Undecided
<1>1. CASE Accept(r)
    BY <1>1 DEF Accept, Untouched, TypeOK
<1>2. CASE CheckAllowlist(r)
    <2>1. idx'[r] = 1
        BY <1>2 DEF CheckAllowlist
    <2>2. Passed(r, Early)'
        BY <2>1, NoneBefore DEF Passed
    <2> QED BY <1>2, <2>2 DEF CheckAllowlist, Untouched, TypeOK
<1>3. CASE RunStage(r) \/ ClearStack(r)
    <2> HIDE DEF Inv
    <2> QED BY <1>3, RunStageInv, ClearStackInv
<1>4. CASE BodyGate(r)
    <2>1. idx'[r] = 1 /\ ran' = ran
        BY <1>4 DEF BodyGate
    <2>2. Passed(r, Late)'
        BY <2>1, NoneBefore DEF Passed
    <2>3. UNCHANGED <<ran, excused, body, attr, cfg, bypass, sent, judged>>
        BY <1>4 DEF BodyGate
    <2>4. CASE ActOn(r, "block", FALSE, "late")
        BY <1>4, <2>3, <2>4, ActOnControl DEF BodyGate
    <2>5. CASE ~ActOn(r, "block", FALSE, "late")
        <3>1. resp' = resp /\ (pc'[r] = "collect" \/ (pc'[r] = "late" /\ ~attr[r].inspect))
            BY <1>4, <2>5 DEF BodyGate, TypeOK
        <3> QED BY <1>4, <2>1, <2>2, <2>3, <3>1 DEF BodyGate, BodyHeld, EarlyCleared
    <2> QED BY <2>4, <2>5
<1>5. CASE CollectBody(r)
    <2>1. idx'[r] = 1 /\ ran' = ran
        BY <1>5 DEF CollectBody
    <2>2. Passed(r, Late)'
        BY <2>1, NoneBefore DEF Passed
    <2>3. UNCHANGED <<ran, excused, attr, cfg, bypass, sent, judged>>
        BY <1>5 DEF CollectBody
    <2>4. CASE ActOn(r, "block", FALSE, "late") /\ UNCHANGED body
        BY <1>5, <2>3, <2>4, ActOnControl DEF CollectBody
    <2>5. CASE /\ attr[r].size <= cfg[r].cap
               /\ body' = [body EXCEPT ![r] = {attr[r].size}]
               /\ Goto(r, "late")
               /\ UNCHANGED <<resp, metrics, audit>>
        <3>1. body'[r] = {attr[r].size} /\ pc'[r] = "late"
            BY <2>5 DEF TypeOK
        <3> QED BY <1>5, <2>1, <2>2, <2>3, <2>5, <3>1 DEF CollectBody, BodyHeld, EarlyCleared
    <2> QED BY <1>5, <2>4, <2>5 DEF CollectBody
<1>6. CASE Admit(r) \/ Forward(r)
    BY <1>6 DEF Admit, Forward, BodyHeld, Cleared, EarlyCleared, TypeOK
<1>7. CASE UpstreamHead(r)
    BY <1>7 DEF UpstreamHead, BodyHeld, Cleared, EarlyCleared, TypeOK
<1>8. CASE UpstreamFailed(r) \/ UpstreamTimeout(r) \/ FrameError(r)
    BY <1>8 DEF UpstreamFailed, UpstreamTimeout, FrameError, UpstreamError, BodyHeld, Cleared, EarlyCleared, TypeOK
<1>9. CASE ReadFrame(r)
    BY <1>9 DEF ReadFrame, UpstreamError, BodyHeld, Cleared, EarlyCleared, TypeOK
<1>10. CASE DecideBuffer(r) \/ LastFrame(r) \/ Deliver(r) \/ Drop(r)
    BY <1>10 DEF DecideBuffer, LastFrame, Deliver, Drop, AtAwait, BodyHeld, Cleared, EarlyCleared, TypeOK
<1>11. CASE EvaluateResponse(r)
    BY <1>11 DEF EvaluateResponse, ActOn, BodyHeld, Cleared, EarlyCleared, TypeOK
<1> QED BY <1>1, <1>2, <1>3, <1>4, <1>5, <1>6, <1>7, <1>8, <1>9, <1>10, <1>11
        DEF Step, OwnStep, PeerStep

\* The inductive invariant of the request path, for any number of requests.
THEOREM PathInvariant == Spec => [](TypeOK /\ PathInv)
<1>1. Init => PathInv
    <2> SUFFICES ASSUME Init, NEW q \in Request PROVE Inv(q)
        BY PathInvSplit
    <2> QED BY DEF Init, Inv, Screened, Answered, Untouched, Outbound, Returning, Undecided
<1>2. TypeOK /\ PathInv /\ [Next]_vars => (TypeOK /\ PathInv)'
    <2> SUFFICES ASSUME TypeOK, PathInv, [Next]_vars, TypeOK' PROVE PathInv'
        BY TypeStep
    <2>1. \A q \in Request : Inv(q)
        BY PathInvSplit
    <2>2. SUFFICES ASSUME NEW q \in Request PROVE Inv(q)'
        <3>1. (\A q \in Request : Inv(q))' => PathInv'
            BY DEF PathInv, Inv, ForwardedWasCleared, WholeBodyInspected, BypassIsTotal
        <3> QED BY <2>2, <3>1
    <2>3. ASSUME NEW r \in Request, Step(r) PROVE Inv(q)'
        <3>1. CASE q = r
            BY <2>1, <2>3, <3>1, OwnInv
        <3>2. CASE q # r
            BY <2>1, <2>3, <3>2, Frame, Stable
        <3> QED BY <3>1, <3>2
    <2>4. CASE Swap \/ UNCHANGED vars
        <3>1. SameRequest(q)
            BY <2>4 DEF Swap, vars, control, history, SameRequest
        <3> QED BY <2>1, <3>1, Stable
    <2> QED BY <2>3, <2>4 DEF Next, Step
<1> QED BY <1>1, <1>2, TypeInit, PTL DEF Spec

\* Nothing unscreened reaches the backend, for any pipeline and any reloads
\* (handle_inner, Pipeline::run).
THEOREM OnlyClearedForwarded == Spec => []ForwardedWasCleared
BY PathInvariant, PTL DEF PathInv

\* Inspectable bodies are forwarded whole, inspected and within the cap (the body
\* gate of handle_inner).
THEOREM OnlyWholeBodies == Spec => []WholeBodyInspected
BY PathInvariant, PTL DEF PathInv

\* The allowlist bypass is total and final (the early return of handle_inner).
THEOREM BypassTotal == Spec => []BypassIsTotal
BY PathInvariant, PTL DEF PathInv

-----------------------------------------------------------------------------
(* Refinement: the request path implements the gate. *)

\* The refinement mapping, as functions.
PhaseOf == [r \in Request |-> GatePhase(r)]
BackendOf == {r \in Request : sent[r]}

\* Only the request that steps moves at the gate.
LEMMA OthersStay ==
    ASSUME TypeOK, NEW r \in Request, Step(r)
    PROVE  \A q \in Request \ {r} : GatePhase(q)' = GatePhase(q) /\ sent'[q] = sent[q]
<1> SUFFICES ASSUME NEW q \in Request \ {r}
             PROVE  GatePhase(q)' = GatePhase(q) /\ sent'[q] = sent[q]
    OBVIOUS
<1>1. SameRequest(q)
    BY Frame
<1> QED BY <1>1 DEF SameRequest, GatePhase

\* What one step of a request does at the gate.
GateMove(r) ==
    \/ /\ sent'[r] = sent[r]
       /\ \/ GatePhase(r)' = GatePhase(r)
          \/ GatePhase(r) = "new" /\ GatePhase(r)' = "screening"
          \/ GatePhase(r) = "screening" /\ GatePhase(r)' \in {"cleared", "refused", "gone"}
          \/ GatePhase(r) = "cleared" /\ GatePhase(r)' \in {"failed", "gone"}
          \/ GatePhase(r) = "cleared" /\ sent[r] /\ GatePhase(r)' \in {"replied", "refused"}
    \/ /\ GatePhase(r) = "cleared" /\ GatePhase(r)' = GatePhase(r)
       /\ ~sent[r] /\ sent'[r]

\* Every step of a request is a step at the gate or none.
LEMMA StepMoves ==
    ASSUME TypeOK, TypeOK', NEW r \in Request, Inv(r), Inv(r)', Step(r)
    PROVE  GateMove(r)
<1> USE DEF shared, control, history, Goto, GatePhase, Undecided, GateMove
<1>1. CASE Accept(r) \/ CheckAllowlist(r) \/ Admit(r)
    BY <1>1 DEF Accept, CheckAllowlist, Admit, TypeOK
<1>2. CASE Forward(r)
    BY <1>2 DEF Forward, TypeOK, Inv, Answered
<1>3. CASE RunStage(r) \/ ClearStack(r)
    <2>1. pc[r] \in {"early", "late"} /\ sent' = sent
        BY <1>3 DEF RunStage, ClearStack
    <2>2. \/ pc'[r] = pc[r]
          \/ pc'[r] = AfterStack(pc[r])
          \/ pc'[r] = "done" /\ resp'[r] \in {"blocked", "limited"}
        BY <1>3, ActOnControl DEF RunStage, ClearStack
    <2> QED BY <2>1, <2>2 DEF AfterStack
<1>4. CASE BodyGate(r) \/ CollectBody(r)
    <2>1. pc[r] \in {"gate", "collect"} /\ sent' = sent
        BY <1>4 DEF BodyGate, CollectBody
    <2>2. \/ pc'[r] \in {"late", "collect"}
          \/ pc'[r] = "done" /\ resp'[r] \in {"blocked", "limited"}
        BY <1>4, ActOnControl DEF BodyGate, CollectBody, TypeOK
    <2> QED BY <2>1, <2>2
<1>5. CASE UpstreamHead(r) \/ Deliver(r)
    BY <1>5 DEF UpstreamHead, Deliver, TypeOK, Inv, Answered, Returning
<1>6. CASE UpstreamFailed(r) \/ UpstreamTimeout(r) \/ FrameError(r) \/ ReadFrame(r)
    BY <1>6 DEF UpstreamFailed, UpstreamTimeout, FrameError, ReadFrame, UpstreamError, TypeOK
<1>7. CASE DecideBuffer(r) \/ LastFrame(r) \/ Drop(r)
    BY <1>7 DEF DecideBuffer, LastFrame, Drop, AtAwait, TypeOK
<1>8. CASE EvaluateResponse(r)
    <2>1. pc[r] \in {"judge_head", "judge_body"} /\ sent' = sent
        BY <1>8 DEF EvaluateResponse
    <2>2. \/ pc'[r] \in {"deliver", "dropped"}
          \/ pc'[r] = "done" /\ resp'[r] \in {"blocked", "limited"}
        BY <1>8, ActOnControl DEF EvaluateResponse, TypeOK
    <2> QED BY <2>1, <2>2 DEF Inv, Answered, Returning
<1> QED BY <1>1, <1>2, <1>3, <1>4, <1>5, <1>6, <1>7, <1>8 DEF Step, OwnStep, PeerStep

\* A move of one request, the others staying, is a step of the gate.
LEMMA MoveIsGateStep ==
    ASSUME NEW r \in Request, GateMove(r),
           \A q \in Request \ {r} : GatePhase(q)' = GatePhase(q) /\ sent'[q] = sent[q]
    PROVE  G!GateNext \/ UNCHANGED G!gateVars
<1>1. PhaseOf' = [PhaseOf EXCEPT ![r] = GatePhase(r)']
    BY DEF PhaseOf
<1>2. PhaseOf[r] = GatePhase(r) /\ (r \in BackendOf <=> sent[r])
    BY DEF PhaseOf, BackendOf
<1>3. sent'[r] = sent[r] => BackendOf' = BackendOf
    BY DEF BackendOf
<1>4. ~sent[r] /\ sent'[r] => BackendOf' = BackendOf \cup {r}
    BY DEF BackendOf
<1>5. GatePhase(r)' = GatePhase(r) => PhaseOf' = PhaseOf
    BY <1>1 DEF PhaseOf
<1> QED BY <1>1, <1>2, <1>3, <1>4, <1>5
        DEF GateMove, PhaseOf, BackendOf, G!GateNext, G!gateVars, G!Arrive, G!Pass, G!Refuse,
            G!Send, G!Reply, G!Fail, G!Abandon, G!Move

\* The request path implements the abstract gate for any number of requests
\* and any reloads (handle_inner as a whole).
THEOREM PathIsGate == Spec => ImplementsGate
<1>1. Init => G!GateInit
    <2> SUFFICES ASSUME Init PROVE G!GateInit
        OBVIOUS
    <2>1. \A r \in Request : pc[r] = "idle" /\ ~sent[r]
        BY Zenon DEF Init
    <2>2. \A r \in Request : GatePhase(r) = "new"
        BY <2>1 DEF GatePhase, Undecided
    <2> QED BY <2>1, <2>2 DEF G!GateInit
<1>2. (TypeOK /\ PathInv) /\ (TypeOK /\ PathInv)' /\ [Next]_vars
        => [G!GateNext]_(G!gateVars)
    <2> SUFFICES ASSUME TypeOK, PathInv, TypeOK', PathInv', [Next]_vars
                 PROVE  G!GateNext \/ UNCHANGED G!gateVars
        OBVIOUS
    <2>1. ASSUME NEW r \in Request, Step(r) PROVE G!GateNext \/ UNCHANGED G!gateVars
        <3>1. Inv(r) /\ Inv(r)'
            BY DEF PathInv, Inv, ForwardedWasCleared, WholeBodyInspected, BypassIsTotal
        <3>2. GateMove(r)
            BY <2>1, <3>1, StepMoves
        <3> QED BY <2>1, <3>2, OthersStay, MoveIsGateStep
    <2>2. CASE Swap \/ UNCHANGED vars
        <3>1. pc' = pc /\ resp' = resp /\ sent' = sent
            BY <2>2 DEF Swap, vars, control, history
        <3> QED BY <3>1 DEF G!gateVars, GatePhase
    <2> QED BY <2>1, <2>2 DEF Next, Step
<1> QED BY <1>1, <1>2, PathInvariant, PTL DEF Spec, ImplementsGate, G!GateSpec

-----------------------------------------------------------------------------
(* The audit trail and the reply. *)

\* The audit records of a request: which mode each was written under, that an
\* enforced one is the last, and at which points of the path they were written.
Trail(q) ==
    /\ \A a \in audit[q] :
        /\ ~a.enforced => cfg[q].detect
        /\ a.enforced => pc[q] = "done"
        /\ a.enforced /\ resp[q] = "blocked" => ~cfg[q].detect \/ a.at \in {"gate", "collect"}
    /\ pc[q] \in {"idle", "allowlist", "early"} => audit[q] = {}
    /\ pc[q] \in {"gate", "collect", "late"} => \A a \in audit[q] : a.at = "early"
    /\ pc[q] \in {"admit"} \cup (Outbound \ {"deliver"})
            => \A a \in audit[q] : a.at \in {"early", "late"}

\* The reply has been read whole, within the cap of the request's configuration.
ReadWhole(q) == got[q] = reply[q].size /\ got[q] <= cfg[q].cap

\* How much of the reply has been read, and whether it was judged with its body.
ReplyRead(q) ==
    /\ pc[q] \notin {"deliver", "done", "dropped"} => judged[q] = {}
    /\ pc[q] \notin {"frames", "judge_body", "deliver", "done", "dropped"} => got[q] = 0
    /\ pc[q] = "frames" => got[q] <= cfg[q].cap
    /\ pc[q] = "judge_body" \/ "body" \in judged[q] => ReadWhole(q)

\* The inductive invariant of the audit trail and of the reply's buffer.
RecordInv == \A q \in Request : Trail(q) /\ ReplyRead(q)

\* What act_on does to its request: it goes on, it goes on with a detection
\* record, or it ends with an enforced record.
LEMMA ActOnRecord ==
    ASSUME TypeOK, NEW r \in Request, NEW decision, NEW detect, NEW next,
           ActOn(r, decision, detect, next)
    PROVE  \/ /\ decision = "allow" /\ pc'[r] = next
              /\ resp'[r] = resp[r] /\ audit'[r] = audit[r]
           \/ /\ decision = "block" /\ detect /\ pc'[r] = next /\ resp'[r] = resp[r]
              /\ audit'[r] = audit[r] \cup {[at |-> pc[r], enforced |-> FALSE]}
           \/ /\ pc'[r] = "done"
              /\ resp'[r] \in {"blocked", "limited"} /\ (resp'[r] = "blocked" => ~detect)
              /\ audit'[r] = audit[r] \cup {[at |-> pc[r], enforced |-> TRUE]}
BY DEF ActOn, Goto, TypeOK

\* A step of a request keeps its audit trail in order.
LEMMA TrailStep ==
    ASSUME TypeOK, TypeOK', NEW r \in Request, Inv(r), Trail(r), Step(r)
    PROVE  Trail(r)'
<1> USE DEF shared, control, history, Goto, Trail, Outbound, Returning
<1>1. CASE Accept(r)
    BY <1>1 DEF Accept, TypeOK
<1>2. CASE CheckAllowlist(r)
    BY <1>2 DEF CheckAllowlist, TypeOK
<1>3. CASE RunStage(r)
    <2>1. PICK verdict :
            \/ UNCHANGED <<pc, resp, audit>>
            \/ ActOn(r, Decision(verdict), cfg[r].detect, AfterStack(pc[r]))
        BY <1>3 DEF RunStage
    <2>2. pc[r] \in {"early", "late"} /\ cfg' = cfg
        BY <1>3 DEF RunStage
    <2>3. CASE UNCHANGED <<pc, resp, audit>>
        BY <2>2, <2>3
    <2>4. CASE ActOn(r, Decision(verdict), cfg[r].detect, AfterStack(pc[r]))
        BY <2>2, <2>4, ActOnRecord DEF AfterStack
    <2> QED BY <2>1, <2>3, <2>4
<1>4. CASE ClearStack(r)
    <2>1. pc[r] \in {"early", "late"} /\ cfg' = cfg /\ audit' = audit /\ resp' = resp
        BY <1>4 DEF ClearStack, ActOn
    <2>2. pc'[r] = AfterStack(pc[r])
        BY <1>4 DEF ClearStack, ActOn, TypeOK
    <2> QED BY <2>1, <2>2 DEF AfterStack
<1>5. CASE BodyGate(r) \/ CollectBody(r)
    <2>1. pc[r] \in {"gate", "collect"} /\ cfg' = cfg
        BY <1>5 DEF BodyGate, CollectBody
    <2>2. CASE ActOn(r, "block", FALSE, "late")
        <3>1. /\ pc'[r] = "done"
              /\ audit'[r] = audit[r] \cup {[at |-> pc[r], enforced |-> TRUE]}
            BY <2>2, ActOnRecord
        <3> QED BY <2>1, <3>1
    <2>3. CASE ~ActOn(r, "block", FALSE, "late")
        BY <1>5, <2>1, <2>3 DEF BodyGate, CollectBody, TypeOK
    <2> QED BY <2>2, <2>3
<1>6. CASE Admit(r) \/ Forward(r) \/ UpstreamHead(r)
    BY <1>6 DEF Admit, Forward, UpstreamHead, TypeOK
<1>7. CASE UpstreamFailed(r) \/ UpstreamTimeout(r) \/ FrameError(r) \/ ReadFrame(r)
    BY <1>7 DEF UpstreamFailed, UpstreamTimeout, FrameError, ReadFrame, UpstreamError, TypeOK
<1>8. CASE DecideBuffer(r) \/ LastFrame(r) \/ Deliver(r) \/ Drop(r)
    BY <1>8 DEF DecideBuffer, LastFrame, Deliver, Drop, AtAwait, TypeOK
<1>9. CASE EvaluateResponse(r)
    <2>1. pc[r] \in {"judge_head", "judge_body"} /\ cfg' = cfg
        BY <1>9 DEF EvaluateResponse
    <2>2. CASE \E decision \in {"allow", "block"} : ActOn(r, decision, cfg[r].detect, "deliver")
        BY <2>1, <2>2, ActOnRecord
    <2>3. CASE Goto(r, "dropped") /\ UNCHANGED <<resp, metrics, audit>>
        BY <2>1, <2>3 DEF TypeOK
    <2> QED BY <1>9, <2>2, <2>3 DEF EvaluateResponse
<1> QED BY <1>1, <1>2, <1>3, <1>4, <1>5, <1>6, <1>7, <1>8, <1>9 DEF Step, OwnStep, PeerStep

\* A step of a request keeps its account of the reply: the frame loop of
\* inspect_response stops at the cap and judges a body only at its end.
LEMMA ReplyStep ==
    ASSUME TypeOK, TypeOK', NEW r \in Request, Inv(r), ReplyRead(r), Step(r)
    PROVE  ReplyRead(r)'
<1> USE DEF shared, control, history, Goto, ReplyRead, ReadWhole
<1>1. cfg[r].cap \in Nat /\ got[r] \in Nat /\ reply[r].size \in Nat
    BY DataAssumption DEF TypeOK, ConfigType, ReplyType
<1>2. CASE Accept(r) \/ CheckAllowlist(r) \/ Admit(r) \/ Forward(r)
    BY <1>2 DEF Accept, CheckAllowlist, Admit, Forward, TypeOK
<1>3. CASE RunStage(r) \/ ClearStack(r)
    <2>1. /\ pc[r] \in {"early", "late"}
          /\ UNCHANGED <<cfg, reply, got, judged>>
        BY <1>3 DEF RunStage, ClearStack
    <2>2. pc'[r] \in {pc[r], AfterStack(pc[r]), "done"}
        BY <1>3, ActOnControl DEF RunStage, ClearStack
    <2> QED BY <2>1, <2>2 DEF AfterStack
<1>4. CASE BodyGate(r) \/ CollectBody(r)
    <2>1. /\ pc[r] \in {"gate", "collect"}
          /\ UNCHANGED <<cfg, reply, got, judged>>
        BY <1>4 DEF BodyGate, CollectBody
    <2>2. pc'[r] \in {"late", "collect", "done"}
        BY <1>4, ActOnControl DEF BodyGate, CollectBody, TypeOK
    <2> QED BY <2>1, <2>2
<1>5. CASE UpstreamHead(r)
    BY <1>5 DEF UpstreamHead, TypeOK
<1>6. CASE UpstreamFailed(r) \/ UpstreamTimeout(r) \/ FrameError(r)
    BY <1>6 DEF UpstreamFailed, UpstreamTimeout, FrameError, UpstreamError, TypeOK
<1>7. CASE DecideBuffer(r)
    BY <1>1, <1>7 DEF DecideBuffer, TypeOK
<1>8. CASE ReadFrame(r)
    <2>1. /\ pc[r] = "frames" /\ judged[r] = {}
          /\ UNCHANGED <<cfg, reply, judged>>
        BY <1>8 DEF ReadFrame
    <2>2. CASE UpstreamError(r, "bad_gateway") /\ UNCHANGED got
        BY <2>1, <2>2 DEF UpstreamError, TypeOK
    <2>3. CASE ~(got[r] + 1 > cfg[r].cap) /\ got' = [got EXCEPT ![r] = @ + 1] /\ pc' = pc
        <3>1. got'[r] = got[r] + 1
            BY <2>3 DEF TypeOK
        <3> QED BY <1>1, <2>1, <2>3, <3>1
    <2> QED BY <1>8, <2>2, <2>3 DEF ReadFrame
<1>9. CASE LastFrame(r)
    BY <1>9 DEF LastFrame, TypeOK
<1>10. CASE Deliver(r) \/ Drop(r)
    BY <1>10 DEF Deliver, Drop, AtAwait, TypeOK
<1>11. CASE EvaluateResponse(r)
    <2>1. /\ pc[r] \in {"judge_head", "judge_body"}
          /\ UNCHANGED <<cfg, reply, got>>
        BY <1>11 DEF EvaluateResponse
    <2>2. pc'[r] \in {"deliver", "dropped", "done"}
        BY <1>11, ActOnControl DEF EvaluateResponse, TypeOK
    <2>3. "body" \in judged'[r] => pc[r] = "judge_body"
        BY <1>11 DEF EvaluateResponse, TypeOK
    <2> QED BY <2>1, <2>2, <2>3
<1> QED BY <1>2, <1>3, <1>4, <1>5, <1>6, <1>7, <1>8, <1>9, <1>10, <1>11
        DEF Step, OwnStep, PeerStep

\* The trail and the reply of every request are in order in every state, however
\* requests and reloads interleave (act_on, inspect_response).
THEOREM RecordInvariant == Spec => []RecordInv
<1>1. Init => RecordInv
    BY DEF Init, RecordInv, Trail, ReplyRead, ReadWhole, Outbound, Returning
<1>2. TypeOK /\ PathInv /\ RecordInv /\ [Next]_vars /\ TypeOK' => RecordInv'
    <2> SUFFICES ASSUME TypeOK, PathInv, RecordInv, [Next]_vars, TypeOK', NEW q \in Request
                 PROVE  Trail(q)' /\ ReplyRead(q)'
        BY DEF RecordInv
    <2>1. Inv(q) /\ Trail(q) /\ ReplyRead(q)
        BY PathInvSplit DEF RecordInv
    <2>2. CASE SameRequest(q)
        BY <2>1, <2>2 DEF SameRequest, Trail, ReplyRead, ReadWhole
    <2>3. ASSUME NEW r \in Request, Step(r) PROVE Trail(q)' /\ ReplyRead(q)'
        <3>1. CASE q = r
            BY <2>1, <2>3, <3>1, TrailStep, ReplyStep
        <3>2. CASE q # r
            BY <2>2, <2>3, <3>2, Frame
        <3> QED BY <3>1, <3>2
    <2>4. CASE Swap \/ UNCHANGED vars
        BY <2>2, <2>4 DEF Swap, vars, control, history, SameRequest
    <2> QED BY <2>3, <2>4 DEF Next, Step
<1> QED BY <1>1, <1>2, PathInvariant, PTL DEF Spec

\* Every verdict on a request, the one on its reply too, follows the enforcement
\* mode it was accepted under, whatever is reloaded (the cfg snapshot of handle).
THEOREM OneMode == Spec => []OneModePerRequest
<1>1. RecordInv => OneModePerRequest
    BY DEF RecordInv, Trail, OneModePerRequest
<1> QED BY <1>1, RecordInvariant, PTL

\* A reply judged with its body is handed on whole and within the cap, for any
\* sizes and caps (the frame loop of inspect_response).
THEOREM Reemitted == Spec => []ReemittedWhole
<1>1. RecordInv => ReemittedWhole
    BY DEF RecordInv, ReplyRead, ReadWhole, ReemittedWhole
<1> QED BY <1>1, RecordInvariant, PTL

-----------------------------------------------------------------------------
(* Rules on the body of a reply: a step of a request, for the composition. *)

\* A reply that the rules in force want to see the body of is not about to be judged,
\* and was not judged, by its head alone.
BodySeen(q) ==
    /\ pc[q] = "judge_head" => ~WorthBuffering(q, rules)
    /\ "head" \in judged[q] => ~WorthBuffering(q, rules)

\* While the rule set stays as it is, a step of a request keeps BodySeen.
LEMMA BodySeenStep ==
    ASSUME TypeOK, TypeOK', NEW r \in Request, ReplyRead(r), ReplyRead(r)', BodySeen(r),
           Step(r), rules' = rules
    PROVE  BodySeen(r)'
<1> USE DEF shared, control, history, Goto, BodySeen
<1>1. CASE DecideBuffer(r)
    BY <1>1 DEF DecideBuffer, ReplyRead, WorthBuffering, TypeOK
<1>2. CASE EvaluateResponse(r)
    <2>1. /\ pc[r] \in {"judge_head", "judge_body"} /\ pc'[r] # "judge_head"
          /\ UNCHANGED <<cfg, reply>>
        BY <1>2, ActOnControl DEF EvaluateResponse, TypeOK
    <2>2. "head" \in judged'[r] => pc[r] = "judge_head"
        BY <1>2, <2>1 DEF EvaluateResponse, TypeOK
    <2> QED BY <2>1, <2>2 DEF WorthBuffering
<1>3. CASE /\ UNCHANGED judged
           /\ judged[r] = {} \/ (cfg' = cfg /\ reply' = reply)
           /\ pc'[r] # "judge_head"
    BY <1>3 DEF WorthBuffering
<1>4. CASE Accept(r) \/ CheckAllowlist(r) \/ Admit(r) \/ Forward(r) \/ UpstreamHead(r)
    BY <1>3, <1>4 DEF Accept, CheckAllowlist, Admit, Forward, UpstreamHead, ReplyRead, TypeOK
<1>5. CASE RunStage(r) \/ ClearStack(r)
    <2>1. pc[r] \in {"early", "late"} /\ UNCHANGED <<cfg, reply, judged>>
        BY <1>5 DEF RunStage, ClearStack
    <2>2. pc'[r] \in {pc[r], AfterStack(pc[r]), "done"}
        BY <1>5, ActOnControl DEF RunStage, ClearStack
    <2> QED BY <1>3, <2>1, <2>2 DEF AfterStack
<1>6. CASE BodyGate(r) \/ CollectBody(r)
    <2>1. UNCHANGED <<cfg, reply, judged>>
        BY <1>6 DEF BodyGate, CollectBody
    <2>2. pc'[r] \in {"late", "collect", "done"}
        BY <1>6, ActOnControl DEF BodyGate, CollectBody, TypeOK
    <2> QED BY <1>3, <2>1, <2>2
<1>7. CASE UpstreamFailed(r) \/ UpstreamTimeout(r) \/ FrameError(r) \/ ReadFrame(r)
    BY <1>3, <1>7
       DEF UpstreamFailed, UpstreamTimeout, FrameError, ReadFrame, UpstreamError, TypeOK
<1>8. CASE LastFrame(r) \/ Deliver(r) \/ Drop(r)
    BY <1>3, <1>8 DEF LastFrame, Deliver, Drop, TypeOK
<1> QED BY <1>1, <1>2, <1>4, <1>5, <1>6, <1>7, <1>8 DEF Step, OwnStep, PeerStep

-----------------------------------------------------------------------------
(* The counters. *)

\* The requests that are counted as arrived and neither allowed nor forwarded.
Pending(q) ==
    \/ pc[q] \in Undecided
    \/ ~sent[q] /\ (pc[q] = "dropped" \/ resp[q] \in {"blocked", "limited"})
PendingSet == {r \in Request : Pending(r)}

\* What a step of a request does to the counts of arrived and allowed requests.
Arrives(r) ==
    /\ ~Pending(r) /\ Pending(r)'
    /\ metrics'["requests"] = metrics["requests"] + 1 /\ metrics'["allowed"] = metrics["allowed"]
Leaves(r) ==
    /\ Pending(r) /\ ~Pending(r)'
    /\ metrics'["requests"] = metrics["requests"] /\ metrics'["allowed"] = metrics["allowed"] + 1
Stays(r) ==
    /\ Pending(r)' <=> Pending(r)
    /\ metrics'["requests"] = metrics["requests"] /\ metrics'["allowed"] = metrics["allowed"]

\* What act_on leaves alone: the counts of arrived and of allowed requests.
LEMMA ActOnTally ==
    ASSUME TypeOK, NEW r \in Request, NEW decision, NEW detect, NEW next,
           ActOn(r, decision, detect, next)
    PROVE  metrics'["requests"] = metrics["requests"] /\ metrics'["allowed"] = metrics["allowed"]
BY DEF ActOn, Count, CounterName, TypeOK

\* A request is counted once when it arrives and once when it is let through.
LEMMA TallyStep ==
    ASSUME TypeOK, TypeOK', NEW r \in Request, Inv(r), Step(r)
    PROVE  Arrives(r) \/ Leaves(r) \/ Stays(r)
<1> USE DEF shared, control, history, Goto, Undecided
<1>1. CASE Accept(r)
    <2>1. ~Pending(r)
        BY <1>1 DEF Accept, Pending, Inv, Answered, Untouched
    <2>2. Pending(r)'
        BY <1>1 DEF Accept, Pending, TypeOK
    <2>3. metrics'["requests"] = metrics["requests"] + 1 /\ metrics'["allowed"] = metrics["allowed"]
        BY <1>1 DEF Accept, Count, CounterName, TypeOK
    <2> QED BY <2>1, <2>2, <2>3 DEF Arrives
<1>2. CASE CheckAllowlist(r)
    <2>1. Pending(r) /\ ~sent[r] /\ resp[r] = "none"
        BY <1>2 DEF CheckAllowlist, Pending, Inv, Screened, Answered, Untouched
    <2>2. CASE Client(r) \subseteq allow
        <3>1. ~Pending(r)'
            BY <1>2, <2>1, <2>2 DEF CheckAllowlist, Pending, TypeOK
        <3>2. metrics'["requests"] = metrics["requests"] /\ metrics'["allowed"] = metrics["allowed"] + 1
            BY <1>2, <2>2 DEF CheckAllowlist, Count, CounterName, TypeOK
        <3> QED BY <2>1, <3>1, <3>2 DEF Leaves
    <2>3. CASE ~(Client(r) \subseteq allow)
        <3>1. Pending(r)' /\ metrics' = metrics
            BY <1>2, <2>3 DEF CheckAllowlist, Pending, TypeOK
        <3> QED BY <2>1, <3>1 DEF Stays
    <2> QED BY <2>2, <2>3
<1>3. CASE RunStage(r) \/ ClearStack(r)
    <2>1. pc[r] \in {"early", "late"} /\ sent' = sent /\ ~sent[r]
        BY <1>3 DEF RunStage, ClearStack, Inv, Screened
    <2>2. \/ pc'[r] = pc[r]
          \/ pc'[r] = AfterStack(pc[r])
          \/ pc'[r] = "done" /\ resp'[r] \in {"blocked", "limited"}
        BY <1>3, ActOnControl DEF RunStage, ClearStack
    <2>3. Pending(r) /\ Pending(r)'
        BY <2>1, <2>2 DEF AfterStack, Pending
    <2>4. metrics'["requests"] = metrics["requests"] /\ metrics'["allowed"] = metrics["allowed"]
        BY <1>3, ActOnTally DEF RunStage, ClearStack
    <2> QED BY <2>3, <2>4 DEF Stays
<1>4. CASE BodyGate(r) \/ CollectBody(r)
    <2>1. pc[r] \in {"gate", "collect"} /\ sent' = sent /\ ~sent[r]
        BY <1>4 DEF BodyGate, CollectBody, Inv, Screened
    <2>2. \/ pc'[r] \in {"late", "collect"}
          \/ pc'[r] = "done" /\ resp'[r] \in {"blocked", "limited"}
        BY <1>4, ActOnControl DEF BodyGate, CollectBody, TypeOK
    <2>3. Pending(r) /\ Pending(r)'
        BY <2>1, <2>2 DEF Pending
    <2>4. metrics'["requests"] = metrics["requests"] /\ metrics'["allowed"] = metrics["allowed"]
        BY <1>4, ActOnTally DEF BodyGate, CollectBody
    <2> QED BY <2>3, <2>4 DEF Stays
<1>5. CASE Admit(r)
    <2>1. Pending(r) /\ ~sent[r] /\ resp[r] = "none"
        BY <1>5 DEF Admit, Pending, Inv, Screened, Answered
    <2>2. ~Pending(r)'
        BY <1>5, <2>1 DEF Admit, Pending, TypeOK
    <2>3. metrics'["requests"] = metrics["requests"] /\ metrics'["allowed"] = metrics["allowed"] + 1
        BY <1>5 DEF Admit, Count, CounterName, TypeOK
    <2> QED BY <2>1, <2>2, <2>3 DEF Leaves
<1>6. CASE Forward(r) \/ UpstreamHead(r) \/ DecideBuffer(r) \/ LastFrame(r) \/ Deliver(r)
    BY <1>6 DEF Forward, UpstreamHead, DecideBuffer, LastFrame, Deliver, Stays, Pending,
                Inv, Answered, Returning, TypeOK
<1>7. CASE UpstreamFailed(r) \/ UpstreamTimeout(r) \/ FrameError(r) \/ ReadFrame(r)
    <2>1. pc[r] \in {"forward", "upstream", "frames"} /\ resp[r] = "none" /\ sent' = sent
        BY <1>7 DEF UpstreamFailed, UpstreamTimeout, FrameError, ReadFrame, Inv, Answered
    <2>2. \/ pc'[r] = "done" /\ resp'[r] \in {"bad_gateway", "gateway_timeout"}
          \/ pc' = pc /\ resp' = resp
        BY <1>7 DEF UpstreamFailed, UpstreamTimeout, FrameError, ReadFrame, UpstreamError, TypeOK
    <2>3. metrics'["requests"] = metrics["requests"] /\ metrics'["allowed"] = metrics["allowed"]
        BY <1>7 DEF UpstreamFailed, UpstreamTimeout, FrameError, ReadFrame, UpstreamError,
                    Count, CounterName, TypeOK
    <2>4. ~Pending(r) /\ ~Pending(r)'
        BY <2>1, <2>2 DEF Pending
    <2> QED BY <2>3, <2>4 DEF Stays
<1>8. CASE EvaluateResponse(r)
    <2>1. pc[r] \in {"judge_head", "judge_body"} /\ sent' = sent /\ sent[r]
        BY <1>8 DEF EvaluateResponse, Inv, Answered, Returning
    <2>2. pc'[r] \in {"deliver", "dropped", "done"}
        BY <1>8, ActOnControl DEF EvaluateResponse, TypeOK
    <2>3. ~Pending(r) /\ ~Pending(r)'
        BY <2>1, <2>2 DEF Pending
    <2>4. metrics'["requests"] = metrics["requests"] /\ metrics'["allowed"] = metrics["allowed"]
        BY <1>8, ActOnTally DEF EvaluateResponse
    <2> QED BY <2>3, <2>4 DEF Stays
<1>9. CASE Drop(r)
    <2>1. pc[r] \in AtAwait /\ pc'[r] = "dropped" /\ UNCHANGED <<sent, metrics, resp>>
        BY <1>9 DEF Drop, TypeOK
    <2>2. Pending(r)' <=> Pending(r)
        BY <2>1 DEF Pending, AtAwait, Inv, Screened, Answered, Returning
    <2> QED BY <2>1, <2>2 DEF Stays
<1> QED BY <1>1, <1>2, <1>3, <1>4, <1>5, <1>6, <1>7, <1>8, <1>9 DEF Step, OwnStep, PeerStep

\* The tally, with the finiteness its cardinality needs: only requests that have
\* arrived are pending, and they arrive one at a time.
TallyInv == IsFiniteSet(PendingSet) /\ EveryRequestTallied

\* The counters account for every request exactly once until it is forwarded,
\* for any number of requests in flight (Metrics::record, Metrics::request).
THEOREM Tallied == Spec => []EveryRequestTallied
<1> USE DEF TallyInv
<1>1. Init => TallyInv
    <2> SUFFICES ASSUME Init PROVE TallyInv
        OBVIOUS
    <2>1. PendingSet = {}
        BY DEF Init, PendingSet, Pending, Undecided
    <2>2. metrics["requests"] = 0 /\ metrics["allowed"] = 0
        BY DEF Init, CounterName
    <2>3. EveryRequestTallied <=> metrics["requests"] = metrics["allowed"] + Cardinality(PendingSet)
        BY DEF EveryRequestTallied, PendingSet, Pending
    <2> QED BY <2>1, <2>2, <2>3, FS_EmptySet
<1>2. TypeOK /\ PathInv /\ TallyInv /\ [Next]_vars /\ TypeOK' => TallyInv'
    <2> SUFFICES ASSUME TypeOK, PathInv, TallyInv, [Next]_vars, TypeOK' PROVE TallyInv'
        OBVIOUS
    <2>1. metrics["requests"] = metrics["allowed"] + Cardinality(PendingSet)
        BY DEF EveryRequestTallied, PendingSet, Pending
    <2>2. SUFFICES /\ IsFiniteSet(PendingSet')
                   /\ metrics'["requests"] = metrics'["allowed"] + Cardinality(PendingSet')
        BY DEF EveryRequestTallied, PendingSet, Pending
    <2>3. /\ metrics["allowed"] \in Nat /\ Cardinality(PendingSet) \in Nat
        BY FS_CardinalityType DEF TypeOK, CounterName
    <2>4. ASSUME NEW r \in Request, Step(r)
          PROVE  /\ IsFiniteSet(PendingSet')
                 /\ metrics'["requests"] = metrics'["allowed"] + Cardinality(PendingSet')
        <3>1. Arrives(r) \/ Leaves(r) \/ Stays(r)
            BY <2>4, PathInvSplit, TallyStep
        <3>2. \A q \in Request \ {r} : Pending(q)' <=> Pending(q)
            BY <2>4, Frame DEF SameRequest, Pending
        <3>3. CASE Arrives(r)
            <4>1. PendingSet' = PendingSet \cup {r} /\ r \notin PendingSet
                BY <3>2, <3>3 DEF PendingSet, Arrives
            <4>2. IsFiniteSet(PendingSet') /\ Cardinality(PendingSet') = Cardinality(PendingSet) + 1
                BY <4>1, FS_AddElement
            <4> QED BY <2>1, <2>3, <3>3, <4>2 DEF Arrives
        <3>4. CASE Leaves(r)
            <4>1. PendingSet' = PendingSet \ {r} /\ r \in PendingSet
                BY <3>2, <3>4 DEF PendingSet, Leaves
            <4>2. IsFiniteSet(PendingSet') /\ Cardinality(PendingSet') = Cardinality(PendingSet) - 1
                BY <4>1, FS_RemoveElement
            <4> QED BY <2>1, <2>3, <3>4, <4>2 DEF Leaves
        <3>5. CASE Stays(r)
            <4>1. PendingSet' = PendingSet
                BY <3>2, <3>5 DEF PendingSet, Stays
            <4> QED BY <2>1, <3>5, <4>1 DEF Stays
        <3> QED BY <3>1, <3>3, <3>4, <3>5
    <2>5. CASE Swap \/ UNCHANGED vars
        <3>1. UNCHANGED <<pc, resp, sent, metrics>>
            BY <2>5 DEF Swap, vars, control, history
        <3> QED BY <2>1, <3>1 DEF PendingSet, Pending
    <2> QED BY <2>4, <2>5 DEF Next, Step
<1> QED BY <1>1, <1>2, PathInvariant, PTL DEF Spec

\* The enforced records and the detection records of all requests.
Enforced == {p \in Request \X AuditType : p[2] \in audit[p[1]] /\ p[2].enforced = TRUE}
Detected == {p \in Request \X AuditType : p[2] \in audit[p[1]] /\ p[2].enforced = FALSE}

\* A record that its request did not have yet.
Adds(r, rec) ==
    /\ rec \notin audit[r]
    /\ audit' = [audit EXCEPT ![r] = @ \cup {rec}]

\* What act_on writes and counts.
Enforces(r) ==
    /\ Adds(r, [at |-> pc[r], enforced |-> TRUE])
    /\ metrics'["blocked"] + metrics'["ratelimited"]
         = metrics["blocked"] + metrics["ratelimited"] + 1
    /\ metrics'["would_block"] = metrics["would_block"]
Detects(r) ==
    /\ Adds(r, [at |-> pc[r], enforced |-> FALSE])
    /\ metrics'["blocked"] + metrics'["ratelimited"] = metrics["blocked"] + metrics["ratelimited"]
    /\ metrics'["would_block"] = metrics["would_block"] + 1
WritesNothing ==
    /\ audit' = audit
    /\ \A c \in {"blocked", "ratelimited", "would_block"} : metrics'[c] = metrics[c]

\* act_on counts what it records, once.
LEMMA ActOnWrites ==
    ASSUME TypeOK, NEW r \in Request, NEW decision, NEW detect, NEW next,
           \A a \in audit[r] : a.at # pc[r],
           ActOn(r, decision, detect, next)
    PROVE  WritesNothing \/ Enforces(r) \/ Detects(r)
<1>1. \A c \in CounterName : metrics[c] \in Nat
    BY DEF TypeOK
<1>2. CASE UNCHANGED <<metrics, audit>>
    BY <1>2 DEF WritesNothing
<1>3. CASE /\ metrics' = Count(metrics, {"would_block"})
           /\ audit' = [audit EXCEPT ![r] = @ \cup {[at |-> pc[r], enforced |-> FALSE]}]
    <2>1. /\ metrics'["blocked"] = metrics["blocked"]
          /\ metrics'["ratelimited"] = metrics["ratelimited"]
          /\ metrics'["would_block"] = metrics["would_block"] + 1
        BY <1>3 DEF Count, CounterName
    <2>2. [at |-> pc[r], enforced |-> FALSE] \notin audit[r]
        OBVIOUS
    <2> QED BY <1>3, <2>1, <2>2 DEF Detects, Adds
<1>4. CASE /\ metrics' = Count(metrics, {IF decision = "limit" THEN "ratelimited" ELSE "blocked"})
           /\ audit' = [audit EXCEPT ![r] = @ \cup {[at |-> pc[r], enforced |-> TRUE]}]
    <2>1. /\ metrics'["blocked"] + metrics'["ratelimited"]
               = metrics["blocked"] + metrics["ratelimited"] + 1
          /\ metrics'["would_block"] = metrics["would_block"]
        BY <1>1, <1>4 DEF Count, CounterName
    <2>2. [at |-> pc[r], enforced |-> TRUE] \notin audit[r]
        OBVIOUS
    <2> QED BY <1>4, <2>1, <2>2 DEF Enforces, Adds
<1> QED BY <1>2, <1>3, <1>4 DEF ActOn

\* A step of a request writes at most one record, at a point of the path where
\* the request has none, and counts it.
LEMMA WriteStep ==
    ASSUME TypeOK, NEW r \in Request, Trail(r), Step(r)
    PROVE  WritesNothing \/ Enforces(r) \/ Detects(r)
<1> USE DEF shared, control, history
<1>1. CASE \/ Accept(r) \/ CheckAllowlist(r) \/ Admit(r) \/ Forward(r) \/ UpstreamHead(r)
           \/ UpstreamFailed(r) \/ UpstreamTimeout(r) \/ DecideBuffer(r) \/ ReadFrame(r)
           \/ FrameError(r) \/ LastFrame(r) \/ Deliver(r) \/ Drop(r)
    BY <1>1 DEF Accept, CheckAllowlist, Admit, Forward, UpstreamHead, UpstreamFailed,
                UpstreamTimeout, DecideBuffer, ReadFrame, FrameError, LastFrame, Deliver, Drop,
                UpstreamError, Count, CounterName, WritesNothing, TypeOK
<1>2. CASE RunStage(r) \/ ClearStack(r) \/ BodyGate(r) \/ CollectBody(r) \/ EvaluateResponse(r)
    <2>1. pc[r] \in {"early", "late", "gate", "collect", "judge_head", "judge_body"}
        BY <1>2 DEF RunStage, ClearStack, BodyGate, CollectBody, EvaluateResponse
    <2>2. \A a \in audit[r] : a.at # pc[r]
        BY <2>1 DEF Trail, Outbound, Returning
    <2>3. \/ UNCHANGED <<metrics, audit>>
          \/ \E decision, detect, next : ActOn(r, decision, detect, next)
        BY <1>2 DEF RunStage, ClearStack, BodyGate, CollectBody, EvaluateResponse
    <2> QED BY <2>2, <2>3, ActOnWrites DEF WritesNothing
<1> QED BY <1>1, <1>2 DEF Step, OwnStep, PeerStep

\* A new record of a request is one new record of the whole trail.
LEMMA AddsOne ==
    ASSUME TypeOK, NEW r \in Request, NEW rec \in AuditType, Adds(r, rec)
    PROVE  /\ rec.enforced = TRUE => /\ Enforced' = Enforced \cup {<<r, rec>>}
                                     /\ <<r, rec>> \notin Enforced
                                     /\ Detected' = Detected
           /\ rec.enforced = FALSE => /\ Detected' = Detected \cup {<<r, rec>>}
                                      /\ <<r, rec>> \notin Detected
                                      /\ Enforced' = Enforced
<1>1. \A p \in Request \X AuditType :
        p[2] \in audit'[p[1]] <=> p[2] \in audit[p[1]] \/ p = <<r, rec>>
    BY DEF Adds, TypeOK
<1> QED BY <1>1 DEF Adds, Enforced, Detected

\* The agreement of trail and counters, with the finiteness its cardinalities
\* need: records are written one at a time.
AuditInv ==
    /\ IsFiniteSet(Enforced) /\ IsFiniteSet(Detected)
    /\ metrics["blocked"] + metrics["ratelimited"] = Cardinality(Enforced)
    /\ metrics["would_block"] = Cardinality(Detected)

\* One enforced record for each block or rate limit counted, one detection record
\* for each would-be block, over all requests and any reloads (act_on).
THEOREM AuditExact == Spec => []AuditMatchesMetrics
<1>1. Init => AuditInv
    <2> SUFFICES ASSUME Init PROVE AuditInv
        OBVIOUS
    <2>1. Enforced = {} /\ Detected = {}
        BY DEF Init, Enforced, Detected
    <2>2. metrics["blocked"] = 0 /\ metrics["ratelimited"] = 0 /\ metrics["would_block"] = 0
        BY DEF Init, CounterName
    <2> QED BY <2>1, <2>2, FS_EmptySet DEF AuditInv
<1>2. TypeOK /\ RecordInv /\ AuditInv /\ [Next]_vars => AuditInv'
    <2> SUFFICES ASSUME TypeOK, RecordInv, AuditInv, [Next]_vars PROVE AuditInv'
        OBVIOUS
    <2>1. CASE WritesNothing
        <3>1. Enforced' = Enforced /\ Detected' = Detected
            BY <2>1 DEF WritesNothing, Enforced, Detected
        <3> QED BY <2>1, <3>1 DEF WritesNothing, AuditInv
    <2>2. ASSUME NEW r \in Request, Enforces(r) PROVE AuditInv'
        <3> DEFINE rec == [at |-> pc[r], enforced |-> TRUE]
        <3>1. rec \in AuditType /\ rec.enforced = TRUE /\ Adds(r, rec)
            BY <2>2 DEF TypeOK, AuditType, Enforces
        <3> HIDE DEF rec
        <3>2. /\ Enforced' = Enforced \cup {<<r, rec>>} /\ <<r, rec>> \notin Enforced
              /\ Detected' = Detected
            BY <3>1, AddsOne
        <3>3. IsFiniteSet(Enforced') /\ Cardinality(Enforced') = Cardinality(Enforced) + 1
            BY <3>2, FS_AddElement DEF AuditInv
        <3> QED BY <2>2, <3>2, <3>3 DEF Enforces, AuditInv
    <2>3. ASSUME NEW r \in Request, Detects(r) PROVE AuditInv'
        <3> DEFINE rec == [at |-> pc[r], enforced |-> FALSE]
        <3>1. rec \in AuditType /\ rec.enforced = FALSE /\ Adds(r, rec)
            BY <2>3 DEF TypeOK, AuditType, Detects
        <3> HIDE DEF rec
        <3>2. /\ Detected' = Detected \cup {<<r, rec>>} /\ <<r, rec>> \notin Detected
              /\ Enforced' = Enforced
            BY <3>1, AddsOne
        <3>3. IsFiniteSet(Detected') /\ Cardinality(Detected') = Cardinality(Detected) + 1
            BY <3>2, FS_AddElement DEF AuditInv
        <3> QED BY <2>3, <3>2, <3>3 DEF Detects, AuditInv
    <2>4. CASE Swap \/ UNCHANGED vars
        BY <2>1, <2>4 DEF Swap, vars, history, WritesNothing
    <2> QED BY <2>1, <2>2, <2>3, <2>4, WriteStep DEF Next, Step, RecordInv
<1>3. AuditInv => AuditMatchesMetrics
    <2>1. AuditCount(TRUE) = Cardinality(Enforced) /\ AuditCount(FALSE) = Cardinality(Detected)
        BY DEF AuditCount, Enforced, Detected
    <2> QED BY <2>1 DEF AuditInv, AuditMatchesMetrics
<1> QED BY <1>1, <1>2, <1>3, TypeCorrect, RecordInvariant, PTL DEF Spec

-----------------------------------------------------------------------------
(* What a step of a request in flight depends on. *)

\* handle takes a request's attributes and its config once, when it is accepted.
LEMMA SnapshotKept ==
    ASSUME TypeOK, NEW r \in Request, Step(r), pc[r] # "idle"
    PROVE  /\ attr'[r] = attr[r] /\ cfg'[r] = cfg[r] /\ onError' = onError
           /\ pc'[r] # "idle"
<1> USE DEF shared, control, history, Goto, TypeOK
<1>1. CASE Accept(r) \/ CheckAllowlist(r) \/ Admit(r) \/ Forward(r) \/ UpstreamHead(r)
    BY <1>1 DEF Accept, CheckAllowlist, Admit, Forward, UpstreamHead
<1>2. CASE RunStage(r) \/ ClearStack(r)
    BY <1>2 DEF RunStage, ClearStack, ActOn, AfterStack
<1>3. CASE BodyGate(r) \/ CollectBody(r) \/ EvaluateResponse(r)
    BY <1>3 DEF BodyGate, CollectBody, EvaluateResponse, ActOn
<1>4. CASE UpstreamFailed(r) \/ UpstreamTimeout(r) \/ ReadFrame(r) \/ FrameError(r)
    BY <1>4 DEF UpstreamFailed, UpstreamTimeout, ReadFrame, FrameError, UpstreamError
<1>5. CASE DecideBuffer(r) \/ LastFrame(r) \/ Deliver(r) \/ Drop(r)
    BY <1>5 DEF DecideBuffer, LastFrame, Deliver, Drop
<1> QED BY <1>1, <1>2, <1>3, <1>4, <1>5 DEF Step, OwnStep, PeerStep

\* The bypass is granted once, by the allowlist in force.
LEMMA BypassIsListed ==
    ASSUME TypeOK, NEW r \in Request, Step(r)
    PROVE  bypass'[r] => bypass[r] \/ Client(r) \subseteq allow
<1> USE DEF shared, control, history, TypeOK
<1>1. CASE CheckAllowlist(r)
    BY <1>1 DEF CheckAllowlist
<1>2. CASE ~CheckAllowlist(r)
  <2>1. bypass' = bypass
      BY <1>2 DEF Step, OwnStep, PeerStep, Accept, Admit, Forward, UpstreamHead, RunStage,
         ClearStack, BodyGate, CollectBody, EvaluateResponse, UpstreamFailed, UpstreamTimeout,
         ReadFrame, FrameError, DecideBuffer, LastFrame, Deliver, Drop
  <2> QED BY <2>1
<1> QED BY <1>1, <1>2

\* Under on_error = "closed" the blocklist stage does not let a listed client pass,
\* not even by panicking.
LEMMA ListedIsStopped ==
    ASSUME TypeOK, NEW r \in Request, Step(r), onError = "closed", Client(r) \subseteq blocks,
           "reputation" \notin ran[r]
    PROVE  "reputation" \notin ran'[r]
<1> USE DEF shared, control, history, TypeOK
<1>1. CASE RunStage(r)
  <2> DEFINE stage == Stack(pc[r])[idx[r]]
  <2>1. PICK verdict \in Inspect(r, stage) :
            \/ Skips(verdict) /\ ran' = [ran EXCEPT ![r] = @ \cup {stage}]
            \/ ran' = ran
      BY <1>1 DEF RunStage
  <2>2. CASE Skips(verdict) /\ ran' = [ran EXCEPT ![r] = @ \cup {stage}]
    <3>1. verdict = "continue"
        BY <2>2 DEF Skips
    <3>2. stage # "reputation"
        BY <2>1, <3>1 DEF Inspect, ReputationInspect
    <3> HIDE DEF stage
    <3> QED BY <2>2, <3>2
  <2> QED BY <2>1, <2>2
<1>2. CASE ~RunStage(r)
  <2>1. ran' = ran
      BY <1>2 DEF Step, OwnStep, PeerStep, Accept, Admit, Forward, UpstreamHead, CheckAllowlist,
         ClearStack, BodyGate, CollectBody, EvaluateResponse, UpstreamFailed, UpstreamTimeout,
         ReadFrame, FrameError, DecideBuffer, LastFrame, Deliver, Drop
  <2> QED BY <2>1
<1> QED BY <1>1, <1>2
=============================================================================
