--------------------------- MODULE FirewallProofs ---------------------------
(***************************************************************************)
(* What the whole process guarantees, from what its two halves do: the      *)
(* supervisor's theorems and the request path's carry over to it, and        *)
(* together they say what a ban and a reload mean for the requests.          *)
(***************************************************************************)
EXTENDS Firewall, TLAPS

SP == INSTANCE SupervisorProofs

RP == INSTANCE RequestPathProofs WITH
        config <- ConfigOf[live["config"]],
        rules <- RulesOf[live["rules"]],
        allow <- AllowOf[live["allowlist"]],
        blocks <- {ip \in IP : S!Matched(blocks, ip, now)}

-----------------------------------------------------------------------------
(* The two halves under the names their theorems use. *)

\* The supervisor proved correct is the one that runs here.
LEMMA SupervisorSame ==
    /\ S!Init => SP!Init
    /\ [S!Next]_(S!vars) => [SP!Next]_(SP!vars)
BY DEF S!Gen, SP!Gen, S!ApplyFile, SP!ApplyFile, S!File, SP!File, S!diskVars, SP!diskVars,
       S!locals, SP!locals, S!signals, SP!signals, S!process, SP!process, S!vars, SP!vars,
       S!Init, SP!Init, S!WritePid, SP!WritePid, S!InstallHangup, SP!InstallHangup,
       S!ProxyBind, SP!ProxyBind, S!Selecting, SP!Selecting, S!OnCancelled, SP!OnCancelled,
       S!OnShutdown, SP!OnShutdown, S!OnHangup, SP!OnHangup, S!OnRefreshTick,
       SP!OnRefreshTick, S!OnMaintenance, SP!OnMaintenance, S!BackToSelect, SP!BackToSelect,
       S!LoadConfig, SP!LoadConfig, S!LoadStep, SP!LoadStep, S!StoreStep, SP!StoreStep,
       S!AfterLoad, SP!AfterLoad, S!AfterStore, SP!AfterStore, S!Compiles, SP!Compiles,
       S!ApplyLoad, SP!ApplyLoad, S!ApplyStore, SP!ApplyStore, S!RefreshConfig,
       SP!RefreshConfig, S!AfterRefresh, SP!AfterRefresh, S!BuildBlocks, SP!BuildBlocks,
       S!FetchFeed, SP!FetchFeed, S!SwapBlocks, SP!SwapBlocks, S!StoreConfig,
       SP!StoreConfig, S!ProxyStop, SP!ProxyStop, S!Exit, SP!Exit, S!SigHup, SP!SigHup,
       S!SigTerm, SP!SigTerm, S!Edit, SP!Edit, S!EditBans, SP!EditBans, S!Tick, SP!Tick,
       S!Work, SP!Work, S!Branch, SP!Branch, S!Main, SP!Main, S!Operator, SP!Operator,
       S!Next, SP!Next, S!Active, SP!Active, S!Perm, SP!Perm, S!Kept, SP!Kept,
       S!ParseBlocklist, SP!ParseBlocklist, S!Pruned, SP!Pruned

\* The request path proved correct is the one that runs here.
LEMMA PathSame ==
    /\ R!Init => RP!Init
    /\ [R!Next]_(R!vars) => [RP!Next]_(RP!vars)
    /\ \A r : R!OwnStep(r) \/ R!PeerStep(r) \/ R!UpstreamTimeout(r) => RP!Step(r)
<1> USE DEF R!shared, RP!shared, R!control, RP!control, R!history, RP!history, R!vars, RP!vars,
       R!AtAwait, RP!AtAwait, R!CounterName, RP!CounterName, R!Count, RP!Count, R!Init,
       RP!Init, R!Goto, RP!Goto, R!ResolveClient, RP!ResolveClient, R!Client, RP!Client,
       R!DeclaredLenOver, RP!DeclaredLenOver, R!ActOn, RP!ActOn, R!UpstreamError,
       RP!UpstreamError, R!Accept, RP!Accept, R!CheckAllowlist, RP!CheckAllowlist, R!Stack,
       RP!Stack, R!AfterStack, RP!AfterStack, R!ReputationInspect, RP!ReputationInspect,
       R!GeoInspect, RP!GeoInspect, R!RateLimitInspect, RP!RateLimitInspect,
       R!SanityInspect, RP!SanityInspect, R!NormalizeInspect, RP!NormalizeInspect,
       R!RulesInspect, RP!RulesInspect, R!SignatureInspect, RP!SignatureInspect, R!Inspect,
       RP!Inspect, R!Skips, RP!Skips, R!Decision, RP!Decision, R!RunStage, RP!RunStage,
       R!ClearStack, RP!ClearStack, R!BodyGate, RP!BodyGate, R!CollectBody, RP!CollectBody,
       R!Admit, RP!Admit, R!Forward, RP!Forward, R!UpstreamHead, RP!UpstreamHead,
       R!UpstreamFailed, RP!UpstreamFailed, R!UpstreamTimeout, RP!UpstreamTimeout,
       R!WorthBuffering, RP!WorthBuffering, R!DecideBuffer, RP!DecideBuffer, R!ReadFrame,
       RP!ReadFrame, R!FrameError, RP!FrameError, R!LastFrame, RP!LastFrame,
       R!EvaluateResponse, RP!EvaluateResponse, R!Deliver, RP!Deliver, R!Drop, RP!Drop,
       R!Swap, RP!Swap, R!OwnStep, RP!OwnStep, R!PeerStep, RP!PeerStep, R!Next, RP!Next
<1>1. R!Init => RP!Init
    OBVIOUS
<1>2. [R!Next]_(R!vars) => [RP!Next]_(RP!vars)
    OBVIOUS
<1>3. ASSUME NEW r, R!OwnStep(r) \/ R!PeerStep(r) \/ R!UpstreamTimeout(r)
      PROVE  RP!Step(r)
    BY <1>3 DEF RP!Step
<1> HIDE DEF R!Init, R!Next, R!vars, R!OwnStep, R!PeerStep, R!UpstreamTimeout,
             RP!Init, RP!Next, RP!vars
<1> QED BY <1>1, <1>2, <1>3

\* A list means the same to both.
LEMMA ListsSame ==
    ASSUME NEW list, NEW ip, NEW t
    PROVE  /\ S!Matched(list, ip, t) = SP!Matched(list, ip, t)
           /\ S!ParseBlocklist(list, t) = SP!ParseBlocklist(list, t)
BY DEF S!Matched, SP!Matched, S!Active, SP!Active, S!ParseBlocklist, SP!ParseBlocklist,
       S!Kept, SP!Kept

\* The files and lists are what the supervisor expects.
LEMMA SupervisorAssumptions == SP!Fail2banAssumption /\ SP!SupervisorAssumption
BY FirewallAssumption DEF S!Fail2banAssumption, SP!Fail2banAssumption, S!SupervisorAssumption,
       SP!SupervisorAssumption, S!Gen, SP!Gen, S!LineType, SP!LineType

\* The requests and the stages are what the request path expects.
LEMMA PathAssumptions == RP!DataAssumption /\ RP!StageAssumption
BY FirewallAssumption DEF R!DataAssumption, RP!DataAssumption, R!StageAssumption,
       RP!StageAssumption, R!ConfigType, RP!ConfigType, R!RuleSetType, RP!RuleSetType,
       R!AttrType, RP!AttrType, R!ReplyType, RP!ReplyType, R!StageName, RP!StageName

-----------------------------------------------------------------------------
(* Refinement. *)

\* No request touches anything of the supervisor's.
LEMMA SupervisorView == [Next]_vars => [S!Next]_(S!vars)
BY DEF Next, vars, SupervisorStep, ServeRequest, RequestStep, supervisorVars,
       S!vars, S!diskVars, S!locals, S!signals, S!process

\* Seen from its files, its signals and its cells, the process is the supervisor of
\* Supervisor: traffic never disturbs a reload (main::run, supervise).
THEOREM IsSupervisor == Spec => S!Spec
<1>1. Init => S!Init
    BY DEF Init
<1> QED BY <1>1, SupervisorView, PTL DEF Spec, S!Spec

\* All that is proved of the supervisor's state holds in the process.
LEMMA SupervisorHolds == Spec => []SP!SupervisorInv
<1>1. SP!Fail2banAssumption
    BY SupervisorAssumptions
<1>2. SP!SupervisorAssumption
    BY SupervisorAssumptions
<1>3. Init => SP!Init
    BY SupervisorSame DEF Init
<1>4. [Next]_vars => [SP!Next]_(SP!vars)
    BY SupervisorSame, SupervisorView
<1> QED BY <1>1, <1>2, <1>3, <1>4, SP!SupervisorInvariant, PTL DEF Spec, SP!Spec

\* A step of the supervisor stores one cell of the requests' or none.
LEMMA StoresOneCell ==
    ASSUME SP!TypeOK, S!Next, UNCHANGED requestVars
    PROVE  R!Swap
<1>0. SP!Fail2banAssumption /\ SP!SupervisorAssumption /\ [SP!Next]_(SP!vars)
    BY SupervisorAssumptions, SupervisorSame
<1>1. /\ live \in [SP!File -> S!Gen] /\ new \in [SP!File -> S!Gen]
      /\ SP!File = {"signatures", "rules", "allowlist", "config"}
    BY DEF SP!TypeOK, SP!File, SP!ApplyFile, S!Gen, SP!Gen
<1>2. \/ live' = live
      \/ /\ blocks' = blocks /\ now' = now
         /\ \E f \in SP!File : live' = [live EXCEPT ![f] = new[f]]
    BY <1>0, SP!OneCell
<1>3. {ip \in IP : S!Matched(blocks, ip, now)}' \in IpLists
    BY FirewallAssumption
<1>4. UNCHANGED <<onError, R!control, metrics, R!history>>
    BY DEF requestVars, R!control, R!history
<1>5. CASE live' = live
    BY <1>3, <1>4, <1>5 DEF R!Swap
<1>6. ASSUME NEW f \in SP!File, live' = [live EXCEPT ![f] = new[f]],
             blocks' = blocks, now' = now
      PROVE  R!Swap
  <2>1. /\ f # "config" => live'["config"] = live["config"]
        /\ f # "rules" => live'["rules"] = live["rules"]
        /\ f # "allowlist" => live'["allowlist"] = live["allowlist"]
      BY <1>1, <1>6
  <2>2. /\ ConfigOf[live'["config"]] \in Configs
        /\ RulesOf[live'["rules"]] \in RuleSets
        /\ AllowOf[live'["allowlist"]] \in IpLists
    <3>1. live' \in [SP!File -> S!Gen]
        BY <1>1, <1>6
    <3> QED BY <1>1, <3>1, FirewallAssumption
  <2>3. {ip \in IP : S!Matched(blocks, ip, now)}' = {ip \in IP : S!Matched(blocks, ip, now)}
      BY <1>6 DEF S!Matched, S!Active
  <2>4. CASE f = "config"
      BY <1>4, <2>1, <2>2, <2>3, <2>4 DEF R!Swap
  <2>5. CASE f = "rules"
      BY <1>4, <2>1, <2>2, <2>3, <2>5 DEF R!Swap
  <2>6. CASE f \notin {"config", "rules"}
      BY <1>4, <2>1, <2>2, <2>3, <2>6 DEF R!Swap
  <2> QED BY <2>4, <2>5, <2>6
<1> QED BY <1>2, <1>5, <1>6

\* Seen from the requests, a step of the process is one of theirs or one store of a
\* cell.
LEMMA PathView == SP!TypeOK /\ [Next]_vars => [R!Next]_(R!vars)
<1>1. ASSUME SP!TypeOK, SupervisorStep
      PROVE  R!Next
    BY <1>1, StoresOneCell DEF SupervisorStep, R!Next
<1>2. ASSUME NEW r \in Request, ServeRequest(r) \/ RequestStep(r)
      PROVE  R!Next
    BY <1>2 DEF ServeRequest, RequestStep, R!Next, R!PeerStep
<1>3. ASSUME UNCHANGED vars
      PROVE  UNCHANGED R!vars
    BY <1>3 DEF vars, supervisorVars, requestVars, R!vars, R!shared, R!control, R!history,
       S!Matched, S!Active
<1> QED BY <1>1, <1>2, <1>3 DEF Next

\* What RequestPath takes for granted of its cells is what the supervisor does: all
\* that holds of the request path alone holds of the process (Reloadable, ArcSwap).
THEOREM IsRequestPath == Spec => ImplementsRequestPath
<1>1. Init => R!Init
    BY DEF Init
<1>2. SP!SupervisorInv => SP!TypeOK
    BY DEF SP!SupervisorInv
<1> QED BY <1>1, <1>2, PathView, SupervisorHolds, PTL DEF Spec, ImplementsRequestPath, R!Spec

\* All that is proved of a request's state holds in the process.
LEMMA PathHolds == Spec => [](RP!TypeOK /\ RP!PathInv /\ RP!RecordInv)
<1>1. RP!DataAssumption
    BY PathAssumptions
<1>2. RP!StageAssumption
    BY PathAssumptions
<1>3. R!Init => RP!Init
    BY PathSame
<1>4. [R!Next]_(R!vars) => [RP!Next]_(RP!vars)
    BY PathSame
<1> QED
    BY <1>1, <1>2, <1>3, <1>4, IsRequestPath, RP!PathInvariant,
       RP!RecordInvariant, PTL
       DEF ImplementsRequestPath, R!Spec, RP!Spec

-----------------------------------------------------------------------------
(* What a request in flight keeps. *)

\* The file bans the client of r at this moment.
ClientBanned(r) ==
    \A ip \in R!Client(r) : S!Matched(S!ParseBlocklist(bans, now), ip, now)

\* While some request is held to a ban, the bans of the file are in force, and no
\* such request has got past the blocklist by anything but a panic.
BanInv ==
    /\ banned \subseteq Request
    /\ banned # {} => bansOk /\ SP!BanInForce
    /\ \A r \in banned :
          /\ pc[r] # "idle" /\ ClientBanned(r)
          /\ onError = "closed" => "reputation" \notin ran[r]

\* While some request is held to a reload, what is in force is what is on disk; its
\* config is, and the allowlist that let it bypass is.
CurrentInv ==
    /\ current \subseteq Request
    /\ current # {} => SP!StayInv
    /\ \A r \in current :
          /\ pc[r] # "idle"
          /\ cfg[r] = ConfigOf[disk["config"].gen]
          /\ bypass[r] => R!Client(r) \subseteq AllowOf[disk["allowlist"].gen]

\* No reply of a request held to a reload is judged by its head where the rules on
\* disk ask for its body.
BodyInv == \A r \in current : RP!BodySeen(r)

\* A request of this process is a request of the request path.
LEMMA RequestSteps ==
    ASSUME NEW r \in Request, RequestStep(r)
    PROVE  RP!Step(r)
BY PathSame DEF RequestStep

\* Accepting a request takes its snapshot and touches no other.
LEMMA Accepted ==
    ASSUME RP!TypeOK, RP!PathInv, NEW r \in Request, ServeRequest(r)
    PROVE  /\ pc[r] = "idle" /\ pc'[r] # "idle"
           /\ attr'[r] \in Attrs /\ cfg'[r] = ConfigOf[live["config"]]
           /\ ran'[r] = {} /\ bypass'[r] = FALSE
           /\ \A q \in Request \ {r} : pc'[q] = pc[q] /\ attr'[q] = attr[q] /\ cfg'[q] = cfg[q]
           /\ UNCHANGED <<onError, ran, bypass>>
           /\ pc'[r] = "allowlist" /\ judged'[r] = {} /\ UNCHANGED <<reply, judged>>
<1>1. R!Accept(r)
    BY DEF ServeRequest
<1>2. /\ pc \in [Request -> RP!PC] /\ attr \in [Request -> Attrs] /\ cfg \in [Request -> Configs]
      /\ bypass \in [Request -> BOOLEAN]
    BY DEF RP!TypeOK
<1>3. /\ pc[r] = "idle" /\ pc' = [pc EXCEPT ![r] = "allowlist"]
      /\ \E a \in Attrs : attr' = [attr EXCEPT ![r] = a]
      /\ cfg' = [cfg EXCEPT ![r] = ConfigOf[live["config"]]]
      /\ UNCHANGED <<onError, ran, bypass, reply, judged>>
    BY <1>1 DEF R!Accept, R!Goto, R!history
<1>4. ran[r] = {} /\ bypass[r] = FALSE /\ judged[r] = {}
  <2>1. RP!Screened(r) /\ RP!Answered(r)
      BY DEF RP!PathInv
  <2> QED BY <1>2, <1>3, <2>1 DEF RP!Screened, RP!Answered, RP!Untouched
<1> QED BY <1>2, <1>3, <1>4

\* The client of a request is one address at least, and an address.
LEMMA ClientKnown ==
    ASSUME NEW a \in Attrs, NEW c \in Configs
    PROVE  R!ResolveClient(a, c) # {} /\ R!ResolveClient(a, c) \subseteq IP
<1>1. a.peer \in IP /\ a.header \in SUBSET IP
  <2>1. a \in R!AttrType
      BY FirewallAssumption DEF R!DataAssumption
  <2> QED BY <2>1 DEF R!AttrType
<1> QED BY <1>1 DEF R!ResolveClient

-----------------------------------------------------------------------------
(* Bans. *)

\* No step lets a request held to a ban past the blocklist.
LEMMA BanStep ==
    ASSUME SP!SupervisorInv, RP!TypeOK, RP!PathInv, BanInv, [Next]_vars
    PROVE  BanInv'
<1>0. SP!Fail2banAssumption /\ SP!SupervisorAssumption /\ RP!DataAssumption /\ RP!StageAssumption
    BY SupervisorAssumptions, PathAssumptions
<1>1. CASE SupervisorStep
  <2>1. S!Next /\ UNCHANGED <<onError, pc, attr, cfg, ran>> /\ banned' = {r \in banned : BanLasts(r)}
      BY <1>1 DEF SupervisorStep, requestVars
  <2>2. ASSUME NEW r \in banned'
        PROVE  /\ r \in banned /\ bansOk' /\ bans' = bans
               /\ ClientBanned(r)'
    <3>1. r \in banned /\ BanLasts(r)
        BY <2>1
    <3>2. R!Client(r)' = R!Client(r)
        BY <2>1 DEF R!Client
    <3> QED BY <3>1, <3>2 DEF BanLasts, ClientBanned
  <2>3. ASSUME NEW r \in banned'
        PROVE  bansOk' /\ SP!BanInForce'
    <3>1. bansOk /\ SP!BanInForce /\ bans' = bans
        BY <2>2 DEF BanInv
    <3>2. [SP!Next]_(SP!vars) /\ SP!TypeOK
        BY <2>1, SupervisorSame DEF SP!SupervisorInv
    <3> QED BY <1>0, <2>2, <3>1, <3>2, SP!BanStays
  <2> QED BY <2>1, <2>2, <2>3 DEF BanInv
<1>2. ASSUME NEW r \in Request, ServeRequest(r)
      PROVE  BanInv'
  <2>1. UNCHANGED <<now, bans, bansOk, blocks, fresh, sup>>
      BY <1>2 DEF ServeRequest, supervisorVars
  <2>2. SP!BanInForce => SP!BanInForce'
      BY <2>1 DEF SP!BanInForce, SP!Holds, SP!ParseBlocklist, SP!Kept, SP!Active
  <2>3. ASSUME NEW q \in banned
        PROVE  /\ q \in Request /\ q # r /\ pc'[q] # "idle" /\ ClientBanned(q)'
               /\ onError' = "closed" => "reputation" \notin ran'[q]
    <3>1. q \in Request /\ q # r /\ pc'[q] = pc[q] /\ R!Client(q)' = R!Client(q)
        BY <1>2, <2>3, Accepted DEF BanInv, R!Client
    <3>2. ClientBanned(q)'
        BY <2>1, <2>3, <3>1 DEF BanInv, ClientBanned, S!Matched, S!ParseBlocklist, S!Kept, S!Active
    <3> QED BY <1>2, <2>3, <3>1, <3>2, Accepted DEF BanInv
  <2>4. ASSUME r \in banned'
        PROVE  /\ bansOk' /\ SP!BanInForce'
               /\ pc'[r] # "idle" /\ ClientBanned(r)' /\ "reputation" \notin ran'[r]
    <3>1. \A ip \in R!Client(r)' : BanAnnounced(ip)
        BY <1>2, <2>3, <2>4 DEF ServeRequest
    <3>2. R!Client(r)' # {}
      <4>1. attr'[r] \in Attrs /\ cfg'[r] \in Configs
        <5>1. live["config"] \in S!Gen
            BY DEF SP!SupervisorInv, SP!TypeOK, SP!File, SP!ApplyFile, S!Gen, SP!Gen
        <5> QED BY <1>2, <5>1, Accepted, FirewallAssumption
      <4> QED BY <4>1, ClientKnown DEF R!Client
    <3>3. SP!Idle /\ covered /\ bansOk /\ disk["config"].ok
        BY <3>1, <3>2 DEF BanAnnounced, S!Idle, SP!Idle
    <3>4. SP!BanInForce
        BY <1>0, <3>3, SP!BanArrives DEF SP!SupervisorInv
    <3>5. ClientBanned(r)'
        BY <2>1, <3>1 DEF BanAnnounced, ClientBanned, S!Matched, S!ParseBlocklist, S!Kept, S!Active
    <3> QED BY <1>2, <2>1, <2>2, <3>3, <3>4, <3>5, Accepted
  <2>5. banned' \subseteq banned \cup {r}
      BY <1>2 DEF ServeRequest
  <2> QED BY <2>1, <2>2, <2>3, <2>4, <2>5 DEF BanInv
<1>3. ASSUME NEW r \in Request, RequestStep(r)
      PROVE  BanInv'
  <2>1. UNCHANGED <<now, bans, bansOk, blocks, fresh, sup, banned>> /\ pc[r] # "idle"
      BY <1>3 DEF RequestStep, supervisorVars
  <2>2. SP!BanInForce => SP!BanInForce'
      BY <2>1 DEF SP!BanInForce, SP!Holds, SP!ParseBlocklist, SP!Kept, SP!Active
  <2>3. RP!Step(r)
      BY <1>3, RequestSteps
  <2>4. ASSUME NEW q \in banned
        PROVE  /\ q \in Request /\ pc'[q] # "idle" /\ ClientBanned(q)'
               /\ onError' = "closed" => "reputation" \notin ran'[q]
    <3>1. onError' = onError /\ pc'[r] # "idle" /\ attr'[r] = attr[r] /\ cfg'[r] = cfg[r]
        BY <1>0, <2>1, <2>3, RP!SnapshotKept
    <3>2. q \in Request /\ pc[q] # "idle" /\ ClientBanned(q)
        BY <2>4 DEF BanInv
    <3>3. ASSUME q # r PROVE RP!SameRequest(q)
        BY <1>0, <2>3, <3>2, <3>3, RP!Frame
    <3>4. pc'[q] # "idle" /\ attr'[q] = attr[q] /\ cfg'[q] = cfg[q]
        BY <3>1, <3>2, <3>3 DEF RP!SameRequest
    <3>5. R!Client(q)' = R!Client(q)
        BY <3>4 DEF R!Client
    <3>6. ClientBanned(q)'
        BY <2>1, <3>2, <3>5 DEF ClientBanned, S!Matched, S!ParseBlocklist, S!Kept, S!Active
    <3>7. ASSUME onError = "closed"
          PROVE  "reputation" \notin ran'[q]
      <4>1. "reputation" \notin ran[q]
          BY <2>4, <3>7 DEF BanInv
      <4>2. CASE q # r
          BY <3>3, <4>1, <4>2 DEF RP!SameRequest
      <4>3. CASE q = r
        <5>1. RP!Client(r) \subseteq {ip \in IP : S!Matched(blocks, ip, now)}
          <6>1. R!Client(q) \subseteq IP
            <7>1. attr[q] \in Attrs /\ cfg[q] \in Configs
                BY <3>2 DEF RP!TypeOK
            <7> QED BY <7>1, ClientKnown DEF R!Client
          <6>2. S!ParseBlocklist(bans, now) \subseteq blocks
              BY <2>4, ListsSame DEF BanInv, SP!BanInForce, SP!Holds
          <6>3. RP!Client(r) = R!Client(q)
              BY <4>3 DEF RP!Client, R!Client, RP!ResolveClient, R!ResolveClient
          <6> QED BY <3>2, <6>1, <6>2, <6>3 DEF ClientBanned, S!Matched
        <5> QED BY <1>0, <2>3, <3>7, <4>1, <4>3, <5>1, RP!ListedIsStopped
      <4> QED BY <4>2, <4>3
    <3> QED BY <3>1, <3>2, <3>4, <3>6, <3>7
  <2> QED BY <2>1, <2>2, <2>4 DEF BanInv
<1>4. CASE UNCHANGED vars
  <2>1. UNCHANGED <<now, bans, bansOk, blocks, fresh, sup, banned, onError, pc, attr, cfg, ran>>
      BY <1>4 DEF vars, supervisorVars, requestVars
  <2>2. SP!BanInForce => SP!BanInForce'
      BY <2>1 DEF SP!BanInForce, SP!Holds, SP!ParseBlocklist, SP!Kept, SP!Active
  <2>3. \A r : ClientBanned(r) => ClientBanned(r)'
      BY <2>1 DEF ClientBanned, R!Client, S!Matched, S!ParseBlocklist, S!Kept, S!Active
  <2> QED BY <2>1, <2>2, <2>3 DEF BanInv
<1> QED BY <1>1, <1>2, <1>3, <1>4 DEF Next

\* A ban that was announced keeps its address from the backend, for any lists,
\* feeds, reloads and requests in flight (ban, refresh_blocklist, ReputationStage,
\* handle_inner).
THEOREM BanKept == Spec => []BanKeepsOut
<1>1. Init => BanInv
    BY DEF Init, BanInv
<1>2. RP!TypeOK /\ RP!PathInv /\ BanInv => BanKeepsOut
  <2> SUFFICES ASSUME RP!TypeOK, RP!PathInv, BanInv, NEW r \in banned, sent[r], ~bypass[r],
                      ~cfg[r].detect, onError # "open"
               PROVE  FALSE
      BY DEF BanKeepsOut
  <2>1. RP!Cleared(r)
      BY DEF RP!PathInv, RP!ForwardedWasCleared, BanInv
  <2>2. "reputation" \in ran[r]
      BY <2>1, FirewallAssumption DEF RP!Cleared, RP!EarlyCleared, RP!StageNames, R!StageNames
  <2>3. onError = "closed"
      BY DEF RP!TypeOK
  <2> QED BY <2>2, <2>3 DEF BanInv
<1>3. SP!SupervisorInv /\ (RP!TypeOK /\ RP!PathInv /\ RP!RecordInv) /\ BanInv /\ [Next]_vars => BanInv'
    BY BanStep
<1> QED BY <1>1, <1>2, <1>3, SupervisorHolds, PathHolds, PTL DEF Spec

-----------------------------------------------------------------------------
(* Reloads. *)

\* No step takes a request held to a reload back to what was in force before.
LEMMA CurrentStep ==
    ASSUME SP!SupervisorInv, RP!TypeOK, RP!PathInv, CurrentInv, [Next]_vars
    PROVE  CurrentInv'
<1>0. SP!Fail2banAssumption /\ SP!SupervisorAssumption /\ RP!DataAssumption /\ RP!StageAssumption
    BY SupervisorAssumptions, PathAssumptions
<1>1. CASE SupervisorStep
  <2>1. /\ S!Next /\ UNCHANGED <<pc, attr, cfg, bypass>>
        /\ current' = IF edits' = edits THEN current ELSE {}
      BY <1>1 DEF SupervisorStep, requestVars
  <2>2. CASE current' = {}
      BY <2>2 DEF CurrentInv
  <2>3. CASE current' # {}
    <3>1. edits' = edits /\ current' = current /\ SP!StayInv
        BY <2>1, <2>3 DEF CurrentInv
    <3>2. [SP!Next]_(SP!vars) /\ SP!TypeOK /\ SP!CauseInv
        BY <2>1, SupervisorSame DEF SP!SupervisorInv
    <3>3. SP!StayInv'
        BY <1>0, <3>1, <3>2, SP!ReloadStays
    <3>4. disk' = disk
        BY <1>0, <3>1, <3>2, SP!OnlyEditsWrite
    <3>5. \A r : R!Client(r)' = R!Client(r)
        BY <2>1 DEF R!Client
    <3> QED BY <2>1, <3>1, <3>3, <3>4, <3>5 DEF CurrentInv
  <2> QED BY <2>2, <2>3
<1>2. ASSUME NEW r \in Request, ServeRequest(r)
      PROVE  CurrentInv'
  <2>1. UNCHANGED supervisorVars /\ UNCHANGED disk
      BY <1>2 DEF ServeRequest, supervisorVars
  <2>2. SP!StayInv => SP!StayInv'
      BY <2>1 DEF supervisorVars, SP!StayInv, SP!AllGood, SP!InForce, SP!Seen
  <2>3. ASSUME NEW q \in current
        PROVE  /\ q \in Request /\ q # r /\ pc'[q] # "idle"
               /\ cfg'[q] = ConfigOf[disk'["config"].gen]
               /\ bypass'[q] => R!Client(q)' \subseteq AllowOf[disk'["allowlist"].gen]
    <3>1. q \in Request /\ q # r /\ pc'[q] = pc[q] /\ cfg'[q] = cfg[q] /\ bypass' = bypass
          /\ R!Client(q)' = R!Client(q)
        BY <1>2, <2>3, Accepted DEF CurrentInv, R!Client
    <3> QED BY <2>1, <2>3, <3>1 DEF CurrentInv
  <2>4. ASSUME r \in current'
        PROVE  /\ SP!StayInv' /\ pc'[r] # "idle" /\ bypass'[r] = FALSE
               /\ cfg'[r] = ConfigOf[disk'["config"].gen]
    <3>1. SP!Idle /\ covered /\ SP!AllGood
        BY <1>2, <2>3, <2>4 DEF ServeRequest, S!Idle, SP!Idle, S!AllGood, SP!AllGood, S!File,
           SP!File, S!ApplyFile, SP!ApplyFile
    <3>2. SP!StayInv
        BY <1>0, <3>1, SP!ReloadArrives DEF SP!SupervisorInv
    <3>3. live["config"] = disk["config"].gen
        BY <3>2 DEF SP!StayInv, SP!InForce, SP!File
    <3> QED BY <1>2, <2>1, <2>2, <3>2, <3>3, Accepted
  <2>5. current' \subseteq current \cup {r}
      BY <1>2 DEF ServeRequest
  <2> QED BY <2>2, <2>3, <2>4, <2>5 DEF CurrentInv
<1>3. ASSUME NEW r \in Request, RequestStep(r)
      PROVE  CurrentInv'
  <2>1. UNCHANGED supervisorVars /\ UNCHANGED disk /\ current' = current /\ pc[r] # "idle"
      BY <1>3 DEF RequestStep, supervisorVars
  <2>2. SP!StayInv => SP!StayInv'
      BY <2>1 DEF supervisorVars, SP!StayInv, SP!AllGood, SP!InForce, SP!Seen
  <2>3. RP!Step(r)
      BY <1>3, RequestSteps
  <2>4. ASSUME NEW q \in current
        PROVE  /\ q \in Request /\ pc'[q] # "idle"
               /\ cfg'[q] = ConfigOf[disk'["config"].gen]
               /\ bypass'[q] => R!Client(q)' \subseteq AllowOf[disk'["allowlist"].gen]
    <3>1. pc'[r] # "idle" /\ attr'[r] = attr[r] /\ cfg'[r] = cfg[r]
        BY <1>0, <2>1, <2>3, RP!SnapshotKept
    <3>2. q \in Request /\ pc[q] # "idle"
        BY <2>4 DEF CurrentInv
    <3>3. ASSUME q # r PROVE RP!SameRequest(q)
        BY <1>0, <2>3, <3>2, <3>3, RP!Frame
    <3>4. pc'[q] # "idle" /\ attr'[q] = attr[q] /\ cfg'[q] = cfg[q]
        BY <3>1, <3>2, <3>3 DEF RP!SameRequest
    <3>5. R!Client(q)' = R!Client(q)
        BY <3>4 DEF R!Client
    <3>6. ASSUME bypass'[q]
          PROVE  R!Client(q) \subseteq AllowOf[disk["allowlist"].gen]
      <4>1. CASE q # r
          BY <2>4, <3>3, <3>6, <4>1 DEF RP!SameRequest, CurrentInv
      <4>2. CASE q = r
        <5>1. bypass[r] \/ RP!Client(r) \subseteq AllowOf[live["allowlist"]]
            BY <1>0, <2>3, <3>6, <4>2, RP!BypassIsListed
        <5>2. live["allowlist"] = disk["allowlist"].gen
            BY <2>4 DEF CurrentInv, SP!StayInv, SP!InForce, SP!File, SP!ApplyFile
        <5>3. RP!Client(r) = R!Client(q)
            BY <4>2 DEF RP!Client, R!Client, RP!ResolveClient, R!ResolveClient
        <5> QED BY <2>4, <4>2, <5>1, <5>2, <5>3 DEF CurrentInv
      <4> QED BY <4>1, <4>2
    <3> QED BY <2>1, <2>4, <3>2, <3>4, <3>5, <3>6 DEF CurrentInv
  <2> QED BY <2>1, <2>2, <2>4 DEF CurrentInv
<1>4. CASE UNCHANGED vars
  <2>1. /\ UNCHANGED supervisorVars
        /\ UNCHANGED <<disk, current, pc, attr, cfg, bypass>>
      BY <1>4 DEF vars, supervisorVars, requestVars
  <2>2. SP!StayInv => SP!StayInv'
      BY <2>1 DEF supervisorVars, SP!StayInv, SP!AllGood, SP!InForce, SP!Seen
  <2>3. \A r : R!Client(r)' = R!Client(r)
      BY <2>1 DEF R!Client
  <2> QED BY <2>1, <2>2, <2>3 DEF CurrentInv
<1> QED BY <1>1, <1>2, <1>3, <1>4 DEF Next

\* A request accepted after a reload of good files runs on what is on disk, whatever
\* further reloads come while it is in flight (supervise, Reloadable::apply, handle).
THEOREM ReloadReached == Spec => []ReloadReachesRequests
<1>1. Init => CurrentInv
    BY DEF Init, CurrentInv
<1>2. CurrentInv => ReloadReachesRequests
    BY DEF CurrentInv, ReloadReachesRequests
<1>3. SP!SupervisorInv /\ (RP!TypeOK /\ RP!PathInv /\ RP!RecordInv) /\ CurrentInv /\ [Next]_vars => CurrentInv'
    BY CurrentStep
<1> QED BY <1>1, <1>2, <1>3, SupervisorHolds, PathHolds, PTL DEF Spec

\* While what is in force is what is on disk, no step lets a reply be judged by its
\* head where its body is asked for.
LEMMA BodyStep ==
    ASSUME SP!SupervisorInv, RP!TypeOK, RP!TypeOK', RP!PathInv, RP!RecordInv, RP!RecordInv',
           CurrentInv, CurrentInv', BodyInv, [Next]_vars
    PROVE  BodyInv'
<1>0. SP!Fail2banAssumption /\ SP!SupervisorAssumption /\ RP!DataAssumption /\ RP!StageAssumption
    BY SupervisorAssumptions, PathAssumptions
<1> SUFFICES ASSUME NEW q \in current' PROVE RP!BodySeen(q)'
    BY DEF BodyInv
<1>1. ASSUME NEW r \in Request, ServeRequest(r)
      PROVE  RP!BodySeen(q)'
  <2>1. CASE q = r
      BY <1>1, <2>1, Accepted DEF RP!BodySeen
  <2>2. CASE q # r
    <3>1. q \in current /\ q \in Request /\ RulesOf[live["rules"]]' = RulesOf[live["rules"]]
        BY <1>1, <2>2 DEF ServeRequest, supervisorVars, CurrentInv
    <3>2. pc'[q] = pc[q] /\ cfg'[q] = cfg[q] /\ reply' = reply /\ judged' = judged
        BY <1>1, <2>2, <3>1, Accepted
    <3> QED BY <3>1, <3>2 DEF BodyInv, RP!BodySeen, RP!WorthBuffering, RP!DeclaredLenOver
  <2> QED BY <2>1, <2>2
<1>2. ASSUME NEW r \in Request, RequestStep(r)
      PROVE  RP!BodySeen(q)'
  <2>1. q \in current /\ q \in Request /\ RulesOf[live["rules"]]' = RulesOf[live["rules"]]
      BY <1>2 DEF RequestStep, supervisorVars, CurrentInv
  <2>2. RP!Step(r)
      BY <1>2, RequestSteps
  <2>3. CASE q = r
      BY <1>0, <2>1, <2>2, <2>3, RP!BodySeenStep DEF RP!RecordInv, BodyInv
  <2>4. CASE q # r
    <3>1. RP!SameRequest(q)
        BY <1>0, <2>1, <2>2, <2>4, RP!Frame
    <3> QED BY <2>1, <3>1
            DEF BodyInv, RP!SameRequest, RP!BodySeen, RP!WorthBuffering, RP!DeclaredLenOver
  <2> QED BY <2>3, <2>4
<1>3. CASE SupervisorStep \/ UNCHANGED vars
  <2>1. q \in current /\ UNCHANGED <<pc, cfg, reply, judged>>
      BY <1>3 DEF SupervisorStep, requestVars, vars
  <2>2. live'["rules"] = live["rules"]
    <3>1. SP!StayInv /\ SP!StayInv'
        BY <2>1 DEF CurrentInv
    <3>2. disk' = disk
      <4>1. CASE SupervisorStep
        <5>1. edits' = edits
            BY <4>1 DEF SupervisorStep
        <5>2. [SP!Next]_(SP!vars) /\ SP!TypeOK
            BY <4>1, SupervisorSame DEF SupervisorStep, SP!SupervisorInv
        <5> QED BY <1>0, <5>1, <5>2, SP!OnlyEditsWrite
      <4>2. CASE UNCHANGED vars
          BY <4>2 DEF vars, supervisorVars
      <4> QED BY <1>3, <4>1, <4>2
    <3> QED BY <3>1, <3>2 DEF SP!StayInv, SP!InForce, SP!File, SP!ApplyFile
  <2> QED BY <2>1, <2>2 DEF BodyInv, RP!BodySeen, RP!WorthBuffering, RP!DeclaredLenOver
<1> QED BY <1>1, <1>2, <1>3 DEF Next

\* A response-body rule that a reload brought in judges the body of every inspectable
\* reply to a request taken up since: the two loads of the rules see the same rule set
\* whatever reloads run between them (supervise, Reloadable::apply, handle_inner).
THEOREM BodyRuleReached == Spec => []BodyRuleReachesReplies
<1>1. Init => CurrentInv /\ BodyInv
    BY DEF Init, CurrentInv, BodyInv
<1>2. CurrentInv /\ BodyInv => BodyRuleReachesReplies
  <2> SUFFICES ASSUME CurrentInv, BodyInv, NEW r \in current,
                      RulesOf[disk["rules"].gen].needsBody, reply[r].inspect,
                      ~R!DeclaredLenOver(reply[r].declared, cfg[r].cap), "head" \in judged[r]
               PROVE  FALSE
      BY DEF BodyRuleReachesReplies
  <2>1. live["rules"] = disk["rules"].gen
      BY DEF CurrentInv, SP!StayInv, SP!InForce, SP!File, SP!ApplyFile
  <2> QED BY <2>1 DEF BodyInv, RP!BodySeen, RP!WorthBuffering, RP!DeclaredLenOver,
             R!DeclaredLenOver
<1>3. SP!SupervisorInv /\ (RP!TypeOK /\ RP!PathInv /\ RP!RecordInv) /\ CurrentInv
      /\ [Next]_vars => CurrentInv'
    BY CurrentStep
<1>4. SP!SupervisorInv /\ (RP!TypeOK /\ RP!PathInv /\ RP!RecordInv)
      /\ (RP!TypeOK /\ RP!PathInv /\ RP!RecordInv)' /\ CurrentInv /\ CurrentInv' /\ BodyInv
      /\ [Next]_vars => BodyInv'
    BY BodyStep
<1> QED BY <1>1, <1>2, <1>3, <1>4, SupervisorHolds, PathHolds, PTL DEF Spec
=============================================================================
