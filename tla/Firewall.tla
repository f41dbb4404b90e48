------------------------------ MODULE Firewall ------------------------------
(***************************************************************************)
(* The running process: the request path and the supervisor on the cells    *)
(* they share.  What RequestPath takes as given, that its four cells may     *)
(* change at any moment, is here the supervisor's doing: the config, the     *)
(* rules and the allowlist in force are those of the generation that is     *)
(* live, the blocklist is the supervisor's, as it stands at this second.     *)
(***************************************************************************)
EXTENDS Naturals, Sequences, FiniteSets

CONSTANTS
    IP, Fail2ban, Inline, BanFiles, Feed, FeedLines, BadZone, Periodic, MaxEdits, MaxTime,
    Request, IpLists, Configs, RuleSets, Attrs, Replies, Early, Late,
    ConfigOf, RulesOf, AllowOf      \* what the files of each generation say

VARIABLES
    now, edits, disk, bans, bansOk, live, blocks, sup, cause, new, fresh, left,
    hup, term, handlers, cancel, proxy, proc, covered, applied, failed, termSent,
    onError, pc, attr, cfg, idx, body, reply, got, resp, metrics,
    bypass, ran, excused, sent, audit, judged,
    banned,         \* history: requests taken up under an announced ban that still lasts
    current         \* history: requests taken up after a reload, nothing edited since

S == INSTANCE Supervisor

\* The cells as a request loads them.
R == INSTANCE RequestPath WITH
        config <- ConfigOf[live["config"]],
        rules <- RulesOf[live["rules"]],
        allow <- AllowOf[live["allowlist"]],
        blocks <- {ip \in IP : S!Matched(blocks, ip, now)}

\* Every generation of the files holds what its cell can hold, any set of addresses
\* may come to be blocked, and Pipeline::from_config always puts the blocklist in.
ASSUME FirewallAssumption ==
    /\ S!SupervisorAssumption /\ S!Fail2banAssumption
    /\ R!DataAssumption /\ R!StageAssumption
    /\ ConfigOf \in [S!Gen -> Configs] /\ RulesOf \in [S!Gen -> RuleSets]
    /\ AllowOf \in [S!Gen -> IpLists] /\ IpLists = SUBSET IP
    /\ "reputation" \in R!StageNames(Early)

supervisorVars == <<now, edits, disk, bans, bansOk, live, blocks, sup, cause, new, fresh, left,
                    hup, term, handlers, cancel, proxy, proc, covered, applied, failed, termSent>>

requestVars == <<onError, pc, attr, cfg, idx, body, reply, got, resp, metrics,
                 bypass, ran, excused, sent, audit, judged>>

vars == <<supervisorVars, requestVars, banned, current>>

Init == S!Init /\ R!Init /\ banned = {} /\ current = {}

-----------------------------------------------------------------------------
\* The address is banned in the file, announced, and the supervisor has nothing
\* left to do about it.
BanAnnounced(ip) ==
    /\ S!Idle /\ covered /\ bansOk /\ disk["config"].ok
    /\ S!Matched(S!ParseBlocklist(bans, now), ip, now)

\* The ban of a request's client goes on.
BanLasts(r) ==
    bansOk' /\ bans' = bans
    /\ \A ip \in R!Client(r) : S!Matched(S!ParseBlocklist(bans, now'), ip, now')

\* A connection's task hands a request to `handle`.  The accept loop gave the
\* connection a task of its own, which goes on taking requests (keep-alive) after the
\* loop has stopped at the cancellation: only a listener that never bound has none.
ServeRequest(r) ==
    /\ proc = "up" /\ proxy \in {"serving", "stopped"}
    /\ UNCHANGED supervisorVars
    /\ R!Accept(r)
    /\ banned' = banned \cup {q \in {r} : \A ip \in R!Client(r)' : BanAnnounced(ip)}
    /\ current' = current \cup {q \in {r} : S!Idle /\ covered /\ S!AllGood}

\* A task runs on until the process ends, whether or not the accept loop still
\* accepts.
RequestStep(r) ==
    /\ proc = "up"
    /\ UNCHANGED supervisorVars
    /\ pc[r] # "idle"
    /\ R!OwnStep(r) \/ R!PeerStep(r) \/ R!UpstreamTimeout(r)
    /\ UNCHANGED <<banned, current>>

\* Fault: a reload starts the counters afresh.
SupervisorStepResets ==
    /\ S!Next
    /\ metrics' = IF live' = live THEN metrics ELSE [c \in DOMAIN metrics |-> 0]
    /\ UNCHANGED <<onError, pc, attr, cfg, idx, body, reply, got, resp,
                   bypass, ran, excused, sent, audit, judged>>
    /\ banned' = {r \in banned : BanLasts(r)}
    /\ current' = IF edits' = edits THEN current ELSE {}

\* A step of the supervisor, of main, of the operator or of the clock touches
\* the requests through the cells only.
SupervisorStep ==
    /\ S!Next
    /\ UNCHANGED requestVars
    /\ banned' = {r \in banned : BanLasts(r)}
    /\ current' = IF edits' = edits THEN current ELSE {}

Next == SupervisorStep \/ \E r \in Request : ServeRequest(r) \/ RequestStep(r)

Spec == Init /\ [][Next]_vars

-----------------------------------------------------------------------------
(* Properties. *)

\* A ban that was written to the file and announced keeps its address from the
\* backend: unless the client is on the allowlist, the mode is detect or on_error is
\* "open" (under which a panicking stage lets a request through), no request taken up
\* after the reload is forwarded while the ban lasts, whatever reloads, refreshes,
\* expiries and prunings happen while it is in flight, on a connection of any age
\* (ban, supervise, refresh_blocklist, ReputationStage, handle_inner).
BanKeepsOut ==
    \A r \in banned : sent[r] => bypass[r] \/ cfg[r].detect \/ onError = "open"

\* A request taken up after a reload of good files runs on what is on disk: its
\* mode is the new config's, and it is trusted only if the new allowlist says so
\* (supervise, Reloadable::apply, handle).
ReloadReachesRequests ==
    \A r \in current :
        /\ cfg[r] = ConfigOf[disk["config"].gen]
        /\ bypass[r] => R!Client(r) \subseteq AllowOf[disk["allowlist"].gen]

\* A response-body rule that a reload brought in judges, with its body, the inspectable
\* reply of every request taken up since, unless the reply declares more than the cap:
\* deciding to buffer and judging are two loads of the rules with the whole body read
\* between them, and other reloads may run there, yet none of these replies goes out
\* judged by its head alone (supervise, Reloadable::apply, handle_inner).
BodyRuleReachesReplies ==
    \A r \in current :
        /\ RulesOf[disk["rules"].gen].needsBody
        /\ reply[r].inspect /\ ~R!DeclaredLenOver(reply[r].declared, cfg[r].cap)
        => "head" \notin judged[r]

\* What the request path takes for granted is what the supervisor does: every
\* step of the process, seen from the requests, stores at most one cell, so all
\* that holds of RequestPath holds of the whole (Reloadable, ArcSwap).
ImplementsRequestPath == R!Spec
=============================================================================
