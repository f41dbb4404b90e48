----------------------------- MODULE Supervisor -----------------------------
(***************************************************************************)
(* The process around the request path: main::run, the supervisor task     *)
(* (main::supervise) and the reload it performs on the state it shares with *)
(* the requests (Reloadable::apply, refresh_blocklist, run_maintenance).    *)
(*                                                                         *)
(* The operator edits files on disk and sends signals at any moment.  A     *)
(* file is known by its generation (the number of the edit that wrote it)   *)
(* and by whether it compiles; the blocklist file by its lines, because     *)
(* entries expire.  `live` holds the generation in force of every shared    *)
(* cell, `blocks` the blocklist in force.                                   *)
(***************************************************************************)
EXTENDS BlockEntries, FiniteSets

CONSTANTS
    IP,         \* addresses
    Inline,     \* [server] reputation.blocklist of each config generation
    BanFiles,   \* the contents the operator may give blocklist_file
    Feed,       \* blocklist_urls (none without the remote-blocklist feature)
    FeedLines,  \* what each feed serves when it answers
    BadZone,    \* config generations whose timezone does not parse
    Periodic,   \* refresh_secs > 0 at startup
    MaxEdits,   \* bound: edits of the files
    MaxTime     \* bound: the clock

Gen == 0..MaxEdits
Time == 0..MaxTime

\* The files compiled by Reloadable::apply, and the config itself.
ApplyFile == {"signatures", "rules", "allowlist"}
File == ApplyFile \cup {"config"}

LineType == [net : SUBSET IP, until : SUBSET Nat, bad : SUBSET {"net", "until"}]
EntryType == [net : SUBSET IP, until : SUBSET Nat]

ASSUME SupervisorAssumption ==
    /\ MaxEdits \in Nat /\ MaxTime \in Nat
    /\ Inline \in [Gen -> SUBSET SUBSET IP]
    /\ BanFiles \subseteq SUBSET LineType /\ BanFiles # {}
    /\ FeedLines \in [Feed -> SUBSET LineType]
    /\ BadZone \subseteq Gen
    /\ Periodic \in BOOLEAN

VARIABLES
    now, edits,             \* the clock; how many edits there were
    disk, bans, bansOk,     \* the files: generation and validity; blocklist_file, readable or not
    live, blocks,           \* what is in force
    sup, cause,             \* the supervisor's control; why it refreshes the blocklist
    new, fresh, left,       \* its locals: what it loaded, the list being built, feeds to fetch
    hup, term, handlers,    \* signals pending in the select!, handlers installed
    cancel, proxy, proc,    \* the cancellation token, the accept loop, the process
    covered, applied,       \* history: a SIGHUP since the last edit; what the last apply compiled
    failed, termSent        \* history: feeds that failed this refresh; a SIGTERM was sent

diskVars == <<edits, disk, bans, bansOk>>
locals == <<cause, new, fresh, left, failed>>
signals == <<hup, term, handlers, covered, termSent>>
process == <<cancel, proxy, proc>>
vars == <<now, diskVars, live, blocks, sup, locals, signals, process, applied>>

Loading == {"load_config", "load_signatures", "load_rules", "load_allowlist"}
Storing == {"store_signatures", "store_rules", "store_allowlist"}
SupPC == {"boot", "pid", "build", "fetch", "store_config", "select", "stopped"} \cup Loading \cup Storing

Init ==
    /\ now = 0 /\ edits = 0
    /\ disk = [f \in File |-> [gen |-> 0, ok |-> TRUE]]
    /\ bans \in BanFiles /\ bansOk = TRUE
    /\ live = [f \in File |-> 0]
    /\ blocks = Perm(Inline[0]) \cup ParseBlocklist(bans, now)
    /\ sup = "boot" /\ cause = "init"
    /\ new = [f \in File |-> 0] /\ fresh = {} /\ left = {} /\ failed = {}
    /\ hup = FALSE /\ term = FALSE /\ handlers = "none"
    /\ cancel = FALSE /\ proxy = "down" /\ proc = "up"
    /\ covered = FALSE /\ termSent = FALSE
    /\ applied = [f \in ApplyFile |-> 0]

-----------------------------------------------------------------------------
(* Startup: main::run up to the supervisor's first select!. *)

\* PidFile::write: from here on `budu ban --reload` can signal the process.
WritePid ==
    /\ proc = "up" /\ sup = "boot"
    /\ sup' = "pid"
    /\ UNCHANGED <<now, diskVars, live, blocks, locals, signals, process, applied>>

\* Fault: the handler is installed after the initial refresh.
InstallHangupLate ==
    /\ proc = "up" /\ sup = "pid"
    /\ sup' = "build" /\ cause' = "init"
    /\ UNCHANGED <<now, diskVars, live, blocks, new, fresh, left, failed, signals, process, applied>>

\* hangup_stream, then the initial refresh_blocklist.
InstallHangup ==
    /\ proc = "up" /\ sup = "pid"
    /\ handlers' = "hup"
    /\ sup' = "build" /\ cause' = "init"
    /\ UNCHANGED <<now, diskVars, live, blocks, new, fresh, left, failed,
                   hup, term, covered, termSent, process, applied>>

\* budu_proxy::run: the listener binds, or fails and main cancels.
ProxyBind ==
    /\ proc = "up" /\ sup \notin {"boot"} /\ proxy = "down"
    /\ \/ proxy' = "serving" /\ UNCHANGED cancel
       \/ proxy' = "failed" /\ cancel' = TRUE
    /\ UNCHANGED <<now, diskVars, live, blocks, sup, locals, signals, proc, applied>>

-----------------------------------------------------------------------------
(* The select! loop.  shutdown_signal() is created anew by every iteration:   *)
(* taking another branch drops it, and a SIGTERM it had already been notified *)
(* of with it.                                                                *)

Selecting == proc = "up" /\ sup = "select"

\* Fault: with a refresh interval the loop does not watch the cancellation.
OnCancelledDeaf ==
    /\ Selecting /\ cancel /\ ~Periodic
    /\ sup' = "stopped"
    /\ UNCHANGED <<now, diskVars, live, blocks, locals, signals, process, applied>>

OnCancelled ==
    /\ Selecting /\ cancel
    /\ sup' = "stopped"
    /\ UNCHANGED <<now, diskVars, live, blocks, locals, signals, process, applied>>

OnShutdown ==
    /\ Selecting /\ term
    /\ cancel' = TRUE
    /\ sup' = "stopped"
    /\ UNCHANGED <<now, diskVars, live, blocks, locals, signals, proxy, proc, applied>>

OnHangup ==
    /\ Selecting /\ hup
    /\ hup' = FALSE /\ term' = FALSE
    /\ sup' = "load_config" /\ cause' = "hup"
    /\ UNCHANGED <<now, diskVars, live, blocks, new, fresh, left, failed,
                   handlers, covered, termSent, process, applied>>

OnRefreshTick ==
    /\ Selecting /\ Periodic
    /\ term' = FALSE
    /\ sup' = "build" /\ cause' = "tick"
    /\ UNCHANGED <<now, diskVars, live, blocks, new, fresh, left, failed,
                   hup, handlers, covered, termSent, process, applied>>

\* run_maintenance prunes the two lists (of the allowlist the model keeps only the
\* generation, which pruning does not change); the limiter's and the counters' own
\* GC is theirs (RateLimiter, RuleEngine).
OnMaintenance ==
    /\ Selecting
    /\ blocks' = Pruned(blocks, now)
    /\ term' = FALSE
    /\ UNCHANGED <<now, diskVars, live, sup, locals, hup, handlers, covered, termSent,
                   process, applied>>

\* Coming back to the loop polls shutdown_signal(), which installs the SIGTERM
\* handler the first time.  (select! may find another branch ready first and poll
\* it one round later; until then a SIGTERM kills, as it does during start-up.)
BackToSelect ==
    /\ sup' = "select"
    /\ handlers' = "all"

-----------------------------------------------------------------------------
(* The SIGHUP branch: Config::load, apply, refresh_blocklist, config.store. *)

LoadConfig ==
    /\ proc = "up" /\ sup = "load_config"
    /\ IF disk["config"].ok
       THEN /\ new' = [new EXCEPT !["config"] = disk["config"].gen]
            /\ sup' = "load_signatures"
            /\ UNCHANGED handlers
       ELSE BackToSelect /\ UNCHANGED new
    /\ UNCHANGED <<now, diskVars, live, blocks, cause, fresh, left, failed,
                   hup, term, covered, termSent, process, applied>>

LoadStep(f) == CASE f = "signatures" -> "load_signatures"
                 [] f = "rules" -> "load_rules"
                 [] f = "allowlist" -> "load_allowlist"

StoreStep(f) == CASE f = "signatures" -> "store_signatures"
                  [] f = "rules" -> "store_rules"
                  [] f = "allowlist" -> "store_allowlist"

AfterLoad(f) == CASE f = "signatures" -> "load_rules"
                  [] f = "rules" -> "load_allowlist"
                  [] f = "allowlist" -> "store_signatures"

\* Fault: the allowlist is compiled and never stored.
AfterStoreForgets(f) == IF f = "signatures" THEN "store_rules" ELSE "build"

AfterStore(f) == CASE f = "signatures" -> "store_rules"
                   [] f = "rules" -> "store_allowlist"
                   [] f = "allowlist" -> "build"

\* The rules are compiled with the timezone of the new config.
Compiles(f) == disk[f].ok /\ (f = "rules" => new["config"] \notin BadZone)

\* Fault: each file is swapped in as soon as it compiles.
ApplyLoadEager(f) ==
    /\ proc = "up" /\ sup = LoadStep(f)
    /\ IF Compiles(f)
       THEN /\ new' = [new EXCEPT ![f] = disk[f].gen]
            /\ live' = [live EXCEPT ![f] = disk[f].gen]
            /\ sup' = AfterLoad(f)
            /\ applied' = IF f = "allowlist" THEN [g \in ApplyFile |-> new'[g]] ELSE applied
       ELSE sup' = "build" /\ UNCHANGED <<new, live, applied>>
    /\ UNCHANGED <<now, diskVars, blocks, cause, fresh, left, failed, signals, process>>

\* apply, first half: compile everything before anything is swapped; the first
\* error abandons the apply but not the reload.
ApplyLoad(f) ==
    /\ proc = "up" /\ sup = LoadStep(f)
    /\ IF Compiles(f)
       THEN /\ new' = [new EXCEPT ![f] = disk[f].gen]
            /\ sup' = AfterLoad(f)
            /\ applied' = IF f = "allowlist" THEN [g \in ApplyFile |-> new'[g]] ELSE applied
       ELSE sup' = "build" /\ UNCHANGED <<new, applied>>
    /\ UNCHANGED <<now, diskVars, live, blocks, cause, fresh, left, failed, signals, process>>

\* apply, second half: three stores, each atomic, visible one after the other.
ApplyStore(f) ==
    /\ proc = "up" /\ sup = StoreStep(f)
    /\ live' = [live EXCEPT ![f] = new[f]]
    /\ sup' = AfterStore(f)
    /\ UNCHANGED <<now, diskVars, blocks, locals, signals, process, applied>>

\* Fault: the blocklist is rebuilt from the config that is being replaced.
RefreshConfigStale == live["config"]

\* The config refresh_blocklist is called with.
RefreshConfig == IF cause = "hup" THEN new["config"] ELSE live["config"]

\* What follows refresh_blocklist, whether it succeeded or not.
AfterRefresh ==
    IF cause = "hup"
    THEN sup' = "store_config" /\ UNCHANGED handlers
    ELSE BackToSelect

\* build_blocks: inline entries and the file; an unreadable file keeps the
\* current list.
BuildBlocks ==
    /\ proc = "up" /\ sup = "build"
    /\ IF bansOk
       THEN /\ fresh' = Perm(Inline[RefreshConfig]) \cup ParseBlocklist(bans, now)
            /\ left' = Feed /\ failed' = {}
            /\ sup' = "fetch"
            /\ UNCHANGED handlers
       ELSE AfterRefresh /\ UNCHANGED <<fresh, left, failed>>
    /\ UNCHANGED <<now, diskVars, live, blocks, cause, new, hup, term, covered, termSent,
                   process, applied>>

\* fetch_blocklist_urls: a feed that fails contributes nothing.
FetchFeed(f) ==
    /\ proc = "up" /\ sup = "fetch" /\ f \in left
    /\ left' = left \ {f}
    /\ \/ /\ fresh' = fresh \cup ParseBlocklist(FeedLines[f], now)
          /\ UNCHANGED failed
       \/ /\ failed' = failed \cup {f}
          /\ UNCHANGED fresh
    /\ UNCHANGED <<now, diskVars, live, blocks, sup, cause, new, signals, process, applied>>

SwapBlocks ==
    /\ proc = "up" /\ sup = "fetch" /\ left = {}
    /\ blocks' = fresh
    /\ fresh' = {} /\ failed' = {}
    /\ AfterRefresh
    /\ UNCHANGED <<now, diskVars, live, cause, new, left, hup, term, covered, termSent, process, applied>>

\* Fault: a SIGHUP that came in during the reload is taken as served.
StoreConfigDropsHangup ==
    /\ proc = "up" /\ sup = "store_config"
    /\ live' = [live EXCEPT !["config"] = new["config"]]
    /\ BackToSelect
    /\ hup' = FALSE
    /\ UNCHANGED <<now, diskVars, blocks, locals, term, covered, termSent, process, applied>>

\* config.store, even when the apply or the refresh failed.
StoreConfig ==
    /\ proc = "up" /\ sup = "store_config"
    /\ live' = [live EXCEPT !["config"] = new["config"]]
    /\ BackToSelect
    /\ UNCHANGED <<now, diskVars, blocks, locals, hup, term, covered, termSent, process, applied>>

-----------------------------------------------------------------------------
(* Shutdown: the accept loop stops at the cancellation, main joins the tasks. *)

ProxyStop ==
    /\ proc = "up" /\ proxy = "serving" /\ cancel
    /\ proxy' = "stopped"
    /\ UNCHANGED <<now, diskVars, live, blocks, sup, locals, signals, cancel, proc, applied>>

Exit ==
    /\ proc = "up" /\ proxy \in {"stopped", "failed"} /\ sup = "stopped"
    /\ proc' = "exited"
    /\ UNCHANGED <<now, diskVars, live, blocks, sup, locals, signals, cancel, proxy, applied>>
-----------------------------------------------------------------------------
(* The operator and the clock. *)

\* Without a handler a signal's default action ends the process.  A service manager
\* knows the process from its start, so a signal need not wait for the pidfile.
SigHup ==
    /\ proc = "up"
    /\ IF handlers = "none"
       THEN proc' = "killed" /\ UNCHANGED <<hup, covered>>
       ELSE hup' = TRUE /\ covered' = TRUE /\ UNCHANGED proc
    /\ UNCHANGED <<now, diskVars, live, blocks, sup, locals, term, handlers, termSent,
                   cancel, proxy, applied>>

\* Once installed the handler swallows the signal; only a shutdown_signal()
\* that is being polled is notified.
SigTerm ==
    /\ proc = "up"
    /\ termSent' = TRUE
    /\ IF handlers = "all"
       THEN term' = (term \/ sup = "select") /\ UNCHANGED proc
       ELSE proc' = "killed" /\ UNCHANGED term
    /\ UNCHANGED <<now, diskVars, live, blocks, sup, locals, hup, handlers, covered,
                   cancel, proxy, applied>>

Edit(f) ==
    /\ proc = "up" /\ edits < MaxEdits
    /\ edits' = edits + 1
    /\ \E ok \in BOOLEAN : disk' = [disk EXCEPT ![f] = [gen |-> edits', ok |-> ok]]
    /\ covered' = FALSE
    /\ UNCHANGED <<now, bans, bansOk, live, blocks, sup, locals, hup, term, handlers, termSent,
                   process, applied>>

EditBans ==
    /\ proc = "up" /\ edits < MaxEdits
    /\ edits' = edits + 1
    /\ bans' \in BanFiles /\ bansOk' \in BOOLEAN
    /\ covered' = FALSE
    /\ UNCHANGED <<now, disk, live, blocks, sup, locals, hup, term, handlers, termSent,
                   process, applied>>

Tick ==
    /\ proc = "up" /\ now < MaxTime
    /\ now' = now + 1
    /\ UNCHANGED <<diskVars, live, blocks, sup, locals, signals, process, applied>>

-----------------------------------------------------------------------------
Work ==
    \/ WritePid \/ InstallHangup \/ LoadConfig \/ BuildBlocks \/ SwapBlocks \/ StoreConfig
    \/ \E f \in ApplyFile : ApplyLoad(f) \/ ApplyStore(f)
    \/ \E f \in Feed : FetchFeed(f)

Branch == OnCancelled \/ OnShutdown \/ OnHangup \/ OnRefreshTick \/ OnMaintenance

Main == ProxyBind \/ ProxyStop \/ Exit

Operator == SigHup \/ SigTerm \/ EditBans \/ \E f \in File : Edit(f)

Next == Work \/ Branch \/ Main \/ Operator \/ Tick

Spec == Init /\ [][Next]_vars

\* Tasks run (a fetch ends within its 15 s timeout); select! picks at random
\* among ready branches, so a branch that is ready again and again is taken.
FairSpec ==
    /\ Spec
    /\ WF_vars(Work) /\ WF_vars(Main)
    /\ SF_vars(OnHangup) /\ SF_vars(OnCancelled) /\ SF_vars(OnShutdown)

-----------------------------------------------------------------------------
(* Properties. *)

\* Every variable of the process keeps its type.
TypeOK ==
    /\ now \in Time /\ edits \in Gen
    /\ disk \in [File -> [gen : Gen, ok : BOOLEAN]]
    /\ bans \in BanFiles /\ bansOk \in BOOLEAN
    /\ live \in [File -> Gen]
    /\ blocks \in SUBSET EntryType
    /\ sup \in SupPC /\ cause \in {"init", "hup", "tick"}
    /\ new \in [File -> Gen]
    /\ fresh \in SUBSET EntryType /\ left \subseteq Feed /\ failed \subseteq Feed
    /\ hup \in BOOLEAN /\ term \in BOOLEAN /\ handlers \in {"none", "hup", "all"}
    /\ cancel \in BOOLEAN /\ proxy \in {"down", "serving", "stopped", "failed"}
    /\ proc \in {"up", "killed", "exited"}
    /\ covered \in BOOLEAN /\ termSent \in BOOLEAN
    /\ applied \in [ApplyFile -> Gen]

\* The supervisor is between two branches and no SIGHUP waits.
Idle == sup = "select" /\ ~hup

\* Signatures, rules and allowlist in force always come from one apply that
\* compiled all three; an apply that failed half-way left no trace (apply:
\* "Compile both before swapping either").
ApplyAllOrNothing ==
    sup \notin Storing => \A f \in ApplyFile : live[f] = applied[f]

AllGood == (\A f \in File : disk[f].ok) /\ disk["config"].gen \notin BadZone

\* No SIGHUP is lost, not even one that arrives in the middle of a reload: when
\* the supervisor is idle, a SIGHUP followed the last edit and every file is
\* good, then what is in force is what is on disk (supervise, hangup_stream).
ReloadTookEffect ==
    Idle /\ covered /\ AllGood => \A f \in File : live[f] = disk[f].gen

\* What the blocklist sources say now, remote feeds aside.
Local == Perm(Inline[live["config"]]) \cup ParseBlocklist(bans, now)
Remote == UNION {ParseBlocklist(FeedLines[f], t) : f \in Feed, t \in Time}

\* A ban that a SIGHUP announced is in force until it expires, and an unban or
\* an expired ban is not, whatever refreshes, failed feeds and prunings came
\* since (refresh_blocklist, prune_expired, the refresh tick).
BansInForce ==
    Idle /\ covered /\ bansOk /\ disk["config"].ok =>
        \A ip \in IP :
            /\ Matched(Local, ip, now) => Matched(blocks, ip, now)
            /\ Matched(blocks, ip, now) => Matched(Local \cup Remote, ip, now)

\* A SIGHUP reloads and never ends the process once hangup_stream has returned, which
\* is before the first refresh: a process that died without a SIGTERM was still
\* starting up.  (During the start-up, with or without a pidfile, it does end it, even
\* if the proxy already serves: the listener and the supervisor start concurrently.)
HangupSurvived == proc = "killed" /\ ~termSent => sup \in {"boot", "pid"}

\* Maintenance reclaims entries and never changes what is blocked: a step that
\* leaves the supervisor in its select! keeps every verdict (prune_expired).
MaintenanceIsInvisible ==
    [][sup = "select" /\ sup' = "select" =>
        \A ip \in IP : Matched(blocks, ip, now) = Matched(blocks', ip, now)]_vars

\* A reload announced for good files takes effect in the end, even if it races
\* refreshes, failed fetches and other reloads (the sighup branch of supervise).
ReloadEventually ==
    (covered /\ AllGood) ~>
        \/ ~covered \/ ~AllGood \/ cancel \/ proc # "up"
        \/ \A f \in File : live[f] = disk[f].gen

\* Once cancelled the process exits: no task waits for another that waits for
\* it, and a reload in progress only delays the exit (main::run, supervise).
ExitAfterCancel == cancel ~> (proc # "up")

-----------------------------------------------------------------------------
(* Statements of the documentation that the code does not keep. *)

\* "A failed or malformed feed is logged and skipped - the previous list stays in
\* force": a refresh keeps the entries of a feed it could not fetch.
FailedFeedKept ==
    [][sup = "fetch" /\ sup' # "fetch" =>
        \A f \in failed : \A e \in blocks :
            e \in ParseBlocklist(FeedLines[f], now) => e \in blocks']_vars

\* "SIGTERM / Ctrl-C: Graceful shutdown: stop accepting, exit cleanly."
TermHonoured == termSent ~> (proc # "up")
=============================================================================
