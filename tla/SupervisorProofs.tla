-------------------------- MODULE SupervisorProofs --------------------------
(***************************************************************************)
(* What the supervisor guarantees for any files, feeds, networks, sequence  *)
(* of edits and signals, and length of time.                                *)
(***************************************************************************)
EXTENDS Supervisor, TLAPS

-----------------------------------------------------------------------------
(* Lists of entries. *)

\* BlockEntry::perm builds entries.
LEMMA PermType ==
    ASSUME NEW nets \in SUBSET SUBSET IP
    PROVE  Perm(nets) \in SUBSET EntryType
BY DEF Perm, EntryType

\* parse_blocklist builds entries.
LEMMA ParseType ==
    ASSUME NEW lines \in SUBSET LineType, NEW t
    PROVE  ParseBlocklist(lines, t) \in SUBSET EntryType
BY Fail2banAssumption DEF ParseBlocklist, LineType, EntryType

\* An inline entry is in force at any moment.
LEMMA PermActive ==
    ASSUME NEW nets, NEW t, NEW e \in Perm(nets)
    PROVE  Active(e, t)
BY DEF Perm, Active

\* What a file yields is in force at the moment it is parsed.
LEMMA ParseActive ==
    ASSUME NEW lines, NEW t, NEW e \in ParseBlocklist(lines, t)
    PROVE  Active(e, t)
<1>1. PICK l \in lines : /\ Kept(l, t)
                         /\ e = [net |-> l.net, until |-> IF Fail2ban THEN l.until ELSE {}]
    BY DEF ParseBlocklist
<1> QED BY <1>1, Fail2banAssumption DEF Kept, Active

\* Parsed later, a file yields nothing it would not have yielded before.
LEMMA ParseShrinks ==
    ASSUME NEW lines \in SUBSET LineType, NEW t \in Nat
    PROVE  ParseBlocklist(lines, t + 1) \subseteq ParseBlocklist(lines, t)
<1> SUFFICES ASSUME NEW l \in lines, Kept(l, t + 1)
             PROVE  Kept(l, t)
    BY DEF ParseBlocklist
<1> QED BY Fail2banAssumption DEF Kept, Active, LineType

\* An entry that is still in force would still be parsed.
LEMMA ParseKeepsActive ==
    ASSUME NEW lines \in SUBSET LineType, NEW t, NEW u,
           NEW e \in ParseBlocklist(lines, t), Active(e, u)
    PROVE  e \in ParseBlocklist(lines, u)
<1>1. PICK l \in lines : /\ Kept(l, t)
                         /\ e = [net |-> l.net, until |-> IF Fail2ban THEN l.until ELSE {}]
    BY DEF ParseBlocklist
<1>2. Kept(l, u)
    BY <1>1, Fail2banAssumption DEF Kept, Active
<1> QED BY <1>1, <1>2 DEF ParseBlocklist

\* An entry in force was in force before.
LEMMA ActiveBefore ==
    ASSUME NEW e \in EntryType, NEW t \in Nat, Active(e, t + 1)
    PROVE  Active(e, t)
BY DEF Active, EntryType

\* prune_expired changes no verdict at the time it runs.
LEMMA PrunedMatches ==
    ASSUME NEW list, NEW ip, NEW t
    PROVE  Matched(Pruned(list, t), ip, t) = Matched(list, ip, t)
BY DEF Pruned, Matched

-----------------------------------------------------------------------------
(* Control. *)

\* Each step of apply stands at one point of the supervisor's control.
LEMMA ApplySteps ==
    /\ LoadStep("signatures") = "load_signatures" /\ AfterLoad("signatures") = "load_rules"
    /\ LoadStep("rules") = "load_rules" /\ AfterLoad("rules") = "load_allowlist"
    /\ LoadStep("allowlist") = "load_allowlist" /\ AfterLoad("allowlist") = "store_signatures"
    /\ StoreStep("signatures") = "store_signatures" /\ AfterStore("signatures") = "store_rules"
    /\ StoreStep("rules") = "store_rules" /\ AfterStore("rules") = "store_allowlist"
    /\ StoreStep("allowlist") = "store_allowlist" /\ AfterStore("allowlist") = "build"
BY DEF LoadStep, AfterLoad, StoreStep, AfterStore

\* A step is a step of one of the operations.
LEMMA Steps ==
    ASSUME [Next]_vars
    PROVE  \/ WritePid \/ InstallHangup \/ LoadConfig \/ BuildBlocks \/ SwapBlocks \/ StoreConfig
           \/ ApplyLoad("signatures") \/ ApplyLoad("rules") \/ ApplyLoad("allowlist")
           \/ ApplyStore("signatures") \/ ApplyStore("rules") \/ ApplyStore("allowlist")
           \/ (\E f \in Feed : FetchFeed(f))
           \/ OnCancelled \/ OnShutdown \/ OnHangup \/ OnRefreshTick \/ OnMaintenance
           \/ ProxyBind \/ ProxyStop \/ Exit
           \/ SigHup \/ SigTerm \/ EditBans \/ (\E f \in File : Edit(f))
           \/ Tick \/ UNCHANGED vars
BY DEF Next, Work, Branch, Main, Operator, ApplyFile

-----------------------------------------------------------------------------
(* Types. *)

\* The initial state is typed.
LEMMA TypeInit == Init => TypeOK
<1> SUFFICES ASSUME Init PROVE TypeOK
    OBVIOUS
<1>1. bans \in SUBSET LineType /\ Inline[0] \in SUBSET SUBSET IP
    BY SupervisorAssumption DEF Init, Gen
<1>2. blocks \in SUBSET EntryType
    BY <1>1, PermType, ParseType DEF Init
<1>3. 0 \in Gen /\ 0 \in Time
    BY SupervisorAssumption DEF Gen, Time
<1> QED BY <1>2, <1>3 DEF Init, TypeOK, SupPC

\* The step taken by an operation keeps the types.
LEMMA TypeStep ==
    ASSUME TypeOK, [Next]_vars
    PROVE  TypeOK'
<1> USE DEF TypeOK, SupPC, Loading, Storing
<1>1. CASE WritePid
    BY <1>1 DEF WritePid, diskVars, locals, signals, process
<1>2. CASE InstallHangup
    BY <1>2 DEF InstallHangup, diskVars, process
<1>3. CASE LoadConfig
    BY <1>3 DEF LoadConfig, BackToSelect, diskVars, process, File
<1>4. CASE BuildBlocks
  <2>1. RefreshConfig \in Gen
      BY DEF RefreshConfig, File
  <2>2. bans \in SUBSET LineType /\ Inline[RefreshConfig] \in SUBSET SUBSET IP
      BY <2>1, SupervisorAssumption
  <2>3. Perm(Inline[RefreshConfig]) \cup ParseBlocklist(bans, now) \in SUBSET EntryType
      BY <2>2, PermType, ParseType
  <2> QED BY <1>4, <2>3 DEF BuildBlocks, AfterRefresh, BackToSelect, diskVars, process
<1>5. CASE SwapBlocks
    BY <1>5 DEF SwapBlocks, AfterRefresh, BackToSelect, diskVars, process
<1>6. CASE StoreConfig
    BY <1>6 DEF StoreConfig, BackToSelect, diskVars, locals, process, File
<1>7. ASSUME NEW f \in ApplyFile, ApplyLoad(f)
      PROVE  TypeOK'
  <2>1. AfterLoad(f) \in SupPC
      BY ApplySteps DEF ApplyFile
  <2> QED BY <1>7, <2>1 DEF ApplyLoad, diskVars, signals, process, File
<1>8. ASSUME NEW f \in ApplyFile, ApplyStore(f)
      PROVE  TypeOK'
  <2>1. AfterStore(f) \in SupPC
      BY ApplySteps DEF ApplyFile
  <2> QED BY <1>8, <2>1 DEF ApplyStore, diskVars, locals, signals, process, File
<1>9. ASSUME NEW f \in Feed, FetchFeed(f)
      PROVE  TypeOK'
  <2>1. ParseBlocklist(FeedLines[f], now) \in SUBSET EntryType
      BY ParseType, SupervisorAssumption
  <2> QED BY <1>9, <2>1 DEF FetchFeed, diskVars, signals, process
<1>10. CASE OnCancelled
    BY <1>10 DEF OnCancelled, diskVars, locals, signals, process
<1>11. CASE OnShutdown
    BY <1>11 DEF OnShutdown, diskVars, locals, signals
<1>12. CASE OnHangup
    BY <1>12 DEF OnHangup, diskVars, process
<1>13. CASE OnRefreshTick
    BY <1>13 DEF OnRefreshTick, diskVars, process
<1>14. CASE OnMaintenance
  <2>1. Pruned(blocks, now) \in SUBSET EntryType
      BY DEF Pruned
  <2>2. blocks' \in SUBSET EntryType /\ term' \in BOOLEAN
      BY <1>14, <2>1 DEF OnMaintenance
  <2>3. UNCHANGED <<now, edits, disk, bans, bansOk, live, sup, cause, new, fresh, left, failed,
                    hup, handlers, covered, termSent, cancel, proxy, proc, applied>>
      BY <1>14 DEF OnMaintenance, diskVars, locals, process
  <2> QED BY <2>2, <2>3
<1>15. CASE ProxyBind
  <2>1. proxy' \in {"serving", "failed"} /\ cancel' \in BOOLEAN
      BY <1>15 DEF ProxyBind
  <2> QED BY <1>15, <2>1 DEF ProxyBind, diskVars, locals, signals
<1>16. CASE ProxyStop
    BY <1>16 DEF ProxyStop, diskVars, locals, signals
<1>17. CASE Exit
    BY <1>17 DEF Exit, diskVars, locals, signals
<1>18. CASE SigHup
  <2>1. proc' \in {"up", "killed"} /\ hup' \in BOOLEAN /\ covered' \in BOOLEAN
      BY <1>18 DEF SigHup
  <2> QED BY <1>18, <2>1 DEF SigHup, diskVars, locals
<1>19. CASE SigTerm
  <2>1. proc' \in {"up", "killed"} /\ term' \in BOOLEAN
      BY <1>19 DEF SigTerm
  <2> QED BY <1>19, <2>1 DEF SigTerm, diskVars, locals
<1>20. CASE EditBans
  <2>1. edits' \in Gen
      BY <1>20, SupervisorAssumption DEF EditBans, Gen
  <2>2. bans' \in BanFiles /\ bansOk' \in BOOLEAN /\ covered' \in BOOLEAN
      BY <1>20 DEF EditBans
  <2>3. UNCHANGED <<now, disk, live, blocks, sup, cause, new, fresh, left, failed, hup, term,
                    handlers, termSent, cancel, proxy, proc, applied>>
      BY <1>20 DEF EditBans, locals, process
  <2> QED BY <2>1, <2>2, <2>3
<1>21. ASSUME NEW f \in File, Edit(f)
       PROVE  TypeOK'
  <2>1. edits' \in Gen
      BY <1>21, SupervisorAssumption DEF Edit, Gen
  <2>2. PICK ok \in BOOLEAN : disk' = [disk EXCEPT ![f] = [gen |-> edits', ok |-> ok]]
      BY <1>21 DEF Edit
  <2>3. disk' \in [File -> [gen : Gen, ok : BOOLEAN]]
      BY <1>21, <2>1, <2>2
  <2>4. covered' \in BOOLEAN
      BY <1>21 DEF Edit
  <2>5. UNCHANGED <<now, bans, bansOk, live, blocks, sup, cause, new, fresh, left, failed, hup,
                    term, handlers, termSent, cancel, proxy, proc, applied>>
      BY <1>21 DEF Edit, locals, process
  <2> QED BY <2>1, <2>3, <2>4, <2>5
<1>22. CASE Tick
    BY <1>22, SupervisorAssumption DEF Tick, Time, diskVars, locals, signals, process
<1>23. CASE UNCHANGED vars
    BY <1>23 DEF vars, diskVars, locals, signals, process
<1> QED
    BY <1>1, <1>2, <1>3, <1>4, <1>5, <1>6, <1>7, <1>8, <1>9, <1>10, <1>11, <1>12, <1>13, <1>14,
       <1>15, <1>16, <1>17, <1>18, <1>19, <1>20, <1>21, <1>22, <1>23, Zenon
       DEF Next, Work, Branch, Main, Operator

\* The supervisor's state stays within its types, whatever is on disk and
\* whichever signals arrive.
THEOREM TypeCorrect == Spec => []TypeOK
<1> QED BY TypeInit, TypeStep, PTL DEF Spec

-----------------------------------------------------------------------------
(* The inductive invariants. *)

\* The SIGHUP handler is in place before the first refresh, so only SIGTERM ends
\* a process that got that far.
HangupInv ==
    /\ handlers = "none" => sup \in {"boot", "pid"}
    /\ proc = "killed" /\ ~termSent => sup \in {"boot", "pid"}

\* While apply stores, the stores done so far are of what it compiled.
ApplyInv ==
    /\ sup \notin Storing => \A f \in ApplyFile : live[f] = applied[f]
    /\ sup \in Storing => \A f \in ApplyFile : applied[f] = new[f]
    /\ sup \in {"store_rules", "store_allowlist"} => live["signatures"] = new["signatures"]
    /\ sup = "store_allowlist" => live["rules"] = new["rules"]

\* The steps between a SIGHUP and the store of its config belong to it; before the
\* first one taken, a SIGHUP that was sent is pending.
CauseInv ==
    /\ sup \in {"boot", "pid"} => cause = "init"
    /\ sup \in Loading \cup Storing \cup {"store_config"} => cause = "hup"
    /\ cause = "init" /\ covered => hup

\* What the reload has read, and what is in force, are of the generation on disk.
Seen(S) == \A f \in S : new[f] = disk[f].gen
InForce(S) == \A f \in S : live[f] = disk[f].gen

\* A reload that no edit or SIGHUP overtook has got, at each of its steps, the
\* files it has come to.
ReloadInv ==
    covered /\ ~hup /\ AllGood =>
        /\ cause = "hup" /\ sup # "load_config" => Seen({"config"})
        /\ sup \in {"load_rules", "load_allowlist"} \cup Storing => Seen({"signatures"})
        /\ sup \in {"load_allowlist"} \cup Storing => Seen({"rules"})
        /\ sup \in Storing => Seen({"allowlist"})
        /\ sup \in {"store_rules", "store_allowlist"} => InForce({"signatures"})
        /\ sup = "store_allowlist" => InForce({"rules"})
        /\ sup \in {"build", "fetch", "store_config"} => InForce(ApplyFile)
        /\ sup \in {"build", "fetch"} /\ cause = "tick" => InForce(File)
        /\ sup \in {"select", "stopped"} => InForce(File)

\* The list blocks everything its local sources say at time t, and nothing in force
\* comes from elsewhere than these and the feeds.
LocalAt(c, lines, t) == Perm(Inline[c]) \cup ParseBlocklist(lines, t)
Faithful(list, c, lines, t) ==
    /\ LocalAt(c, lines, t) \subseteq list
    /\ \A e \in list : Active(e, t) => e \in LocalAt(c, lines, t) \cup Remote

\* The list under construction, the list waiting for its config to be stored and
\* the list in force at rest are faithful to the config that goes with them.
BansInv ==
    covered /\ ~hup /\ bansOk /\ disk["config"].ok =>
        /\ sup = "fetch" => Faithful(fresh, RefreshConfig, bans, now)
        /\ sup = "store_config" => Faithful(blocks, new["config"], bans, now)
        /\ sup \in {"select", "stopped"} => Faithful(blocks, live["config"], bans, now)

-----------------------------------------------------------------------------
(* Signals. *)

\* No operation leaves the supervisor running without a SIGHUP handler.
LEMMA HangupStep ==
    ASSUME TypeOK, HangupInv, [Next]_vars
    PROVE  HangupInv'
<1> USE DEF HangupInv, diskVars, locals, signals, process
<1>1. CASE WritePid
    BY <1>1 DEF WritePid
<1>2. CASE InstallHangup
    BY <1>2 DEF InstallHangup
<1>3. CASE LoadConfig
    BY <1>3 DEF LoadConfig, BackToSelect
<1>4. CASE BuildBlocks
    BY <1>4 DEF BuildBlocks, AfterRefresh, BackToSelect
<1>5. CASE SwapBlocks
    BY <1>5 DEF SwapBlocks, AfterRefresh, BackToSelect
<1>6. CASE StoreConfig
    BY <1>6 DEF StoreConfig, BackToSelect
<1>7. CASE ApplyLoad("signatures")
    BY <1>7, ApplySteps DEF ApplyLoad
<1>8. CASE ApplyLoad("rules")
    BY <1>8, ApplySteps DEF ApplyLoad
<1>9. CASE ApplyLoad("allowlist")
    BY <1>9, ApplySteps DEF ApplyLoad
<1>10. CASE ApplyStore("signatures")
    BY <1>10, ApplySteps DEF ApplyStore
<1>11. CASE ApplyStore("rules")
    BY <1>11, ApplySteps DEF ApplyStore
<1>12. CASE ApplyStore("allowlist")
    BY <1>12, ApplySteps DEF ApplyStore
<1>13. ASSUME NEW f \in Feed, FetchFeed(f)
      PROVE  HangupInv'
    BY <1>13 DEF FetchFeed
<1>14. CASE OnCancelled
    BY <1>14 DEF OnCancelled, Selecting
<1>15. CASE OnShutdown
    BY <1>15 DEF OnShutdown, Selecting
<1>16. CASE OnHangup
    BY <1>16 DEF OnHangup, Selecting
<1>17. CASE OnRefreshTick
    BY <1>17 DEF OnRefreshTick, Selecting
<1>18. CASE OnMaintenance
    BY <1>18 DEF OnMaintenance, Selecting
<1>19. CASE ProxyBind
    BY <1>19 DEF ProxyBind
<1>20. CASE ProxyStop
    BY <1>20 DEF ProxyStop
<1>21. CASE Exit
    BY <1>21 DEF Exit
<1>22. CASE SigHup
    BY <1>22 DEF SigHup
<1>23. CASE SigTerm
    BY <1>23 DEF SigTerm
<1>24. CASE EditBans
    BY <1>24 DEF EditBans
<1>25. ASSUME NEW f \in File, Edit(f)
       PROVE  HangupInv'
    BY <1>25 DEF Edit
<1>26. CASE Tick
    BY <1>26 DEF Tick
<1>27. CASE UNCHANGED vars
    BY <1>27 DEF vars
<1> QED
    BY <1>1, <1>2, <1>3, <1>4, <1>5, <1>6, <1>7, <1>8, <1>9, <1>10, <1>11, <1>12,
       <1>13, <1>14, <1>15, <1>16, <1>17, <1>18, <1>19, <1>20, <1>21, <1>22, <1>23,
       <1>24, <1>25, <1>26, <1>27, Steps, Zenon

\* A SIGHUP ends the process only during the start-up, before hangup_stream has
\* installed its handler; from the first refresh on it never does.
THEOREM HangupSafe == Spec => []HangupSurvived
<1>1. Init => HangupInv
    BY DEF Init, HangupInv
<1>2. HangupInv => HangupSurvived
    BY DEF HangupInv, HangupSurvived
<1> QED BY <1>1, <1>2, HangupStep, TypeCorrect, PTL DEF Spec

-----------------------------------------------------------------------------
(* Apply. *)

\* Compiling touches nothing in force, and the stores follow one another.
LEMMA ApplyInvStep ==
    ASSUME TypeOK, ApplyInv, [Next]_vars
    PROVE  ApplyInv'
<1> USE DEF ApplyInv, Storing, diskVars, locals, signals, process
<1>1. CASE WritePid
    BY <1>1 DEF WritePid
<1>2. CASE InstallHangup
    BY <1>2 DEF InstallHangup
<1>3. CASE LoadConfig
    BY <1>3 DEF LoadConfig, BackToSelect
<1>4. CASE BuildBlocks
    BY <1>4 DEF BuildBlocks, AfterRefresh, BackToSelect
<1>5. CASE SwapBlocks
    BY <1>5 DEF SwapBlocks, AfterRefresh, BackToSelect
<1>6. CASE StoreConfig
    BY <1>6 DEF StoreConfig, BackToSelect, TypeOK, ApplyFile, File
<1>7. CASE ApplyLoad("signatures")
    BY <1>7, ApplySteps DEF ApplyLoad
<1>8. CASE ApplyLoad("rules")
    BY <1>8, ApplySteps DEF ApplyLoad
<1>9. CASE ApplyLoad("allowlist")
    BY <1>9, ApplySteps DEF ApplyLoad
<1>10. CASE ApplyStore("signatures")
    BY <1>10, ApplySteps DEF ApplyStore, TypeOK, ApplyFile, File
<1>11. CASE ApplyStore("rules")
    BY <1>11, ApplySteps DEF ApplyStore, TypeOK, ApplyFile, File
<1>12. CASE ApplyStore("allowlist")
    BY <1>12, ApplySteps DEF ApplyStore, TypeOK, ApplyFile, File
<1>13. ASSUME NEW f \in Feed, FetchFeed(f)
      PROVE  ApplyInv'
    BY <1>13 DEF FetchFeed
<1>14. CASE OnCancelled
    BY <1>14 DEF OnCancelled, Selecting
<1>15. CASE OnShutdown
    BY <1>15 DEF OnShutdown, Selecting
<1>16. CASE OnHangup
    BY <1>16 DEF OnHangup, Selecting
<1>17. CASE OnRefreshTick
    BY <1>17 DEF OnRefreshTick, Selecting
<1>18. CASE OnMaintenance
    BY <1>18 DEF OnMaintenance, Selecting
<1>19. CASE ProxyBind
    BY <1>19 DEF ProxyBind
<1>20. CASE ProxyStop
    BY <1>20 DEF ProxyStop
<1>21. CASE Exit
    BY <1>21 DEF Exit
<1>22. CASE SigHup
    BY <1>22 DEF SigHup
<1>23. CASE SigTerm
    BY <1>23 DEF SigTerm
<1>24. CASE EditBans
    BY <1>24 DEF EditBans
<1>25. ASSUME NEW f \in File, Edit(f)
       PROVE  ApplyInv'
    BY <1>25 DEF Edit
<1>26. CASE Tick
    BY <1>26 DEF Tick
<1>27. CASE UNCHANGED vars
    BY <1>27 DEF vars
<1> QED
    BY <1>1, <1>2, <1>3, <1>4, <1>5, <1>6, <1>7, <1>8, <1>9, <1>10, <1>11, <1>12,
       <1>13, <1>14, <1>15, <1>16, <1>17, <1>18, <1>19, <1>20, <1>21, <1>22, <1>23,
       <1>24, <1>25, <1>26, <1>27, Steps, Zenon

\* Signatures, rules and allowlist in force come from one apply that compiled all
\* three, whatever fails on the way.
THEOREM ApplyAtomic == Spec => []ApplyAllOrNothing
<1>1. Init => ApplyInv
    BY DEF Init, ApplyInv, ApplyFile, File, Storing
<1>2. ApplyInv => ApplyAllOrNothing
    BY DEF ApplyInv, ApplyAllOrNothing
<1> QED BY <1>1, <1>2, ApplyInvStep, TypeCorrect, PTL DEF Spec

-----------------------------------------------------------------------------
(* Reload. *)

\* Only taking the SIGHUP enters its branch and clears it.
LEMMA CauseStep ==
    ASSUME TypeOK, CauseInv, [Next]_vars
    PROVE  CauseInv'
<1> USE DEF CauseInv, Loading, Storing, diskVars, locals, signals, process
<1>1. CASE WritePid
    BY <1>1 DEF WritePid
<1>2. CASE InstallHangup
    BY <1>2 DEF InstallHangup
<1>3. CASE LoadConfig
    BY <1>3 DEF LoadConfig, BackToSelect
<1>4. CASE BuildBlocks
    BY <1>4 DEF BuildBlocks, AfterRefresh, BackToSelect
<1>5. CASE SwapBlocks
    BY <1>5 DEF SwapBlocks, AfterRefresh, BackToSelect
<1>6. CASE StoreConfig
    BY <1>6 DEF StoreConfig, BackToSelect
<1>7. CASE ApplyLoad("signatures")
    BY <1>7, ApplySteps DEF ApplyLoad
<1>8. CASE ApplyLoad("rules")
    BY <1>8, ApplySteps DEF ApplyLoad
<1>9. CASE ApplyLoad("allowlist")
    BY <1>9, ApplySteps DEF ApplyLoad
<1>10. CASE ApplyStore("signatures")
    BY <1>10, ApplySteps DEF ApplyStore
<1>11. CASE ApplyStore("rules")
    BY <1>11, ApplySteps DEF ApplyStore
<1>12. CASE ApplyStore("allowlist")
    BY <1>12, ApplySteps DEF ApplyStore
<1>13. ASSUME NEW f \in Feed, FetchFeed(f)
      PROVE  CauseInv'
    BY <1>13 DEF FetchFeed
<1>14. CASE OnCancelled
    BY <1>14 DEF OnCancelled, Selecting
<1>15. CASE OnShutdown
    BY <1>15 DEF OnShutdown, Selecting
<1>16. CASE OnHangup
    BY <1>16 DEF OnHangup, Selecting
<1>17. CASE OnRefreshTick
    BY <1>17 DEF OnRefreshTick, Selecting
<1>18. CASE OnMaintenance
    BY <1>18 DEF OnMaintenance, Selecting
<1>19. CASE ProxyBind
    BY <1>19 DEF ProxyBind
<1>20. CASE ProxyStop
    BY <1>20 DEF ProxyStop
<1>21. CASE Exit
    BY <1>21 DEF Exit
<1>22. CASE SigHup
    BY <1>22 DEF SigHup
<1>23. CASE SigTerm
    BY <1>23 DEF SigTerm
<1>24. CASE EditBans
    BY <1>24 DEF EditBans
<1>25. ASSUME NEW f \in File, Edit(f)
       PROVE  CauseInv'
    BY <1>25 DEF Edit
<1>26. CASE Tick
    BY <1>26 DEF Tick
<1>27. CASE UNCHANGED vars
    BY <1>27 DEF vars
<1> QED
    BY <1>1, <1>2, <1>3, <1>4, <1>5, <1>6, <1>7, <1>8, <1>9, <1>10, <1>11, <1>12,
       <1>13, <1>14, <1>15, <1>16, <1>17, <1>18, <1>19, <1>20, <1>21, <1>22, <1>23,
       <1>24, <1>25, <1>26, <1>27, Steps, Zenon

\* A step of the reload gets one file further, and a step of anything else either
\* leaves the reload's work alone or announces that more is to come.
LEMMA ReloadStep ==
    ASSUME TypeOK, CauseInv, ReloadInv, [Next]_vars
    PROVE  ReloadInv'
<1> USE DEF ReloadInv, AllGood, Seen, InForce, Storing, ApplyFile, File, diskVars, locals,
            signals, process
<1>0. live \in [File -> Gen] /\ new \in [File -> Gen] /\ cause \in {"init", "hup", "tick"}
    BY DEF TypeOK
<1>1. CASE WritePid
    BY <1>1 DEF WritePid
<1>2. CASE InstallHangup
    BY <1>2 DEF InstallHangup, CauseInv, Loading
<1>3. CASE LoadConfig
    BY <1>0, <1>3 DEF LoadConfig, BackToSelect, CauseInv, Loading
<1>4. CASE BuildBlocks
    BY <1>0, <1>4 DEF BuildBlocks, AfterRefresh, BackToSelect, CauseInv, Loading
<1>5. CASE SwapBlocks
    BY <1>0, <1>5 DEF SwapBlocks, AfterRefresh, BackToSelect, CauseInv, Loading
<1>6. CASE StoreConfig
    BY <1>0, <1>6 DEF StoreConfig, BackToSelect, CauseInv, Loading
<1>7. CASE ApplyLoad("signatures")
    BY <1>0, <1>7, ApplySteps DEF ApplyLoad, Compiles, CauseInv, Loading
<1>8. CASE ApplyLoad("rules")
    BY <1>0, <1>8, ApplySteps DEF ApplyLoad, Compiles, CauseInv, Loading
<1>9. CASE ApplyLoad("allowlist")
    BY <1>0, <1>9, ApplySteps DEF ApplyLoad, Compiles, CauseInv, Loading
<1>10. CASE ApplyStore("signatures")
    BY <1>0, <1>10, ApplySteps DEF ApplyStore, CauseInv, Loading
<1>11. CASE ApplyStore("rules")
    BY <1>0, <1>11, ApplySteps DEF ApplyStore, CauseInv, Loading
<1>12. CASE ApplyStore("allowlist")
    BY <1>0, <1>12, ApplySteps DEF ApplyStore, CauseInv, Loading
<1>13. ASSUME NEW f \in Feed, FetchFeed(f)
      PROVE  ReloadInv'
    BY <1>13 DEF FetchFeed
<1>14. CASE OnCancelled
    BY <1>14 DEF OnCancelled, Selecting
<1>15. CASE OnShutdown
    BY <1>15 DEF OnShutdown, Selecting
<1>16. CASE OnHangup
    BY <1>16 DEF OnHangup, Selecting
<1>17. CASE OnRefreshTick
    BY <1>17 DEF OnRefreshTick, Selecting
<1>18. CASE OnMaintenance
    BY <1>18 DEF OnMaintenance, Selecting
<1>19. CASE ProxyBind
    BY <1>19 DEF ProxyBind
<1>20. CASE ProxyStop
    BY <1>20 DEF ProxyStop
<1>21. CASE Exit
    BY <1>21 DEF Exit
<1>22. CASE SigHup
    BY <1>22 DEF SigHup
<1>23. CASE SigTerm
    BY <1>23 DEF SigTerm
<1>24. CASE EditBans
    BY <1>24 DEF EditBans
<1>25. ASSUME NEW f \in File, Edit(f)
       PROVE  ReloadInv'
    BY <1>25 DEF Edit
<1>26. CASE Tick
    BY <1>26 DEF Tick
<1>27. CASE UNCHANGED vars
    BY <1>27 DEF vars
<1> QED
    BY <1>1, <1>2, <1>3, <1>4, <1>5, <1>6, <1>7, <1>8, <1>9, <1>10, <1>11, <1>12,
       <1>13, <1>14, <1>15, <1>16, <1>17, <1>18, <1>19, <1>20, <1>21, <1>22, <1>23,
       <1>24, <1>25, <1>26, <1>27, Steps, Zenon

\* When the supervisor is idle, a SIGHUP followed the last edit and every file is
\* good, what is in force is what is on disk: no SIGHUP is lost.
THEOREM ReloadComplete == Spec => []ReloadTookEffect
<1>1. Init => CauseInv /\ ReloadInv
    BY DEF Init, CauseInv, ReloadInv, Loading, Storing
<1>2. ReloadInv => ReloadTookEffect
    BY DEF ReloadInv, ReloadTookEffect, Idle, InForce
<1> QED BY <1>1, <1>2, CauseStep, ReloadStep, TypeCorrect, PTL DEF Spec

-----------------------------------------------------------------------------
(* Bans. *)

\* build_blocks starts from the local sources.
LEMMA FaithfulBuilt ==
    ASSUME NEW c, NEW lines, NEW t
    PROVE  Faithful(LocalAt(c, lines, t), c, lines, t)
BY DEF Faithful

\* A feed that answers adds entries of feeds only.
LEMMA FaithfulFetched ==
    ASSUME NEW list, NEW c, NEW lines, NEW t \in Time, NEW f \in Feed,
           Faithful(list, c, lines, t)
    PROVE  Faithful(list \cup ParseBlocklist(FeedLines[f], t), c, lines, t)
<1>1. ParseBlocklist(FeedLines[f], t) \subseteq Remote
    BY DEF Remote
<1> QED BY <1>1 DEF Faithful

\* Pruning drops nothing that a source still says.
LEMMA FaithfulPruned ==
    ASSUME NEW list, NEW c, NEW lines, NEW t, Faithful(list, c, lines, t)
    PROVE  Faithful(Pruned(list, t), c, lines, t)
<1>1. \A e \in LocalAt(c, lines, t) : Active(e, t)
    BY PermActive, ParseActive DEF LocalAt
<1> QED BY <1>1 DEF Faithful, Pruned

\* As entries expire the list and its sources shrink together.
LEMMA FaithfulLater ==
    ASSUME NEW list \in SUBSET EntryType, NEW c, NEW lines \in SUBSET LineType, NEW t \in Nat,
           Faithful(list, c, lines, t)
    PROVE  Faithful(list, c, lines, t + 1)
<1>1. LocalAt(c, lines, t + 1) \subseteq LocalAt(c, lines, t)
    BY ParseShrinks DEF LocalAt
<1>2. ASSUME NEW e \in list, Active(e, t + 1)
      PROVE  e \in LocalAt(c, lines, t + 1) \cup Remote
  <2>1. e \in LocalAt(c, lines, t) \cup Remote
      BY <1>2, ActiveBefore DEF Faithful
  <2>2. CASE e \in ParseBlocklist(lines, t)
      BY <1>2, <2>2, ParseKeepsActive DEF LocalAt
  <2> QED BY <2>1, <2>2 DEF LocalAt
<1> QED BY <1>1, <1>2 DEF Faithful

\* A faithful list blocks what its sources say and nothing else.
LEMMA FaithfulMatches ==
    ASSUME NEW list, NEW c, NEW lines, NEW t, Faithful(list, c, lines, t), NEW ip
    PROVE  /\ Matched(LocalAt(c, lines, t), ip, t) => Matched(list, ip, t)
           /\ Matched(list, ip, t) => Matched(LocalAt(c, lines, t) \cup Remote, ip, t)
BY DEF Faithful, Matched

\* The list is rebuilt, pruned and swapped without losing a ban or keeping an
\* unban.
LEMMA BansStep ==
    ASSUME TypeOK, BansInv, [Next]_vars
    PROVE  BansInv'
<1> USE DEF BansInv, diskVars, locals, signals, process
<1>1. CASE WritePid
    BY <1>1 DEF WritePid, RefreshConfig
<1>2. CASE InstallHangup
    BY <1>2 DEF InstallHangup, RefreshConfig
<1>3. CASE LoadConfig
    BY <1>3 DEF LoadConfig, BackToSelect
<1>4. CASE BuildBlocks
  <2>1. CASE bansOk
    <3>1. /\ fresh' = LocalAt(RefreshConfig, bans, now) /\ RefreshConfig' = RefreshConfig
          /\ sup' = "fetch" /\ UNCHANGED <<bans, now>>
        BY <1>4, <2>1 DEF BuildBlocks, LocalAt, RefreshConfig
    <3>2. Faithful(fresh', RefreshConfig', bans', now')
        BY <3>1, FaithfulBuilt
    <3> QED BY <3>1, <3>2
  <2>2. CASE ~bansOk
      BY <1>4, <2>2 DEF BuildBlocks
  <2> QED BY <2>1, <2>2
<1>5. CASE SwapBlocks
    BY <1>5 DEF SwapBlocks, AfterRefresh, BackToSelect, RefreshConfig
<1>6. CASE StoreConfig
  <2>1. live'["config"] = new["config"]
      BY <1>6 DEF StoreConfig, TypeOK, File
  <2> QED BY <1>6, <2>1 DEF StoreConfig, BackToSelect
<1>7. CASE ApplyLoad("signatures")
    BY <1>7, ApplySteps DEF ApplyLoad
<1>8. CASE ApplyLoad("rules")
    BY <1>8, ApplySteps DEF ApplyLoad
<1>9. CASE ApplyLoad("allowlist")
    BY <1>9, ApplySteps DEF ApplyLoad
<1>10. CASE ApplyStore("signatures")
    BY <1>10, ApplySteps DEF ApplyStore
<1>11. CASE ApplyStore("rules")
    BY <1>11, ApplySteps DEF ApplyStore
<1>12. CASE ApplyStore("allowlist")
    BY <1>12, ApplySteps DEF ApplyStore
<1>13. ASSUME NEW f \in Feed, FetchFeed(f)
      PROVE  BansInv'
  <2>1. /\ sup = "fetch" /\ sup' = "fetch" /\ RefreshConfig' = RefreshConfig
        /\ UNCHANGED <<covered, hup, bansOk, disk, bans, now>>
      BY <1>13 DEF FetchFeed, RefreshConfig
  <2>2. fresh' = fresh \/ fresh' = fresh \cup ParseBlocklist(FeedLines[f], now)
      BY <1>13 DEF FetchFeed
  <2>3. ASSUME Faithful(fresh, RefreshConfig, bans, now)
        PROVE  Faithful(fresh', RefreshConfig, bans, now)
      BY <2>2, <2>3, FaithfulFetched DEF TypeOK
  <2> QED BY <2>1, <2>3
<1>14. CASE OnCancelled
    BY <1>14 DEF OnCancelled, Selecting, RefreshConfig
<1>15. CASE OnShutdown
    BY <1>15 DEF OnShutdown, Selecting, RefreshConfig
<1>16. CASE OnHangup
    BY <1>16 DEF OnHangup, Selecting, RefreshConfig
<1>17. CASE OnRefreshTick
    BY <1>17 DEF OnRefreshTick, Selecting, RefreshConfig
<1>18. CASE OnMaintenance
  <2>1. /\ sup = "select" /\ sup' = "select" /\ blocks' = Pruned(blocks, now)
        /\ UNCHANGED <<covered, hup, bansOk, disk, bans, now, live>>
      BY <1>18 DEF OnMaintenance, Selecting
  <2>2. ASSUME Faithful(blocks, live["config"], bans, now)
        PROVE  Faithful(blocks', live["config"], bans, now)
      BY <2>1, <2>2, FaithfulPruned
  <2> QED BY <2>1, <2>2
<1>19. CASE ProxyBind
    BY <1>19 DEF ProxyBind, RefreshConfig
<1>20. CASE ProxyStop
    BY <1>20 DEF ProxyStop, RefreshConfig
<1>21. CASE Exit
    BY <1>21 DEF Exit, RefreshConfig
<1>22. CASE SigHup
    BY <1>22 DEF SigHup, RefreshConfig
<1>23. CASE SigTerm
    BY <1>23 DEF SigTerm, RefreshConfig
<1>24. CASE EditBans
    BY <1>24 DEF EditBans
<1>25. ASSUME NEW f \in File, Edit(f)
       PROVE  BansInv'
    BY <1>25 DEF Edit
<1>26. CASE Tick
  <2>1. /\ now' = now + 1 /\ RefreshConfig' = RefreshConfig
        /\ UNCHANGED <<covered, hup, bansOk, disk, bans, live, new, blocks, fresh, sup>>
      BY <1>26 DEF Tick, RefreshConfig
  <2>2. /\ now \in Nat /\ bans \in SUBSET LineType
        /\ fresh \in SUBSET EntryType /\ blocks \in SUBSET EntryType
      BY SupervisorAssumption DEF TypeOK, Time
  <2>3. \A c : Faithful(fresh, c, bans, now) => Faithful(fresh', c, bans', now')
      BY <2>1, <2>2, FaithfulLater
  <2>4. \A c : Faithful(blocks, c, bans, now) => Faithful(blocks', c, bans', now')
      BY <2>1, <2>2, FaithfulLater
  <2> QED BY <2>1, <2>3, <2>4
<1>27. CASE UNCHANGED vars
    BY <1>27 DEF vars, RefreshConfig
<1> QED
    BY <1>1, <1>2, <1>3, <1>4, <1>5, <1>6, <1>7, <1>8, <1>9, <1>10, <1>11, <1>12,
       <1>13, <1>14, <1>15, <1>16, <1>17, <1>18, <1>19, <1>20, <1>21, <1>22, <1>23,
       <1>24, <1>25, <1>26, <1>27, Steps, Zenon

\* A ban that a SIGHUP announced is in force until it expires, an unban or an
\* expired ban is not, for any files, feeds and times.
THEOREM BansHold == Spec => []BansInForce
<1>1. Init => BansInv
    BY DEF Init, BansInv
<1>2. ASSUME BansInv
      PROVE  BansInForce
  <2> SUFFICES ASSUME Idle, covered, bansOk, disk["config"].ok, NEW ip \in IP
               PROVE  /\ Matched(Local, ip, now) => Matched(blocks, ip, now)
                      /\ Matched(blocks, ip, now) => Matched(Local \cup Remote, ip, now)
      BY DEF BansInForce
  <2>1. Faithful(blocks, live["config"], bans, now)
      BY <1>2 DEF BansInv, Idle
  <2>2. Local = LocalAt(live["config"], bans, now)
      BY DEF Local, LocalAt
  <2> QED BY <2>1, <2>2, FaithfulMatches
<1> QED BY <1>1, <1>2, BansStep, TypeCorrect, PTL DEF Spec

\* Pruning changes no verdict, and nothing else touches the list while the
\* supervisor waits in its select!.
THEOREM MaintenanceInvisible == Spec => MaintenanceIsInvisible
<1>1. ASSUME [Next]_vars, sup = "select", sup' = "select", NEW ip \in IP
      PROVE  Matched(blocks, ip, now) = Matched(blocks', ip, now)
  <2> USE DEF diskVars, locals, signals, process
  <2>1. CASE OnMaintenance
      BY <2>1, PrunedMatches DEF OnMaintenance
  <2>2. CASE ~OnMaintenance
    <3>1. ~BuildBlocks /\ ~SwapBlocks /\ ~StoreConfig /\ ~LoadConfig
        BY <1>1 DEF BuildBlocks, SwapBlocks, StoreConfig, LoadConfig
    <3>2. blocks' = blocks
        BY <1>1, <2>2, <3>1, Steps DEF WritePid, InstallHangup, ApplyLoad, ApplyStore, FetchFeed,
           OnCancelled, OnShutdown, OnHangup, OnRefreshTick, ProxyBind, ProxyStop, Exit, SigHup,
           SigTerm, EditBans, Edit, Tick, vars
    <3> QED BY <3>2
  <2> QED BY <2>1, <2>2
<1>2. [Next]_vars =>
        [sup = "select" /\ sup' = "select" =>
            \A ip \in IP : Matched(blocks, ip, now) = Matched(blocks', ip, now)]_vars
    BY <1>1
<1> QED BY <1>2, PTL DEF Spec, MaintenanceIsInvisible

-----------------------------------------------------------------------------
(* What the requests see of a step: the cells they share with the supervisor. *)

\* One cell is stored at a time, and always with what was loaded for it.
LEMMA OneCell ==
    ASSUME [Next]_vars
    PROVE  \/ live' = live
           \/ /\ blocks' = blocks /\ now' = now
              /\ \E f \in File : live' = [live EXCEPT ![f] = new[f]]
<1> USE DEF diskVars, locals, signals, process
<1>1. CASE \E f \in ApplyFile : ApplyStore(f)
    BY <1>1 DEF ApplyStore, File
<1>2. CASE StoreConfig
    BY <1>2 DEF StoreConfig, File
<1>3. CASE ~StoreConfig /\ ~\E f \in ApplyFile : ApplyStore(f)
  <2>1. live' = live
      BY <1>3, Steps DEF ApplyFile, WritePid, InstallHangup, LoadConfig, BuildBlocks, SwapBlocks, ApplyLoad,
         FetchFeed, OnCancelled, OnShutdown, OnHangup, OnRefreshTick, OnMaintenance, ProxyBind,
         ProxyStop, Exit, SigHup, SigTerm, EditBans, Edit, Tick, vars
  <2> QED BY <2>1
<1> QED BY <1>1, <1>2, <1>3

\* The files change with the count of edits.
LEMMA OnlyEditsWrite ==
    ASSUME TypeOK, [Next]_vars, edits' = edits
    PROVE  disk' = disk
<1> USE DEF diskVars, locals, signals, process
<1>1. edits \in Nat
    BY SupervisorAssumption DEF TypeOK, Gen
<1>2. ~EditBans /\ ~\E f \in File : Edit(f)
    BY <1>1 DEF EditBans, Edit
<1> QED
    BY <1>2, Steps DEF WritePid, InstallHangup, LoadConfig, BuildBlocks, SwapBlocks, StoreConfig,
       ApplyLoad, ApplyStore, FetchFeed, OnCancelled, OnShutdown, OnHangup, OnRefreshTick,
       OnMaintenance, ProxyBind, ProxyStop, Exit, SigHup, SigTerm, Tick, vars

\* The list holds every entry the blocklist file yields now.
Holds(list) == ParseBlocklist(bans, now) \subseteq list

\* The file's bans are in force, and in the list that is about to be.
BanInForce == Holds(blocks) /\ (sup = "fetch" => Holds(fresh))

\* An announced ban is in force when the supervisor is at rest.
LEMMA BanArrives ==
    ASSUME BansInv, Idle, covered, bansOk, disk["config"].ok
    PROVE  BanInForce
BY DEF BansInv, Idle, Faithful, LocalAt, BanInForce, Holds

\* As long as the file stays as it is, refreshes, failed feeds, prunings and the
\* clock keep its bans in force.
LEMMA BanStays ==
    ASSUME TypeOK, BanInForce, [Next]_vars, bansOk, bans' = bans
    PROVE  BanInForce'
<1> USE DEF diskVars, locals, signals, process
<1>1. CASE BuildBlocks
    BY <1>1 DEF BuildBlocks, BanInForce, Holds
<1>2. ASSUME NEW f \in Feed, FetchFeed(f)
      PROVE  BanInForce'
    BY <1>2 DEF FetchFeed, BanInForce, Holds
<1>3. CASE SwapBlocks
  <2>1. /\ sup = "fetch" /\ sup' # "fetch"
        /\ blocks' = fresh /\ UNCHANGED <<bans, now>>
      BY <1>3 DEF SwapBlocks, AfterRefresh, BackToSelect
  <2> QED BY <2>1 DEF BanInForce, Holds
<1>4. CASE OnMaintenance
  <2>1. \A e \in ParseBlocklist(bans, now) : Active(e, now)
      BY ParseActive
  <2>2. sup' = "select" /\ blocks' = Pruned(blocks, now) /\ UNCHANGED <<bans, now>>
      BY <1>4 DEF OnMaintenance, Selecting
  <2> QED BY <2>1, <2>2 DEF BanInForce, Holds, Pruned
<1>5. CASE Tick
  <2>1. now \in Nat /\ bans \in SUBSET LineType
      BY SupervisorAssumption DEF TypeOK, Time
  <2>2. ParseBlocklist(bans, now + 1) \subseteq ParseBlocklist(bans, now)
      BY <2>1, ParseShrinks
  <2>3. now' = now + 1 /\ UNCHANGED <<bans, blocks, fresh, sup>>
      BY <1>5 DEF Tick
  <2> QED BY <2>2, <2>3 DEF BanInForce, Holds
<1>6. CASE /\ ~BuildBlocks /\ ~SwapBlocks /\ ~OnMaintenance /\ ~Tick
           /\ ~\E f \in Feed : FetchFeed(f)
  <2>1. /\ blocks' = blocks /\ now' = now
        /\ sup' = "fetch" => sup = "fetch" /\ fresh' = fresh
      BY <1>6, Steps, ApplySteps DEF WritePid, InstallHangup, LoadConfig, BackToSelect, StoreConfig, ApplyLoad,
         ApplyStore, OnCancelled, OnShutdown, OnHangup, OnRefreshTick, ProxyBind, ProxyStop,
         Exit, SigHup, SigTerm, EditBans, Edit, vars
  <2> QED BY <2>1 DEF BanInForce, Holds
<1> QED BY <1>1, <1>2, <1>3, <1>4, <1>5, <1>6

\* What is in force is what is on disk, and a reload under way has read nothing else.
StayInv ==
    /\ AllGood /\ InForce(File)
    /\ cause = "hup" /\ sup \notin {"load_config", "select", "stopped"} => Seen({"config"})
    /\ sup \in {"load_rules", "load_allowlist"} \cup Storing => Seen({"signatures"})
    /\ sup \in {"load_allowlist"} \cup Storing => Seen({"rules"})
    /\ sup \in Storing => Seen({"allowlist"})

\* A reload that was announced and is over has taken effect.
LEMMA ReloadArrives ==
    ASSUME ReloadInv, Idle, covered, AllGood
    PROVE  StayInv
BY DEF ReloadInv, Idle, StayInv, Storing

\* Until the next edit, reloads store what is in force already.
LEMMA ReloadStays ==
    ASSUME TypeOK, CauseInv, StayInv, [Next]_vars, edits' = edits
    PROVE  StayInv'
<1> USE DEF StayInv, AllGood, Seen, InForce, Storing, ApplyFile, File, diskVars, locals,
            signals, process
<1>0. live \in [File -> Gen] /\ new \in [File -> Gen] /\ disk' = disk
    BY OnlyEditsWrite DEF TypeOK
<1>1. CASE LoadConfig
    BY <1>0, <1>1 DEF LoadConfig, BackToSelect
<1>2. CASE BuildBlocks
    BY <1>0, <1>2 DEF BuildBlocks, AfterRefresh, BackToSelect
<1>3. CASE SwapBlocks
    BY <1>0, <1>3 DEF SwapBlocks, AfterRefresh, BackToSelect
<1>4. CASE StoreConfig
    BY <1>0, <1>4 DEF StoreConfig, BackToSelect, CauseInv, Loading
<1>5. CASE ApplyLoad("signatures")
    BY <1>0, <1>5, ApplySteps DEF ApplyLoad, Compiles
<1>6. CASE ApplyLoad("rules")
    BY <1>0, <1>6, ApplySteps DEF ApplyLoad, Compiles
<1>7. CASE ApplyLoad("allowlist")
    BY <1>0, <1>7, ApplySteps DEF ApplyLoad, Compiles
<1>8. CASE ApplyStore("signatures")
    BY <1>0, <1>8, ApplySteps DEF ApplyStore
<1>9. CASE ApplyStore("rules")
    BY <1>0, <1>9, ApplySteps DEF ApplyStore
<1>10. CASE ApplyStore("allowlist")
    BY <1>0, <1>10, ApplySteps DEF ApplyStore
<1>11. CASE OnHangup
    BY <1>0, <1>11 DEF OnHangup
<1>12. CASE WritePid \/ InstallHangup
    BY <1>0, <1>12 DEF WritePid, InstallHangup
<1>13. CASE OnCancelled \/ OnShutdown \/ OnRefreshTick \/ OnMaintenance
    BY <1>0, <1>13 DEF OnCancelled, OnShutdown, OnRefreshTick, OnMaintenance
<1>14. CASE ProxyBind \/ ProxyStop \/ Exit
    BY <1>0, <1>14 DEF ProxyBind, ProxyStop, Exit
<1>15. CASE SigHup \/ SigTerm \/ Tick
    BY <1>0, <1>15 DEF SigHup, SigTerm, Tick
<1>16. ASSUME NEW f \in Feed, FetchFeed(f)
       PROVE  StayInv'
    BY <1>0, <1>16 DEF FetchFeed
<1>17. ~EditBans /\ ~\E f \in File : Edit(f)
  <2>1. edits \in Nat
      BY SupervisorAssumption DEF TypeOK, Gen
  <2> QED BY <2>1 DEF EditBans, Edit
<1>18. CASE UNCHANGED vars
    BY <1>18 DEF vars
<1> QED
    BY <1>1, <1>2, <1>3, <1>4, <1>5, <1>6, <1>7, <1>8, <1>9, <1>10, <1>11, <1>12, <1>13, <1>14,
       <1>15, <1>16, <1>17, <1>18, Steps, Zenon

\* All that the supervisor's invariants say, in one.
SupervisorInv == TypeOK /\ CauseInv /\ ReloadInv /\ BansInv

\* The supervisor's invariants hold at every step of every reload, refresh and
\* pruning.
THEOREM SupervisorInvariant == Spec => []SupervisorInv
<1>1. Init => SupervisorInv
  <2>1. Init => CauseInv /\ ReloadInv /\ BansInv
      BY DEF Init, CauseInv, ReloadInv, BansInv, Loading, Storing
  <2> QED BY <2>1, TypeInit DEF SupervisorInv
<1>2. SupervisorInv /\ [Next]_vars => SupervisorInv'
    BY TypeStep, CauseStep, ReloadStep, BansStep DEF SupervisorInv
<1> QED BY <1>1, <1>2, PTL DEF Spec
=============================================================================
