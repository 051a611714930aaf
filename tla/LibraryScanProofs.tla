-------------------------- MODULE LibraryScanProofs --------------------------
(* Proofs about LibraryScan, for every set of files, scopes and hosts.      *)
EXTENDS LibraryScan, TLAPS

-----------------------------------------------------------------------------
(* Type correctness.                                                        *)

\* The assessment of library_storage.rs yields a plan.
LEMMA PlanType ==
    ASSUME NEW h \in Hosts, NEW s \in Situations, NEW r \in Records,
           NEW known
    PROVE  StoragePlan(h, s, r, known) \in Plans
<1>1. RootVerdict(h, s, r, known) \in Verdicts
  BY DEF RootVerdict, Verdicts
<1>2. BelowVerdict(h, s, r) \in Verdicts \union {"no region"}
  BY DEF BelowVerdict, Verdicts
<1>3. RootMissing(h, s, r, known) \in BOOLEAN
  BY DEF RootMissing
<1>4. RootIsNetwork(h, s, r) \in BOOLEAN
  BY DEF RootIsNetwork, Hosts
<1>. QED
  BY <1>1, <1>2, <1>3, <1>4 DEF StoragePlan, Plans

\* What a whole scan records of the storage is a record.
LEMMA RecordType ==
    ASSUME NEW p \in Plans, NEW r \in Records
    PROVE  storage_record(p, r) \in Records
  BY DEF storage_record, Plans, Records

\* Merging scopes yields a scope.
LEMMA MergeType ==
    ASSUME NEW s \in AnyScope, NEW t \in AnyScope
    PROVE  MergedScope(s, t) \in AnyScope
  BY DEF MergedScope, AnyScope

\* Ending an attempt leaves variables of the right type.
LEMMA EndType ==
    ASSUME TypeOK, NEW status \in {"pending", "none"}, EndAttempt(status),
           UNCHANGED <<environment, library, request>>
    PROVE  TypeOK'
<1>1. NoExec \in [pc : {"idle", "assess", "discover", "walk", "process",
                       "lookup", "commit", "finish"},
                 scope : AnyScope, plan : Plans,
                 todo : SUBSET Files, seen : SUBSET Files, kept : SUBSET Files,
                 failed : SUBSET Files, changed : BOOLEAN,
                 unanswered : BOOLEAN, cancel : BOOLEAN]
  BY DEF NoExec, NoPlan, Plans, Verdicts, AnyScope
<1>2. NoAttempt \in [gone : SUBSET Files, quiet : BOOLEAN, outages : Nat]
  BY DEF NoAttempt
<1>3. NoScan \in [status : {"none", "pending", "running"}, scope : AnyScope]
  BY DEF NoScan, AnyScope
<1>. QED
  BY <1>1, <1>2, <1>3 DEF TypeOK, EndAttempt, environment, library

\* The types hold initially.
LEMMA InitType == Init => TypeOK
<1>. SUFFICES ASSUME Init PROVE TypeOK
  OBVIOUS
<1>1. host \in Hosts /\ storage \in Situations
  BY HostKindsAssumption, ContentsAssumption DEF Init, Situations
<1>2. record \in Records /\ catalog \in SUBSET Files
  BY DEF Init, Records
<1>3. scan \in [status : {"none", "pending", "running"}, scope : AnyScope]
  BY DEF Init, NoScan, AnyScope
<1>4. request \in [pc : {"idle", "enqueue", "merge"}, scope : AnyScope]
  BY DEF Init, NoRequest, AnyScope
<1>5. exec \in [pc : {"idle", "assess", "discover", "walk", "process",
                       "lookup", "commit", "finish"},
                 scope : AnyScope, plan : Plans,
                 todo : SUBSET Files, seen : SUBSET Files, kept : SUBSET Files,
                 failed : SUBSET Files, changed : BOOLEAN,
                 unanswered : BOOLEAN, cancel : BOOLEAN]
  BY DEF Init, NoExec, NoPlan, Plans, Verdicts, AnyScope
<1>6. asked \in SUBSET AnyScope
  BY DEF Init
<1>7. attempt \in [gone : SUBSET Files, quiet : BOOLEAN, outages : Nat]
  BY DEF Init, NoAttempt
<1>. QED
  BY <1>1, <1>2, <1>3, <1>4, <1>5, <1>6, <1>7 DEF TypeOK

\* A change of the storage preserves the types.
LEMMA ObserveType ==
    ASSUME TypeOK, NEW s \in Situations, Observe(s)
    PROVE  TypeOK'
<1>1. MayBeTakenForDeleted(s) \subseteq Files
  BY DEF MayBeTakenForDeleted
<1>2. attempt' \in [gone : SUBSET Files, quiet : BOOLEAN, outages : Nat]
  <2>. DEFINE n == IF /\ storage.root \in {"up", "missing"}
                      /\ s.root \in {"gone", "stuck"}
                   THEN attempt.outages + 1 ELSE attempt.outages
  <2>1. n \in Nat
    BY DEF TypeOK
  <2>2. CASE exec.pc = "idle"
    BY <2>2 DEF TypeOK, Observe
  <2>3. CASE exec.pc # "idle"
    <3>1. attempt' = [attempt EXCEPT
                        !.gone = attempt.gone \union MayBeTakenForDeleted(s),
                        !.quiet = FALSE, !.outages = n]
      BY <2>3 DEF Observe
    <3>. HIDE DEF n
    <3>. QED
      BY <1>1, <2>1, <3>1 DEF TypeOK
  <2>. QED
    BY <2>2, <2>3
<1>. QED
  BY <1>2 DEF TypeOK, Observe, library

\* Every step preserves the types.
LEMMA NextType ==
    ASSUME TypeOK, [Next]_vars
    PROVE  TypeOK'
<1>p. Assessed \in Plans
  BY PlanType DEF Assessed, TypeOK
<1>n. NoExec \in [pc : {"idle", "assess", "discover", "walk", "process",
                       "lookup", "commit", "finish"},
                 scope : AnyScope, plan : Plans,
                 todo : SUBSET Files, seen : SUBSET Files, kept : SUBSET Files,
                 failed : SUBSET Files, changed : BOOLEAN,
                 unanswered : BOOLEAN, cancel : BOOLEAN]
  BY DEF NoExec, NoPlan, Plans, Verdicts, AnyScope
<1>s. Scopes \subseteq AnyScope
  BY ScopesAssumption DEF AnyScope
<1>1. ASSUME NEW f \in Files, NEW content \in Contents, ChangeFile(f, content)
      PROVE  TypeOK'
  <2>1. [storage EXCEPT !.content[f] = content] \in Situations
    BY ContentsAssumption DEF TypeOK, Situations
  <2>. QED
    BY <1>1, <2>1, ObserveType DEF ChangeFile
<1>2. ASSUME NEW root \in {"up", "gone", "stuck", "missing"}, ChangeRoot(root)
      PROVE  TypeOK'
  <2>1. [storage EXCEPT !.root = root,
                        !.below = IF \/ root = "missing"
                                     \/ root = "gone" /\ ~host.container
                                  THEN "gone" ELSE @] \in Situations
    BY DEF TypeOK, Situations
  <2>. QED
    BY <1>2, <2>1, ObserveType DEF ChangeRoot
<1>3. ASSUME NEW below \in {"up", "gone", "stuck"}, ChangeBelow(below)
      PROVE  TypeOK'
  <2>1. [storage EXCEPT !.below = below] \in Situations
    BY DEF TypeOK, Situations
  <2>. QED
    BY <1>3, <2>1, ObserveType DEF ChangeBelow
<1>4. ASSUME NEW scope \in Scopes, check_library_storage(scope)
      PROVE  TypeOK'
  BY <1>4, <1>s DEF check_library_storage, TypeOK, environment, library
<1>5. CASE enqueue_scan_job_tx
  BY <1>5 DEF enqueue_scan_job_tx, TypeOK, environment, library, NoRequest, AnyScope
<1>6. CASE merge_pending_scan_scope
  <2>1. MergedScope(scan.scope, request.scope) \in AnyScope
    BY MergeType DEF TypeOK
  <2>2. NoRequest \in [pc : {"idle", "enqueue", "merge"}, scope : AnyScope]
    BY DEF NoRequest, AnyScope
  <2>. QED
    BY <1>6, <2>1, <2>2 DEF merge_pending_scan_scope, TypeOK, environment, library
<1>7. CASE mark_scan_job_running
  <2>1. MayBeTakenForDeleted(storage) \subseteq Files
    BY DEF MayBeTakenForDeleted
  <2>2. attempt' \in [gone : SUBSET Files, quiet : BOOLEAN, outages : Nat]
    BY <1>7, <2>1 DEF mark_scan_job_running, NoAttempt
  <2>. QED
    BY <1>7, <1>n, <2>2 DEF mark_scan_job_running, TypeOK, environment, library
<1>8. CASE FailAttempt
  BY <1>8, EndType DEF FailAttempt, TryAgainOrGiveUp
<1>9. CASE RaiseCancellation
  BY <1>9 DEF RaiseCancellation, TypeOK, environment, library
<1>10. CASE finalize_cancelled_scan
  BY <1>10, EndType DEF finalize_cancelled_scan
<1>11. CASE assess_library_storage
  <2>1. CASE Available(host, Assessed, record)
    <3>1. /\ exec' = [exec EXCEPT !.pc = "discover", !.plan = Assessed]
          /\ UNCHANGED <<scan, asked, attempt, request, environment, library>>
      BY <1>11, <2>1 DEF assess_library_storage
    <3>. QED
      BY <3>1, <1>p DEF TypeOK, environment, library
  <2>2. CASE ~Available(host, Assessed, record)
    BY <1>11, <2>2, EndType DEF assess_library_storage, TryAgainOrGiveUp
  <2>. QED
    BY <2>1, <2>2
<1>12. CASE discover_media_files
  <2>1. CASE TryAgainOrGiveUp
    BY <1>12, <2>1, EndType DEF discover_media_files, TryAgainOrGiveUp
  <2>2. CASE exec' = [exec EXCEPT !.pc = "process"] /\ UNCHANGED <<scan, asked, attempt>>
    BY <1>12, <2>2 DEF discover_media_files, TypeOK, environment, library
  <2>3. CASE /\ exec' = [exec EXCEPT !.pc = "walk",
                                     !.todo = {f \in Files : InScope(exec.scope, f)}]
             /\ UNCHANGED <<scan, asked, attempt>>
    <3>1. {f \in Files : InScope(exec.scope, f)} \in SUBSET Files
      OBVIOUS
    <3>. QED
      BY <1>12, <2>3, <3>1 DEF discover_media_files, TypeOK, environment, library
  <2>. QED
    BY <1>12, <2>1, <2>2, <2>3 DEF discover_media_files
<1>13. ASSUME NEW f \in Files, VisitFile(f)
       PROVE  TypeOK'
  BY <1>13 DEF VisitFile, TypeOK, environment, library
<1>14. CASE build_incremental_scan_plan
  <2>. PICK stale \in SUBSET (exec.seen \intersect catalog) :
              exec' = [exec EXCEPT !.pc = "process",
                                   !.todo = (exec.seen \ catalog) \union stale]
    BY <1>14 DEF build_incremental_scan_plan
  <2>1. (exec.seen \ catalog) \union stale \in SUBSET Files
    BY DEF TypeOK
  <2>. QED
    BY <1>14, <2>1 DEF build_incremental_scan_plan, TypeOK, environment, library
<1>15. ASSUME NEW f \in Files, sync_scan_group_media_entries(f)
       PROVE  TypeOK'
  <2>1. CASE /\ catalog' = catalog \union {f}
             /\ exec' = [exec EXCEPT !.todo = exec.todo \ {f}, !.changed = TRUE]
    BY <1>15, <2>1 DEF sync_scan_group_media_entries, TypeOK, environment
  <2>2. CASE /\ exec' = [exec EXCEPT !.todo = exec.todo \ {f},
                                     !.failed = exec.failed \union {f}]
             /\ UNCHANGED catalog
    BY <1>15, <2>2 DEF sync_scan_group_media_entries, TypeOK, environment
  <2>. QED
    BY <1>15, <2>1, <2>2 DEF sync_scan_group_media_entries
<1>16. CASE verify_missing_media_paths
  <2>1. CASE StorageUnchanged
    <3>. DEFINE T == {f \in catalog \ (exec.seen \union exec.kept) :
                         InScope(exec.scope, f) /\ ~is_dead_path(Assessed, f)}
    <3>1. T \in SUBSET Files
      BY DEF TypeOK
    <3>2. exec' = [exec EXCEPT !.pc = "lookup", !.plan = Assessed, !.todo = T]
      BY <1>16, <2>1 DEF verify_missing_media_paths
    <3>3. UNCHANGED <<scan, asked, attempt, environment, library, request>>
      BY <1>16, <2>1 DEF verify_missing_media_paths
    <3>. HIDE DEF T
    <3>. QED
      BY <3>1, <3>2, <3>3, <1>p DEF TypeOK, environment, library
  <2>2. CASE ~StorageUnchanged
    BY <1>16, <2>2, EndType DEF verify_missing_media_paths, TryAgainOrGiveUp
  <2>. QED
    BY <2>1, <2>2
<1>17. ASSUME NEW f \in Files, catalog_path_presence(f)
       PROVE  TypeOK'
  BY <1>17 DEF catalog_path_presence, TypeOK, environment, library
<1>18. CASE FinishLookups
  <2>1. CASE TryAgainOrGiveUp
    BY <1>18, <2>1, EndType DEF FinishLookups, TryAgainOrGiveUp
  <2>2. CASE ~TryAgainOrGiveUp
    BY <1>18, <2>2 DEF FinishLookups, TypeOK, environment, library
  <2>. QED
    BY <2>1, <2>2
<1>19. CASE sync_library_media_changes
  <2>1. record' \in Records
    BY <1>19, RecordType DEF sync_library_media_changes, TypeOK
  <2>2. exec' = [exec EXCEPT !.pc = "finish",
                             !.changed = exec.changed \/ MissingPaths # {}]
    BY <1>19 DEF sync_library_media_changes
  <2>. QED
    BY <1>19, <2>1, <2>2 DEF sync_library_media_changes, TypeOK, environment
<1>20. CASE finalize_scan_job
  BY <1>20, EndType DEF finalize_scan_job, TryAgainOrGiveUp
<1>21. CASE UNCHANGED vars
  BY <1>21 DEF vars, TypeOK
<1>. QED
  BY <1>1, <1>2, <1>3, <1>4, <1>5, <1>6, <1>7, <1>8, <1>9, <1>10, <1>11, <1>12,
     <1>13, <1>14, <1>15, <1>16, <1>17, <1>18, <1>19, <1>20, <1>21 DEF Next

\* Every variable keeps its type.
THEOREM TypeCorrectness == Spec => []TypeOK
  BY InitType, NextType, PTL DEF Spec

-----------------------------------------------------------------------------
(* Outages of the root's mount.                                             *)

\* The end of an attempt leaves nothing to show but the mounts.
LEMMA EndInv ==
    ASSUME MountsInv, NEW status, EndAttempt(status),
           UNCHANGED <<environment, library, request>>
    PROVE  OutageInv'
<1>1. exec'.pc = "idle" /\ attempt'.outages = 0
  BY DEF EndAttempt, NoExec, NoAttempt
<1>2. MountsInv'
  BY DEF MountsInv, environment
<1>3. BoundInv'
  BY <1>1, MaxOutagesAssumption DEF BoundInv
<1>. QED
  BY <1>1, <1>2, <1>3
     DEF OutageInv, HistoryInv, PlanInv, WalkInv, LookupInv, CommitInv

\* While the root can be read, a file that is not found may be taken for
\* deleted.
LEMMA ReadableRoot ==
    ASSUME TypeOK, RootReadable, NEW f \in Files, Presence(storage, f) # "present"
    PROVE  f \in MayBeTakenForDeleted(storage)
  BY DEF TypeOK, Situations, RootReadable, Presence, MayBeTakenForDeleted

\* A healthy verdict on the root's own mount: the root can be read, and what
\* the plan gives up below it may be taken for deleted.
LEMMA HealthyMount ==
    ASSUME TypeOK, record.root # "parent",
           Assessed.verdict = "healthy", Assessed.holder = "mount"
    PROVE  /\ RootReadable
           /\ Assessed.missing => MayBeTakenForDeleted(storage) = Files
           /\ excluded_directories(Assessed) \subseteq MayBeTakenForDeleted(storage)
           /\ \A f \in Files : is_dead_path(Assessed, f) =>
                                   f \in MayBeTakenForDeleted(storage)
<1>1. /\ RootVerdict(host, storage, record, catalog) = "healthy"
      /\ storage.root # "gone"
      /\ Assessed.missing = RootMissing(host, storage, record, catalog)
      /\ Assessed.below = BelowVerdict(host, storage, record)
  BY DEF Assessed, StoragePlan
<1>2. storage.root # "stuck"
  BY <1>1 DEF RootVerdict
<1>3. RootReadable
  BY <1>1, <1>2 DEF TypeOK, Situations, RootReadable
<1>4. Assessed.missing => storage.root = "missing"
  BY <1>1, <1>3 DEF RootMissing, RootAnswers, RootReadable
<1>5. Assessed.below \in {"removed", "abnormal"} =>
          storage.below # "up" \/ storage.root = "missing"
  BY <1>1, <1>3 DEF BelowVerdict, RootReadable
<1>6. Below \subseteq Files
  BY BelowAssumption
<1>7. Assessed.below \in {"removed", "abnormal"} =>
          Below \subseteq MayBeTakenForDeleted(storage)
  BY <1>5, <1>6 DEF MayBeTakenForDeleted
<1>8. Assessed.below \in {"removed", "abnormal", "healthy", "no region"}
  BY <1>1 DEF BelowVerdict
<1>9. excluded_directories(Assessed) \subseteq MayBeTakenForDeleted(storage)
  BY <1>7 DEF excluded_directories
<1>10. ASSUME NEW f \in Files, is_dead_path(Assessed, f)
       PROVE  f \in MayBeTakenForDeleted(storage)
  BY <1>7, <1>8, <1>10 DEF is_dead_path
<1>11. Assessed.missing => MayBeTakenForDeleted(storage) = Files
  BY <1>4 DEF MayBeTakenForDeleted
<1>. QED
  BY <1>3, <1>9, <1>10, <1>11

\* Any other judgement that lets a scan go on leaves nothing to protect: every
\* file may be taken for deleted, or the catalog is empty.
LEMMA OtherJudgement ==
    ASSUME TypeOK, MountsInv, record.root # "parent",
           Available(host, Assessed, record),
           ~(Assessed.verdict = "healthy" /\ Assessed.holder = "mount")
    PROVE  MayBeTakenForDeleted(storage) = Files \/ catalog = {}
<1>1. /\ Assessed.verdict = RootVerdict(host, storage, record, catalog)
      /\ Assessed.network = RootIsNetwork(host, storage, record)
      /\ Assessed.holder = IF storage.root = "gone" THEN "parent" ELSE "mount"
  BY DEF Assessed, StoragePlan
<1>2. record.root \in {"none", "mount"}
  BY DEF TypeOK, Records
<1>3. CASE Assessed.verdict = "removed"
  <2>1. host.container /\ storage.root = "gone"
    BY <1>1, <1>3 DEF RootVerdict
  <2>. QED
    BY <2>1 DEF MayBeTakenForDeleted
<1>4. CASE Assessed.verdict = "abnormal"
  <2>1. ~Assessed.network /\ record.root = "mount"
    BY <1>2, <1>4 DEF Available, Unavailable
  <2>2. ~host.network
    BY <1>1, <2>1 DEF RootIsNetwork
  <2>3. storage.root # "up"
    BY <1>1, <1>4, <2>1 DEF RootVerdict
  <2>. QED
    BY <2>1, <2>2, <2>3 DEF MayBeTakenForDeleted
<1>5. CASE Assessed.verdict = "healthy"
  <2>1. storage.root = "gone"
    BY <1>1, <1>5
  <2>2. record.root = "none" /\ KnownFilesPresent(storage, catalog)
    BY <1>1, <1>2, <1>5, <2>1 DEF RootVerdict
  <2>3. CASE host.container
    BY <2>1, <2>3 DEF MayBeTakenForDeleted
  <2>4. CASE ~host.container
    <3>1. storage.below = "gone"
      BY <2>1, <2>4 DEF MountsInv
    <3>2. \A f \in Files : Presence(storage, f) # "present"
      BY <2>1, <3>1 DEF Presence
    <3>. QED
      BY <2>2, <3>2 DEF KnownFilesPresent, TypeOK
  <2>. QED
    BY <2>3, <2>4
<1>6. Assessed.verdict \in {"removed", "abnormal", "healthy"}
  BY <1>1 DEF RootVerdict
<1>. QED
  BY <1>3, <1>4, <1>5, <1>6

\* A change of the storage: the history grows, and the mount goes only at the
\* cost of an outage.
LEMMA ObserveInv ==
    ASSUME TypeOK, OutageInv, MaxOutages <= 1, NEW s \in Situations, Observe(s),
           s.root = "gone" /\ ~host.container => s.below = "gone"
    PROVE  OutageInv'
<1>1. UNCHANGED <<host, record, catalog, exec>> /\ storage' = s
  BY DEF Observe, library
<1>2. MountsInv'
  BY <1>1 DEF MountsInv
<1>3. BoundInv'
  BY DEF Observe, BoundInv
<1>4. /\ JudgedHealthy' <=> JudgedHealthy
      /\ Unseen' = Unseen
      /\ MissingPaths' = MissingPaths
      /\ excluded_directories(exec.plan)' = excluded_directories(exec.plan)
  BY <1>1 DEF JudgedHealthy, Unseen, MissingPaths, excluded_directories, InScope
<1>5. CASE exec.pc = "idle"
  BY <1>1, <1>2, <1>3, <1>5
     DEF OutageInv, HistoryInv, PlanInv, WalkInv, LookupInv, CommitInv
<1>6. CASE exec.pc # "idle"
  <2>. DEFINE n == IF /\ storage.root \in {"up", "missing"}
                      /\ s.root \in {"gone", "stuck"}
                   THEN attempt.outages + 1 ELSE attempt.outages
  <2>1. attempt' = [attempt EXCEPT
                      !.gone = attempt.gone \union MayBeTakenForDeleted(s),
                      !.quiet = FALSE, !.outages = n]
    BY <1>6 DEF Observe
  <2>2. /\ attempt'.gone = attempt.gone \union MayBeTakenForDeleted(s)
        /\ attempt'.outages = n
    BY <2>1 DEF TypeOK
  <2>3. /\ n \in Nat /\ attempt.outages \in Nat
        /\ n = 0 => attempt.outages = 0
        /\ attempt.outages <= n
        /\ RootReadable /\ ~RootReadable' => n = attempt.outages + 1
    BY <1>1 DEF TypeOK, Situations, RootReadable
  <2>4. n <= MaxOutages
    BY <1>3, <2>2 DEF BoundInv
  <2>. HIDE DEF n
  <2>5. MayBeTakenForDeleted(storage)' = MayBeTakenForDeleted(s)
    BY <1>1 DEF MayBeTakenForDeleted
  <2>6. HistoryInv'
    BY <2>2, <2>5 DEF HistoryInv
  <2>7. attempt.gone \subseteq Files /\ MayBeTakenForDeleted(s) \subseteq Files
    BY DEF TypeOK, MayBeTakenForDeleted
  <2>8. PlanInv'
    <3>. SUFFICES ASSUME exec.pc \in {"discover", "walk", "process"}, JudgedHealthy
                  PROVE  /\ n = 0 => RootReadable'
                         /\ exec.plan.missing => attempt'.gone = Files
                         /\ excluded_directories(exec.plan) \subseteq attempt'.gone
      BY <1>1, <1>4, <2>2 DEF PlanInv
    <3>1. /\ attempt.outages = 0 => RootReadable
          /\ exec.plan.missing => attempt.gone = Files
          /\ excluded_directories(exec.plan) \subseteq attempt.gone
      BY DEF OutageInv, PlanInv
    <3>2. n = 0 => RootReadable'
      BY <2>3, <3>1
    <3>. QED
      BY <2>2, <2>7, <3>1, <3>2
  <2>9. WalkInv'
    BY <1>1, <1>4, <2>2, <2>3 DEF OutageInv, WalkInv
  <2>10. LookupInv'
    <3>. SUFFICES ASSUME exec.pc = "lookup", record.root # "parent"
                  PROVE  \/ MissingPaths \subseteq attempt'.gone
                         \/ /\ n = MaxOutages /\ RootReadable'
                            /\ MissingPaths \ exec.todo \subseteq attempt'.gone
      BY <1>1, <1>4, <2>2 DEF LookupInv
    <3>1. CASE MissingPaths \subseteq attempt.gone
      BY <2>2, <3>1
    <3>2. CASE /\ attempt.outages = MaxOutages /\ RootReadable
               /\ MissingPaths \ exec.todo \subseteq attempt.gone
      <4>1. n = MaxOutages
        BY <2>3, <2>4, <3>2, MaxOutagesAssumption
      <4>2. RootReadable'
        BY <2>3, <3>2, <4>1, MaxOutagesAssumption
      <4>. QED
        BY <2>2, <3>2, <4>1, <4>2
    <3>. QED
      BY <3>1, <3>2 DEF OutageInv, LookupInv
  <2>11. CommitInv'
    BY <1>1, <1>4, <2>2 DEF OutageInv, CommitInv
  <2>. QED
    BY <1>2, <1>3, <2>6, <2>8, <2>9, <2>10, <2>11 DEF OutageInv
<1>. QED
  BY <1>5, <1>6

\* A step of the attempt that leaves storage, record and history alone.
LEMMA ScanStepInv ==
    ASSUME OutageInv, exec.pc \notin {"idle", "finish"},
           UNCHANGED <<host, storage, record, attempt>>
    PROVE  MountsInv' /\ BoundInv' /\ HistoryInv'
<1>1. MayBeTakenForDeleted(storage)' = MayBeTakenForDeleted(storage)
  BY DEF MayBeTakenForDeleted
<1>. QED
  BY <1>1 DEF OutageInv, MountsInv, BoundInv, HistoryInv

\* A step of a request changes nothing the invariant speaks of.
LEMMA RequestStepInv ==
    ASSUME OutageInv, UNCHANGED <<host, storage, record, catalog, exec, attempt>>
    PROVE  OutageInv'
<1>1. /\ JudgedHealthy' <=> JudgedHealthy
      /\ RootReadable' <=> RootReadable
      /\ Unseen' = Unseen
      /\ MissingPaths' = MissingPaths
      /\ MayBeTakenForDeleted(storage)' = MayBeTakenForDeleted(storage)
      /\ excluded_directories(exec.plan)' = excluded_directories(exec.plan)
  BY DEF JudgedHealthy, RootReadable, Unseen, MissingPaths, excluded_directories,
         InScope, MayBeTakenForDeleted
<1>. QED
  BY <1>1 DEF OutageInv, MountsInv, BoundInv, HistoryInv, PlanInv, WalkInv,
              LookupInv, CommitInv

\* Nothing was walked yet.
LEMMA InitInv == Init => OutageInv
<1>. SUFFICES ASSUME Init PROVE OutageInv
  OBVIOUS
<1>1. exec.pc = "idle" /\ attempt.outages = 0
  BY DEF Init, NoExec, NoAttempt
<1>2. MountsInv
  BY DEF Init, MountsInv
<1>. QED
  BY <1>1, <1>2, MaxOutagesAssumption
     DEF OutageInv, BoundInv, HistoryInv, PlanInv, WalkInv, LookupInv, CommitInv

\* The walk: what it reads, and what it gives up.
LEMMA WalkStepInv ==
    ASSUME TypeOK, OutageInv, NEW f \in Files, VisitFile(f)
    PROVE  OutageInv'
<1>1. /\ UNCHANGED <<host, storage, record, catalog, attempt>>
      /\ exec.pc = "walk" /\ f \in exec.todo
  BY DEF VisitFile, At, environment, library
<1>. DEFINE found == /\ f \notin excluded_directories(exec.plan)
                     /\ Presence(storage, f) = "present"
<1>2. exec' = [exec EXCEPT
                 !.todo = exec.todo \ {f},
                 !.seen = IF found /\ storage.content[f] = "media"
                          THEN exec.seen \union {f} ELSE exec.seen,
                 !.kept = IF found /\ storage.content[f] = "bad"
                          THEN exec.kept \union {f} ELSE exec.kept]
  BY DEF VisitFile
<1>3. /\ exec'.pc = "walk" /\ exec'.plan = exec.plan /\ exec'.scope = exec.scope
      /\ exec'.todo = exec.todo \ {f}
      /\ exec.seen \subseteq exec'.seen /\ exec.kept \subseteq exec'.kept
  BY <1>1, <1>2 DEF TypeOK
<1>4. found => f \in exec'.seen \union exec'.kept
  <2>1. found => storage.content[f] \in {"media", "bad"}
    BY DEF TypeOK, Situations, Presence
  <2>. QED
    BY <1>2, <2>1 DEF TypeOK
<1>5. /\ JudgedHealthy' <=> JudgedHealthy
      /\ RootReadable' <=> RootReadable
      /\ excluded_directories(exec.plan)' = excluded_directories(exec.plan)
  BY <1>1, <1>3 DEF JudgedHealthy, RootReadable, excluded_directories
<1>6. MountsInv' /\ BoundInv' /\ HistoryInv'
  BY <1>1, ScanStepInv
<1>7. PlanInv'
  BY <1>1, <1>3, <1>5 DEF OutageInv, PlanInv
<1>8. WalkInv'
  <2>. SUFFICES ASSUME JudgedHealthy, attempt.outages = 0,
                       NEW g \in Unseen' \ exec'.todo
                PROVE  g \in attempt.gone
    BY <1>1, <1>3, <1>5 DEF WalkInv
  <2>1. /\ RootReadable
        /\ excluded_directories(exec.plan) \subseteq attempt.gone
        /\ MayBeTakenForDeleted(storage) \subseteq attempt.gone
        /\ Unseen \ exec.todo \subseteq attempt.gone
    BY <1>1 DEF OutageInv, PlanInv, HistoryInv, WalkInv
  <2>2. CASE g = f
    <3>1. ~found
      BY <1>4, <2>2 DEF Unseen
    <3>. QED
      BY <2>1, <2>2, <3>1, ReadableRoot
  <2>3. CASE g # f
    <3>1. g \in Unseen \ exec.todo
      BY <1>3, <2>3 DEF Unseen, InScope
    <3>. QED
      BY <2>1, <3>1
  <2>. QED
    BY <2>2, <2>3
<1>. QED
  BY <1>3, <1>6, <1>7, <1>8 DEF OutageInv, LookupInv, CommitInv

\* The second judgement, before the look-ups.
LEMMA VerifyStepInv ==
    ASSUME TypeOK, OutageInv, MaxOutages <= 1, verify_missing_media_paths
    PROVE  OutageInv'
<1>1. CASE ~StorageUnchanged
  BY <1>1, EndInv DEF verify_missing_media_paths, TryAgainOrGiveUp, OutageInv
<1>2. CASE StorageUnchanged
  <2>. DEFINE T == {f \in catalog \ (exec.seen \union exec.kept) :
                       InScope(exec.scope, f) /\ ~is_dead_path(Assessed, f)}
  <2>1. exec' = [exec EXCEPT !.pc = "lookup", !.plan = Assessed, !.todo = T]
    BY <1>2 DEF verify_missing_media_paths
  <2>2. /\ UNCHANGED <<host, storage, record, catalog, attempt>>
        /\ exec.pc = "process"
    BY <1>2 DEF verify_missing_media_paths, At, environment, library
  <2>3. /\ exec'.pc = "lookup" /\ exec'.todo = T
        /\ exec'.seen = exec.seen /\ exec'.kept = exec.kept
        /\ exec'.scope = exec.scope
    BY <2>1 DEF TypeOK
  <2>4. /\ MissingPaths' = MissingPaths
        /\ RootReadable' <=> RootReadable
    BY <2>2, <2>3 DEF MissingPaths, InScope, RootReadable
  <2>5. MayBeTakenForDeleted(storage) \subseteq attempt.gone
    BY <2>2 DEF OutageInv, HistoryInv
  <2>6. LookupInv'
    <3>. SUFFICES ASSUME record.root # "parent"
                  PROVE  \/ MissingPaths \subseteq attempt.gone
                         \/ /\ attempt.outages = MaxOutages /\ RootReadable
                            /\ MissingPaths \ T \subseteq attempt.gone
      BY <2>2, <2>3, <2>4 DEF LookupInv
    <3>a. MissingPaths \subseteq Files /\ MissingPaths \subseteq catalog
      BY DEF MissingPaths, TypeOK
    <3>1. CASE ~(Assessed.verdict = "healthy" /\ Assessed.holder = "mount")
      <4>1. MayBeTakenForDeleted(storage) = Files \/ catalog = {}
        BY <1>2, <3>1, OtherJudgement DEF StorageUnchanged, OutageInv
      <4>. QED
        BY <2>5, <3>a, <4>1
    <3>2. CASE Assessed.verdict = "healthy" /\ Assessed.holder = "mount"
      <4>1. JudgedHealthy
        BY <1>2, <3>2 DEF StorageUnchanged, same_root_storage_as, JudgedHealthy
      <4>2. CASE attempt.outages = 0
        <5>1. Unseen \subseteq attempt.gone
          BY <2>2, <4>1, <4>2 DEF OutageInv, WalkInv
        <5>2. MissingPaths \subseteq Unseen
          BY <3>a DEF MissingPaths, Unseen
        <5>. QED
          BY <5>1, <5>2
      <4>3. CASE attempt.outages # 0
        <5>1. attempt.outages = MaxOutages
          BY <4>3, MaxOutagesAssumption DEF TypeOK, OutageInv, BoundInv
        <5>2. /\ RootReadable
              /\ \A f \in Files : is_dead_path(Assessed, f) =>
                                      f \in MayBeTakenForDeleted(storage)
          BY <3>2, HealthyMount
        <5>3. MissingPaths \ T \subseteq attempt.gone
          BY <2>5, <3>a, <5>2 DEF MissingPaths
        <5>. QED
          BY <5>1, <5>2, <5>3
      <4>. QED
        BY <4>2, <4>3
    <3>. QED
      BY <3>1, <3>2
  <2>7. MountsInv' /\ BoundInv' /\ HistoryInv'
    BY <2>2, ScanStepInv
  <2>. QED
    BY <2>3, <2>6, <2>7 DEF OutageInv, PlanInv, WalkInv, CommitInv
<1>. QED
  BY <1>1, <1>2

\* The first judgement, by which the walk runs.
LEMMA AssessStepInv ==
    ASSUME TypeOK, OutageInv, assess_library_storage
    PROVE  OutageInv'
<1>1. CASE ~Available(host, Assessed, record)
  BY <1>1, EndInv DEF assess_library_storage, TryAgainOrGiveUp, OutageInv
<1>2. CASE Available(host, Assessed, record)
  <2>1. exec' = [exec EXCEPT !.pc = "discover", !.plan = Assessed]
    BY <1>2 DEF assess_library_storage
  <2>2. /\ UNCHANGED <<host, storage, record, catalog, attempt>>
        /\ exec.pc = "assess"
    BY <1>2 DEF assess_library_storage, At, environment, library
  <2>3. exec'.pc = "discover" /\ exec'.plan = Assessed
    BY <2>1 DEF TypeOK
  <2>4. MayBeTakenForDeleted(storage) \subseteq attempt.gone /\ attempt.gone \subseteq Files
    BY <2>2 DEF OutageInv, HistoryInv, TypeOK
  <2>5. PlanInv'
    <3>. SUFFICES ASSUME record.root # "parent",
                         Assessed.verdict = "healthy", Assessed.holder = "mount"
                  PROVE  /\ RootReadable
                         /\ Assessed.missing => attempt.gone = Files
                         /\ excluded_directories(Assessed) \subseteq attempt.gone
      BY <2>2, <2>3 DEF PlanInv, JudgedHealthy, RootReadable, excluded_directories
    <3>. QED
      BY <2>4, HealthyMount
  <2>6. MountsInv' /\ BoundInv' /\ HistoryInv'
    BY <2>2, ScanStepInv
  <2>. QED
    BY <2>3, <2>5, <2>6 DEF OutageInv, WalkInv, LookupInv, CommitInv
<1>. QED
  BY <1>1, <1>2

\* The start of the walk.  A root that cannot be read and ends in an empty walk
\* is missing, or had its outage.
LEMMA DiscoverStepInv ==
    ASSUME TypeOK, OutageInv, discover_media_files
    PROVE  OutageInv'
<1>1. CASE TryAgainOrGiveUp
  BY <1>1, EndInv DEF discover_media_files, TryAgainOrGiveUp, OutageInv
<1>2. CASE /\ exec' = [exec EXCEPT !.pc = "process"] /\ attempt' = attempt
           /\ skips_traversal(exec.plan) \/ ~RootAnswers(host, storage)
  <2>1. /\ UNCHANGED <<host, storage, record, catalog, attempt>>
        /\ exec.pc = "discover"
    BY <1>2 DEF discover_media_files, At, environment, library
  <2>2. /\ exec'.pc = "process" /\ exec'.plan = exec.plan /\ exec'.scope = exec.scope
        /\ exec'.seen = exec.seen /\ exec'.kept = exec.kept
    BY <1>2 DEF TypeOK
  <2>3. /\ JudgedHealthy' <=> JudgedHealthy
        /\ RootReadable' <=> RootReadable
        /\ Unseen' = Unseen
        /\ excluded_directories(exec.plan)' = excluded_directories(exec.plan)
    BY <2>1, <2>2 DEF JudgedHealthy, RootReadable, Unseen, InScope, excluded_directories
  <2>4. PlanInv'
    BY <2>1, <2>2, <2>3 DEF OutageInv, PlanInv
  <2>5. WalkInv'
    <3>. SUFFICES ASSUME JudgedHealthy, attempt.outages = 0
                  PROVE  Unseen \subseteq attempt.gone
      BY <2>1, <2>2, <2>3 DEF WalkInv
    <3>1. RootReadable /\ (exec.plan.missing => attempt.gone = Files)
      BY <2>1 DEF OutageInv, PlanInv
    <3>2. Unseen \subseteq Files
      BY DEF Unseen
    <3>3. CASE skips_traversal(exec.plan)
      <4>1. exec.plan.missing
        BY <3>3 DEF skips_traversal, JudgedHealthy
      <4>. QED
        BY <3>1, <3>2, <4>1
    <3>4. CASE ~RootAnswers(host, storage)
      <4>1. storage.root = "missing"
        BY <3>1, <3>4 DEF RootAnswers, RootReadable
      <4>2. MayBeTakenForDeleted(storage) = Files
        BY <4>1 DEF MayBeTakenForDeleted
      <4>. QED
        BY <2>1, <3>2, <4>2 DEF OutageInv, HistoryInv
    <3>. QED
      BY <1>2, <3>3, <3>4
  <2>6. MountsInv' /\ BoundInv' /\ HistoryInv'
    BY <2>1, ScanStepInv
  <2>. QED
    BY <2>2, <2>4, <2>5, <2>6 DEF OutageInv, LookupInv, CommitInv
<1>3. CASE /\ exec' = [exec EXCEPT !.pc = "walk",
                                   !.todo = {f \in Files : InScope(exec.scope, f)}]
           /\ attempt' = attempt
  <2>1. /\ UNCHANGED <<host, storage, record, catalog, attempt>>
        /\ exec.pc = "discover"
    BY <1>3 DEF discover_media_files, At, environment, library
  <2>2. /\ exec'.pc = "walk" /\ exec'.plan = exec.plan /\ exec'.scope = exec.scope
        /\ exec'.todo = {f \in Files : InScope(exec.scope, f)}
    BY <1>3 DEF TypeOK
  <2>3. /\ JudgedHealthy' <=> JudgedHealthy
        /\ RootReadable' <=> RootReadable
        /\ excluded_directories(exec.plan)' = excluded_directories(exec.plan)
    BY <2>1, <2>2 DEF JudgedHealthy, RootReadable, excluded_directories
  <2>4. Unseen' \ exec'.todo = {}
    BY <2>2 DEF Unseen, InScope
  <2>5. PlanInv'
    BY <2>1, <2>2, <2>3 DEF OutageInv, PlanInv
  <2>6. WalkInv'
    BY <2>2, <2>4 DEF WalkInv
  <2>7. MountsInv' /\ BoundInv' /\ HistoryInv'
    BY <2>1, ScanStepInv
  <2>. QED
    BY <2>2, <2>5, <2>6, <2>7 DEF OutageInv, LookupInv, CommitInv
<1>. QED
  BY <1>1, <1>2, <1>3 DEF discover_media_files

\* The pipeline, from the plan of what to process to its last group, leaves
\* what was seen alone.
LEMMA ProcessStepInv ==
    ASSUME TypeOK, OutageInv, UNCHANGED <<host, storage, record, attempt>>,
           exec.pc = "process" \/ (exec.pc = "walk" /\ exec.todo = {}),
           exec'.pc = "process", exec'.plan = exec.plan, exec'.scope = exec.scope,
           exec'.seen = exec.seen, exec'.kept = exec.kept
    PROVE  OutageInv'
<1>1. /\ JudgedHealthy' <=> JudgedHealthy
      /\ RootReadable' <=> RootReadable
      /\ Unseen' = Unseen
      /\ excluded_directories(exec.plan)' = excluded_directories(exec.plan)
  BY DEF JudgedHealthy, RootReadable, Unseen, InScope, excluded_directories
<1>2. PlanInv'
  BY <1>1 DEF OutageInv, PlanInv
<1>3. WalkInv'
  <2>. SUFFICES ASSUME JudgedHealthy, attempt.outages = 0
                PROVE  Unseen \subseteq attempt.gone
    BY <1>1 DEF WalkInv
  <2>1. CASE exec.pc = "process"
    BY <2>1 DEF OutageInv, WalkInv
  <2>2. CASE exec.pc = "walk" /\ exec.todo = {}
    <3>1. Unseen \ exec.todo \subseteq attempt.gone
      BY <2>2 DEF OutageInv, WalkInv
    <3>. QED
      BY <2>2, <3>1
  <2>. QED
    BY <2>1, <2>2
<1>4. MountsInv' /\ BoundInv' /\ HistoryInv'
  BY ScanStepInv
<1>. QED
  BY <1>2, <1>3, <1>4 DEF OutageInv, LookupInv, CommitInv

\* A look-up: a path that is not found while the root can be read may be taken
\* for deleted.
LEMMA PresenceStepInv ==
    ASSUME TypeOK, OutageInv, NEW f \in Files, catalog_path_presence(f)
    PROVE  OutageInv'
<1>1. /\ UNCHANGED <<host, storage, record, catalog, attempt>>
      /\ exec.pc = "lookup" /\ f \in exec.todo
  BY DEF catalog_path_presence, At, environment, library
<1>2. /\ exec'.pc = "lookup" /\ exec'.scope = exec.scope
      /\ exec'.seen = exec.seen
      /\ exec'.todo = exec.todo \ {f}
      /\ exec'.kept = IF Presence(storage, f) = "present"
                      THEN exec.kept \union {f} ELSE exec.kept
  BY <1>1 DEF catalog_path_presence, TypeOK
<1>3. /\ RootReadable' <=> RootReadable
      /\ MissingPaths' \subseteq MissingPaths
  BY <1>1, <1>2 DEF RootReadable, MissingPaths, InScope
<1>4. LookupInv'
  <2>. SUFFICES ASSUME record.root # "parent"
                PROVE  \/ MissingPaths' \subseteq attempt.gone
                       \/ /\ attempt.outages = MaxOutages /\ RootReadable
                          /\ MissingPaths' \ exec'.todo \subseteq attempt.gone
    BY <1>1, <1>2, <1>3 DEF LookupInv
  <2>1. CASE MissingPaths \subseteq attempt.gone
    BY <1>3, <2>1
  <2>2. CASE /\ attempt.outages = MaxOutages /\ RootReadable
             /\ MissingPaths \ exec.todo \subseteq attempt.gone
    <3>1. f \in MissingPaths' => f \in attempt.gone
      <4>. SUFFICES ASSUME f \in MissingPaths' PROVE f \in attempt.gone
        OBVIOUS
      <4>1. Presence(storage, f) # "present"
        BY <1>2 DEF MissingPaths
      <4>2. f \in MayBeTakenForDeleted(storage)
        BY <2>2, <4>1, ReadableRoot
      <4>. QED
        BY <1>1, <4>2 DEF OutageInv, HistoryInv
    <3>. QED
      BY <1>2, <1>3, <2>2, <3>1
  <2>. QED
    BY <1>1, <2>1, <2>2 DEF OutageInv, LookupInv
<1>5. MountsInv' /\ BoundInv' /\ HistoryInv'
  BY <1>1, ScanStepInv
<1>. QED
  BY <1>2, <1>4, <1>5 DEF OutageInv, PlanInv, WalkInv, CommitInv

\* The end of the look-ups.
LEMMA FinishStepInv ==
    ASSUME TypeOK, OutageInv, FinishLookups
    PROVE  OutageInv'
<1>1. CASE TryAgainOrGiveUp
  BY <1>1, EndInv DEF FinishLookups, TryAgainOrGiveUp, OutageInv
<1>2. CASE exec' = [exec EXCEPT !.pc = "commit"] /\ attempt' = attempt
  <2>1. /\ UNCHANGED <<host, storage, record, catalog, attempt>>
        /\ exec.pc = "lookup" /\ exec.todo = {}
    BY <1>2 DEF FinishLookups, At, environment, library
  <2>2. /\ exec'.pc = "commit" /\ exec'.scope = exec.scope
        /\ exec'.seen = exec.seen /\ exec'.kept = exec.kept
    BY <1>2 DEF TypeOK
  <2>3. MissingPaths' = MissingPaths
    BY <2>1, <2>2 DEF MissingPaths, InScope
  <2>4. record.root # "parent" => MissingPaths \subseteq attempt.gone
    BY <2>1 DEF OutageInv, LookupInv
  <2>5. MountsInv' /\ BoundInv' /\ HistoryInv'
    BY <2>1, ScanStepInv
  <2>. QED
    BY <2>1, <2>2, <2>3, <2>4, <2>5 DEF OutageInv, PlanInv, WalkInv, LookupInv, CommitInv
<1>. QED
  BY <1>1, <1>2 DEF FinishLookups

\* Every step preserves the invariant.
LEMMA NextInv ==
    ASSUME TypeOK, OutageInv, MaxOutages <= 1, [Next]_vars
    PROVE  OutageInv'
<1>1. ASSUME NEW f \in Files, NEW content \in Contents, ChangeFile(f, content)
      PROVE  OutageInv'
  <2>1. [storage EXCEPT !.content[f] = content] \in Situations
    BY ContentsAssumption DEF TypeOK, Situations
  <2>2. /\ [storage EXCEPT !.content[f] = content].root = storage.root
        /\ [storage EXCEPT !.content[f] = content].below = storage.below
    BY DEF TypeOK, Situations
  <2>. QED
    BY <1>1, <2>1, <2>2, ObserveInv DEF ChangeFile, OutageInv, MountsInv
<1>2. ASSUME NEW root \in {"up", "gone", "stuck", "missing"}, ChangeRoot(root)
      PROVE  OutageInv'
  <2>. DEFINE s == [storage EXCEPT !.root = root,
                                   !.below = IF \/ root = "missing"
                                                \/ root = "gone" /\ ~host.container
                                             THEN "gone" ELSE @]
  <2>1. s \in Situations /\ (s.root = "gone" /\ ~host.container => s.below = "gone")
    BY DEF TypeOK, Situations
  <2>2. Observe(s)
    BY <1>2 DEF ChangeRoot
  <2>. HIDE DEF s
  <2>. QED
    BY <2>1, <2>2, ObserveInv
<1>3. ASSUME NEW below \in {"up", "gone", "stuck"}, ChangeBelow(below)
      PROVE  OutageInv'
  <2>. DEFINE s == [storage EXCEPT !.below = below]
  <2>1. s \in Situations /\ (s.root = "gone" /\ ~host.container => s.below = "gone")
    BY <1>3 DEF ChangeBelow, TypeOK, Situations
  <2>2. Observe(s)
    BY <1>3 DEF ChangeBelow
  <2>. HIDE DEF s
  <2>. QED
    BY <2>1, <2>2, ObserveInv
<1>4. ASSUME NEW scope \in Scopes, check_library_storage(scope)
      PROVE  OutageInv'
  BY <1>4, RequestStepInv DEF check_library_storage, environment, library
<1>5. CASE enqueue_scan_job_tx
  BY <1>5, RequestStepInv DEF enqueue_scan_job_tx, environment, library
<1>6. CASE merge_pending_scan_scope
  BY <1>6, RequestStepInv DEF merge_pending_scan_scope, environment, library
<1>7. CASE mark_scan_job_running
  <2>1. /\ UNCHANGED <<host, storage, record>>
        /\ exec'.pc = "assess"
        /\ attempt'.outages = 0
        /\ attempt'.gone = MayBeTakenForDeleted(storage)
    BY <1>7 DEF mark_scan_job_running, NoExec, NoAttempt, environment, library
  <2>2. MayBeTakenForDeleted(storage)' = MayBeTakenForDeleted(storage)
    BY <2>1 DEF MayBeTakenForDeleted
  <2>3. MountsInv' /\ BoundInv' /\ HistoryInv'
    BY <2>1, <2>2, MaxOutagesAssumption DEF OutageInv, MountsInv, BoundInv, HistoryInv
  <2>. QED
    BY <2>1, <2>3 DEF OutageInv, PlanInv, WalkInv, LookupInv, CommitInv
<1>8. CASE FailAttempt
  BY <1>8, EndInv DEF FailAttempt, TryAgainOrGiveUp, OutageInv
<1>9. CASE RaiseCancellation
  <2>1. UNCHANGED <<host, storage, record, catalog, attempt>>
    BY <1>9 DEF RaiseCancellation, environment, library
  <2>2. /\ exec'.pc = exec.pc /\ exec'.plan = exec.plan /\ exec'.scope = exec.scope
        /\ exec'.seen = exec.seen /\ exec'.kept = exec.kept /\ exec'.todo = exec.todo
    BY <1>9 DEF RaiseCancellation, TypeOK
  <2>3. /\ JudgedHealthy' <=> JudgedHealthy
        /\ RootReadable' <=> RootReadable
        /\ Unseen' = Unseen
        /\ MissingPaths' = MissingPaths
        /\ MayBeTakenForDeleted(storage)' = MayBeTakenForDeleted(storage)
        /\ excluded_directories(exec.plan)' = excluded_directories(exec.plan)
    BY <2>1, <2>2 DEF JudgedHealthy, RootReadable, Unseen, MissingPaths, InScope,
                      excluded_directories, MayBeTakenForDeleted
  <2>4. MountsInv' /\ BoundInv' /\ HistoryInv'
    BY <2>1, <2>2, <2>3 DEF OutageInv, MountsInv, BoundInv, HistoryInv
  <2>5. PlanInv' /\ WalkInv'
    BY <2>1, <2>2, <2>3 DEF OutageInv, PlanInv, WalkInv
  <2>6. LookupInv' /\ CommitInv'
    BY <2>1, <2>2, <2>3 DEF OutageInv, LookupInv, CommitInv
  <2>. QED
    BY <2>4, <2>5, <2>6 DEF OutageInv
<1>10. CASE finalize_cancelled_scan
  BY <1>10, EndInv DEF finalize_cancelled_scan, OutageInv
<1>11. CASE assess_library_storage
  BY <1>11, AssessStepInv
<1>12. CASE discover_media_files
  BY <1>12, DiscoverStepInv
<1>13. ASSUME NEW f \in Files, VisitFile(f)
       PROVE  OutageInv'
  BY <1>13, WalkStepInv
<1>14. CASE build_incremental_scan_plan
  <2>1. /\ UNCHANGED <<host, storage, record, attempt>>
        /\ exec.pc = "walk" /\ exec.todo = {}
        /\ exec'.pc = "process" /\ exec'.plan = exec.plan /\ exec'.scope = exec.scope
        /\ exec'.seen = exec.seen /\ exec'.kept = exec.kept
    BY <1>14 DEF build_incremental_scan_plan, TypeOK, At, environment, library
  <2>. QED
    BY <2>1, ProcessStepInv
<1>15. ASSUME NEW f \in Files, sync_scan_group_media_entries(f)
       PROVE  OutageInv'
  <2>1. /\ UNCHANGED <<host, storage, record, attempt>>
        /\ exec.pc = "process"
        /\ exec'.pc = exec.pc /\ exec'.plan = exec.plan /\ exec'.scope = exec.scope
        /\ exec'.seen = exec.seen /\ exec'.kept = exec.kept
    BY <1>15 DEF sync_scan_group_media_entries, TypeOK, At, environment
  <2>. QED
    BY <2>1, ProcessStepInv
<1>16. CASE verify_missing_media_paths
  BY <1>16, VerifyStepInv
<1>17. ASSUME NEW f \in Files, catalog_path_presence(f)
       PROVE  OutageInv'
  BY <1>17, PresenceStepInv
<1>18. CASE FinishLookups
  BY <1>18, FinishStepInv
<1>19. CASE sync_library_media_changes
  <2>1. UNCHANGED <<host, storage, attempt>> /\ exec'.pc = "finish"
    BY <1>19 DEF sync_library_media_changes, TypeOK, environment
  <2>. QED
    BY <2>1 DEF OutageInv, MountsInv, BoundInv, HistoryInv, PlanInv, WalkInv,
                LookupInv, CommitInv
<1>20. CASE finalize_scan_job
  BY <1>20, EndInv DEF finalize_scan_job, TryAgainOrGiveUp, OutageInv
<1>21. CASE UNCHANGED vars
  BY <1>21, RequestStepInv DEF vars
<1>. QED
  BY <1>1, <1>2, <1>3, <1>4, <1>5, <1>6, <1>7, <1>8, <1>9, <1>10, <1>11, <1>12,
     <1>13, <1>14, <1>15, <1>16, <1>17, <1>18, <1>19, <1>20, <1>21 DEF Next

\* Only the commit of a reconciliation takes files out of the catalog.
LEMMA OnlyCommitRemoves ==
    ASSUME TypeOK, [Next]_vars
    PROVE  \/ At("commit") /\ catalog' = catalog \ MissingPaths
           \/ /\ record' = record
              /\ \/ catalog' = catalog
                 \/ \E f \in exec.todo : At("process") /\ catalog' = catalog \union {f}
<1>1. CASE UNCHANGED vars
  BY <1>1 DEF vars
<1>2. CASE \E f \in Files : sync_scan_group_media_entries(f)
  BY <1>2 DEF sync_scan_group_media_entries, At
<1>3. CASE sync_library_media_changes
  BY <1>3 DEF sync_library_media_changes
<1>4. CASE \/ \E f \in Files, content \in Contents : ChangeFile(f, content)
           \/ \E root \in {"up", "gone", "stuck", "missing"} : ChangeRoot(root)
           \/ \E below \in {"up", "gone", "stuck"} : ChangeBelow(below)
  BY <1>4 DEF ChangeFile, ChangeRoot, ChangeBelow, Observe, library
<1>5. CASE \/ \E scope \in Scopes : check_library_storage(scope)
           \/ enqueue_scan_job_tx
           \/ merge_pending_scan_scope
           \/ mark_scan_job_running
           \/ FailAttempt
           \/ RaiseCancellation
           \/ finalize_cancelled_scan
           \/ finalize_scan_job
  BY <1>5 DEF check_library_storage, enqueue_scan_job_tx, merge_pending_scan_scope,
              mark_scan_job_running, FailAttempt, RaiseCancellation,
              finalize_cancelled_scan, finalize_scan_job, library
<1>6. CASE \/ assess_library_storage
           \/ discover_media_files
           \/ \E f \in Files : VisitFile(f)
           \/ build_incremental_scan_plan
           \/ verify_missing_media_paths
           \/ \E f \in Files : catalog_path_presence(f)
           \/ FinishLookups
  BY <1>6 DEF assess_library_storage, discover_media_files, VisitFile,
              build_incremental_scan_plan, verify_missing_media_paths,
              catalog_path_presence, FinishLookups, library
<1>. QED
  BY <1>1, <1>2, <1>3, <1>4, <1>5, <1>6 DEF Next

\* With at most one outage of the root's mount in an attempt, no interleaving
\* of outages with the judgements, the walk and the look-ups of
\* execute_scan_job_with_cancellation removes a file that was there all along.
THEOREM OutagesAreHarmless ==
    ASSUME MaxOutages <= 1
    PROVE  Spec => OutagesRemoveNothing
<1>1. Init => TypeOK /\ OutageInv
  BY InitType, InitInv
<1>2. TypeOK /\ OutageInv /\ [Next]_vars => (TypeOK /\ OutageInv)'
  BY NextType, NextInv
<1>3. TypeOK /\ OutageInv /\ [Next]_vars =>
          [record.root # "parent" => catalog \ catalog' \subseteq attempt.gone]_vars
  <2>. SUFFICES ASSUME TypeOK, OutageInv, [Next]_vars, record.root # "parent"
                PROVE  catalog \ catalog' \subseteq attempt.gone
    OBVIOUS
  <2>1. CASE At("commit") /\ catalog' = catalog \ MissingPaths
    <3>1. MissingPaths \subseteq attempt.gone
      BY <2>1 DEF At, OutageInv, CommitInv
    <3>. QED
      BY <2>1, <3>1
  <2>2. CASE catalog \subseteq catalog'
    BY <2>2
  <2>. QED
    BY <2>1, <2>2, OnlyCommitRemoves
<1>. QED
  BY <1>1, <1>2, <1>3, PTL DEF Spec, OutagesRemoveNothing

-----------------------------------------------------------------------------
(* The scope of a scan.                                                     *)

\* Every step keeps what is walked and processed in scope.
LEMMA NextScope ==
    ASSUME TypeOK, ScopeInv, [Next]_vars
    PROVE  ScopeInv'
<1>1. CASE exec' = NoExec
  BY <1>1 DEF ScopeInv, NoExec
<1>2. CASE exec' = exec
  BY <1>2 DEF ScopeInv
<1>3. CASE RaiseCancellation
  BY <1>3 DEF RaiseCancellation, ScopeInv, TypeOK
<1>4. CASE mark_scan_job_running
  BY <1>4 DEF mark_scan_job_running, NoExec, ScopeInv
<1>5. CASE assess_library_storage
  BY <1>1, <1>5 DEF assess_library_storage, TryAgainOrGiveUp, EndAttempt, ScopeInv, TypeOK
<1>6. CASE discover_media_files
  <2>1. CASE exec' = [exec EXCEPT !.pc = "process"]
    BY <2>1 DEF ScopeInv, TypeOK
  <2>2. CASE exec' = [exec EXCEPT !.pc = "walk",
                                  !.todo = {f \in Files : InScope(exec.scope, f)}]
    BY <2>2 DEF ScopeInv, TypeOK, InScope
  <2>. QED
    BY <1>1, <1>6, <2>1, <2>2 DEF discover_media_files, TryAgainOrGiveUp, EndAttempt
<1>7. ASSUME NEW f \in Files, VisitFile(f)
      PROVE  ScopeInv'
  <2>1. /\ exec'.scope = exec.scope /\ exec'.todo \subseteq exec.todo
        /\ exec'.seen \subseteq exec.seen \union {f} /\ f \in exec.todo
    BY <1>7 DEF VisitFile, TypeOK
  <2>. QED
    BY <2>1 DEF ScopeInv
<1>8. CASE build_incremental_scan_plan
  <2>. PICK stale \in SUBSET (exec.seen \intersect catalog) :
           exec' = [exec EXCEPT !.pc = "process",
                                !.todo = (exec.seen \ catalog) \union stale]
    BY <1>8 DEF build_incremental_scan_plan
  <2>1. /\ exec'.scope = exec.scope /\ exec'.seen = exec.seen
        /\ exec'.todo \subseteq exec.seen
    BY DEF TypeOK
  <2>. QED
    BY <2>1 DEF ScopeInv
<1>9. ASSUME NEW f \in Files, sync_scan_group_media_entries(f)
      PROVE  ScopeInv'
  <2>1. /\ exec'.scope = exec.scope /\ exec'.seen = exec.seen
        /\ exec'.todo = exec.todo \ {f}
    BY <1>9 DEF sync_scan_group_media_entries, TypeOK
  <2>. QED
    BY <2>1 DEF ScopeInv
<1>10. CASE verify_missing_media_paths
  <2>1. CASE exec' = [exec EXCEPT
                        !.pc = "lookup", !.plan = Assessed,
                        !.todo = {f \in catalog \ (exec.seen \union exec.kept) :
                                     /\ InScope(exec.scope, f)
                                     /\ ~is_dead_path(Assessed, f)}]
    BY <2>1 DEF ScopeInv, TypeOK, InScope
  <2>. QED
    BY <1>1, <1>10, <2>1 DEF verify_missing_media_paths, TryAgainOrGiveUp, EndAttempt
<1>11. ASSUME NEW f \in Files, catalog_path_presence(f)
       PROVE  ScopeInv'
  BY <1>11 DEF catalog_path_presence, ScopeInv, TypeOK
<1>12. CASE FinishLookups
  <2>1. CASE exec' = [exec EXCEPT !.pc = "commit"]
    BY <2>1 DEF ScopeInv, TypeOK
  <2>. QED
    BY <1>1, <1>12, <2>1 DEF FinishLookups, TryAgainOrGiveUp, EndAttempt
<1>13. CASE sync_library_media_changes
  BY <1>13 DEF sync_library_media_changes, ScopeInv, TypeOK
<1>14. CASE FailAttempt \/ finalize_cancelled_scan \/ finalize_scan_job
  BY <1>1, <1>14 DEF FailAttempt, finalize_cancelled_scan, finalize_scan_job,
                     TryAgainOrGiveUp, EndAttempt
<1>15. CASE \/ \E f \in Files, content \in Contents : ChangeFile(f, content)
            \/ \E root \in {"up", "gone", "stuck", "missing"} : ChangeRoot(root)
            \/ \E below \in {"up", "gone", "stuck"} : ChangeBelow(below)
            \/ \E scope \in Scopes : check_library_storage(scope)
            \/ enqueue_scan_job_tx
            \/ merge_pending_scan_scope
  BY <1>2, <1>15 DEF ChangeFile, ChangeRoot, ChangeBelow, Observe, check_library_storage,
                     enqueue_scan_job_tx, merge_pending_scan_scope
<1>16. CASE UNCHANGED vars
  BY <1>2, <1>16 DEF vars
<1>. QED
  BY <1>3, <1>4, <1>5, <1>6, <1>7, <1>8, <1>9, <1>10, <1>11, <1>12, <1>13, <1>14,
     <1>15, <1>16 DEF Next

\* A scoped scan neither adds nor removes a file outside its directories and
\* leaves the storage record alone (sync_library_media_changes with a scope).
THEOREM ScansStayInScope == Spec => ScopedScansStayInScope
<1>1. Init => TypeOK /\ ScopeInv
  BY InitType DEF Init, NoExec, ScopeInv
<1>2. TypeOK /\ ScopeInv /\ [Next]_vars => (TypeOK /\ ScopeInv)'
  BY NextType, NextScope
<1>3. TypeOK /\ ScopeInv /\ [Next]_vars =>
          [exec.scope # Whole =>
              /\ record' = record
              /\ \A f \in Files \ exec.scope : f \in catalog <=> f \in catalog']_vars
  <2>. SUFFICES ASSUME TypeOK, ScopeInv, [Next]_vars, exec.scope # Whole
                PROVE  /\ record' = record
                       /\ \A f \in Files \ exec.scope : f \in catalog <=> f \in catalog'
    OBVIOUS
  <2>1. record' = record
    <3>1. CASE sync_library_media_changes
      BY <3>1 DEF sync_library_media_changes
    <3>2. CASE ~sync_library_media_changes
      BY <3>2 DEF Next, vars, library, ChangeFile, ChangeRoot, ChangeBelow, Observe,
             check_library_storage, enqueue_scan_job_tx, merge_pending_scan_scope,
             mark_scan_job_running, FailAttempt, RaiseCancellation,
             finalize_cancelled_scan, finalize_scan_job, assess_library_storage,
             discover_media_files, VisitFile, build_incremental_scan_plan,
             sync_scan_group_media_entries, verify_missing_media_paths,
             catalog_path_presence, FinishLookups
    <3>. QED
      BY <3>1, <3>2
  <2>2. \A f \in Files \ exec.scope : f \in catalog <=> f \in catalog'
    <3>1. MissingPaths \subseteq exec.scope
      BY DEF MissingPaths, InScope
    <3>2. exec.todo \subseteq exec.scope
      BY DEF ScopeInv
    <3>. QED
      BY <3>1, <3>2, OnlyCommitRemoves
  <2>. QED
    BY <2>1, <2>2
<1>. QED
  BY <1>1, <1>2, <1>3, PTL DEF Spec, ScopedScansStayInScope

\* The end of an attempt keeps the row of a scan that is tried again.
LEMMA EndCover ==
    ASSUME CoverInv, NEW status, EndAttempt(status)
    PROVE  CoverInv'
  BY DEF CoverInv, EndAttempt, NoExec, At, MergedScope

\* Every step keeps requests covered by the row, and the row by the attempt.
LEMMA NextCover ==
    ASSUME TypeOK, CoverInv, [Next]_vars
    PROVE  CoverInv'
<1>1. CASE \E status \in {"pending", "none"} : EndAttempt(status)
  BY <1>1, EndCover
<1>2. CASE /\ UNCHANGED <<scan, asked>> /\ exec'.scope = exec.scope
           /\ exec'.pc = "idle" => exec.pc = "idle"
           /\ exec.pc = "idle" => exec'.pc = "idle"
  BY <1>2 DEF CoverInv, At, MergedScope
<1>3. CASE enqueue_scan_job_tx
  BY <1>3 DEF enqueue_scan_job_tx, CoverInv, At, MergedScope
<1>4. CASE merge_pending_scan_scope
  <2>1. CASE MergeFindsRow
    <3>1. /\ scan.status = "pending" /\ exec.pc = "idle" /\ exec' = exec
          /\ scan'.scope = MergedScope(scan.scope, request.scope)
          /\ asked' = asked \union {request.scope}
      BY <1>4, <2>1 DEF merge_pending_scan_scope, MergeFindsRow, CoverInv, At, TypeOK
    <3>2. \A s \in asked' : scan'.scope \in {Whole, MergedScope(scan'.scope, s)}
      <4>. TAKE s \in asked'
      <4>1. CASE s \in asked
        BY <3>1, <4>1 DEF CoverInv, MergedScope
      <4>2. CASE s = request.scope
        BY <3>1, <4>2 DEF MergedScope
      <4>. QED
        BY <3>1, <4>1, <4>2
    <3>. QED
      BY <3>1, <3>2 DEF CoverInv, At, MergedScope
  <2>. QED
    BY <1>2, <1>4, <2>1 DEF merge_pending_scan_scope
<1>5. CASE mark_scan_job_running
  <2>1. /\ asked' = asked /\ scan'.scope = scan.scope /\ scan'.status = "running"
        /\ exec'.scope = scan.scope
    BY <1>5 DEF mark_scan_job_running, NoExec, TypeOK
  <2>. QED
    BY <2>1 DEF CoverInv, At, MergedScope
<1>6. CASE \/ \E f \in Files, content \in Contents : ChangeFile(f, content)
           \/ \E root \in {"up", "gone", "stuck", "missing"} : ChangeRoot(root)
           \/ \E below \in {"up", "gone", "stuck"} : ChangeBelow(below)
           \/ \E scope \in Scopes : check_library_storage(scope)
           \/ UNCHANGED vars
  BY <1>2, <1>6 DEF ChangeFile, ChangeRoot, ChangeBelow, Observe,
                    check_library_storage, vars
<1>7. CASE FailAttempt \/ finalize_cancelled_scan \/ finalize_scan_job
  BY <1>1, <1>7 DEF FailAttempt, finalize_cancelled_scan, finalize_scan_job,
                    TryAgainOrGiveUp
<1>8. CASE \/ assess_library_storage
           \/ discover_media_files
           \/ verify_missing_media_paths
           \/ FinishLookups
  <2>1. CASE ~TryAgainOrGiveUp
    <3>1. UNCHANGED <<scan, asked>> /\ exec.pc # "idle"
      BY <1>8, <2>1 DEF assess_library_storage, discover_media_files, At,
                        verify_missing_media_paths, FinishLookups
    <3>2. exec'.scope = exec.scope /\ exec'.pc # "idle"
      <4>1. CASE assess_library_storage
        BY <4>1, <2>1 DEF assess_library_storage, TypeOK
      <4>2. CASE discover_media_files
        BY <4>2, <2>1 DEF discover_media_files, TypeOK
      <4>3. CASE verify_missing_media_paths
        BY <4>3, <2>1 DEF verify_missing_media_paths, TypeOK
      <4>4. CASE FinishLookups
        BY <4>4, <2>1 DEF FinishLookups, TypeOK
      <4>. QED
        BY <1>8, <4>1, <4>2, <4>3, <4>4
    <3>. QED
      BY <1>2, <3>1, <3>2
  <2>. QED
    BY <1>1, <2>1 DEF TryAgainOrGiveUp
<1>9. CASE RaiseCancellation
  BY <1>2, <1>9 DEF RaiseCancellation, TypeOK
<1>10. ASSUME NEW f \in Files, VisitFile(f)
       PROVE  CoverInv'
  BY <1>2, <1>10 DEF VisitFile, TypeOK
<1>11. CASE build_incremental_scan_plan
  BY <1>2, <1>11 DEF build_incremental_scan_plan, TypeOK, At
<1>12. ASSUME NEW f \in Files, sync_scan_group_media_entries(f)
       PROVE  CoverInv'
  BY <1>2, <1>12 DEF sync_scan_group_media_entries, TypeOK
<1>13. ASSUME NEW f \in Files, catalog_path_presence(f)
       PROVE  CoverInv'
  BY <1>2, <1>13 DEF catalog_path_presence, TypeOK
<1>14. CASE sync_library_media_changes
  BY <1>2, <1>14 DEF sync_library_media_changes, TypeOK, At
<1>. QED
  BY <1>3, <1>4, <1>5, <1>6, <1>7, <1>8, <1>9, <1>10, <1>11, <1>12, <1>13, <1>14
     DEF Next

\* A request answered with a pending scan is covered by every attempt at it,
\* wherever merge_pending_scan_scope fell between the starts of attempts.
THEOREM RequestsGetTheirScan == Spec => []RequestsAreCovered
<1>1. Init => TypeOK /\ CoverInv
  BY InitType DEF Init, NoExec, CoverInv, At
<1>2. TypeOK /\ CoverInv /\ [Next]_vars => (TypeOK /\ CoverInv)'
  BY NextType, NextCover
<1>3. CoverInv => RequestsAreCovered
  BY DEF CoverInv, RequestsAreCovered, MergedScope
<1>. QED
  BY <1>1, <1>2, <1>3, PTL DEF Spec

-----------------------------------------------------------------------------
(* Attempts during which the storage does not change.                       *)

\* A root that does not answer hides every file.
LEMMA UnansweredRoot ==
    ASSUME TypeOK, ~RootAnswers(host, storage)
    PROVE  Readable = {}
  BY DEF TypeOK, Situations, RootAnswers, Readable, Presence

\* A judgement that lets a scan go on gives up nothing that can be read.
LEMMA PlanGivesUpNothing ==
    ASSUME TypeOK, MountsInv, Available(host, Assessed, record)
    PROVE  /\ skips_traversal(Assessed) => Readable = {}
           /\ excluded_directories(Assessed) \intersect Readable = {}
<1>1. /\ Assessed.verdict = RootVerdict(host, storage, record, catalog)
      /\ Assessed.missing = RootMissing(host, storage, record, catalog)
      /\ Assessed.below = BelowVerdict(host, storage, record)
  BY DEF Assessed, StoragePlan
<1>2. CASE Assessed.missing
  BY <1>1, <1>2, UnansweredRoot DEF RootMissing
<1>3. ASSUME Assessed.verdict = "abnormal"
      PROVE  Readable = {}
  <2>1. record.root # "none"
    BY <1>3 DEF Available, Unavailable
  <2>2. storage.root = "stuck" \/ (storage.root = "gone" /\ ~host.container)
    BY <1>1, <1>3, <2>1 DEF RootVerdict
  <2>3. storage.root = "stuck" \/ (storage.root = "gone" /\ storage.below = "gone")
    BY <2>2 DEF MountsInv
  <2>. QED
    BY <2>3 DEF Readable, Presence
<1>4. ASSUME Assessed.below \in {"removed", "abnormal"}
      PROVE  Below \intersect Readable = {}
  <2>1. storage.below \in {"gone", "stuck"} \/ storage.root \in {"stuck", "missing"}
    BY <1>1, <1>4 DEF BelowVerdict
  <2>. QED
    BY <2>1 DEF Readable, Presence, TypeOK, Situations
<1>. QED
  BY <1>2, <1>3, <1>4 DEF skips_traversal, excluded_directories

\* The mounts, which no attempt changes.
LEMMA NextMounts ==
    ASSUME TypeOK, MountsInv, [Next]_vars
    PROVE  MountsInv'
<1>1. ASSUME NEW f \in Files, NEW content \in Contents, ChangeFile(f, content)
      PROVE  MountsInv'
  <2>1. storage' = [storage EXCEPT !.content[f] = content] /\ host' = host
    BY <1>1 DEF ChangeFile, Observe
  <2>2. storage'.root = storage.root /\ storage'.below = storage.below
    BY <2>1 DEF TypeOK, Situations
  <2>. QED
    BY <2>1, <2>2 DEF MountsInv
<1>2. ASSUME NEW root \in {"up", "gone", "stuck", "missing"}, ChangeRoot(root)
      PROVE  MountsInv'
  <2>. DEFINE below == IF \/ root = "missing"
                          \/ root = "gone" /\ ~host.container
                       THEN "gone" ELSE storage.below
  <2>1. storage' = [storage EXCEPT !.root = root, !.below = below] /\ host' = host
    BY <1>2 DEF ChangeRoot, Observe
  <2>2. storage'.root = root /\ storage'.below = below
    BY <2>1 DEF TypeOK, Situations
  <2>. QED
    BY <2>1, <2>2 DEF MountsInv
<1>3. ASSUME NEW below \in {"up", "gone", "stuck"}, ChangeBelow(below)
      PROVE  MountsInv'
  <2>1. /\ storage' = [storage EXCEPT !.below = below] /\ host' = host
        /\ storage.root = "gone" => host.container
    BY <1>3 DEF ChangeBelow, Observe
  <2>2. storage'.root = storage.root
    BY <2>1 DEF TypeOK, Situations
  <2>. QED
    BY <2>1, <2>2 DEF MountsInv
<1>4. CASE UNCHANGED <<host, storage>>
  BY <1>4 DEF MountsInv
<1>5. CASE ~ UNCHANGED <<host, storage>>
  BY <1>1, <1>2, <1>3, <1>5
     DEF Next, vars, environment, check_library_storage, enqueue_scan_job_tx,
         merge_pending_scan_scope, mark_scan_job_running, FailAttempt,
         RaiseCancellation, finalize_cancelled_scan, finalize_scan_job,
         assess_library_storage, discover_media_files, VisitFile,
         build_incremental_scan_plan, sync_scan_group_media_entries,
         verify_missing_media_paths, catalog_path_presence, FinishLookups,
         sync_library_media_changes
<1>. QED
  BY <1>4, <1>5

QuietStep == QuietPlanInv' /\ QuietWalkInv' /\ QuietCatalogInv'

\* Nothing changes that the invariant speaks of; or the attempt is quiet no more.
LEMMA QuietFrame ==
    ASSUME QuietInv, UNCHANGED <<catalog, exec>>,
           attempt'.quiet => attempt.quiet /\ UNCHANGED <<host, storage>>
    PROVE  QuietStep
<1>1. UNCHANGED storage => Readable' = Readable
                           /\ ReadableOf("media")' = ReadableOf("media")
                           /\ ReadableOf("bad")' = ReadableOf("bad")
  BY DEF Readable, ReadableOf, InScope
<1>2. UNCHANGED <<skips_traversal(exec.plan), excluded_directories(exec.plan)>>
  BY DEF skips_traversal, excluded_directories
<1>. QED
  BY <1>1, <1>2 DEF QuietStep, QuietInv, QuietPlanInv, QuietWalkInv, QuietCatalogInv

\* An attempt that is over has seen nothing.
LEMMA QuietIdle ==
    ASSUME exec'.pc \in {"idle", "assess"}, exec'.seen = {}, exec'.kept = {}
    PROVE  QuietStep
  BY DEF QuietStep, QuietPlanInv, QuietWalkInv, QuietCatalogInv

LEMMA QuietEnd ==
    ASSUME TryAgainOrGiveUp
    PROVE  QuietStep
  BY QuietIdle DEF TryAgainOrGiveUp, EndAttempt, NoExec

\* The readable files of a scope, under a step of the attempt.
LEMMA QuietReadable ==
    ASSUME UNCHANGED storage, exec'.scope = exec.scope
    PROVE  /\ Readable' = Readable
           /\ ReadableOf("media")' = ReadableOf("media")
           /\ ReadableOf("bad")' = ReadableOf("bad")
  BY DEF Readable, ReadableOf, InScope

LEMMA QuietDiscover ==
    ASSUME TypeOK, QuietInv, discover_media_files
    PROVE  QuietStep
<1>1. CASE TryAgainOrGiveUp
  BY <1>1, QuietEnd
<1>2. CASE ~ TryAgainOrGiveUp
  <2>1. /\ UNCHANGED <<host, storage, catalog, attempt>> /\ exec.pc = "discover"
        /\ \/ exec' = [exec EXCEPT !.pc = "walk",
                                   !.todo = {f \in Files : InScope(exec.scope, f)}]
           \/ /\ exec' = [exec EXCEPT !.pc = "process"]
              /\ skips_traversal(exec.plan) \/ ~ RootAnswers(host, storage)
    BY <1>2 DEF discover_media_files, At, environment, library
  <2>2. /\ exec'.plan = exec.plan /\ exec'.scope = exec.scope
        /\ exec'.seen = exec.seen /\ exec'.kept = exec.kept
        /\ exec'.pc = "walk" => exec'.todo = {f \in Files : InScope(exec.scope, f)}
        /\ exec'.pc = "process" => skips_traversal(exec.plan) \/ ~ RootAnswers(host, storage)
        /\ exec'.pc \in {"walk", "process"}
    BY <2>1 DEF TypeOK
  <2>3. exec.seen = {} /\ exec.kept = {}
    BY <2>1 DEF QuietInv, QuietWalkInv
  <2>4. /\ Readable' = Readable /\ ReadableOf("media")' = ReadableOf("media")
        /\ ReadableOf("bad")' = ReadableOf("bad")
    BY <2>1, <2>2, QuietReadable
  <2>5. QuietPlanInv'
    BY <2>1, <2>2, <2>4 DEF QuietInv, QuietPlanInv, skips_traversal, excluded_directories
  <2>6. ASSUME attempt.quiet, exec'.pc = "process" PROVE Readable = {}
    BY <2>1, <2>2, <2>6, UnansweredRoot DEF QuietInv, QuietPlanInv
  <2>7. /\ ReadableOf("media") \subseteq {f \in Files : InScope(exec.scope, f)}
        /\ ReadableOf("bad") \subseteq {f \in Files : InScope(exec.scope, f)}
        /\ ReadableOf("media") \subseteq Readable /\ ReadableOf("bad") \subseteq Readable
    BY DEF ReadableOf, Readable
  <2>8. QuietWalkInv'
    BY <2>1, <2>2, <2>3, <2>4, <2>6, <2>7 DEF QuietWalkInv
  <2>9. QuietCatalogInv'
    BY <2>2, <2>3 DEF QuietCatalogInv
  <2>. QED
    BY <2>5, <2>8, <2>9 DEF QuietStep
<1>. QED
  BY <1>1, <1>2

LEMMA QuietVisit ==
    ASSUME TypeOK, QuietInv, NEW f \in Files, VisitFile(f)
    PROVE  QuietStep
<1>. DEFINE found == /\ f \notin excluded_directories(exec.plan)
                     /\ Presence(storage, f) = "present"
<1>1. /\ UNCHANGED <<host, storage, catalog, attempt>> /\ exec.pc = "walk" /\ f \in exec.todo
      /\ exec' = [exec EXCEPT
                   !.todo = exec.todo \ {f},
                   !.seen = IF found /\ storage.content[f] = "media"
                            THEN exec.seen \union {f} ELSE exec.seen,
                   !.kept = IF found /\ storage.content[f] = "bad"
                            THEN exec.kept \union {f} ELSE exec.kept]
  BY DEF VisitFile, At, environment, library
<1>2. /\ exec'.pc = "walk" /\ exec'.plan = exec.plan /\ exec'.scope = exec.scope
      /\ exec'.todo = exec.todo \ {f}
      /\ exec'.seen = (IF found /\ storage.content[f] = "media"
                       THEN exec.seen \union {f} ELSE exec.seen)
      /\ exec'.kept = (IF found /\ storage.content[f] = "bad"
                       THEN exec.kept \union {f} ELSE exec.kept)
  BY <1>1 DEF TypeOK
<1>3. /\ Readable' = Readable /\ ReadableOf("media")' = ReadableOf("media")
      /\ ReadableOf("bad")' = ReadableOf("bad")
  BY <1>1, <1>2, QuietReadable
<1>4. QuietPlanInv'
  BY <1>1, <1>2, <1>3 DEF QuietInv, QuietPlanInv, skips_traversal, excluded_directories
<1>5. attempt.quiet /\ f \in Readable => found
  BY <1>1 DEF QuietInv, QuietPlanInv, Readable
<1>6. found => f \in Readable
  BY DEF Readable
<1>7. /\ f \in ReadableOf("media") => f \in Readable /\ storage.content[f] = "media"
      /\ f \in ReadableOf("bad") => f \in Readable /\ storage.content[f] = "bad"
  BY DEF ReadableOf
<1>. HIDE DEF found
<1>8. QuietWalkInv'
  <2>. SUFFICES ASSUME attempt.quiet
                PROVE  /\ exec'.seen \union exec'.kept \subseteq Readable
                       /\ ReadableOf("media") \ exec'.todo \subseteq exec'.seen
                       /\ ReadableOf("bad") \ exec'.todo \subseteq exec'.kept
    BY <1>1, <1>2, <1>3 DEF QuietWalkInv
  <2>1. /\ exec.seen \union exec.kept \subseteq Readable
        /\ ReadableOf("media") \ exec.todo \subseteq exec.seen
        /\ ReadableOf("bad") \ exec.todo \subseteq exec.kept
    BY <1>1 DEF QuietInv, QuietWalkInv
  <2>2. exec'.seen \union exec'.kept \subseteq Readable
    BY <1>2, <1>6, <2>1
  <2>3. ReadableOf("media") \ exec'.todo \subseteq exec'.seen
    BY <1>2, <1>5, <1>7, <2>1
  <2>4. ReadableOf("bad") \ exec'.todo \subseteq exec'.kept
    BY <1>2, <1>5, <1>7, <2>1
  <2>. QED
    BY <2>2, <2>3, <2>4
<1>9. QuietCatalogInv'
  BY <1>2 DEF QuietCatalogInv
<1>. QED
  BY <1>4, <1>8, <1>9 DEF QuietStep

\* The stages after the walk find out about no more files of the walk.
LEMMA QuietAfterWalk ==
    ASSUME QuietInv, UNCHANGED <<host, storage, attempt>>,
           \/ exec.pc = "walk" /\ exec.todo = {}
           \/ exec.pc \in {"process", "lookup"},
           exec'.pc \in {"process", "lookup", "commit"}, exec'.scope = exec.scope,
           exec'.seen = exec.seen, exec.kept \subseteq exec'.kept,
           exec'.kept \subseteq exec.kept \union Readable,
           QuietCatalogInv'
    PROVE  QuietStep
<1>1. /\ Readable' = Readable /\ ReadableOf("media")' = ReadableOf("media")
      /\ ReadableOf("bad")' = ReadableOf("bad")
  BY QuietReadable
<1>2. ASSUME attempt.quiet
      PROVE  /\ exec.seen \union exec.kept \subseteq Readable
             /\ ReadableOf("media") \subseteq exec.seen /\ ReadableOf("bad") \subseteq exec.kept
  BY <1>2 DEF QuietInv, QuietWalkInv
<1>3. QuietWalkInv'
  BY <1>1, <1>2 DEF QuietWalkInv
<1>. QED
  BY <1>3 DEF QuietStep, QuietPlanInv

LEMMA NextQuiet ==
    ASSUME TypeOK, QuietInv, [Next]_vars
    PROVE  QuietInv'
<1>1. CASE \/ \E f \in Files, content \in Contents : ChangeFile(f, content)
           \/ \E root \in {"up", "gone", "stuck", "missing"} : ChangeRoot(root)
           \/ \E below \in {"up", "gone", "stuck"} : ChangeBelow(below)
  <2>1. /\ UNCHANGED <<catalog, exec>>
        /\ (attempt' = attempt /\ exec.pc = "idle") \/ ~ attempt'.quiet
    BY <1>1 DEF ChangeFile, ChangeRoot, ChangeBelow, Observe, library, TypeOK
  <2>2. CASE ~ attempt'.quiet
    BY <2>1, <2>2, QuietFrame, NextMounts DEF QuietInv, QuietStep
  <2>3. CASE exec.pc = "idle"
    <3>1. exec'.pc = "idle" /\ exec'.seen = {} /\ exec'.kept = {}
      BY <2>1, <2>3 DEF QuietInv, QuietWalkInv
    <3>. QED
      BY <3>1, QuietIdle, NextMounts DEF QuietInv, QuietStep
  <2>. QED
    BY <2>1, <2>2, <2>3
<1>2. CASE \/ \E scope \in Scopes : check_library_storage(scope)
           \/ enqueue_scan_job_tx
           \/ merge_pending_scan_scope
           \/ UNCHANGED vars
  <2>1. UNCHANGED <<host, storage, catalog, exec, attempt>>
    BY <1>2 DEF check_library_storage, enqueue_scan_job_tx, merge_pending_scan_scope,
                vars, environment, library
  <2>. QED
    BY <2>1, QuietFrame, NextMounts DEF QuietInv, QuietStep
<1>3. CASE FailAttempt \/ finalize_cancelled_scan \/ finalize_scan_job
  <2>1. TryAgainOrGiveUp
    BY <1>3 DEF FailAttempt, finalize_cancelled_scan, finalize_scan_job, TryAgainOrGiveUp
  <2>. QED
    BY <2>1, QuietEnd, NextMounts DEF QuietInv, QuietStep
<1>4. CASE mark_scan_job_running
  <2>1. exec'.pc = "assess" /\ exec'.seen = {} /\ exec'.kept = {}
    BY <1>4 DEF mark_scan_job_running, NoExec
  <2>. QED
    BY <2>1, QuietIdle, NextMounts DEF QuietInv, QuietStep
<1>5. CASE RaiseCancellation
  <2>1. /\ UNCHANGED <<host, storage, catalog, attempt>>
        /\ exec' = [exec EXCEPT !.cancel = TRUE]
    BY <1>5 DEF RaiseCancellation, environment, library
  <2>2. /\ exec'.pc = exec.pc /\ exec'.plan = exec.plan /\ exec'.scope = exec.scope
        /\ exec'.todo = exec.todo /\ exec'.seen = exec.seen /\ exec'.kept = exec.kept
        /\ exec'.failed = exec.failed
    BY <2>1 DEF TypeOK
  <2>3. /\ Readable' = Readable /\ ReadableOf("media")' = ReadableOf("media")
        /\ ReadableOf("bad")' = ReadableOf("bad")
    BY <2>1, <2>2, QuietReadable
  <2>4. QuietPlanInv' /\ QuietCatalogInv'
    BY <2>1, <2>2, <2>3
       DEF QuietInv, QuietPlanInv, QuietCatalogInv, skips_traversal, excluded_directories
  <2>5. QuietWalkInv'
    BY <2>1, <2>2, <2>3 DEF QuietInv, QuietWalkInv
  <2>. QED
    BY <2>4, <2>5, NextMounts DEF QuietInv
<1>6. CASE assess_library_storage
  <2>1. CASE TryAgainOrGiveUp
    BY <2>1, QuietEnd, NextMounts DEF QuietInv, QuietStep
  <2>2. CASE ~ TryAgainOrGiveUp
    <3>1. /\ UNCHANGED <<host, storage, record, catalog, attempt>> /\ exec.pc = "assess"
          /\ exec' = [exec EXCEPT !.pc = "discover", !.plan = Assessed]
          /\ Available(host, Assessed, record)
      BY <1>6, <2>2 DEF assess_library_storage, At, environment, library
    <3>2. /\ exec'.pc = "discover" /\ exec'.plan = Assessed
          /\ exec'.seen = exec.seen /\ exec'.kept = exec.kept
      BY <3>1 DEF TypeOK
    <3>3. /\ skips_traversal(Assessed) => Readable = {}
          /\ excluded_directories(Assessed) \intersect Readable = {}
      BY <3>1, PlanGivesUpNothing DEF QuietInv
    <3>4. /\ Readable' = Readable
          /\ skips_traversal(exec'.plan) <=> skips_traversal(Assessed)
          /\ excluded_directories(exec'.plan) = excluded_directories(Assessed)
      BY <3>1, <3>2 DEF Readable
    <3>5. QuietPlanInv'
      BY <3>2, <3>3, <3>4 DEF QuietPlanInv
    <3>6. QuietWalkInv' /\ QuietCatalogInv'
      BY <3>1, <3>2 DEF QuietInv, QuietWalkInv, QuietCatalogInv
    <3>. QED
      BY <3>5, <3>6, NextMounts DEF QuietInv
  <2>. QED
    BY <2>1, <2>2
<1>7. CASE discover_media_files
  BY <1>7, QuietDiscover, NextMounts DEF QuietInv, QuietStep
<1>8. ASSUME NEW f \in Files, VisitFile(f)
      PROVE  QuietInv'
  BY <1>8, QuietVisit, NextMounts DEF QuietInv, QuietStep
<1>9. CASE build_incremental_scan_plan
  <2>1. PICK stale \in SUBSET (exec.seen \intersect catalog) :
          exec' = [exec EXCEPT !.pc = "process", !.todo = (exec.seen \ catalog) \union stale]
    BY <1>9 DEF build_incremental_scan_plan
  <2>2. /\ UNCHANGED <<host, storage, catalog, attempt>> /\ exec.pc = "walk" /\ exec.todo = {}
        /\ exec'.pc = "process" /\ exec'.todo = (exec.seen \ catalog) \union stale
        /\ exec'.scope = exec.scope /\ exec'.seen = exec.seen /\ exec'.kept = exec.kept
    BY <1>9, <2>1 DEF build_incremental_scan_plan, At, environment, library, TypeOK
  <2>3. QuietCatalogInv'
    BY <2>2 DEF QuietCatalogInv
  <2>. QED
    BY <2>2, <2>3, QuietAfterWalk, NextMounts DEF QuietInv, QuietStep
<1>10. ASSUME NEW f \in Files, sync_scan_group_media_entries(f)
       PROVE  QuietInv'
  <2>1. /\ UNCHANGED <<host, storage, attempt>> /\ exec.pc = "process"
        /\ exec'.pc = "process" /\ exec'.todo = exec.todo \ {f}
        /\ exec'.scope = exec.scope /\ exec'.seen = exec.seen /\ exec'.kept = exec.kept
        /\ \/ catalog' = catalog \union {f} /\ exec'.failed = exec.failed
           \/ catalog' = catalog /\ exec'.failed = exec.failed \union {f}
    BY <1>10 DEF sync_scan_group_media_entries, At, environment, TypeOK
  <2>2. QuietCatalogInv'
    BY <2>1 DEF QuietInv, QuietCatalogInv
  <2>. QED
    BY <2>1, <2>2, QuietAfterWalk, NextMounts DEF QuietInv, QuietStep
<1>11. CASE verify_missing_media_paths
  <2>1. CASE TryAgainOrGiveUp
    BY <2>1, QuietEnd, NextMounts DEF QuietInv, QuietStep
  <2>2. CASE ~ TryAgainOrGiveUp
    <3>1. /\ UNCHANGED <<host, storage, catalog, attempt>> /\ exec.pc = "process"
          /\ exec.todo = {}
          /\ exec'.pc = "lookup" /\ exec'.failed = exec.failed
          /\ exec'.scope = exec.scope /\ exec'.seen = exec.seen /\ exec'.kept = exec.kept
      BY <1>11, <2>2 DEF verify_missing_media_paths, At, PipelineDone, environment, library, TypeOK
    <3>2. QuietCatalogInv'
      BY <3>1 DEF QuietInv, QuietCatalogInv
    <3>. QED
      BY <3>1, <3>2, QuietAfterWalk, NextMounts DEF QuietInv, QuietStep
  <2>. QED
    BY <2>1, <2>2
<1>12. ASSUME NEW f \in Files, catalog_path_presence(f)
       PROVE  QuietInv'
  <2>1. /\ UNCHANGED <<host, storage, catalog, attempt>> /\ exec.pc = "lookup"
        /\ exec'.pc = "lookup" /\ exec'.failed = exec.failed
        /\ exec'.scope = exec.scope /\ exec'.seen = exec.seen
        /\ exec'.kept = IF Presence(storage, f) = "present"
                        THEN exec.kept \union {f} ELSE exec.kept
    BY <1>12 DEF catalog_path_presence, At, environment, library, TypeOK
  <2>2. exec.kept \subseteq exec'.kept /\ exec'.kept \subseteq exec.kept \union Readable
    BY <2>1 DEF Readable
  <2>3. QuietCatalogInv'
    BY <2>1 DEF QuietInv, QuietCatalogInv
  <2>. QED
    BY <2>1, <2>2, <2>3, QuietAfterWalk, NextMounts DEF QuietInv, QuietStep
<1>13. CASE FinishLookups
  <2>1. CASE TryAgainOrGiveUp
    BY <2>1, QuietEnd, NextMounts DEF QuietInv, QuietStep
  <2>2. CASE ~ TryAgainOrGiveUp
    <3>1. /\ UNCHANGED <<host, storage, catalog, attempt>> /\ exec.pc = "lookup"
          /\ exec'.pc = "commit" /\ exec'.failed = exec.failed
          /\ exec'.scope = exec.scope /\ exec'.seen = exec.seen /\ exec'.kept = exec.kept
      BY <1>13, <2>2 DEF FinishLookups, At, environment, library, TypeOK
    <3>2. QuietCatalogInv'
      BY <3>1 DEF QuietInv, QuietCatalogInv
    <3>. QED
      BY <3>1, <3>2, QuietAfterWalk, NextMounts DEF QuietInv, QuietStep
  <2>. QED
    BY <2>1, <2>2
<1>14. CASE sync_library_media_changes
  <2>1. exec'.pc = "finish"
    BY <1>14 DEF sync_library_media_changes, TypeOK
  <2>. QED
    BY <2>1, NextMounts DEF QuietInv, QuietPlanInv, QuietWalkInv, QuietCatalogInv
<1>. QED
  BY <1>1, <1>2, <1>3, <1>4, <1>5, <1>6, <1>7, <1>8, <1>9, <1>10, <1>11, <1>12,
     <1>13, <1>14 DEF Next

\* What the reconciliation of a quiet attempt leaves of a file of its scope.
LEMMA QuietCommit ==
    ASSUME TypeOK, QuietInv, At("commit"), attempt.quiet, catalog' = catalog \ MissingPaths,
           NEW f \in Files, InScope(exec.scope, f)
    PROVE  IF Presence(storage, f) # "present" THEN f \notin catalog'
           ELSE IF storage.content[f] = "media" THEN f \in catalog' \union exec.failed
           ELSE f \in catalog' <=> f \in catalog
<1>1. /\ exec.seen \union exec.kept \subseteq Readable
      /\ ReadableOf("media") \subseteq exec.seen /\ ReadableOf("bad") \subseteq exec.kept
      /\ exec.seen \subseteq catalog \union exec.failed
  BY DEF At, QuietInv, QuietWalkInv, QuietCatalogInv
<1>2. f \in MissingPaths <=> f \in catalog /\ f \notin exec.seen \union exec.kept
  BY DEF MissingPaths
<1>3. CASE Presence(storage, f) # "present"
  <2>1. f \notin Readable
    BY <1>3 DEF Readable
  <2>2. f \notin catalog'
    BY <1>1, <1>2, <2>1
  <2>. QED
    BY <1>3, <2>2
<1>4. CASE Presence(storage, f) = "present" /\ storage.content[f] = "media"
  <2>1. f \in ReadableOf("media")
    BY <1>4 DEF ReadableOf, Readable
  <2>. QED
    BY <1>1, <1>2, <1>4, <2>1
<1>5. CASE Presence(storage, f) = "present" /\ storage.content[f] # "media"
  <2>1. storage.content[f] # "none"
    BY <1>5 DEF Presence, TypeOK, Situations
  <2>2. storage.content[f] = "bad"
    BY <1>5, <2>1 DEF TypeOK, Situations
  <2>3. f \in ReadableOf("bad")
    BY <1>5, <2>2 DEF ReadableOf, Readable
  <2>. QED
    BY <1>1, <1>2, <1>5, <2>3
<1>. QED
  BY <1>3, <1>4, <1>5

\* When the storage does not change during an attempt, the reconciliation of
\* execute_scan_job_with_cancellation leaves in its scope exactly what can be
\* read: every media file that did not fail, the unparsable carriers as they
\* were, and nothing that is not there, whatever mounts are down.
THEOREM QuietScansLeaveWhatIsThere == Spec => QuietScansAreExact
<1>1. Init => TypeOK /\ QuietInv
  BY InitType, InitInv
     DEF Init, NoExec, OutageInv, QuietInv, QuietPlanInv, QuietWalkInv, QuietCatalogInv
<1>2. TypeOK /\ QuietInv /\ [Next]_vars => (TypeOK /\ QuietInv)'
  BY NextType, NextQuiet
<1>3. TypeOK /\ QuietInv /\ [Next]_vars =>
          [At("commit") /\ exec'.pc = "finish" /\ attempt.quiet =>
              \A f \in Files : InScope(exec.scope, f) =>
                 IF Presence(storage, f) # "present" THEN f \notin catalog'
                 ELSE IF storage.content[f] = "media" THEN f \in catalog' \union exec.failed
                 ELSE f \in catalog' <=> f \in catalog]_vars
  <2>. SUFFICES ASSUME TypeOK, QuietInv, [Next]_vars, At("commit"), exec'.pc = "finish",
                       attempt.quiet, NEW f \in Files, InScope(exec.scope, f)
                PROVE  IF Presence(storage, f) # "present" THEN f \notin catalog'
                       ELSE IF storage.content[f] = "media" THEN f \in catalog' \union exec.failed
                       ELSE f \in catalog' <=> f \in catalog
    OBVIOUS
  <2>1. catalog' = catalog \ MissingPaths
    <3>1. CASE sync_library_media_changes
      BY <3>1 DEF sync_library_media_changes
    <3>2. CASE ~ sync_library_media_changes
      <4>1. exec.pc = "commit" /\ exec'.pc = "finish"
        BY DEF At
      <4>2. CASE \/ \E f0 \in Files, content \in Contents : ChangeFile(f0, content)
                 \/ \E root \in {"up", "gone", "stuck", "missing"} : ChangeRoot(root)
                 \/ \E below \in {"up", "gone", "stuck"} : ChangeBelow(below)
                 \/ \E scope \in Scopes : check_library_storage(scope)
                 \/ enqueue_scan_job_tx
                 \/ merge_pending_scan_scope
                 \/ UNCHANGED vars
        BY <4>1, <4>2 DEF ChangeFile, ChangeRoot, ChangeBelow, Observe, check_library_storage,
                          enqueue_scan_job_tx, merge_pending_scan_scope, vars
      <4>3. CASE FailAttempt
        BY <4>1, <4>3 DEF FailAttempt, TryAgainOrGiveUp, EndAttempt, NoExec
      <4>4. CASE RaiseCancellation
        BY <4>1, <4>4 DEF RaiseCancellation, TypeOK
      <4>5. CASE \/ mark_scan_job_running \/ finalize_cancelled_scan \/ assess_library_storage
                 \/ discover_media_files \/ (\E f0 \in Files : VisitFile(f0))
                 \/ build_incremental_scan_plan
                 \/ (\E f0 \in Files : sync_scan_group_media_entries(f0))
                 \/ verify_missing_media_paths \/ (\E f0 \in Files : catalog_path_presence(f0))
                 \/ FinishLookups \/ finalize_scan_job
        BY <4>1, <4>5
           DEF At, mark_scan_job_running, finalize_cancelled_scan, assess_library_storage,
               discover_media_files, VisitFile, build_incremental_scan_plan,
               sync_scan_group_media_entries, verify_missing_media_paths,
               catalog_path_presence, FinishLookups, finalize_scan_job
      <4>. QED
        BY <3>2, <4>2, <4>3, <4>4, <4>5 DEF Next
    <3>. QED
      BY <3>1, <3>2
  <2>. QED
    BY <2>1, QuietCommit
<1>. QED
  BY <1>1, <1>2, <1>3, PTL DEF Spec, QuietScansAreExact
=============================================================================
