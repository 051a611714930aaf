----------------------------- MODULE LibraryScan -----------------------------
(***************************************************************************)
(* One library and its scans: requests that queue a scan or widen the one  *)
(* that waits, and the attempt that executes it while the storage changes  *)
(* under it.  The attempt judges the storage, walks it, commits what is    *)
(* new, judges the storage again, looks up every catalog path it did not   *)
(* see, and removes in one transaction what is not there.                  *)
(*                                                                         *)
(* One attempt runs at a time: BackgroundJobs shows that a stale one       *)
(* commits nothing.  An attempt may fail at any point, for whatever reason *)
(* (an error, a lost lease, a crash), and the scan is then tried again or  *)
(* given up.  A file is its own scan group.                                *)
(***************************************************************************)
EXTENDS LibraryStorage, Naturals

CONSTANTS
    Whole,       \* the scope of a scan of the whole library
    Scopes,      \* what requests ask for: Whole, or the files of directories
    HostKinds,   \* the hosts considered
    Contents,    \* what the files considered can be
    MaxOutages   \* bound: outages of the root's mount during one attempt

ASSUME ScopesAssumption == /\ \A S \in SUBSET Files : Whole # S
                           /\ Scopes \subseteq {Whole} \union SUBSET Files
                           /\ {} \notin Scopes
ASSUME HostKindsAssumption == HostKinds \subseteq Hosts
ASSUME ContentsAssumption == Contents \subseteq {"none", "media", "bad"}
ASSUME MaxOutagesAssumption == MaxOutages \in Nat

VARIABLES
    host,        \* what the server runs on; fixed
    storage,     \* the storage situation
    record,      \* table library_storage_mounts
    catalog,     \* files with a row in media_files
    scan,        \* the active scan_jobs row: status and scope
    request,     \* a request to scan, between its steps
    exec,        \* the attempt in execution
    asked,       \* history: scopes answered with the scan before it started
    attempt      \* history: what the storage did during the attempt

vars == <<host, storage, record, catalog, scan, request, exec, asked, attempt>>
environment == <<host, storage>>
library == <<record, catalog>>

-----------------------------------------------------------------------------
AnyScope == {Whole} \union SUBSET Files
InScope(scope, f) == scope = Whole \/ f \in scope

\* merge_pending_scan_scope: a whole scan stays whole, a request for the whole
\* library drops the scope, and directories add up.
MergedScope(s, t) == IF s = Whole \/ t = Whole THEN Whole ELSE s \union t

NoScan == [status |-> "none", scope |-> Whole]
NoRequest == [pc |-> "idle", scope |-> Whole]
NoPlan == [verdict |-> "healthy", below |-> "no region", missing |-> FALSE,
           holder |-> "mount", network |-> FALSE]
NoExec == [pc |-> "idle", scope |-> Whole, plan |-> NoPlan, todo |-> {},
           seen |-> {}, kept |-> {}, failed |-> {}, changed |-> FALSE,
           unanswered |-> FALSE, cancel |-> FALSE]
NoAttempt == [gone |-> {}, quiet |-> TRUE, outages |-> 0]

Init ==
    /\ host \in HostKinds
    /\ storage \in [content : [Files -> Contents],
                    root : {"up", "gone"}, below : {"up", "gone"}]
    /\ storage.root = "gone" \/ Below = {} => storage.below = "gone"
    /\ record = [root |-> "none", below |-> FALSE]
    /\ catalog = {}
    /\ scan = NoScan
    /\ request = NoRequest
    /\ exec = NoExec
    /\ asked = {}
    /\ attempt = NoAttempt

\* The assessment reads the mounts, the record and a sample of the catalog.
Assessed == StoragePlan(host, storage, record, catalog)

-----------------------------------------------------------------------------
(* The storage.                                                            *)

\* Files that the documentation lets a scan take for deleted: they are not
\* there, or the mount below the root is down, or a local root that has a
\* record is down, or the deployment dropped the root's mount.
MayBeTakenForDeleted(s) ==
    {f \in Files :
        \/ s.content[f] = "none"
        \/ s.root = "missing"
        \/ f \in Below /\ s.below # "up"
        \/ ~host.network /\ record.root # "none" /\ s.root # "up"
        \/ host.container /\ s.root = "gone"}

Observe(s) ==
    /\ storage' = s
    /\ attempt' = IF exec.pc = "idle" THEN attempt
                  ELSE [attempt EXCEPT
                          !.gone = @ \union MayBeTakenForDeleted(s),
                          !.quiet = FALSE,
                          !.outages = IF /\ storage.root \in {"up", "missing"}
                                         /\ s.root \in {"gone", "stuck"}
                                      THEN @ + 1 ELSE @]
    /\ attempt'.outages <= MaxOutages
    /\ UNCHANGED <<host, library, scan, request, exec, asked>>

\* A file appears, goes, or changes; on the storage's side, whether or not
\* the server can read it.
ChangeFile(f, content) ==
    /\ content # storage.content[f]
    /\ Observe([storage EXCEPT !.content[f] = content])

\* The root's mount or the root folder goes or comes back.  A mount below goes
\* with the folder, and outside a container with the root's mount.
ChangeRoot(root) ==
    /\ root # storage.root
    /\ root = "missing" => ~host.atMount
    /\ Observe([storage EXCEPT !.root = root,
                               !.below = IF \/ root = "missing"
                                            \/ root = "gone" /\ ~host.container
                                         THEN "gone" ELSE @])

ChangeBelow(below) ==
    /\ below # storage.below /\ Below # {}
    /\ storage.root # "missing"
    /\ storage.root = "gone" => host.container
    /\ Observe([storage EXCEPT !.below = below])

-----------------------------------------------------------------------------
(* Requests: enqueue_library_scan_with_scope.                              *)

\* check_library_storage; storage that is not available refuses the request.
check_library_storage(scope) ==
    /\ request.pc = "idle"
    /\ request' = IF Available(host, Assessed, record)
                  THEN [pc |-> "enqueue", scope |-> scope] ELSE request
    /\ UNCHANGED <<environment, library, scan, exec, asked, attempt>>

\* enqueue_scan_job_tx up to the read of the active scan.  A running scan is
\* answered as it is.
enqueue_scan_job_tx ==
    /\ request.pc = "enqueue"
    /\ \/ /\ scan.status = "none"
          /\ scan' = [status |-> "pending", scope |-> request.scope]
          /\ asked' = {request.scope}
          /\ request' = NoRequest
       \/ /\ scan.status = "pending"
          /\ request' = [request EXCEPT !.pc = "merge"]
          /\ UNCHANGED <<scan, asked>>
       \/ /\ scan.status = "running"
          /\ request' = NoRequest
          /\ UNCHANGED <<scan, asked>>
    /\ UNCHANGED <<environment, library, exec, attempt>>

\* Mutation: the update takes any row.
MergeFindsAnyRow == TRUE
\* The update finds the row only while it is pending.
MergeFindsRow == scan.status = "pending"
\* The row is then read again and answered as it is.
merge_pending_scan_scope ==
    /\ request.pc = "merge"
    /\ request' = NoRequest
    /\ IF MergeFindsRow
       THEN /\ scan' = [scan EXCEPT !.scope = MergedScope(@, request.scope)]
            /\ asked' = asked \union {request.scope}
       ELSE UNCHANGED <<scan, asked>>
    /\ UNCHANGED <<environment, library, exec, attempt>>

-----------------------------------------------------------------------------
(* An attempt: execute_scan_job_with_cancellation.                         *)

At(pc) == exec.pc = pc

\* The attempt is over: nothing of it is left but what it committed.
EndAttempt(status) ==
    /\ scan' = IF status = "pending" THEN [scan EXCEPT !.status = status] ELSE NoScan
    /\ exec' = NoExec
    /\ asked' = IF status = "pending" THEN asked ELSE {}
    /\ attempt' = NoAttempt

TryAgainOrGiveUp == \E status \in {"pending", "none"} : EndAttempt(status)

\* mark_scan_job_running reads the scope with the transition.
mark_scan_job_running ==
    /\ At("idle") /\ scan.status = "pending"
    /\ scan' = [scan EXCEPT !.status = "running"]
    /\ exec' = [NoExec EXCEPT !.pc = "assess", !.scope = scan.scope]
    /\ attempt' = [NoAttempt EXCEPT !.gone = MayBeTakenForDeleted(storage)]
    /\ UNCHANGED <<environment, library, request, asked>>

\* The attempt fails: the scan waits for another one, or has failed for good.
FailAttempt ==
    /\ ~At("idle")
    /\ TryAgainOrGiveUp
    /\ UNCHANGED <<environment, library, request>>

\* The cancellation flag: a request, the heartbeat or the progress task.
RaiseCancellation ==
    /\ ~At("idle") /\ ~exec.cancel
    /\ exec' = [exec EXCEPT !.cancel = TRUE]
    /\ UNCHANGED <<environment, library, scan, request, asked, attempt>>

\* The flag is read after the start, for every entry of the walk and between
\* scan groups.
finalize_cancelled_scan ==
    /\ exec.cancel /\ exec.pc \in {"assess", "walk", "process"}
    /\ EndAttempt("none")
    /\ UNCHANGED <<environment, library, request>>

\* Storage that is not available keeps the whole catalog.
assess_library_storage ==
    /\ At("assess")
    /\ IF Available(host, Assessed, record)
       THEN /\ exec' = [exec EXCEPT !.pc = "discover", !.plan = Assessed]
            /\ UNCHANGED <<scan, asked, attempt>>
       ELSE TryAgainOrGiveUp
    /\ UNCHANGED <<environment, library, request>>

\* discover_media_files up to the root folder.  A root that cannot be read is
\* an outage of connected network storage, and an empty library otherwise.
discover_media_files ==
    /\ At("discover")
    /\ \/ /\ skips_traversal(exec.plan)
          /\ exec' = [exec EXCEPT !.pc = "process"]
          /\ UNCHANGED <<scan, asked, attempt>>
       \/ /\ ~skips_traversal(exec.plan) /\ RootAnswers(host, storage)
          /\ exec' = [exec EXCEPT !.pc = "walk",
                                  !.todo = {f \in Files : InScope(exec.scope, f)}]
          /\ UNCHANGED <<scan, asked, attempt>>
       \/ /\ ~skips_traversal(exec.plan) /\ ~RootAnswers(host, storage)
          /\ IF AbortsOnRootFailure(exec.plan)
             THEN TryAgainOrGiveUp
             ELSE /\ exec' = [exec EXCEPT !.pc = "process"]
                  /\ UNCHANGED <<scan, asked, attempt>>
    /\ UNCHANGED <<environment, library, request>>

\* visit_dir_inventory: what cannot be read is skipped.
VisitFile(f) ==
    /\ At("walk") /\ f \in exec.todo
    /\ LET found == /\ f \notin excluded_directories(exec.plan)
                    /\ Presence(storage, f) = "present"
           content == storage.content[f]
       IN  exec' = [exec EXCEPT
                      !.todo = @ \ {f},
                      !.seen = IF found /\ content = "media" THEN @ \union {f} ELSE @,
                      !.kept = IF found /\ content = "bad" THEN @ \union {f} ELSE @]
    /\ UNCHANGED <<environment, library, scan, request, asked, attempt>>

\* build_incremental_scan_plan: new files need processing, and whichever known
\* ones have changed.
build_incremental_scan_plan ==
    /\ At("walk") /\ exec.todo = {}
    /\ \E stale \in SUBSET (exec.seen \intersect catalog) :
          exec' = [exec EXCEPT !.pc = "process",
                               !.todo = (exec.seen \ catalog) \union stale]
    /\ UNCHANGED <<environment, library, scan, request, asked, attempt>>

\* The pipeline commits a group, or a data error rejects it and the scan goes on.
sync_scan_group_media_entries(f) ==
    /\ At("process") /\ f \in exec.todo
    /\ \/ /\ catalog' = catalog \union {f}
          /\ exec' = [exec EXCEPT !.todo = @ \ {f}, !.changed = TRUE]
       \/ /\ exec' = [exec EXCEPT !.todo = @ \ {f}, !.failed = @ \union {f}]
          /\ UNCHANGED catalog
    /\ UNCHANGED <<environment, record, scan, request, asked, attempt>>

\* Mutation: a pipeline that stopped on the flag passes for a complete one.
PipelineStopped == exec.todo = {} \/ exec.cancel
\* try_join! of the pipeline, then the check of the flag.
PipelineDone == exec.todo = {} /\ ~exec.cancel

\* Mutation: only the first judgement counts.
StorageWasAvailable == TRUE
\* The storage is judged again and must be what the walk ran on.
StorageUnchanged == /\ Available(host, Assessed, record)
                    /\ same_root_storage_as(exec.plan, Assessed, record)

\* verify_missing_media_paths up to the look-ups.
verify_missing_media_paths ==
    /\ At("process") /\ PipelineDone
    /\ \/ /\ StorageUnchanged
          /\ exec' = [exec EXCEPT
                        !.pc = "lookup", !.plan = Assessed,
                        !.todo = {f \in catalog \ (exec.seen \union exec.kept) :
                                     /\ InScope(exec.scope, f)
                                     /\ ~is_dead_path(Assessed, f)}]
          /\ UNCHANGED <<scan, asked, attempt>>
       \/ ~StorageUnchanged /\ TryAgainOrGiveUp
    /\ UNCHANGED <<environment, library, request>>

catalog_path_presence(f) ==
    /\ At("lookup") /\ f \in exec.todo
    /\ exec' = [exec EXCEPT
                  !.todo = @ \ {f},
                  !.kept = IF Presence(storage, f) = "present"
                           THEN @ \union {f} ELSE @,
                  !.unanswered = @ \/ Presence(storage, f) = "failed"]
    /\ UNCHANGED <<environment, library, scan, request, asked, attempt>>

\* Failed look-ups are removals only while the root still answers, or when its
\* failure is no outage.
FinishLookups ==
    /\ At("lookup") /\ exec.todo = {}
    /\ LET outage == /\ exec.unanswered
                     /\ ~RootAnswers(host, storage)
                     /\ AbortsOnRootFailure(exec.plan)
       IN  IF outage
           THEN TryAgainOrGiveUp
           ELSE /\ exec' = [exec EXCEPT !.pc = "commit"]
                /\ UNCHANGED <<scan, asked, attempt>>
    /\ UNCHANGED <<environment, library, request>>

\* Mutation: whatever was not seen is missing, in scope or not.
MissingAnywhere == catalog \ (exec.seen \union exec.kept)
MissingPaths == {f \in catalog \ (exec.seen \union exec.kept) :
                    InScope(exec.scope, f)}

\* One transaction removes the missing paths and, after a whole scan, replaces
\* the storage record.
sync_library_media_changes ==
    /\ At("commit")
    /\ catalog' = catalog \ MissingPaths
    /\ record' = IF exec.scope = Whole THEN storage_record(exec.plan, record) ELSE record
    /\ exec' = [exec EXCEPT !.pc = "finish", !.changed = @ \/ MissingPaths # {}]
    /\ UNCHANGED <<environment, scan, request, asked, attempt>>

\* A scan that saved nothing of what it tried has failed.
finalize_scan_job ==
    /\ At("finish")
    /\ IF exec.changed \/ exec.failed = {}
       THEN EndAttempt("none")
       ELSE TryAgainOrGiveUp
    /\ UNCHANGED <<environment, library, request>>

-----------------------------------------------------------------------------
Next ==
    \/ \E f \in Files, content \in Contents : ChangeFile(f, content)
    \/ \E root \in {"up", "gone", "stuck", "missing"} : ChangeRoot(root)
    \/ \E below \in {"up", "gone", "stuck"} : ChangeBelow(below)
    \/ \E scope \in Scopes : check_library_storage(scope)
    \/ enqueue_scan_job_tx
    \/ merge_pending_scan_scope
    \/ mark_scan_job_running
    \/ FailAttempt
    \/ RaiseCancellation
    \/ finalize_cancelled_scan
    \/ assess_library_storage
    \/ discover_media_files
    \/ \E f \in Files : VisitFile(f)
    \/ build_incremental_scan_plan
    \/ \E f \in Files : sync_scan_group_media_entries(f)
    \/ verify_missing_media_paths
    \/ \E f \in Files : catalog_path_presence(f)
    \/ FinishLookups
    \/ sync_library_media_changes
    \/ finalize_scan_job

Spec == Init /\ [][Next]_vars

-----------------------------------------------------------------------------
(* Properties.                                                             *)

TypeOK ==
    /\ host \in Hosts
    /\ storage \in Situations
    /\ record \in Records
    /\ catalog \in SUBSET Files
    /\ scan \in [status : {"none", "pending", "running"}, scope : AnyScope]
    /\ request \in [pc : {"idle", "enqueue", "merge"}, scope : AnyScope]
    /\ exec \in [pc : {"idle", "assess", "discover", "walk", "process",
                       "lookup", "commit", "finish"},
                 scope : AnyScope, plan : Plans,
                 todo : SUBSET Files, seen : SUBSET Files, kept : SUBSET Files,
                 failed : SUBSET Files, changed : BOOLEAN,
                 unanswered : BOOLEAN, cancel : BOOLEAN]
    /\ asked \in SUBSET AnyScope
    /\ attempt \in [gone : SUBSET Files, quiet : BOOLEAN, outages : Nat]

\* A scan removes a file from the catalog only if, at some moment of the
\* attempt, the file was not there or its storage was of the kind a scan may
\* take for deleted.  An outage of a network root, wherever it falls between
\* the first judgement and the last look-up, removes nothing.
OutagesRemoveNothing ==
    [][record.root # "parent" => catalog \ catalog' \subseteq attempt.gone]_vars

(* Why it holds, with one outage of the root's mount at most: what was read *)
(* before the first outage is complete, and after a judgement that follows  *)
(* it the mount stays.                                                      *)
RootReadable == storage.root \in {"up", "missing"}
\* The walk ran on the root's own mount, judged healthy.
JudgedHealthy == /\ record.root # "parent"
                 /\ exec.plan.verdict = "healthy"
                 /\ exec.plan.holder = "mount"
Unseen == {f \in Files : InScope(exec.scope, f)} \ (exec.seen \union exec.kept)

MountsInv == storage.root = "gone" /\ ~host.container => storage.below = "gone"
BoundInv == attempt.outages <= MaxOutages
HistoryInv == exec.pc \notin {"idle", "finish"} =>
                  MayBeTakenForDeleted(storage) \subseteq attempt.gone
PlanInv == exec.pc \in {"discover", "walk", "process"} /\ JudgedHealthy =>
               /\ attempt.outages = 0 => RootReadable
               /\ exec.plan.missing => attempt.gone = Files
               /\ excluded_directories(exec.plan) \subseteq attempt.gone
WalkInv == /\ exec.pc = "walk" /\ JudgedHealthy /\ attempt.outages = 0 =>
                  Unseen \ exec.todo \subseteq attempt.gone
           /\ exec.pc = "process" /\ JudgedHealthy /\ attempt.outages = 0 =>
                  Unseen \subseteq attempt.gone
LookupInv == exec.pc = "lookup" /\ record.root # "parent" =>
                 \/ MissingPaths \subseteq attempt.gone
                 \/ /\ attempt.outages = MaxOutages /\ RootReadable
                    /\ MissingPaths \ exec.todo \subseteq attempt.gone
CommitInv == exec.pc = "commit" /\ record.root # "parent" =>
                 MissingPaths \subseteq attempt.gone
OutageInv == /\ MountsInv /\ BoundInv /\ HistoryInv /\ PlanInv
             /\ WalkInv /\ LookupInv /\ CommitInv

\* A scan of some directories changes nothing outside them, neither the
\* catalog nor what is recorded of the storage.
ScopedScansStayInScope ==
    [][exec.scope # Whole =>
          /\ record' = record
          /\ \A f \in Files \ exec.scope : f \in catalog <=> f \in catalog']_vars
\* Why: it walks and processes nothing outside its scope.
ScopeInv == exec.scope # Whole => /\ exec.seen \subseteq exec.scope
                                  /\ exec.todo \subseteq exec.scope

\* Whoever was answered with a scan that had not started gets what it asked
\* for: every attempt at that scan covers the scope of the request, however
\* the request interleaved with the start of the attempt or its retries.
RequestsAreCovered ==
    ~At("idle") => \A s \in asked : exec.scope \in {Whole, MergedScope(exec.scope, s)}
\* Why: the row covers them from the first answer on, and what an attempt runs
\* is the row as it stays until the attempt is over.
CoverInv ==
    /\ \A s \in asked : scan.scope \in {Whole, MergedScope(scan.scope, s)}
    /\ ~At("idle") => scan.status = "running" /\ exec.scope = scan.scope

\* When the storage does not change during an attempt, reconciliation leaves
\* in its scope what can be read: the media, the carriers that did not parse
\* if they had an entry, and nothing else.
QuietScansAreExact ==
    [][At("commit") /\ exec'.pc = "finish" /\ attempt.quiet =>
          \A f \in Files : InScope(exec.scope, f) =>
             IF Presence(storage, f) # "present" THEN f \notin catalog'
             ELSE IF storage.content[f] = "media" THEN f \in catalog' \union exec.failed
             ELSE f \in catalog' <=> f \in catalog]_vars

(* Why: nothing that can be read lies where the plan does not go, the walk *)
(* finds all of the scope that can be read and nothing else, and what it   *)
(* found is in the catalog, still to do or has failed.                     *)
Readable == {f \in Files : Presence(storage, f) = "present"}
ReadableOf(content) == {f \in Readable : InScope(exec.scope, f) /\ storage.content[f] = content}

QuietPlanInv == attempt.quiet /\ exec.pc \in {"discover", "walk"} =>
                    /\ skips_traversal(exec.plan) => Readable = {}
                    /\ excluded_directories(exec.plan) \intersect Readable = {}
QuietWalkInv ==
    /\ exec.pc \in {"idle", "assess", "discover"} => exec.seen = {} /\ exec.kept = {}
    /\ attempt.quiet /\ exec.pc \in {"walk", "process", "lookup", "commit"} =>
           LET late == IF exec.pc = "walk" THEN exec.todo ELSE {}
           IN  /\ exec.seen \union exec.kept \subseteq Readable
               /\ ReadableOf("media") \ late \subseteq exec.seen
               /\ ReadableOf("bad") \ late \subseteq exec.kept
QuietCatalogInv ==
    /\ exec.pc = "process" => exec.seen \subseteq catalog \union exec.todo \union exec.failed
    /\ exec.pc \in {"lookup", "commit"} => exec.seen \subseteq catalog \union exec.failed
QuietInv == MountsInv /\ QuietPlanInv /\ QuietWalkInv /\ QuietCatalogInv
=============================================================================
