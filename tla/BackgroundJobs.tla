--------------------------- MODULE BackgroundJobs ---------------------------
(***************************************************************************)
(* The leased background-job queue of mova-server.                         *)
(*                                                                         *)
(* Every durable piece of work (library scan, cache cleanup, TMDB          *)
(* revalidation, TMDB artwork cleanup, intro detection) is a row of the    *)
(* PostgreSQL table background_jobs.  Worker tasks claim a row in one      *)
(* serialised transaction, execute it under a lease that a heartbeat       *)
(* renews, and end it in a transaction fenced by (owner, attempt, lease).  *)
(* A scan job has a companion row in scan_jobs that users see.             *)
(*                                                                         *)
(* One action is one database transaction (or one in-memory step of a      *)
(* worker).  The two transactions whose window matters are split in two:   *)
(* enqueue_scan_job / delete_library lock rows, then commit; the           *)
(* revalidation scheduler reads a snapshot, then inserts.                  *)
(*                                                                         *)
(* Time is abstracted to two flags per row: `live' (the lease has not      *)
(* expired) and `due' (run_after has passed).  The companion scan row of   *)
(* job j is scans[j]; "none" means there is no such row.                   *)
(***************************************************************************)
EXTENDS Naturals

CONSTANTS
    JobIds,       \* ids of background_jobs rows (bounds the rows alive at once)
    Workers,      \* worker tasks
    Libraries,    \* libraries that exist at the start
    MaxAttempts,  \* max_attempts by job type
    Requests,     \* which requests the environment makes
    NoJob, NoWorker, NoLibrary

JobType == {"scan", "cache_cleanup", "artwork_cleanup", "revalidate", "intro"}
RequestKinds == {"scan", "delete", "artwork_cleanup", "revalidate", "intro"}

ASSUME DistinctAssumption ==
    /\ NoJob \notin JobIds
    /\ NoWorker \notin Workers
    /\ NoLibrary \notin Libraries
ASSUME AttemptsAssumption == MaxAttempts \in [JobType -> Nat \ {0}]
ASSUME RequestsAssumption == Requests \subseteq RequestKinds

VARIABLES
    jobs,   \* jobs[j]: row j of background_jobs
    scans,  \* scans[j]: status of the scan_jobs row that job j refers to
    libs,   \* rows of libraries
    tx,     \* tx[l]: the open transaction holding library l's advisory lock
    sched,  \* what the revalidation scheduler read and has not inserted yet
    exec    \* exec[w]: the fence and progress a worker task keeps in memory

vars == <<jobs, scans, libs, tx, sched, exec>>

Executing == {"running", "cancel_requested"}
Terminal == {"succeeded", "failed", "cancelled"}
Active == {"pending"} \union Executing
JobStatus == {"absent"} \union Active \union Terminal
ActiveScan == {"pending", "running"}
ScanStatus == {"none", "success", "failed", "cancelled"} \union ActiveScan

Row == [type : JobType \union {"none"},
        lib : Libraries \union {NoLibrary},
        status : JobStatus,
        attempt : Nat,
        owner : Workers \union {NoWorker},
        live : BOOLEAN,
        due : BOOLEAN,
        retention : BOOLEAN]

Absent == [type |-> "none", lib |-> NoLibrary, status |-> "absent",
           attempt |-> 0, owner |-> NoWorker, live |-> FALSE, due |-> FALSE,
           retention |-> FALSE]

\* A row as every enqueue inserts it: pending, unlocked, due at once.
NewJob(type, l, retention) ==
    [type |-> type, lib |-> l, status |-> "pending", attempt |-> 0,
     owner |-> NoWorker, live |-> FALSE, due |-> TRUE, retention |-> retention]

Idle == [job |-> NoJob, attempt |-> 0, pc |-> "idle", cancel |-> FALSE]
NoTx == [op |-> "none", rows |-> {}]
NoPick == [lib |-> NoLibrary, retention |-> FALSE]

Max(j) == MaxAttempts[jobs[j].type]

Init ==
    /\ jobs = [j \in JobIds |-> Absent]
    /\ scans = [j \in JobIds |-> "none"]
    /\ libs = Libraries
    /\ tx = [l \in Libraries |-> NoTx]
    /\ sched = NoPick
    /\ exec = [w \in Workers |-> Idle]

\* Ids come from a sequence: an id is never given out while anyone holds it.
Fresh(j) == /\ jobs[j].status = "absent"
            /\ \A w \in Workers : exec[w].job # j

\* Rows updated by a transaction that has not committed: claim skips them,
\* every other writer waits.
RowLocked(j) == \E l \in Libraries : j \in tx[l].rows

-----------------------------------------------------------------------------
(* Claiming: claim_background_job, one transaction under a global lock.    *)

\* Fault: the last attempt is not recognised as the last.
AbandonedOffByOne(j) ==
    /\ ~ RowLocked(j)
    /\ ~ jobs[j].live
    /\ \/ jobs[j].status = "cancel_requested"
       \/ jobs[j].status = "running" /\ jobs[j].attempt > Max(j)

\* Rows whose lease ran out and that no later claim may execute again.
Abandoned(j) ==
    /\ ~ RowLocked(j)
    /\ ~ jobs[j].live
    /\ \/ jobs[j].status = "cancel_requested"
       \/ jobs[j].status = "running" /\ jobs[j].attempt >= Max(j)

\* An exhausted artwork cleanup goes back to the queue for a later day.
Rescheduled(j) == [jobs[j] EXCEPT !.status = "pending",
                                  !.attempt = Max(j) - 1,
                                  !.owner = NoWorker, !.due = FALSE]

abandoned_terminal_transition(status) ==
    IF status = "cancel_requested" THEN "cancelled" ELSE "failed"

Reaped(j) ==
    IF ~ Abandoned(j) THEN jobs[j]
    ELSE IF jobs[j].type = "artwork_cleanup" /\ jobs[j].status = "running"
    THEN Rescheduled(j)
    ELSE [jobs[j] EXCEPT !.status = abandoned_terminal_transition(@),
                         !.owner = NoWorker]

\* finalize_scan_job_tx touches a scan row only while it is active.
FinalizedScan(j, status) == IF scans[j] \in ActiveScan THEN status ELSE scans[j]

ReapedScan(j) ==
    IF Abandoned(j)
    THEN FinalizedScan(j, abandoned_terminal_transition(jobs[j].status))
    ELSE scans[j]

\* Terminal maintenance rows older than 30 days are deleted; age is a choice.
Prunable == {j \in JobIds :
                /\ jobs[j].type \in {"revalidate", "artwork_cleanup", "intro"}
                /\ jobs[j].status \in Terminal
                /\ \A w \in Workers : exec[w].job # j}

\* The table the candidate query of the claim transaction sees.
Swept(old) == [j \in JobIds |-> IF j \in old THEN Absent ELSE Reaped(j)]

Blocks(blocker, job) ==
    /\ blocker.status \in Active
    /\ \/ /\ job.type \in {"cache_cleanup", "artwork_cleanup"}
          /\ blocker.type = "scan" /\ blocker.lib = job.lib
          /\ blocker.status \in Executing
       \/ /\ job.type = "revalidate"
          /\ blocker.type = "scan" /\ blocker.lib = job.lib
          /\ blocker.status \in Executing \/ ~ job.retention
       \/ /\ job.type = "intro"
          /\ \/ blocker.type = "intro" /\ blocker.status \in Executing
             \/ blocker.type = "scan" /\ blocker.lib = job.lib
       \/ /\ job.type = "scan"
          /\ blocker.lib = job.lib
          /\ \/ blocker.type = "revalidate"
                /\ (blocker.status \in Executing \/ blocker.retention)
             \/ /\ blocker.type \in {"artwork_cleanup", "intro"}
                /\ blocker.status \in Executing

Claimable(job) ==
    /\ job.status = "pending" \/ (job.status = "running" /\ ~ job.live)
    /\ job.attempt < MaxAttempts[job.type]
    /\ job.due

Candidate(rows, j) ==
    /\ Claimable(rows[j])
    /\ ~ RowLocked(j)
    /\ \A i \in JobIds \ {j} : ~ Blocks(rows[i], rows[j])

Priority(job) ==
    CASE job.type = "scan" \/ (job.type = "revalidate" /\ job.retention) -> 0
      [] job.type \in {"cache_cleanup", "artwork_cleanup"} -> 1
      [] job.type = "intro" -> 2
      [] OTHER -> 3

\* Among equal priorities the code goes by run_after and created_at; the
\* model leaves that order open.
Picked(rows, j) ==
    /\ Candidate(rows, j)
    /\ \A i \in JobIds :
          Candidate(rows, i) => Priority(rows[j]) <= Priority(rows[i])

Claimed(row, w) == [row EXCEPT !.status = "running", !.attempt = @ + 1,
                               !.owner = w, !.live = TRUE]

claim_background_job(w) ==
    /\ exec[w].pc = "idle"
    /\ \E old \in SUBSET Prunable :
          LET rows == Swept(old) IN
          \/ \E j \in JobIds :
                /\ Picked(rows, j)
                /\ jobs' = [rows EXCEPT ![j] = Claimed(@, w)]
                /\ exec' = [exec EXCEPT ![w] =
                              [job |-> j, attempt |-> rows[j].attempt + 1,
                               pc |-> "claimed", cancel |-> FALSE]]
          \/ /\ \A j \in JobIds : ~ Candidate(rows, j)
             /\ jobs' = rows
             /\ UNCHANGED exec
    /\ scans' = [j \in JobIds |-> ReapedScan(j)]
    /\ UNCHANGED <<libs, tx, sched>>

-----------------------------------------------------------------------------
(* Executing under a fence.                                                *)

\* Fault: the fence is satisfied by whoever's lease is live.
FenceOfAnyone(w) ==
    /\ exec[w].pc # "idle"
    /\ jobs[exec[w].job].status \in Executing
    /\ jobs[exec[w].job].live
    /\ ~ RowLocked(exec[w].job)

\* lock_background_job_fence: still the owner, of this attempt, lease live.
Fence(w) ==
    LET job == jobs[exec[w].job] IN
    /\ exec[w].pc # "idle"
    /\ job.status \in Executing
    /\ job.owner = w
    /\ job.attempt = exec[w].attempt
    /\ job.live
    /\ ~ RowLocked(exec[w].job)

\* Mode Active of lock_library_scan_background_job_fence.
ActiveScanFence(w) ==
    /\ Fence(w)
    /\ jobs[exec[w].job].status = "running"
    /\ scans[exec[w].job] \in ActiveScan

\* Mode Finalize, with the case of a scan row removed by a library deletion.
FinalizeScanFence(w) ==
    /\ Fence(w)
    /\ \/ scans[exec[w].job] \in ActiveScan
       \/ /\ scans[exec[w].job] = "none"
          /\ jobs[exec[w].job].status = "cancel_requested"

Released(j, status) == [jobs[j] EXCEPT !.status = status, !.owner = NoWorker,
                                       !.live = FALSE]

mark_scan_job_running(w) ==
    /\ exec[w].pc = "claimed"
    /\ jobs[exec[w].job].type = "scan"
    /\ ActiveScanFence(w)
    /\ scans' = [scans EXCEPT ![exec[w].job] = "running"]
    /\ exec' = [exec EXCEPT ![w].pc = "scanning"]
    /\ UNCHANGED <<jobs, libs, tx, sched>>

\* complete_library_scan_background_job_tx names the same end in job terms.
BackgroundStatus(scan_status) ==
    IF scan_status = "success" THEN "succeeded" ELSE scan_status

\* finalize_scan_job: scan row and job row end in one transaction.
finalize_scan_job(w, requested) ==
    LET j == exec[w].job
        effective == IF jobs[j].status = "cancel_requested"
                     THEN "cancelled" ELSE requested
    IN  /\ FinalizeScanFence(w)
        /\ scans' = [scans EXCEPT ![j] = FinalizedScan(j, effective)]
        /\ jobs' = [jobs EXCEPT ![j] = Released(j, BackgroundStatus(effective))]
        /\ exec' = [exec EXCEPT ![w] = Idle]
        /\ UNCHANGED <<libs, tx, sched>>

CompleteScan(w) ==
    /\ exec[w].pc = "scanning"
    /\ finalize_scan_job(w, "success")

\* The executor saw its cancellation flag, or found the library gone.
CancelScan(w) ==
    /\ exec[w].pc # "idle"
    /\ jobs[exec[w].job].type = "scan"
    /\ exec[w].cancel \/ (exec[w].pc = "claimed" /\ jobs[exec[w].job].lib \notin libs)
    /\ finalize_scan_job(w, "cancelled")

complete_background_job(w) ==
    LET j == exec[w].job IN
    /\ Fence(w)
    /\ jobs[j].type # "scan"
    /\ jobs' = [jobs EXCEPT ![j] =
          Released(j, IF jobs[j].status = "cancel_requested"
                      THEN "cancelled" ELSE "succeeded")]
    /\ exec' = [exec EXCEPT ![w] = Idle]
    /\ UNCHANGED <<scans, libs, tx, sched>>

\* Fault: a failed execution is retried although it was cancelled.
RetryCancelled(j, attempt) ==
    IF attempt >= Max(j) /\ jobs[j].type # "artwork_cleanup" THEN "failed"
    ELSE "pending"

RetryStatus(j, attempt) ==
    IF jobs[j].status = "cancel_requested" THEN "cancelled"
    ELSE IF attempt >= Max(j) /\ jobs[j].type # "artwork_cleanup" THEN "failed"
    ELSE "pending"

\* The execution returned an error.
retry_or_fail_background_job(w) ==
    LET j == exec[w].job
        status == RetryStatus(j, exec[w].attempt)
        reset == status = "pending" /\ jobs[j].attempt >= Max(j)
    IN  /\ Fence(w)
        /\ jobs' = [jobs EXCEPT ![j] =
              [Released(j, status) EXCEPT
                  !.attempt = IF reset THEN Max(j) - 1 ELSE @,
                  !.due = IF status = "pending" THEN FALSE ELSE @]]
        /\ scans' = [scans EXCEPT ![j] = FinalizedScan(j, status)]
        /\ exec' = [exec EXCEPT ![w] = Idle]
        /\ UNCHANGED <<libs, tx, sched>>

\* The execution ends and writes nothing: its last transaction failed or was
\* refused by the fence, or the task died and a new worker took its place.
Abandon(w) ==
    /\ exec[w].pc # "idle"
    /\ exec' = [exec EXCEPT ![w] = Idle]
    /\ UNCHANGED <<jobs, scans, libs, tx, sched>>

\* run_lease_heartbeat raises the cancellation flag: the renewal was refused,
\* or renewals failed for the whole safety window.  (A request of the same
\* process raises the same flag: see ScanRegistry.)  A granted renewal leaves
\* `live' as it is.  Only a scan decides by the flag how its job ends; an
\* intro detection returns an error and the other jobs ignore it.
run_lease_heartbeat(w) ==
    /\ exec[w].pc # "idle"
    /\ jobs[exec[w].job].type = "scan"
    /\ ~ exec[w].cancel
    /\ exec' = [exec EXCEPT ![w].cancel = TRUE]
    /\ UNCHANGED <<jobs, scans, libs, tx, sched>>

-----------------------------------------------------------------------------
(* Enqueueing and deleting.                                                *)

\* Fault: jobs that nobody has claimed yet are overlooked.
RunningLibraryRows(l, types) ==
    {j \in JobIds : /\ jobs[j].lib = l
                    /\ jobs[j].type \in types
                    /\ jobs[j].status = "running"}

LibraryRows(l, types) ==
    {j \in JobIds : /\ jobs[j].lib = l
                    /\ jobs[j].type \in types
                    /\ jobs[j].status \in {"pending", "running"}}

\* What the two library transactions write to the rows they locked.
CancelLocked(l, rows) ==
    [j \in JobIds |->
        IF j \notin tx[l].rows THEN rows[j]
        ELSE [rows[j] EXCEPT !.status = IF @ = "pending" THEN "cancelled"
                                        ELSE "cancel_requested"]]

HasActiveScan(l) ==
    \E j \in JobIds : jobs[j].lib = l /\ scans[j] \in ActiveScan

\* enqueue_scan_job_tx up to its update of intro jobs.  With an active scan
\* the call changes no job and returns that scan.
EnqueueScanBegin(l) ==
    /\ "scan" \in Requests
    /\ l \in libs
    /\ tx[l] = NoTx
    /\ ~ HasActiveScan(l)
    /\ tx' = [tx EXCEPT ![l] = [op |-> "scan", rows |-> LibraryRows(l, {"intro"})]]
    /\ UNCHANGED <<jobs, scans, libs, sched, exec>>

EnqueueScanCommit(l, j) ==
    /\ tx[l].op = "scan"
    /\ Fresh(j)
    /\ jobs' = [CancelLocked(l, jobs) EXCEPT ![j] = NewJob("scan", l, FALSE)]
    /\ scans' = [scans EXCEPT ![j] = "pending"]
    /\ tx' = [tx EXCEPT ![l] = NoTx]
    /\ UNCHANGED <<libs, sched, exec>>

DeleteLibraryBegin(l) ==
    /\ "delete" \in Requests
    /\ l \in libs
    /\ tx[l] = NoTx
    /\ tx' = [tx EXCEPT ![l] =
                [op |-> "delete", rows |-> LibraryRows(l, {"scan", "intro"})]]
    /\ UNCHANGED <<jobs, scans, libs, sched, exec>>

\* Deleting the library cascades to its scan rows; the cache cleanup job is
\* inserted by the same transaction.
DeleteLibraryCommit(l, j) ==
    /\ tx[l].op = "delete"
    /\ Fresh(j)
    /\ jobs' = [CancelLocked(l, jobs) EXCEPT ![j] = NewJob("cache_cleanup", l, FALSE)]
    /\ scans' = [i \in JobIds |-> IF jobs[i].lib = l THEN "none" ELSE scans[i]]
    /\ libs' = libs \ {l}
    /\ tx' = [tx EXCEPT ![l] = NoTx]
    /\ UNCHANGED <<sched, exec>>

\* Either transaction may fail instead; PostgreSQL then undoes its updates.
LibraryRollback(l) ==
    /\ tx[l] # NoTx
    /\ tx' = [tx EXCEPT ![l] = NoTx]
    /\ UNCHANGED <<jobs, scans, libs, sched, exec>>

enqueue_season_intro_detection(l, j) ==
    /\ "intro" \in Requests
    /\ l \in libs
    /\ Fresh(j)
    /\ jobs' = [jobs EXCEPT ![j] = NewJob("intro", l, FALSE)]
    /\ UNCHANGED <<scans, libs, tx, sched, exec>>

enqueue_tmdb_artwork_cleanup(l, j) ==
    /\ "artwork_cleanup" \in Requests
    /\ l \in libs
    /\ Fresh(j)
    /\ jobs' = [jobs EXCEPT ![j] = NewJob("artwork_cleanup", l, FALSE)]
    /\ UNCHANGED <<scans, libs, tx, sched, exec>>

NoActiveRevalidation ==
    \A i \in JobIds : jobs[i].type = "revalidate" =>
                         jobs[i].status \notin {"pending", "running"}

\* The snapshot of enqueue_due_tmdb_metadata_revalidation.  The statement
\* takes neither the claim lock nor a library lock.
RevalidationSnapshot(l, retention) ==
    /\ "revalidate" \in Requests
    /\ sched = NoPick
    /\ l \in libs
    /\ NoActiveRevalidation
    /\ \A i \in JobIds : jobs[i].type = "scan" /\ jobs[i].lib = l =>
          /\ jobs[i].status \notin Executing
          /\ jobs[i].status = "pending" => retention
    /\ sched' = [lib |-> l, retention |-> retention]
    /\ UNCHANGED <<jobs, scans, libs, tx, exec>>

\* Its insert; `on conflict do nothing' against the unique index.
RevalidationInsert(j) ==
    /\ sched # NoPick
    /\ Fresh(j)
    /\ jobs' = IF NoActiveRevalidation
               THEN [jobs EXCEPT ![j] = NewJob("revalidate", sched.lib, sched.retention)]
               ELSE jobs
    /\ sched' = NoPick
    /\ UNCHANGED <<scans, libs, tx, exec>>

-----------------------------------------------------------------------------
(* The clock.                                                              *)

LeaseExpires(j) ==
    /\ jobs[j].live
    /\ jobs' = [jobs EXCEPT ![j].live = FALSE]
    /\ UNCHANGED <<scans, libs, tx, sched, exec>>

BecomesDue(j) ==
    /\ jobs[j].status = "pending" /\ ~ jobs[j].due
    /\ jobs' = [jobs EXCEPT ![j].due = TRUE]
    /\ UNCHANGED <<scans, libs, tx, sched, exec>>

EndExecution(w) == \/ CompleteScan(w)
                   \/ CancelScan(w)
                   \/ complete_background_job(w)
                   \/ retry_or_fail_background_job(w)
                   \/ Abandon(w)

WorkerStep(w) == \/ claim_background_job(w)
                 \/ mark_scan_job_running(w)
                 \/ run_lease_heartbeat(w)
                 \/ EndExecution(w)

EndLibraryTx(l) == \/ \E j \in JobIds : \/ EnqueueScanCommit(l, j)
                                        \/ DeleteLibraryCommit(l, j)
                   \/ LibraryRollback(l)

Request == \/ \E l \in Libraries :
                 \/ EnqueueScanBegin(l)
                 \/ DeleteLibraryBegin(l)
                 \/ \E j \in JobIds : \/ enqueue_season_intro_detection(l, j)
                                      \/ enqueue_tmdb_artwork_cleanup(l, j)
                 \/ \E retention \in BOOLEAN : RevalidationSnapshot(l, retention)
           \/ \E j \in JobIds : RevalidationInsert(j)

Clock == \E j \in JobIds : LeaseExpires(j) \/ BecomesDue(j)

Next == \/ \E w \in Workers : WorkerStep(w)
        \/ \E l \in Libraries : EndLibraryTx(l)
        \/ Request
        \/ Clock

Spec == Init /\ [][Next]_vars

\* Leases are only certain to run out once nobody is left to renew them.
Orphaned(j) == \A w \in Workers : exec[w].job = j => exec[w].attempt # jobs[j].attempt

(***************************************************************************)
(* Fairness.  An execution ends one way or another, an open transaction    *)
(* ends, and the clock moves on.  Idle workers poll every second, and the  *)
(* claim takes the oldest run_after of a priority first, which a retry     *)
(* moves into the future: a job that is a candidate again and again is     *)
(* claimed (strong fairness per job).  Library transactions do not go on   *)
(* failing for ever.  Requests are never forced to come, and neither is    *)
(* the expiry of a lease that a heartbeat may still renew.                 *)
(***************************************************************************)
ClaimOf(j) == \E w \in Workers : claim_background_job(w) /\ exec'[w].job = j

Fairness ==
    /\ WF_vars(\E w \in Workers : claim_background_job(w))
    /\ \A w \in Workers : WF_vars(EndExecution(w))
    /\ \A l \in Libraries : /\ WF_vars(EndLibraryTx(l))
                            /\ <>[][~ LibraryRollback(l)]_vars
    /\ \A j \in JobIds : /\ SF_vars(ClaimOf(j))
                         /\ WF_vars(Orphaned(j) /\ LeaseExpires(j))
                         /\ WF_vars(BecomesDue(j))

FairSpec == Spec /\ Fairness

-----------------------------------------------------------------------------
(* Properties.                                                             *)

\* Every variable has its type.
TypeOK ==
    /\ jobs \in [JobIds -> Row]
    /\ scans \in [JobIds -> ScanStatus]
    /\ libs \subseteq Libraries
    /\ tx \in [Libraries -> [op : {"none", "scan", "delete"}, rows : SUBSET JobIds]]
    /\ sched \in [lib : Libraries \union {NoLibrary}, retention : BOOLEAN]
    /\ exec \in [Workers -> [job : JobIds \union {NoJob}, attempt : Nat,
                            pc : {"idle", "claimed", "scanning"}, cancel : BOOLEAN]]

\* Jobs that must not execute at the same time: a scan rewrites the catalog and
\* the cache of its library, and intro detection is limited to one at a time.
Conflict(a, b) == \/ a.type = "scan" /\ b.type \in JobType /\ a.lib = b.lib
                  \/ b.type = "scan" /\ a.type \in JobType /\ a.lib = b.lib
                  \/ a.type = "intro" /\ b.type = "intro"

\* No two conflicting jobs are ever claimed at the same time, whatever order
\* claims, expiries, retries, enqueues and deletions come in
\* (the exclusions of the candidate query in claim_background_job, and for
\* cache cleanup the cancellation done by delete_library).
MutualExclusion ==
    \A i, j \in JobIds :
        i # j /\ jobs[i].status \in Executing /\ jobs[j].status \in Executing
            => ~ Conflict(jobs[i], jobs[j])

\* A library has at most one unfinished scan (enqueue_scan_job under the
\* library's advisory lock), so users never see two scans of it in progress.
OneActiveScanPerLibrary ==
    \A i, j \in JobIds :
        /\ i # j /\ jobs[i].lib = jobs[j].lib
        /\ jobs[i].type = "scan" /\ jobs[j].type = "scan"
        => ~ (jobs[i].status \in Active /\ jobs[j].status \in Active)

\* Scan status s may stand beside a scan job in the given status; a scan row
\* is missing only when its library was deleted.
Agree(status, s) ==
    \/ s = "none" /\ status \notin {"pending", "running"}
    \/ s = "pending" /\ status \in {"pending", "running"}
    \/ s = "running" /\ status = "running"
    \/ s = "success" /\ status = "succeeded"
    \/ s \in {"failed", "cancelled"} /\ status = s

\* The scan row users see and the job row workers see never disagree: no scan
\* stays active behind a finished job, no job runs for a finished scan, and
\* only deleting the library separates the two
\* (finalize_scan_job, retry_or_fail_background_job, claim_background_job).
ScanAgreesWithJob ==
    \A j \in JobIds :
        /\ jobs[j].type = "scan" => Agree(jobs[j].status, scans[j])
        /\ scans[j] # "none" => jobs[j].type = "scan" /\ jobs[j].lib \in libs

\* A queued job is never stuck out of reach of the candidate query: it has an
\* attempt left and no owner, after every retry, reschedule and recovery.
QueuedJobsHaveAttemptsLeft ==
    \A j \in JobIds : jobs[j].status = "pending" =>
        jobs[j].attempt < Max(j) /\ jobs[j].owner = NoWorker

\* What each row looks like by status (the check constraints of
\* background_jobs in migrations/0001_init.sql, kept by every statement).
RowShape ==
    \A j \in JobIds :
        /\ jobs[j].status = "absent" <=> jobs[j].type = "none"
        /\ jobs[j].status # "absent" => /\ jobs[j].lib \in Libraries
                                        /\ jobs[j].attempt <= Max(j)
        /\ jobs[j].live => jobs[j].status \in Executing

\* Scan jobs of a deleted library are finished or about to be, only deletion
\* requests the cancellation of a scan, and a cache cleanup implies deletion.
DeletedLibraryJobs ==
    \A j \in JobIds :
        /\ jobs[j].type = "scan" /\ jobs[j].lib \notin libs =>
              jobs[j].status \notin {"pending", "running"}
        /\ jobs[j].type = "scan" /\ jobs[j].status = "cancel_requested" =>
              jobs[j].lib \notin libs
        /\ jobs[j].type = "cache_cleanup" => jobs[j].lib \notin libs

\* What an open library transaction can rely on until it commits.
OpenTransactions ==
    \A l \in Libraries :
        /\ tx[l].op = "none" => tx[l].rows = {}
        /\ tx[l].op # "none" => l \in libs
        /\ \A j \in tx[l].rows : /\ jobs[j].lib = l
                                 /\ jobs[j].type \in {"scan", "intro"}
                                 /\ jobs[j].status \in {"pending", "running"}
        /\ tx[l].op = "scan" =>
              \A j \in JobIds : jobs[j].type = "scan" /\ jobs[j].lib = l =>
                                   jobs[j].status \notin Active
        /\ tx[l].op = "delete" =>
              \A j \in JobIds : /\ jobs[j].type = "scan"
                                /\ jobs[j].lib = l
                                /\ jobs[j].status \in {"pending", "running"}
                                => j \in tx[l].rows

\* The inductive invariant: mutual exclusion needs to know which jobs a
\* library can have, which needs what open transactions rely on.
QueueInv ==
    /\ TypeOK
    /\ sched = NoPick \/ sched.lib \in Libraries
    /\ \A w \in Workers : exec[w].pc # "idle" => exec[w].job \in JobIds
    /\ RowShape
    /\ QueuedJobsHaveAttemptsLeft
    /\ ScanAgreesWithJob
    /\ DeletedLibraryJobs
    /\ OpenTransactions
    /\ OneActiveScanPerLibrary
    /\ MutualExclusion

Lifecycle == INSTANCE JobLifecycle WITH Jobs <- JobIds,
                                        phase <- [j \in JobIds |-> jobs[j].status]

\* The queue, with its leases, attempts, crashes and overlapping transactions, keeps
\* what JobLifecycle promises of every job: no claim of a cancelled job, no job lost
\* before its end, no end undone, no cancellation turned into a retry or a success.
ImplementsLifecycle == Lifecycle!Spec

\* A cancellation request is never lost or turned into a retry or a success,
\* and a finished job never comes back (it may only be pruned).
CancellationAndEndAreFinal ==
    [][\A j \in JobIds :
          /\ jobs[j].status = "cancel_requested" =>
                jobs'[j].status \in {"cancel_requested", "cancelled"}
          /\ jobs[j].status \in Terminal =>
                jobs'[j].status \in {jobs[j].status, "absent"}]_vars

\* The worker that executes the current attempt of job j.
CurrentExecutor(w, j) ==
    /\ exec[w].job = j
    /\ exec[w].attempt = jobs[j].attempt
    /\ jobs[j].owner = w

\* While its lease is live a claimed job is taken from its executor by nobody:
\* it leaves "running" only for a cancellation request or when the executor of
\* the current attempt ends it.  A stale worker commits nothing.
LiveLeaseIsExclusive ==
    [][\A j \in JobIds :
          /\ jobs[j].status \in Executing
          /\ jobs[j].live
          /\ jobs'[j].status # jobs[j].status
          => \/ jobs[j].status = "running" /\ jobs'[j].status = "cancel_requested"
             \/ \E w \in Workers : CurrentExecutor(w, j) /\ exec'[w] = Idle]_vars

\* A job of library l whose worker died and another job keep each other from being
\* claimed: a scan and a retention-expired revalidation queued from a stale snapshot,
\* or a queued scan and an intro detection that escaped its cancellation.
Wedged(l) ==
    \E i, k \in JobIds :
        /\ i # k /\ jobs[i].lib = l /\ jobs[i].status \in Executing /\ ~ jobs[i].live
        /\ Blocks(jobs[i], jobs[k]) /\ Blocks(jobs[k], jobs[i])

\* What must not last: an accepted scan that has not ended for its users, and a job
\* left "running" by a worker that died.
Unsettled(j) ==
    scans[j] \in ActiveScan \/ (jobs[j].status \in Executing /\ ~ jobs[j].live)

\* Every accepted scan comes to an end that users see, and a job whose lease ran out is
\* claimed again or ended, never "running" for ever (docs/MEDIA_LIBRARY_SCAN.md:68,
\* :221), unless its library is wedged.
WorkEnds ==
    \A j \in JobIds : Unsettled(j) ~> (~ Unsettled(j) \/ Wedged(jobs[j].lib))
=============================================================================
