---------------------------- MODULE ScanPipeline ----------------------------
(***************************************************************************)
(* One scan job from the plan of its changed groups to its end: the local  *)
(* analysis, the bounded preparation of remote metadata and the single     *)
(* coordinator that commits, three futures of one task joined by try_join! *)
(* and connected by two bounded channels; the checkpoints, counters and    *)
(* percentage the database keeps; the guards that keep the artwork of a    *)
(* prepared group from the cleaner; and the report a finished scan leaves. *)
(*                                                                         *)
(* A group is one title; what its data and the provider do to it in an     *)
(* attempt is its fate, chosen anew for every attempt.  The walk, the      *)
(* judgement of the storage and the removal of missing files are in        *)
(* LibraryScan, the rows a commit writes in Catalog.                       *)
(***************************************************************************)
EXTENDS Integers, Sequences, FiniteSets, FiniteSetsExt

CONSTANTS Pending,       \* the planned groups, each a sequence of scan groups
          Size,          \* group -> number of files
          Unchanged,     \* files of the walk that need no work
          Issues,        \* carriers the walk could not read
          Bound,         \* groups whose title is bound already, with cached artwork
          Fates,         \* the fates an attempt may meet: group -> Fate
          QueueCapacity, Concurrency, MaxIssues, MaxAttempts

Groups == UNION {{Pending[i][k] : k \in DOMAIN Pending[i]} : i \in DOMAIN Pending}

Fate == {"matched", "nothing", "review", "outage", "rejected", "patch_rejected", "lost"}

\* A planned group has files, so at least one scan group comes of it; a scan
\* group, known by its presentation key, comes of one planned group only, as two
\* titles that share a key are planned together.  0 stands for no group.
ASSUME PipelineAssumption ==
    /\ Pending \in Seq(Seq(Nat \ {0}) \ {<<>>})
    /\ \A i, j \in DOMAIN Pending : \A k \in DOMAIN Pending[i], l \in DOMAIN Pending[j] :
          Pending[i][k] = Pending[j][l] => i = j /\ k = l
    /\ Size \in [Groups -> Nat \ {0}]
    /\ Unchanged \in Nat /\ Issues \in Nat /\ MaxIssues \in Nat
    /\ Bound \subseteq Groups /\ Fates \subseteq [Groups -> Fate]
    /\ QueueCapacity \in Nat \ {0} /\ Concurrency \in Nat \ {0} /\ MaxAttempts \in Nat \ {0}

VARIABLES job,        \* the row of scan_jobs, with the attempts of its background job
          cp,         \* scan_job_groups: 0 no row, 1 analysed, 2 committed, 3 remote done
          fate,
          requested,  \* the background job is cancel_requested
          flag,       \* the cancellation flag of the executing process
          task,       \* where the task is: idle, pipeline, finish, ended
          ana,        \* analysis: [pc, at] with at = <<pending group, group in it>>
          queue,      \* groups on their way to preparation
          busy,       \* group -> step of its preparation
          sending,    \* the prepared group that waits for room in the second channel
          prepared,
          co,         \* coordinator: [pc, g]
          guards,     \* groups whose publication guard is held
          refs, disk, \* groups whose artwork rows refer to, and which is in the cache
          out,        \* files saved, files rejected by the database
          report

pipelineVars == <<job, cp, fate, requested, flag, task, ana, queue, busy, sending,
                  prepared, co, guards, refs, disk, out, report>>
remoteVars == <<queue, busy, sending, prepared, co, guards>>

Files(S) == FoldSet(LAMBDA g, n : Size[g] + n, 0, S)
TotalFiles == Unchanged + Issues + Files(Groups)

Percent(total, a, c, r) ==
    IF total = 0 THEN 10
    ELSE Min({99, (10 * total + 20 * a + 20 * c + 49 * r) \div total})

EmptyReport == [matched |-> 0, unmatched |-> 0, failed |-> 0, issues |-> 0, listed |-> 0]
NoWork == [saved |-> 0, failed |-> 0]
Idle == [pc |-> "none", g |-> 0]

PipelineInit ==
    /\ job = [status |-> "pending", phase |-> "none", total |-> 0, analyzed |-> 0,
              committed |-> 0, remote |-> 0, percent |-> 0, attempts |-> 0, notified |-> "none"]
    /\ cp = [g \in Groups |-> 0]
    /\ fate \in Fates
    /\ requested = FALSE /\ flag = FALSE /\ task = "idle"
    /\ ana = [pc |-> "none", at |-> <<1, 1>>]
    /\ queue = <<>> /\ busy = [g \in {} |-> "new"] /\ sending = <<>> /\ prepared = <<>>
    /\ co = Idle /\ guards = {}
    /\ refs = Bound /\ disk = Bound
    /\ out = NoWork /\ report = EmptyReport

-----------------------------------------------------------------------------
\* The counters

Advanced(row, a, c, r) ==
    LET na == Min({row.total, row.analyzed + a})
        nc == Min({row.total, row.committed + c})
        nr == Min({row.total, row.remote + r})
    IN [row EXCEPT !.phase = "processing", !.analyzed = na, !.committed = nc, !.remote = nr,
                   !.percent = Max({@, Percent(row.total, na, nc, nr)})]

\* Every write of a running scan is fenced: it fails once the job is cancelled.
Fenced == ~requested /\ job.status = "running"

mark_scan_group_analyzed(g) ==
    /\ Fenced
    /\ job' = Advanced(job, IF cp[g] = 0 THEN Size[g] ELSE 0, 0, 0)
    /\ cp' = [cp EXCEPT ![g] = Max({@, 1})]

advance_scan_group_progress(g, stage) ==
    /\ Fenced
    /\ job' = Advanced(job, IF cp[g] < 1 THEN Size[g] ELSE 0,
                            IF cp[g] < 2 THEN Size[g] ELSE 0,
                            IF stage = 3 /\ cp[g] < 3 THEN Size[g] ELSE 0)
    /\ cp' = [cp EXCEPT ![g] = Max({@, stage})]

initialize_scan_job_work(row) ==
    LET done == TotalFiles - Files(Groups) IN
    [row EXCEPT !.phase = "processing", !.total = TotalFiles,
                !.analyzed = done, !.committed = done, !.remote = done,
                !.percent = Max({@, Percent(TotalFiles, done, done, done)})]

-----------------------------------------------------------------------------
\* The report

listed(r) == Min({MaxIssues, r.listed + 1})

record_scan_group_commit_failure(r, g) ==
    [r EXCEPT !.failed = @ + Size[g], !.issues = @ + 1, !.listed = listed(r)]

\* The status of the files of a prepared group.
finalize_file_metadata_status(g) ==
    CASE fate[g] = "matched" -> "matched"
      [] fate[g] \in {"nothing", "review"} -> "unmatched"
      [] fate[g] = "outage" -> IF g \in Bound THEN "matched" ELSE "failed"

record_scan_notification_group(r, g) ==
    LET status == finalize_file_metadata_status(g)
        counted == CASE status = "matched" -> [r EXCEPT !.matched = @ + Size[g]]
                     [] status = "unmatched" -> [r EXCEPT !.unmatched = @ + Size[g]]
                     [] status = "failed" -> [r EXCEPT !.failed = @ + Size[g]]
    IN IF fate[g] = "outage" \/ status \in {"unmatched", "failed"}
       THEN [counted EXCEPT !.issues = @ + 1, !.listed = listed(r)]
       ELSE counted

record_media_discovery_issues(r) ==
    [r EXCEPT !.failed = @ + Issues, !.issues = @ + Issues,
              !.listed = Min({MaxIssues, @ + Issues})]

scan_notification_presentation(status, r) ==
    IF status = "cancelled" THEN "cancelled"
    ELSE IF r.issues > 0 \/ r.failed > 0 \/ r.unmatched > 0 THEN "completed_with_issues"
    ELSE "completed"

-----------------------------------------------------------------------------
\* Start and abort of an attempt

DropPipeline ==
    /\ queue' = <<>> /\ busy' = [g \in {} |-> "new"] /\ sending' = <<>> /\ prepared' = <<>>
    /\ co' = Idle /\ guards' = {}
    /\ ana' = [pc |-> "none", at |-> <<1, 1>>]

StartAttempt ==
    /\ task = "idle" /\ job.status = "pending" /\ ~requested
    /\ job' = initialize_scan_job_work(
                 [job EXCEPT !.status = "running", !.attempts = @ + 1,
                             !.percent = Max({@, 1})])
    /\ cp' = [g \in Groups |-> 0]
    /\ fate' \in Fates
    /\ task' = "pipeline"
    /\ ana' = [pc |-> "pending", at |-> <<1, 1>>]
    /\ co' = [pc |-> "recv", g |-> 0]
    /\ out' = NoWork /\ report' = EmptyReport
    /\ UNCHANGED <<requested, flag, queue, busy, sending, prepared, guards, refs, disk>>

\* An attempt that failed goes back to the queue while attempts are left; the
\* worker ends a job it was asked to cancel.
FailedAttempt(row) ==
    [row EXCEPT !.status = IF requested THEN "cancelled"
                           ELSE IF row.attempts < MaxAttempts THEN "pending" ELSE "failed",
                !.phase = IF requested \/ row.attempts >= MaxAttempts THEN "finished" ELSE "none"]

\* An error of one future drops the others: guards close with their session.
Abort ==
    /\ job' = FailedAttempt(job)
    /\ task' = IF job'.status = "pending" THEN "idle" ELSE "ended"
    /\ flag' = FALSE
    /\ DropPipeline
    /\ UNCHANGED <<cp, fate, requested, refs, disk, out, report>>

\* The process dies and the lease runs out, or the database is gone for a while.
Crash == task \in {"pipeline", "finish"} /\ Abort

RequestCancel ==
    /\ job.status \in {"pending", "running"} /\ ~requested /\ task # "ended"
    /\ requested' = TRUE
    /\ UNCHANGED <<job, cp, fate, flag, task, ana, remoteVars, refs, disk, out, report>>

RaiseFlag ==
    /\ requested /\ ~flag /\ task \in {"pipeline", "finish"}
    /\ flag' = TRUE
    /\ UNCHANGED <<job, cp, fate, requested, task, ana, remoteVars, refs, disk, out, report>>

CancelQueued ==
    /\ task = "idle" /\ requested
    /\ job' = [job EXCEPT !.status = "cancelled", !.phase = "finished"]
    /\ task' = "ended"
    /\ UNCHANGED <<cp, fate, requested, flag, ana, remoteVars, refs, disk, out, report>>

-----------------------------------------------------------------------------
\* analyze_pending_scan_groups

Running == task = "pipeline"
Current == Pending[ana.at[1]][ana.at[2]]

NextAt ==
    IF ana.at[2] < Len(Pending[ana.at[1]])
    THEN [pc |-> "group", at |-> <<ana.at[1], ana.at[2] + 1>>]
    ELSE [pc |-> "pending", at |-> <<ana.at[1] + 1, 1>>]

StopAnalysis == ana' = [ana EXCEPT !.pc = "done"]
LocalOnly == UNCHANGED <<fate, requested, flag, task, remoteVars, refs, disk>>

\* The end of the list, a cancellation, or the files of the next planned group
\* inspected (which looks at the flag before every file).
InspectPending ==
    /\ Running /\ ana.pc = "pending"
    /\ \/ (flag \/ ana.at[1] > Len(Pending)) /\ StopAnalysis
       \/ ~flag /\ ana.at[1] <= Len(Pending) /\ ana' = [ana EXCEPT !.pc = "group"]
    /\ LocalOnly /\ UNCHANGED <<job, cp, out, report>>

AnalyzeGroup ==
    /\ Running /\ ana.pc = "group"
    /\ \/ /\ flag /\ StopAnalysis
          /\ LocalOnly /\ UNCHANGED <<job, cp, out, report>>
       \/ /\ ~flag /\ mark_scan_group_analyzed(Current)
          /\ ana' = [ana EXCEPT !.pc = "commit"]
          /\ LocalOnly /\ UNCHANGED <<out, report>>
       \/ ~flag /\ ~Fenced /\ Abort

\* A rejected value skips the group: it is counted and never queued.
CommitLocalGroup ==
    /\ Running /\ ana.pc = "commit"
    /\ LET g == Current IN
       \/ /\ fate[g] = "rejected" /\ Fenced
          /\ out' = [out EXCEPT !.failed = @ + Size[g]]
          /\ report' = record_scan_group_commit_failure(report, g)
          /\ ana' = NextAt
          /\ LocalOnly /\ UNCHANGED <<job, cp>>
       \/ /\ fate[g] \notin {"rejected", "lost"}
          /\ advance_scan_group_progress(g, 2)
          /\ out' = [out EXCEPT !.saved = @ + Size[g]]
          /\ ana' = [ana EXCEPT !.pc = "send"]
          /\ LocalOnly /\ UNCHANGED report
       \/ (fate[g] = "lost" \/ ~Fenced) /\ Abort

QueueGroup ==
    /\ Running /\ ana.pc = "send"
    /\ \/ flag /\ StopAnalysis /\ UNCHANGED queue
       \/ /\ Len(queue) < QueueCapacity
          /\ queue' = Append(queue, Current)
          /\ ana' = NextAt
    /\ UNCHANGED <<job, cp, fate, requested, flag, task, busy, sending, prepared, co,
                   guards, refs, disk, out, report>>

-----------------------------------------------------------------------------
\* Preparation: a stream of at most Concurrency futures.  It is polled only
\* while no finished one waits for room in the second channel.

Polled == Running /\ sending = <<>> /\ co.pc # "none"
PreparationOnly == UNCHANGED <<job, cp, fate, requested, flag, task, ana, refs, out, report>>

TakeGroup ==
    /\ Polled /\ queue # <<>> /\ Cardinality(DOMAIN busy) < Concurrency
    /\ queue' = Tail(queue)
    /\ busy' = [g \in DOMAIN busy \cup {Head(queue)} |->
                  IF g \in DOMAIN busy THEN busy[g]
                  ELSE IF flag THEN "empty"
                  ELSE IF fate[g] = "review" THEN "ready" ELSE "acquire"]
    /\ PreparationOnly /\ UNCHANGED <<sending, prepared, co, guards, disk>>

\* A shared advisory lock: granted unless the cleaner waits for the exclusive one.
acquire(g) ==
    /\ Polled /\ g \in DOMAIN busy /\ busy[g] = "acquire"
    /\ co.pc # "cleanup"
    /\ guards' = guards \cup {g}
    /\ busy' = [busy EXCEPT ![g] = "enrich"]
    /\ PreparationOnly /\ UNCHANGED <<queue, sending, prepared, co, disk>>

prepare_remote_scan_group(g) ==
    /\ Polled /\ g \in DOMAIN busy /\ busy[g] = "enrich"
    /\ busy' = [busy EXCEPT ![g] = "ready"]
    /\ disk' = IF fate[g] \in {"matched", "patch_rejected"} THEN disk \cup {g} ELSE disk
    /\ PreparationOnly /\ UNCHANGED <<queue, sending, prepared, co, guards>>

FinishPreparation(g) ==
    /\ Polled /\ g \in DOMAIN busy /\ busy[g] \in {"ready", "empty"}
    /\ sending' = <<[g |-> g, empty |-> busy[g] = "empty"]>>
    /\ busy' = [h \in DOMAIN busy \ {g} |-> busy[h]]
    /\ PreparationOnly /\ UNCHANGED <<queue, prepared, co, guards, disk>>

\* Mutant of DeliverPrepared: it waits for room in a channel nobody reads.
DeliverToNobody ==
    /\ Running /\ sending # <<>> /\ co.pc # "done" /\ Len(prepared) < QueueCapacity
    /\ prepared' = Append(prepared, sending[1])
    /\ sending' = <<>>
    /\ PreparationOnly /\ UNCHANGED <<queue, busy, co, disk, guards>>

\* A coordinator that stopped has closed its channel: the group and its guard go.
DeliverPrepared ==
    /\ Running /\ sending # <<>>
    /\ \/ /\ co.pc = "done"
          /\ guards' = guards \ {sending[1].g} /\ UNCHANGED prepared
       \/ /\ co.pc # "done" /\ Len(prepared) < QueueCapacity
          /\ prepared' = Append(prepared, sending[1]) /\ UNCHANGED guards
    /\ sending' = <<>>
    /\ PreparationOnly /\ UNCHANGED <<queue, busy, co, disk>>

PreparationEnded == ana.pc = "done" /\ queue = <<>> /\ DOMAIN busy = {} /\ sending = <<>>

-----------------------------------------------------------------------------
\* The commit coordinator

\* An empty prepared group (one taken after the cancellation) is passed over.
ReceivePrepared ==
    /\ Running /\ co.pc = "recv"
    /\ \/ /\ prepared = <<>> /\ PreparationEnded
          /\ co' = [co EXCEPT !.pc = "done"] /\ UNCHANGED <<prepared, guards>>
       \/ /\ prepared # <<>> /\ flag
          /\ co' = [co EXCEPT !.pc = "done"]
          /\ prepared' = <<>>
          /\ guards' = guards \ {prepared[k].g : k \in DOMAIN prepared}
       \/ /\ prepared # <<>> /\ ~flag
          /\ co' = IF Head(prepared).empty THEN co ELSE [pc |-> "commit", g |-> Head(prepared).g]
          /\ prepared' = Tail(prepared) /\ UNCHANGED guards
    /\ UNCHANGED <<job, cp, fate, requested, flag, task, ana, queue, busy, sending,
                   refs, disk, out, report>>

\* What the commit of a prepared group makes of the references to its artwork.
patched_refs(g) ==
    CASE fate[g] = "matched" -> refs \cup {g}
      [] fate[g] = "review" -> refs \ {g}
      [] OTHER -> refs

CommitRemoteGroup ==
    /\ Running /\ co.pc = "commit"
    /\ LET g == co.g IN
       \/ /\ fate[g] # "patch_rejected" /\ advance_scan_group_progress(g, 3)
          /\ refs' = patched_refs(g)
          /\ out' = [out EXCEPT !.saved = @ + Size[g]]
          /\ co' = [co EXCEPT !.pc = "release"]
          /\ UNCHANGED <<fate, requested, flag, task, ana, queue, busy, sending,
                         prepared, guards, disk, report>>
       \/ /\ fate[g] = "patch_rejected" /\ Fenced
          /\ co' = [co EXCEPT !.pc = "release"]
          /\ UNCHANGED <<job, cp, fate, requested, flag, task, ana, queue, busy, sending,
                         prepared, guards, refs, disk, out, report>>
       \/ ~Fenced /\ Abort

Committed(g) == fate[g] # "patch_rejected"

\* The artwork of a failed commit, or of a provider failure, is offered to the
\* cleaner; without a file in the cache it returns before it takes a lock.
NeedsCleanup(g) == g \in guards /\ g \in disk /\ (~Committed(g) \/ fate[g] = "outage")

finish_tmdb_artwork_publication ==
    /\ Running /\ co.pc = "release"
    /\ guards' = guards \ {co.g}
    /\ co' = [co EXCEPT !.pc = IF NeedsCleanup(co.g) THEN "cleanup" ELSE "record"]
    /\ UNCHANGED <<job, cp, fate, requested, flag, task, ana, queue, busy, sending,
                   prepared, refs, disk, out, report>>

\* The exclusive lock is granted when no guard is held.
execute_tmdb_artwork_cleanup ==
    /\ Running /\ co.pc = "cleanup" /\ guards = {}
    /\ disk' = disk \ ({co.g} \ refs)
    /\ co' = [co EXCEPT !.pc = "record"]
    /\ UNCHANGED <<job, cp, fate, requested, flag, task, ana, queue, busy, sending,
                   prepared, guards, refs, out, report>>

\* Mutant of RecordGroup: a rejected group is skipped without a word.
RecordSavedGroup ==
    /\ Running /\ co.pc = "record"
    /\ report' = IF Committed(co.g) THEN record_scan_notification_group(report, co.g) ELSE report
    /\ co' = [pc |-> "recv", g |-> 0]
    /\ UNCHANGED <<job, cp, fate, requested, flag, task, ana, queue, busy, sending,
                   prepared, guards, refs, disk, out>>

RecordGroup ==
    /\ Running /\ co.pc = "record"
    /\ IF Committed(co.g)
       THEN report' = record_scan_notification_group(report, co.g) /\ UNCHANGED out
       ELSE /\ report' = record_scan_group_commit_failure(report, co.g)
            /\ out' = [out EXCEPT !.failed = @ + Size[co.g]]
    /\ co' = [pc |-> "recv", g |-> 0]
    /\ UNCHANGED <<job, cp, fate, requested, flag, task, ana, queue, busy, sending,
                   prepared, guards, refs, disk>>

-----------------------------------------------------------------------------
\* The end of the pipeline and of the scan

JoinPipeline ==
    /\ Running /\ co.pc = "done" /\ PreparationEnded
    /\ task' = "finish"
    /\ report' = record_media_discovery_issues(report)
    /\ DropPipeline
    /\ UNCHANGED <<job, cp, fate, requested, flag, refs, disk, out>>

Finished(status, r) ==
    /\ job' = [job EXCEPT !.status = status, !.phase = "finished", !.total = TotalFiles,
                          !.percent = IF status = "success" THEN 100 ELSE @,
                          !.notified = scan_notification_presentation(status, r)]
    /\ task' = "ended" /\ flag' = FALSE
    /\ UNCHANGED <<cp, fate, requested, ana, remoteVars, refs, disk, out, report>>

finalize_cancelled_scan == task = "finish" /\ flag /\ Finished("cancelled", EmptyReport)

\* Nothing saved and something rejected is a failed attempt.
finalize_scan_job ==
    /\ task = "finish" /\ ~flag
    /\ IF out.saved = 0 /\ out.failed > 0 THEN Abort
       ELSE Finished(IF requested THEN "cancelled" ELSE "success", report)

-----------------------------------------------------------------------------
LocalStep == InspectPending \/ AnalyzeGroup \/ CommitLocalGroup \/ QueueGroup
PreparationStep ==
    \/ TakeGroup \/ DeliverPrepared
    \/ \E g \in Groups : acquire(g) \/ prepare_remote_scan_group(g) \/ FinishPreparation(g)
CommitStep ==
    \/ ReceivePrepared \/ CommitRemoteGroup \/ finish_tmdb_artwork_publication
    \/ execute_tmdb_artwork_cleanup \/ RecordGroup
TaskStep == StartAttempt \/ CancelQueued \/ RaiseFlag \/ JoinPipeline
            \/ finalize_cancelled_scan \/ finalize_scan_job

PipelineNext == TaskStep \/ LocalStep \/ PreparationStep \/ CommitStep
                \/ RequestCancel \/ Crash

\* A future that can go on is polled, a worker claims a queued scan, and the
\* cancellation of a row reaches the process that executes it.
PipelineFairness ==
    /\ WF_pipelineVars(TaskStep) /\ WF_pipelineVars(LocalStep)
    /\ WF_pipelineVars(PreparationStep) /\ WF_pipelineVars(CommitStep)

PipelineSpec == PipelineInit /\ [][PipelineNext]_pipelineVars /\ PipelineFairness

-----------------------------------------------------------------------------
\* Properties

Held == (DOMAIN busy) \cup {sending[k].g : k \in DOMAIN sending}
        \cup {prepared[k].g : k \in DOMAIN prepared} \cup ({co.g} \ {0})

\* A scan that succeeds has reported every file once: matched, unmatched or
\* failed, in the groups it saved and in the ones a constraint rejected.
EveryFileIsReported ==
    job.status = "success" =>
        report.matched + report.unmatched + report.failed = Files(Groups) + Issues

\* Artwork that a row of the catalog refers to is in the cache, though the
\* cleaner takes paths from groups whose commit or provider failed.
ReferencedArtworkStays == refs \subseteq disk

\* The counters of a running scan are what its checkpoints say, whatever mix of
\* retries and skipped groups led there; a guard is held only for a group that
\* is being prepared or waits for its commit, never by an attempt that ended; and
\* a scan that succeeds has accounted for every file.  Artwork in use is never removed.
PipelineInv ==
    /\ job.status \in {"pending", "running", "success", "cancelled", "failed"}
    /\ Len(queue) <= QueueCapacity /\ Len(prepared) <= QueueCapacity
    /\ Cardinality(DOMAIN busy) <= Concurrency
    /\ guards \subseteq Held
    /\ task \in {"pipeline", "finish"} =>
         /\ job.total = TotalFiles
         /\ job.analyzed = Unchanged + Issues + Files({g \in Groups : cp[g] >= 1})
         /\ job.committed = Unchanged + Issues + Files({g \in Groups : cp[g] >= 2})
         /\ job.remote = Unchanged + Issues + Files({g \in Groups : cp[g] = 3})
         /\ job.percent < 100
    /\ EveryFileIsReported
    /\ ReferencedArtworkStays

\* The coordinator waits for the exclusive lock of the cleaner while groups that
\* only it can commit hold theirs.
Blocked == co.pc = "cleanup" /\ guards # {}

\* Every scan ends, unless the coordinator blocks itself for good.
ScanEndsUnlessBlocked == <>(task = "ended" \/ []Blocked)

=============================================================================
