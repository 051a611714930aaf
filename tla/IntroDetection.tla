--------------------------- MODULE IntroDetection ---------------------------
(***************************************************************************)
(* Detecting the repeated intro of a season: playing an episode enqueues a *)
(* job, a worker reads the season's file rows, has FFmpeg read the files,  *)
(* and records an analysis and the season's markers.  In the meantime the  *)
(* files change on disk, scans and manual metadata refreshes change their  *)
(* rows, and triggers delete what was derived from the old ones.           *)
(*                                                                         *)
(* One season.  What its files contain and what the rows say of them are   *)
(* versions: a scan or a refresh brings the rows to the version on disk.   *)
(* The job table is the one of BackgroundJobs, restricted to this season's *)
(* detection job and the scan of its library.  One version of the          *)
(* algorithm is in use.                                                    *)
(***************************************************************************)
EXTENDS Integers, FiniteSets

CONSTANTS Detectors, NoWorker, MaxVersion, MaxAttempts, MaxScans,
          Enough   \* the versions in which three episodes have local files

ASSUME IntroAssumption ==
    /\ NoWorker \notin Detectors
    /\ {MaxVersion, MaxAttempts, MaxScans} \subseteq Nat /\ MaxAttempts > 0
    /\ Enough \subseteq 0 .. MaxVersion

VARIABLES bytes,     \* version of the files
          rows,      \* version the committed media_files and episodes rows describe
          refresh,   \* the transaction of a manual metadata refresh, or NoRefresh
          analysis,  \* the row of season_intro_analyses, or NoAnalysis
          cooling,   \* its retry_after lies ahead
          markers,   \* intro_start_seconds and intro_end_seconds of the season
          job,       \* the season's newest detection job
          exec,      \* worker -> its execution
          scan,      \* [state, locked, left]: the library's scan
          raced      \* history: what is recorded overlapped a refresh

introVars == <<bytes, rows, refresh, analysis, cooling, markers, job, exec, scan, raced>>

NoRefresh == [to |-> -1, locks |-> FALSE, kept |-> FALSE]
NoAnalysis == [outcome |-> "none", of |-> -1, read |-> -1]
NoMarkers == [of |-> -1, read |-> -1]
NoJob == [status |-> "absent", attempt |-> 0, owner |-> NoWorker, live |-> FALSE]
Resting == [pc |-> "idle", attempt |-> 0, of |-> -1, read |-> -1, outcome |-> "none"]

Active == {"pending", "running", "cancel_requested"}

-----------------------------------------------------------------------------
\* Enqueueing

\* enqueue_season_intro_detection, called whenever an episode's page is opened for
\* playback; the unique index on active jobs makes it do nothing while one is active.
enqueue_season_intro_detection ==
    /\ markers = NoMarkers
    /\ rows \in Enough
    /\ analysis.outcome # "no_match"
    /\ ~ (analysis.outcome = "failed" /\ cooling)
    /\ job.status \notin Active
    /\ job' = [NoJob EXCEPT !.status = "pending"]
    /\ UNCHANGED <<bytes, rows, refresh, analysis, cooling, markers, exec, scan, raced>>

\* record_season_intro_detection_failure_tx, in the transaction that fails the job.
RecordFailure ==
    /\ analysis' = [outcome |-> "failed", of |-> -1, read |-> -1]
    /\ cooling' = TRUE
    /\ refresh' = IF refresh = NoRefresh THEN refresh ELSE [refresh EXCEPT !.kept = TRUE]

\* Succeeded, failed or cancelled: the row only matters by no longer being active.
Ended == [NoJob EXCEPT !.status = "ended"]

\* claim_background_job: a job whose lease ran out is ended when it was cancelled or
\* has no attempt left, or else claimed again, unless the library has a scan.
claim_background_job(w) ==
    /\ exec[w].pc = "idle"
    /\ ~ scan.locked
    /\ \/ /\ job.status = "cancel_requested" /\ ~ job.live
          /\ job' = Ended
          /\ UNCHANGED <<analysis, cooling, refresh, exec>>
       \/ /\ job.status = "running" /\ ~ job.live /\ job.attempt >= MaxAttempts
          /\ job' = Ended /\ RecordFailure
          /\ UNCHANGED exec
       \/ /\ job.status = "pending" \/ (job.status = "running" /\ ~ job.live)
          /\ job.attempt < MaxAttempts
          /\ scan.state \notin {"pending", "running"}
          /\ job' = [job EXCEPT !.status = "running", !.attempt = @ + 1, !.owner = w, !.live = TRUE]
          /\ exec' = [exec EXCEPT ![w] = [Resting EXCEPT !.pc = "claimed", !.attempt = job.attempt + 1]]
          /\ UNCHANGED <<analysis, cooling, refresh>>
    /\ UNCHANGED <<bytes, rows, markers, scan, raced>>

-----------------------------------------------------------------------------
\* Executing: execute_intro_detection_job

\* What remains to be done is to report the end of the attempt.
Finish(w, pc) == exec' = [exec EXCEPT ![w] = [Resting EXCEPT !.pc = pc, !.attempt = exec[w].attempt]]

list_intro_detection_inputs(w) ==
    /\ exec[w].pc = "claimed"
    /\ exec' = [exec EXCEPT ![w].pc = "loaded", ![w].of = rows]
    /\ UNCHANGED <<bytes, rows, refresh, analysis, cooling, markers, job, scan, raced>>

\* detect_repeated_intro_with_cancellation, on the files as they are now: a season with
\* fewer than three inputs has no match, otherwise there is a match, none, or a failure
\* (files that cannot be read, the deadline, a cancellation seen by the heartbeat).  The
\* inputs are compared with the rows then.
detect_repeated_intro(w) ==
    /\ exec[w].pc = "loaded"
    /\ \E outcome \in {"matched", "no_match", "failed"} :
         /\ exec[w].of \notin Enough => outcome = "no_match"
         /\ IF outcome = "failed" \/ exec[w].of # rows THEN Finish(w, "failed")
            ELSE exec' = [exec EXCEPT ![w].pc = "record", ![w].read = bytes, ![w].outcome = outcome]
    /\ UNCHANGED <<bytes, rows, refresh, analysis, cooling, markers, job, scan, raced>>

\* lock_background_job_fence.
Fence(w) ==
    /\ job.status \in {"running", "cancel_requested"}
    /\ job.owner = w /\ job.attempt = exec[w].attempt /\ job.live
    /\ ~ scan.locked

lock_intro_detection_fence(w) == Fence(w) /\ job.status = "running"

\* Mutant of SameSnapshot: the inputs are not compared again under the lock of the season.
AnySnapshot(w) == TRUE

SameSnapshot(w) == exec[w].of = rows

\* record_season_intro_analysis: fence, lock of the season (a refresh that clears its
\* markers holds it), comparison, analysis and markers in one transaction.
record_season_intro_analysis(w) ==
    LET found == [of |-> exec[w].of, read |-> exec[w].read] IN
    /\ exec[w].pc = "record"
    /\ ~ refresh.locks
    /\ IF lock_intro_detection_fence(w) /\ SameSnapshot(w)
       THEN /\ analysis' = [outcome |-> exec[w].outcome, of |-> found.of, read |-> found.read]
            /\ markers' = IF exec[w].outcome = "matched" THEN found ELSE NoMarkers
            /\ cooling' = FALSE
            /\ raced' = (refresh # NoRefresh)
            /\ refresh' = IF refresh = NoRefresh THEN refresh ELSE [refresh EXCEPT !.kept = TRUE]
            /\ Finish(w, "done")
       ELSE /\ Finish(w, "failed")
            /\ UNCHANGED <<analysis, markers, cooling, raced, refresh>>
    /\ UNCHANGED <<bytes, rows, job, scan>>

complete_background_job(w) ==
    /\ exec[w].pc = "done"
    /\ exec' = [exec EXCEPT ![w] = Resting]
    /\ job' = IF ~ Fence(w) THEN job
              ELSE Ended
    /\ UNCHANGED <<bytes, rows, refresh, analysis, cooling, markers, scan, raced>>

\* The delay before a retry is left out: a claim may come late anyway.
retry_or_fail_background_job(w) ==
    /\ exec[w].pc = "failed"
    /\ exec' = [exec EXCEPT ![w] = Resting]
    /\ IF ~ Fence(w) THEN UNCHANGED <<job, analysis, cooling, refresh>>
       ELSE IF job.status = "cancel_requested"
       THEN job' = Ended /\ UNCHANGED <<analysis, cooling, refresh>>
       ELSE IF job.attempt >= MaxAttempts
       THEN job' = Ended /\ RecordFailure
       ELSE job' = [job EXCEPT !.status = "pending", !.owner = NoWorker, !.live = FALSE] /\ UNCHANGED <<analysis, cooling, refresh>>
    /\ UNCHANGED <<bytes, rows, markers, scan, raced>>

Execute(w) ==
    \/ list_intro_detection_inputs(w) \/ detect_repeated_intro(w)
    \/ record_season_intro_analysis(w) \/ complete_background_job(w)
    \/ retry_or_fail_background_job(w)

\* The process of the worker ends.
Crash(w) ==
    /\ exec[w].pc # "idle"
    /\ exec' = [exec EXCEPT ![w] = Resting]
    /\ UNCHANGED <<bytes, rows, refresh, analysis, cooling, markers, job, scan, raced>>

-----------------------------------------------------------------------------
\* The rows change

\* Mutant of Invalidated: only the markers of the season are cleared.
MarkersInvalidated ==
    /\ markers' = NoMarkers /\ raced' = FALSE /\ UNCHANGED <<analysis, cooling>>

\* mova_invalidate_season_intro_analysis.
Invalidated ==
    /\ analysis' = NoAnalysis /\ markers' = NoMarkers /\ cooling' = FALSE /\ raced' = FALSE

\* mova_invalidate_intro_after_media_file_change, in the transaction of the change.
mova_invalidate_intro_after_media_file_change ==
    IF rows' # rows THEN Invalidated ELSE UNCHANGED <<analysis, markers, cooling, raced>>

\* enqueue_scan_job_tx updates the detection job and inserts the scan when it commits.
EnqueueScanBegin ==
    /\ scan.state = "none" /\ scan.left > 0
    /\ scan' = [state |-> "enqueuing", locked |-> job.status \in {"pending", "running"},
                left |-> scan.left - 1]
    /\ UNCHANGED <<bytes, rows, refresh, analysis, cooling, markers, job, exec, raced>>

EnqueueScanCommit ==
    /\ scan.state = "enqueuing"
    /\ scan' = [scan EXCEPT !.state = "pending", !.locked = FALSE]
    /\ job' = IF ~ scan.locked THEN job
              ELSE IF job.status = "pending" THEN Ended
              ELSE [job EXCEPT !.status = "cancel_requested"]
    /\ UNCHANGED <<bytes, rows, refresh, analysis, cooling, markers, exec, raced>>

ClaimScan ==
    /\ scan.state = "pending" /\ job.status \notin {"running", "cancel_requested"}
    /\ scan' = [scan EXCEPT !.state = "running"]
    /\ UNCHANGED <<bytes, rows, refresh, analysis, cooling, markers, job, exec, raced>>

\* A commit of the scan; the rows of a refresh that is open are locked.
ScanCommits ==
    /\ scan.state = "running" /\ refresh = NoRefresh
    /\ rows' = bytes
    /\ mova_invalidate_intro_after_media_file_change
    /\ UNCHANGED <<bytes, refresh, job, exec, scan>>

EndScan ==
    /\ scan.state = "running"
    /\ scan' = [scan EXCEPT !.state = "none"]
    /\ UNCHANGED <<bytes, rows, refresh, analysis, cooling, markers, job, exec, raced>>

\* update_media_file_metadata of a manual refresh, which no job excludes.  Its trigger
\* clears what it finds, and locks the season only when that has markers.
RefreshBegin ==
    /\ refresh = NoRefresh /\ bytes # rows
    /\ refresh' = [to |-> bytes, locks |-> markers # NoMarkers, kept |-> FALSE]
    /\ UNCHANGED <<bytes, rows, analysis, cooling, markers, job, exec, scan, raced>>

RefreshCommit ==
    /\ refresh # NoRefresh
    /\ rows' = refresh.to /\ refresh' = NoRefresh
    /\ IF refresh.kept
       THEN /\ markers' = IF refresh.locks THEN NoMarkers ELSE markers
            /\ UNCHANGED <<analysis, cooling, raced>>
       ELSE mova_invalidate_intro_after_media_file_change
    /\ UNCHANGED <<bytes, job, exec, scan>>

-----------------------------------------------------------------------------
\* Disk and clock

FilesChange ==
    /\ bytes < MaxVersion
    /\ bytes' = bytes + 1
    /\ UNCHANGED <<rows, refresh, analysis, cooling, markers, job, exec, scan, raced>>

LeaseExpires ==
    /\ job.live
    /\ job' = [job EXCEPT !.live = FALSE]
    /\ UNCHANGED <<bytes, rows, refresh, analysis, cooling, markers, exec, scan, raced>>

CooldownEnds ==
    /\ cooling
    /\ cooling' = FALSE
    /\ UNCHANGED <<bytes, rows, refresh, analysis, markers, job, exec, scan, raced>>

IntroInit ==
    /\ bytes = 0 /\ rows = 0 /\ refresh = NoRefresh
    /\ analysis = NoAnalysis /\ cooling = FALSE /\ markers = NoMarkers
    /\ job = NoJob /\ exec = [w \in Detectors |-> Resting]
    /\ scan = [state |-> "none", locked |-> FALSE, left |-> MaxScans] /\ raced = FALSE

ScanStep == EnqueueScanCommit \/ ClaimScan \/ EndScan

IntroNext ==
    \/ enqueue_season_intro_detection
    \/ \E w \in Detectors : claim_background_job(w) \/ Execute(w) \/ Crash(w)
    \/ EnqueueScanBegin \/ ScanStep \/ ScanCommits
    \/ RefreshBegin \/ RefreshCommit
    \/ FilesChange \/ LeaseExpires \/ CooldownEnds

\* The season keeps being played, workers and scans go on, and a lease that nobody
\* renews any more expires.
Orphaned == \A w \in Detectors : exec[w].pc = "idle" \/ exec[w].attempt # job.attempt \/ job.owner # w

IntroFairness ==
    /\ WF_introVars(enqueue_season_intro_detection)
    /\ WF_introVars(\E w \in Detectors : claim_background_job(w))
    /\ \A w \in Detectors : WF_introVars(Execute(w))
    /\ WF_introVars(ScanStep) /\ WF_introVars(RefreshCommit)
    /\ WF_introVars(Orphaned /\ LeaseExpires)

IntroSpec == IntroInit /\ [][IntroNext]_introVars /\ IntroFairness

-----------------------------------------------------------------------------
\* Properties

Concluded == analysis.outcome \in {"matched", "no_match"}

\* An analysis and the markers that players skip by are of the files that the rows
\* describe, and were heard in these files once the rows have caught up with the disk;
\* a match and the markers go together.  Exempt is what was recorded while the rows were
\* being changed by a manual refresh, which the detection job does not exclude.
IntroInv ==
    /\ analysis.outcome = "matched" => markers = [of |-> analysis.of, read |-> analysis.read]
    /\ ~ raced => /\ Concluded => analysis.of = rows /\ (rows = bytes => analysis.read = bytes)
                  /\ markers # NoMarkers =>
                        markers.of = rows /\ (rows = bytes => markers.read = bytes)

\* The detection and a queued scan wait for each other: the worker of a detection that
\* was enqueued while the scan was being enqueued has died.
IntroWedged == scan.state = "pending" /\ job.status = "running" /\ ~ job.live

Wanted ==
    /\ rows \in Enough /\ markers = NoMarkers
    /\ analysis.outcome # "failed"
    /\ ~ (Concluded /\ (raced \/ analysis.of = rows))

\* A season that keeps being played gets an answer for the files it now has (a match,
\* none, or a failure that is remembered), whatever crashes, scans and refreshes come in
\* between, unless the detection and a scan wait for each other or a refresh raced it.
PlayedSeasonsAreAnswered == Wanted ~> (~ Wanted \/ IntroWedged)
=============================================================================
