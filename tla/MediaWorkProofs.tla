--------------------------- MODULE MediaWorkProofs ---------------------------
(***************************************************************************)
(* What detecting intros and enriching groups keep, for any number of      *)
(* workers, files, answers, versions and faults.                           *)
(***************************************************************************)
EXTENDS MCMediaWork, FiniteSetTheorems, TLAPS

-----------------------------------------------------------------------------
(* The intro of a season.                                                  *)

Outcomes == {"none", "matched", "no_match", "failed"}

Execution == [pc : {"idle", "claimed", "loaded", "record", "done", "failed"},
              attempt : Nat, of : Int, read : Int, outcome : Outcomes]

JobRecord == [status : {"absent", "pending", "running", "cancel_requested", "ended"},
              attempt : Nat, owner : Detectors \union {NoWorker}, live : BOOLEAN]

IntroTypeOK ==
    /\ bytes \in Nat /\ rows \in Nat /\ rows <= bytes
    /\ refresh \in [to : Int, locks : BOOLEAN, kept : BOOLEAN]
    /\ analysis \in [outcome : Outcomes, of : Int, read : Int]
    /\ markers \in [of : Int, read : Int]
    /\ exec \in [Detectors -> Execution]
    /\ job \in JobRecord
    /\ raced \in BOOLEAN

\* The rows only move towards the disk, so what was heard after the rows were
\* read is of no older version than they are.
Heard(of, read) == of <= read /\ read <= bytes

\* What a refresh that kept an analysis may leave behind: a failure, unless the
\* refresh was raced; it only finds markers that it did not lock when it was.
RefreshFits ==
    /\ refresh = NoRefresh \/ (rows < refresh.to /\ refresh.to <= bytes)
    /\ refresh.locks /\ refresh.kept => analysis.outcome = "failed"
    /\ ~ raced /\ refresh.kept => analysis.outcome = "failed"
    /\ ~ raced /\ refresh # NoRefresh /\ ~ refresh.locks => markers = NoMarkers

IntroIInv ==
    /\ IntroTypeOK
    /\ IntroInv
    /\ Concluded => Heard(analysis.of, analysis.read)
    /\ markers # NoMarkers => Heard(markers.of, markers.read)
    /\ \A w \in Detectors : exec[w].pc = "record" =>
          Heard(exec[w].of, exec[w].read) /\ exec[w].outcome \in {"matched", "no_match"}
    /\ RefreshFits

LEMMA IntroConstants ==
    /\ NoRefresh \in [to : Int, locks : BOOLEAN, kept : BOOLEAN]
    /\ NoRefresh.to = -1 /\ ~ NoRefresh.locks /\ ~ NoRefresh.kept
    /\ NoAnalysis \in [outcome : Outcomes, of : Int, read : Int] /\ NoAnalysis.outcome = "none"
    /\ NoMarkers \in [of : Int, read : Int]
    /\ NoJob \in JobRecord /\ [NoJob EXCEPT !.status = "pending"] \in JobRecord
    /\ Ended \in JobRecord
    /\ Resting \in Execution /\ Resting.pc = "idle"
<1>1. /\ NoJob \in JobRecord /\ NoRefresh.to = -1 /\ ~ NoRefresh.locks /\ ~ NoRefresh.kept
      /\ NoRefresh \in [to : Int, locks : BOOLEAN, kept : BOOLEAN]
  BY DEF NoJob, JobRecord, NoRefresh
<1>2. /\ [NoJob EXCEPT !.status = "pending"] \in JobRecord /\ Ended \in JobRecord
  BY <1>1 DEF Ended, JobRecord
<1>3. /\ NoAnalysis \in [outcome : Outcomes, of : Int, read : Int] /\ NoAnalysis.outcome = "none"
      /\ NoMarkers \in [of : Int, read : Int]
      /\ Resting \in Execution /\ Resting.pc = "idle"
  BY DEF NoAnalysis, NoMarkers, Resting, Execution, Outcomes
<1>. QED BY <1>1, <1>2, <1>3

LEMMA IntroInitially == IntroInit => IntroIInv
<1> SUFFICES ASSUME IntroInit PROVE IntroIInv
  OBVIOUS
<1>1. IntroTypeOK
  <2>1. bytes = 0 /\ rows = 0 /\ raced = FALSE
    BY DEF IntroInit
  <2>3. 0 \in Nat /\ 0 <= 0
    OBVIOUS
  <2>2. /\ refresh = NoRefresh /\ analysis = NoAnalysis /\ markers = NoMarkers /\ job = NoJob
        /\ exec = [w \in Detectors |-> Resting]
    BY DEF IntroInit
  <2>. QED BY <2>1, <2>2, <2>3, IntroConstants DEF IntroTypeOK
<1>2. ~ Concluded /\ analysis.outcome = "none" /\ markers = NoMarkers
  BY IntroConstants DEF IntroInit, Concluded
<1>3. RefreshFits
  BY <1>2, IntroConstants DEF IntroInit, RefreshFits
<1>4. \A w \in Detectors : exec[w].pc = "idle"
  BY IntroConstants DEF IntroInit
<1>. QED BY <1>1, <1>2, <1>3, <1>4 DEF IntroIInv, IntroInv

\* Nothing that the invariant speaks of changes but the executions.
LEMMA ExecutionStep ==
    ASSUME IntroIInv, UNCHANGED <<bytes, rows, refresh, analysis, markers, raced>>,
           job' \in JobRecord, exec' \in [Detectors -> Execution],
           \A w \in Detectors : exec'[w].pc = "record" =>
              Heard(exec'[w].of, exec'[w].read) /\ exec'[w].outcome \in {"matched", "no_match"}
    PROVE  IntroIInv'
  BY DEF IntroIInv, IntroTypeOK, IntroInv, Concluded, Heard, RefreshFits

\* An execution ends or goes on in another way than to record.
LEMMA ExecutionEnds ==
    ASSUME IntroIInv, NEW w \in Detectors, NEW pc \in {"done", "failed"}, Finish(w, pc)
    PROVE  /\ exec' \in [Detectors -> Execution]
           /\ \A v \in Detectors : exec'[v].pc = "record" => exec'[v] = exec[v]
<1> DEFINE e == [Resting EXCEPT !.pc = pc, !.attempt = exec[w].attempt]
<1>1. e \in Execution /\ e.pc = pc
  BY IntroConstants DEF Execution, IntroIInv, IntroTypeOK
<1>2. exec' = [exec EXCEPT ![w] = e]
  BY DEF Finish
<1>. HIDE DEF e
<1>. QED BY <1>1, <1>2 DEF IntroIInv, IntroTypeOK

LEMMA ExecutionRests ==
    ASSUME IntroIInv, NEW w \in Detectors, exec' = [exec EXCEPT ![w] = Resting]
    PROVE  /\ exec' \in [Detectors -> Execution]
           /\ \A v \in Detectors : exec'[v].pc = "record" => exec'[v] = exec[v]
  BY IntroConstants DEF IntroIInv, IntroTypeOK

\* A failure that is recorded leaves the markers, and holds a refresh back.
LEMMA FailureStep ==
    ASSUME IntroIInv, RecordFailure, UNCHANGED <<bytes, rows, markers, raced>>,
           job' \in JobRecord, exec' \in [Detectors -> Execution],
           \A v \in Detectors : exec'[v].pc = "record" => exec'[v] = exec[v]
    PROVE  IntroIInv'
<1>1. /\ analysis' = [outcome |-> "failed", of |-> -1, read |-> -1]
      /\ analysis' \in [outcome : Outcomes, of : Int, read : Int]
      /\ analysis'.outcome = "failed"
  BY DEF RecordFailure, Outcomes
<1>2. /\ refresh' \in [to : Int, locks : BOOLEAN, kept : BOOLEAN]
      /\ refresh'.to = refresh.to /\ refresh'.locks = refresh.locks
      /\ refresh = NoRefresh => refresh' = NoRefresh
      /\ refresh # NoRefresh => refresh' # NoRefresh
  <2>1. CASE refresh = NoRefresh
    BY <2>1 DEF RecordFailure, IntroIInv, IntroTypeOK
  <2>2. CASE refresh # NoRefresh
    <3>1. /\ refresh' = [refresh EXCEPT !.kept = TRUE] /\ refresh.to \in Int
          /\ refresh.to > rows /\ rows \in Nat
      BY <2>2 DEF RecordFailure, IntroIInv, IntroTypeOK, RefreshFits
    <3>2. /\ refresh' \in [to : Int, locks : BOOLEAN, kept : BOOLEAN]
          /\ refresh'.to = refresh.to /\ refresh'.locks = refresh.locks
      BY <3>1 DEF IntroIInv, IntroTypeOK
    <3>. QED BY <2>2, <3>1, <3>2, IntroConstants
  <2>. QED BY <2>1, <2>2
<1>3. IntroTypeOK'
  BY <1>1, <1>2 DEF IntroIInv, IntroTypeOK
<1>4. IntroInv'
  BY <1>1 DEF IntroIInv, IntroInv, Concluded
<1>5. RefreshFits'
  BY <1>1, <1>2 DEF IntroIInv, RefreshFits
<1>. QED BY <1>1, <1>3, <1>4, <1>5 DEF IntroIInv, Concluded, Heard

\* The rows move to what was read from the disk, and take what was derived from
\* the old ones with them, unless the refresh kept it.
LEMMA RowsStep ==
    ASSUME IntroIInv, UNCHANGED <<bytes, exec, job>>, rows' \in Nat, rows' <= bytes,
           refresh' = NoRefresh,
           \/ /\ mova_invalidate_intro_after_media_file_change
              /\ refresh = NoRefresh \/ rows' # rows
           \/ /\ refresh.kept /\ refresh # NoRefresh
              /\ markers' = IF refresh.locks THEN NoMarkers ELSE markers
              /\ UNCHANGED <<analysis, cooling, raced>>
    PROVE  IntroIInv'
<1>1. CASE rows' # rows /\ Invalidated
  BY <1>1, IntroConstants
     DEF Invalidated, IntroIInv, IntroTypeOK, IntroInv, Concluded, Heard, RefreshFits
<1>2. CASE rows' = rows /\ refresh = NoRefresh /\ UNCHANGED <<analysis, markers, cooling, raced>>
  BY <1>2 DEF IntroIInv, IntroTypeOK, IntroInv, Concluded, Heard, RefreshFits
<1>3. CASE /\ refresh.kept /\ refresh # NoRefresh
           /\ markers' = IF refresh.locks THEN NoMarkers ELSE markers
           /\ UNCHANGED <<analysis, cooling, raced>>
  <2>1. IntroTypeOK'
    BY <1>3, IntroConstants DEF IntroIInv, IntroTypeOK
  <2>2. IntroInv'
    BY <1>3 DEF IntroIInv, IntroInv, Concluded, RefreshFits
  <2>3. RefreshFits'
    BY IntroConstants DEF RefreshFits
  <2>. QED BY <1>3, <2>1, <2>2, <2>3 DEF IntroIInv, Concluded, Heard
<1>. QED BY <1>1, <1>2, <1>3 DEF mova_invalidate_intro_after_media_file_change

LEMMA IntroStep == IntroIInv /\ [IntroNext]_introVars => IntroIInv'
<1> SUFFICES ASSUME IntroIInv, [IntroNext]_introVars PROVE IntroIInv'
  OBVIOUS
<1>0. /\ exec \in [Detectors -> Execution] /\ job \in JobRecord
      /\ \A w \in Detectors : exec[w].pc = "record" =>
            Heard(exec[w].of, exec[w].read) /\ exec[w].outcome \in {"matched", "no_match"}
  BY DEF IntroIInv, IntroTypeOK
<1>1. CASE enqueue_season_intro_detection
  <2>1. job' \in JobRecord
    BY <1>1, IntroConstants DEF enqueue_season_intro_detection
  <2>. QED BY <1>0, <1>1, <2>1, ExecutionStep DEF enqueue_season_intro_detection
<1>2. ASSUME NEW w \in Detectors, claim_background_job(w)
      PROVE  IntroIInv'
  <2>1. CASE job' = Ended /\ UNCHANGED <<analysis, cooling, refresh, exec>>
    BY <1>0, <1>2, <2>1, IntroConstants, ExecutionStep DEF claim_background_job
  <2>2. CASE job' = Ended /\ RecordFailure /\ UNCHANGED exec
    BY <1>0, <1>2, <2>2, IntroConstants, FailureStep DEF claim_background_job
  <2>3. CASE /\ job' = [job EXCEPT !.status = "running", !.attempt = @ + 1, !.owner = w, !.live = TRUE]
             /\ exec' = [exec EXCEPT ![w] = [Resting EXCEPT !.pc = "claimed", !.attempt = job.attempt + 1]]
             /\ UNCHANGED <<analysis, cooling, refresh>>
    <3> DEFINE n == job.attempt + 1
               e == [Resting EXCEPT !.pc = "claimed", !.attempt = n]
    <3>1. n \in Nat
      BY <1>0 DEF JobRecord
    <3>. HIDE DEF n
    <3>2. e \in Execution /\ e.pc = "claimed"
      BY <3>1, IntroConstants DEF Execution
    <3>3. exec' = [exec EXCEPT ![w] = e]
      BY <2>3 DEF n
    <3>4. job' \in JobRecord
      <4>1. job' = [job EXCEPT !.status = "running", !.attempt = n, !.owner = w, !.live = TRUE]
        BY <2>3 DEF n
      <4>. QED BY <1>0, <3>1, <4>1 DEF JobRecord
    <3>. HIDE DEF e
    <3>. QED BY <1>0, <1>2, <2>3, <3>2, <3>3, <3>4, ExecutionStep DEF claim_background_job
  <2>. QED BY <1>2, <2>1, <2>2, <2>3 DEF claim_background_job
<1>3. ASSUME NEW w \in Detectors, list_intro_detection_inputs(w)
      PROVE  IntroIInv'
  <2> DEFINE e == [exec[w] EXCEPT !.pc = "loaded", !.of = rows]
  <2>1. exec' = [exec EXCEPT ![w] = e]
    BY <1>3 DEF list_intro_detection_inputs
  <2>2. rows \in Int
    BY DEF IntroIInv, IntroTypeOK
  <2>3. e \in Execution /\ e.pc = "loaded"
    BY <1>0, <2>2 DEF Execution
  <2>. HIDE DEF e
  <2>. QED BY <1>0, <1>3, <2>1, <2>3, ExecutionStep DEF list_intro_detection_inputs
<1>4. ASSUME NEW w \in Detectors, detect_repeated_intro(w)
      PROVE  IntroIInv'
  <2>1. PICK outcome \in {"matched", "no_match", "failed"} :
           IF outcome = "failed" \/ exec[w].of # rows THEN Finish(w, "failed")
           ELSE exec' = [exec EXCEPT ![w].pc = "record", ![w].read = bytes, ![w].outcome = outcome]
    BY <1>4 DEF detect_repeated_intro
  <2>2. CASE Finish(w, "failed")
    BY <1>0, <1>4, <2>2, ExecutionEnds, ExecutionStep DEF detect_repeated_intro
  <2>3. CASE ~ (outcome = "failed" \/ exec[w].of # rows)
    <3> DEFINE e == [exec[w] EXCEPT !.pc = "record", !.read = bytes, !.outcome = outcome]
    <3>0. exec' = [exec EXCEPT ![w] = e]
      BY <2>1, <2>3
    <3>1. bytes \in Int /\ rows <= bytes /\ outcome \in Outcomes
      BY DEF IntroIInv, IntroTypeOK, Outcomes
    <3>2. e \in Execution /\ e.of = rows /\ e.read = bytes /\ e.outcome = outcome
      BY <1>0, <2>3, <3>1 DEF Execution
    <3>3. Heard(e.of, e.read)
      BY <3>1, <3>2 DEF Heard
    <3>. HIDE DEF e
    <3>. QED BY <1>0, <1>4, <2>3, <3>0, <3>2, <3>3, ExecutionStep DEF detect_repeated_intro
  <2>. QED BY <2>1, <2>2, <2>3
<1>5. ASSUME NEW w \in Detectors, record_season_intro_analysis(w)
      PROVE  IntroIInv'
  <2> DEFINE found == [of |-> exec[w].of, read |-> exec[w].read]
  <2>0. exec[w] \in Execution /\ exec[w].pc = "record" /\ ~ refresh.locks
    BY <1>0, <1>5 DEF record_season_intro_analysis
  <2>1. CASE ~ (lock_intro_detection_fence(w) /\ SameSnapshot(w))
    BY <1>0, <1>5, <2>1, ExecutionEnds, ExecutionStep DEF record_season_intro_analysis
  <2>2. CASE lock_intro_detection_fence(w) /\ SameSnapshot(w)
    <3>1. /\ analysis' = [outcome |-> exec[w].outcome, of |-> found.of, read |-> found.read]
          /\ markers' = IF exec[w].outcome = "matched" THEN found ELSE NoMarkers
          /\ raced' = (refresh # NoRefresh)
          /\ refresh' = IF refresh = NoRefresh THEN refresh ELSE [refresh EXCEPT !.kept = TRUE]
          /\ Finish(w, "done")
          /\ UNCHANGED <<bytes, rows, job>>
          /\ exec[w].of = rows
      BY <1>5, <2>2 DEF record_season_intro_analysis, SameSnapshot
    <3>2. /\ found.of = rows /\ found.read \in Int /\ found \in [of : Int, read : Int]
          /\ found.read = exec[w].read /\ Heard(found.of, found.read)
          /\ exec[w].outcome \in {"matched", "no_match"}
      BY <1>0, <2>0, <3>1 DEF Execution
    <3>3. /\ analysis'.of = found.of /\ analysis'.read = found.read
          /\ analysis'.outcome = exec[w].outcome
          /\ analysis' \in [outcome : Outcomes, of : Int, read : Int]
          /\ found = [of |-> analysis'.of, read |-> analysis'.read]
      BY <2>0, <3>1, <3>2 DEF Outcomes
    <3>4. /\ refresh' \in [to : Int, locks : BOOLEAN, kept : BOOLEAN]
          /\ refresh'.to = refresh.to /\ ~ refresh'.locks
          /\ refresh = NoRefresh => refresh' = NoRefresh /\ ~ refresh'.kept
      BY <2>0, <3>1, IntroConstants DEF IntroIInv, IntroTypeOK
    <3>5. /\ exec' \in [Detectors -> Execution]
          /\ \A v \in Detectors : exec'[v].pc = "record" => exec'[v] = exec[v]
      BY <3>1, ExecutionEnds
    <3>. HIDE DEF found
    <3>6. rows \in Nat /\ bytes \in Nat /\ rows <= bytes
      BY DEF IntroIInv, IntroTypeOK
    <3>7. IntroInv'
      <4>1. rows = bytes => found.read = bytes
        BY <3>2, <3>6 DEF Heard
      <4>2. analysis'.outcome = "matched" => markers' = [of |-> analysis'.of, read |-> analysis'.read]
        BY <3>1, <3>3
      <4>. QED BY <3>1, <3>2, <3>3, <4>1, <4>2 DEF IntroInv
    <3>8. IntroTypeOK'
      BY <3>1, <3>2, <3>3, <3>4, <3>5, <3>6, IntroConstants DEF IntroIInv, IntroTypeOK
    <3>9. RefreshFits'
      BY <3>1, <3>4, <3>6 DEF IntroIInv, RefreshFits
    <3>10. /\ analysis'.of <= analysis'.read /\ analysis'.read <= bytes'
           /\ markers' # NoMarkers => markers'.of <= markers'.read /\ markers'.read <= bytes'
      BY <3>1, <3>2, <3>3 DEF Heard
    <3>. QED BY <1>0, <3>1, <3>5, <3>7, <3>8, <3>9, <3>10 DEF IntroIInv, Heard
  <2>. QED BY <2>1, <2>2
<1>6. ASSUME NEW w \in Detectors, complete_background_job(w)
      PROVE  IntroIInv'
  BY <1>0, <1>6, IntroConstants, ExecutionRests, ExecutionStep DEF complete_background_job
<1>7. ASSUME NEW w \in Detectors, retry_or_fail_background_job(w)
      PROVE  IntroIInv'
  <2>1. /\ exec' = [exec EXCEPT ![w] = Resting] /\ UNCHANGED <<bytes, rows, markers, raced>>
        /\ \/ job' = job /\ UNCHANGED <<analysis, cooling, refresh>>
           \/ job' = Ended /\ UNCHANGED <<analysis, cooling, refresh>>
           \/ job' = Ended /\ RecordFailure
           \/ /\ job' = [job EXCEPT !.status = "pending", !.owner = NoWorker, !.live = FALSE]
              /\ UNCHANGED <<analysis, cooling, refresh>>
    BY <1>7 DEF retry_or_fail_background_job
  <2>2. [job EXCEPT !.status = "pending", !.owner = NoWorker, !.live = FALSE] \in JobRecord
    BY <1>0 DEF JobRecord
  <2>3. job' \in JobRecord
    BY <1>0, <2>1, <2>2, IntroConstants
  <2>. QED BY <1>0, <2>1, <2>3, ExecutionRests, ExecutionStep, FailureStep
<1>8. ASSUME NEW w \in Detectors, Crash(w)
      PROVE  IntroIInv'
  BY <1>0, <1>8, ExecutionRests, ExecutionStep DEF Crash
<1>9. CASE \/ EnqueueScanBegin \/ ClaimScan \/ EndScan \/ CooldownEnds \/ UNCHANGED introVars
  BY <1>0, <1>9, ExecutionStep
     DEF EnqueueScanBegin, ClaimScan, EndScan, CooldownEnds, introVars
<1>10. CASE EnqueueScanCommit \/ LeaseExpires
  <2>1. /\ [job EXCEPT !.status = "cancel_requested"] \in JobRecord
        /\ [job EXCEPT !.live = FALSE] \in JobRecord
    BY <1>0 DEF JobRecord
  <2>2. job' \in JobRecord
    BY <1>0, <1>10, <2>1, IntroConstants DEF EnqueueScanCommit, LeaseExpires
  <2>. QED BY <1>0, <1>10, <2>2, ExecutionStep DEF EnqueueScanCommit, LeaseExpires
<1>11. CASE ScanCommits
  BY <1>11, RowsStep DEF ScanCommits, IntroIInv, IntroTypeOK
<1>12. CASE RefreshBegin
  <2>0. bytes \in Int
    BY DEF IntroIInv, IntroTypeOK
  <2>1. /\ refresh' \in [to : Int, locks : BOOLEAN, kept : BOOLEAN]
        /\ refresh'.to = bytes /\ ~ refresh'.kept
        /\ refresh'.locks <=> markers # NoMarkers
    BY <1>12, <2>0 DEF RefreshBegin
  <2>3. /\ bytes # rows
        /\ UNCHANGED <<bytes, rows, analysis, cooling, markers, job, exec, raced>>
    BY <1>12 DEF RefreshBegin
  <2>2. RefreshFits'
    BY <2>1, <2>3 DEF RefreshFits, IntroIInv, IntroTypeOK
  <2>. QED BY <2>1, <2>2, <2>3 DEF IntroIInv, IntroTypeOK, IntroInv, Concluded, Heard
<1>13. CASE RefreshCommit
  <2>1. rows' \in Nat /\ rows' <= bytes /\ rows' # rows
    BY <1>13 DEF RefreshCommit, IntroIInv, IntroTypeOK, RefreshFits
  <2>. QED BY <1>13, <2>1, RowsStep DEF RefreshCommit
<1>14. CASE FilesChange
  BY <1>14
     DEF FilesChange, IntroIInv, IntroTypeOK, IntroInv, Concluded, Heard, RefreshFits,
         Execution, Outcomes
<1>. QED BY <1>1, <1>2, <1>3, <1>4, <1>5, <1>6, <1>7, <1>8, <1>9, <1>10, <1>11, <1>12, <1>13, <1>14
         DEF IntroNext, Execute, ScanStep

\* Players skip by markers of the files that the rows describe, and never by
\* what was heard in older ones, whatever crashes, scans and refreshes come in
\* between; only a refresh that raced the recording is exempt
\* (record_season_intro_analysis, mova_invalidate_season_intro_analysis).
THEOREM IntrosAreOfTheirFiles == IntroSpec => []IntroInv
<1>1. IntroIInv => IntroInv
  BY DEF IntroIInv
<1>. QED BY IntroInitially, IntroStep, <1>1, PTL DEF IntroSpec

-----------------------------------------------------------------------------
(* The bounded caches.                                                     *)

\* A sequence lists a set: every element once.
Lists(q, D) ==
    /\ q \in Seq(D)
    /\ \A x \in D : \E i \in 1 .. Len(q) : q[i] = x
    /\ \A i, j \in 1 .. Len(q) : q[i] = q[j] => i = j

LEMMA AppendLists ==
    ASSUME NEW D, NEW q, Lists(q, D), NEW k, k \notin D
    PROVE  Lists(Append(q, k), D \cup {k}) /\ Len(Append(q, k)) = Len(q) + 1
<1> DEFINE n == Len(q)
           r == Append(q, k)
           T == D \cup {k}
<1>1. q \in Seq(T) /\ n \in Nat /\ k \in T /\ \A i \in 1 .. n : q[i] \in D
  BY DEF Lists
<1>2. r \in Seq(T) /\ Len(r) = n + 1 /\ r[n + 1] = k /\ \A i \in 1 .. n : r[i] = q[i]
  BY <1>1
<1>. HIDE DEF n, r
<1>3. ASSUME NEW x \in T PROVE \E i \in 1 .. n + 1 : r[i] = x
  <2>1. CASE x = k
    BY <1>1, <1>2, <2>1
  <2>2. CASE x \in D
    <3>1. PICK i \in 1 .. n : q[i] = x
      BY <2>2 DEF Lists, n
    <3>2. i \in 1 .. n + 1 /\ r[i] = x
      BY <1>1, <1>2, <3>1
    <3>. QED BY <3>2
  <2>. QED BY <2>1, <2>2
<1>4. ASSUME NEW i \in 1 .. n + 1, NEW j \in 1 .. n + 1, r[i] = r[j] PROVE i = j
  <2>1. CASE i \in 1 .. n /\ j \in 1 .. n
    BY <1>2, <1>4, <2>1 DEF Lists, n
  <2>2. CASE i = n + 1 /\ j \in 1 .. n
    BY <1>1, <1>2, <1>4, <2>2
  <2>3. CASE j = n + 1 /\ i \in 1 .. n
    BY <1>1, <1>2, <1>4, <2>3
  <2>4. i \in 1 .. n \/ i = n + 1
    BY <1>1
  <2>5. j \in 1 .. n \/ j = n + 1
    BY <1>1
  <2>. QED BY <2>1, <2>2, <2>3, <2>4, <2>5
<1>. HIDE DEF T
<1>5. Lists(r, T)
  BY <1>2, <1>3, <1>4 DEF Lists
<1>. QED BY <1>2, <1>5 DEF r, n, T

LEMMA TailLists ==
    ASSUME NEW D, NEW q, Lists(q, D), q # <<>>
    PROVE  Lists(Tail(q), D \ {Head(q)}) /\ Len(Tail(q)) = Len(q) - 1
<1> DEFINE n == Len(q)
           r == Tail(q)
           T == D \ {Head(q)}
<1>1. n \in Nat \ {0} /\ Head(q) = q[1] /\ r \in Seq(D) /\ Len(r) = n - 1
      /\ \A i \in 1 .. n - 1 : r[i] = q[i + 1]
  BY DEF Lists
<1>2. ASSUME NEW i \in 1 .. n, NEW j \in 1 .. n, q[i] = q[j] PROVE i = j
  BY <1>2 DEF Lists
<1>3. \A i \in 1 .. n : q[i] \in D
  BY DEF Lists
<1>. HIDE DEF n, r
<1>4. ASSUME NEW i \in 1 .. n - 1 PROVE r[i] \in T
  <2>1. i + 1 \in 1 .. n /\ 1 \in 1 .. n /\ i + 1 # 1
    BY <1>1
  <2>. QED BY <1>1, <1>2, <1>3, <2>1
<1>5. r \in Seq(T)
  <2>1. r \in [1 .. n - 1 -> D] /\ n - 1 \in Nat
    BY <1>1
  <2>. HIDE DEF T
  <2>2. r \in [1 .. n - 1 -> T]
    BY <1>4, <2>1
  <2>. QED BY <2>1, <2>2
<1>6. ASSUME NEW x \in T PROVE \E i \in 1 .. n - 1 : r[i] = x
  <2>1. PICK i \in 1 .. n : q[i] = x
    BY DEF Lists, n
  <2>2. i # 1
    BY <1>1, <2>1
  <2>3. i - 1 \in 1 .. n - 1 /\ (i - 1) + 1 = i
    BY <1>1, <2>2
  <2>4. r[i - 1] = x
    BY <1>1, <2>1, <2>3
  <2>. QED BY <2>3, <2>4
<1>7. ASSUME NEW i \in 1 .. n - 1, NEW j \in 1 .. n - 1, r[i] = r[j] PROVE i = j
  <2>1. i + 1 \in 1 .. n /\ j + 1 \in 1 .. n
    BY <1>1
  <2>2. i + 1 = j + 1
    BY <1>1, <1>2, <1>7, <2>1
  <2>. QED BY <1>1, <2>2
<1>. HIDE DEF T
<1>8. Lists(r, T)
  BY <1>1, <1>5, <1>6, <1>7 DEF Lists
<1>. QED BY <1>1, <1>8 DEF r, n, T

LEMMA ListCounts ==
    ASSUME NEW D, NEW q, Lists(q, D)
    PROVE  Cardinality(D) = Len(q) /\ Range(q) = D
<1> DEFINE n == Len(q)
<1>1. n \in Nat /\ q \in [1 .. n -> D] /\ DOMAIN q = 1 .. n
  BY DEF Lists
<1>2. \A x \in D : \E i \in 1 .. n : q[i] = x
  BY DEF Lists
<1>3. \A i, j \in 1 .. n : q[i] = q[j] => i = j
  BY DEF Lists
<1>. HIDE DEF n
<1>4. q \in Bijection(1 .. n, D)
  BY <1>1, <1>2, <1>3 DEF Bijection, Injection, Surjection, IsInjective
<1>5. ExistsBijection(1 .. n, D)
  BY <1>4 DEF ExistsBijection
<1>6. IsFiniteSet(1 .. n) /\ Cardinality(1 .. n) = n
  BY <1>1, FS_Interval
<1>7. Cardinality(D) = n
  BY <1>5, <1>6, FS_Bijection
<1>8. Range(q) = D
  BY <1>1, <1>2 DEF Range
<1>. QED BY <1>7, <1>8 DEF n

\* The order of a cache lists its keys.
Ordered(c) == Lists(c.order, DOMAIN c.val) /\ Len(c.order) <= Capacity

LEMMA OrderedIsConsistent ==
    ASSUME NEW c, Ordered(c)
    PROVE  Consistent(c)
<1>1. Range(c.order) = DOMAIN c.val
  BY ListCounts DEF Ordered
<1>2. DOMAIN c.order = 1 .. Len(c.order)
  BY DEF Ordered, Lists
<1>. QED BY <1>1, <1>2 DEF Ordered, Lists, Consistent

\* Inserting keeps a cache in order and within its capacity (BoundedCache::insert).
LEMMA InsertKeepsOrder ==
    ASSUME NEW c, NEW k, NEW v, Ordered(c)
    PROVE  Ordered(Insert(c, k, v))
<1> DEFINE o == c.order
           D == DOMAIN c.val
           r == Insert(c, k, v)
<1>1. /\ Lists(o, D) /\ Len(o) \in Nat /\ Len(o) <= Capacity /\ Cardinality(D) = Len(o)
      /\ Len(o) # 0 => o # <<>>
  <2>1. Lists(o, D) /\ Len(o) <= Capacity
    BY DEF Ordered
  <2>2. Cardinality(D) = Len(o)
    BY <2>1, ListCounts
  <2>3. Len(o) \in Nat /\ (Len(o) # 0 => o # <<>>)
    BY <2>1 DEF Lists
  <2>. QED BY <2>1, <2>2, <2>3
<1>2. Capacity \in Nat \ {0}
  BY EnrichmentAssumption
<1>3. CASE k \in D
  <2>1. r.order = o /\ DOMAIN r.val = D
    BY <1>3 DEF Insert, Cached
  <2>. QED BY <1>1, <2>1 DEF Ordered
<1>4. CASE k \notin D /\ Len(o) # Capacity
  <2>1. r.order = Append(o, k) /\ DOMAIN r.val = D \cup {k}
    BY <1>1, <1>4 DEF Insert, Cached
  <2>. HIDE DEF o, D, r
  <2>2. Lists(Append(o, k), D \cup {k}) /\ Len(Append(o, k)) = Len(o) + 1
    BY <1>1, <1>4, AppendLists
  <2>3. Len(o) + 1 <= Capacity
    BY <1>1, <1>2, <1>4
  <2>. QED BY <2>1, <2>2, <2>3 DEF Ordered, r
<1>5. CASE k \notin D /\ Len(o) = Capacity
  <2>1. /\ r.order = Append(Tail(o), k)
        /\ DOMAIN r.val = (D \ {Head(o)}) \cup {k}
    BY <1>1, <1>5 DEF Insert, Cached
  <2>. HIDE DEF o, D, r
  <2>2. Lists(Tail(o), D \ {Head(o)}) /\ Len(Tail(o)) = Len(o) - 1
    BY <1>1, <1>2, <1>5, TailLists
  <2>3. /\ Lists(Append(Tail(o), k), (D \ {Head(o)}) \cup {k})
        /\ Len(Append(Tail(o), k)) = Len(Tail(o)) + 1
    BY <1>5, <2>2, AppendLists
  <2>4. (Len(o) - 1) + 1 <= Capacity
    BY <1>1, <1>2
  <2>. QED BY <2>1, <2>2, <2>3, <2>4 DEF Ordered, r
<1>. QED BY <1>3, <1>4, <1>5

LEMMA EmptyCacheOrdered == Ordered(EmptyCache) /\ DOMAIN EmptyCache.val = {}
<1>1. EmptyCache.order = <<>> /\ DOMAIN EmptyCache.val = {}
  BY DEF EmptyCache
<1>. QED BY <1>1, EnrichmentAssumption DEF Ordered, Lists

\* What a cache knows after an insertion.
LEMMA InsertKnows ==
    ASSUME NEW c, NEW k, NEW v
    PROVE  /\ DOMAIN Insert(c, k, v).val \subseteq DOMAIN c.val \cup {k}
           /\ Insert(c, k, v).val[k] = v
           /\ \A x \in DOMAIN Insert(c, k, v).val : x # k => Insert(c, k, v).val[x] = c.val[x]
  BY DEF Insert

-----------------------------------------------------------------------------
(* What a group is looked up by, and what it is enriched with.             *)

LookupsOf(f) ==
    {Lookup(id, title, year) : id \in {None, f.hint, f.id}, title \in {f.title, f.plain, f.container},
                               year \in {f.year, f.containerYear}}

LEMMA PushedCandidates ==
    ASSUME NEW S, NEW cs \in Seq(S), NEW title, NEW year, Lookup(None, title, year) \in S
    PROVE  push_metadata_lookup_candidate(cs, title, year) \in Seq(S)
  BY DEF push_metadata_lookup_candidate

LEMMA CandidatesAreLookups ==
    ASSUME NEW f
    PROVE  metadata_lookup_candidates(f) \in Seq(LookupsOf(f))
<1> DEFINE S == LookupsOf(f)
           one == push_metadata_lookup_candidate(<<>>, f.title, f.year)
           two == push_metadata_lookup_candidate(one, f.plain, f.year)
<1>1. /\ Lookup(f.hint, f.title, f.year) \in S /\ Lookup(f.id, f.title, f.year) \in S
      /\ Lookup(None, f.title, f.year) \in S /\ Lookup(None, f.plain, f.year) \in S
      /\ Lookup(None, f.container, f.containerYear) \in S
  BY DEF LookupsOf
<1>. HIDE DEF S
<1>2. one \in Seq(S)
  <2>1. <<>> \in Seq(S)
    OBVIOUS
  <2>. QED BY <1>1, <2>1, PushedCandidates
<1>3. two \in Seq(S)
  <2>. HIDE DEF one
  <2>. QED BY <1>1, <1>2, PushedCandidates
<1>4. push_metadata_lookup_candidate(two, f.container, f.containerYear) \in Seq(S)
  <2>. HIDE DEF two
  <2>. QED BY <1>1, <1>3, PushedCandidates
<1>5. /\ <<Lookup(f.hint, f.title, f.year)>> \in Seq(S)
      /\ <<Lookup(f.id, f.title, f.year)>> \in Seq(S)
  BY <1>1
<1>6. metadata_lookup_candidates(f) \in Seq(S)
  BY <1>3, <1>4, <1>5 DEF metadata_lookup_candidates
<1>. QED BY <1>6 DEF S

\* The candidates before the i-th are unknown to the provider.
UnknownBefore(cs, i) == \A j \in 1 .. i - 1 : Asked(cs[j]) = NoAnswer

\* An answer is that of the first known candidate, or there is none.
LEMMA AnswerOfFirstKnown ==
    ASSUME NEW g, NEW i \in DOMAIN metadata_lookup_candidates(Files[g]),
           UnknownBefore(metadata_lookup_candidates(Files[g]), i),
           Asked(metadata_lookup_candidates(Files[g])[i]) # NoAnswer
    PROVE  FirstAnswer(g) = Asked(metadata_lookup_candidates(Files[g])[i])
<1> DEFINE cs == metadata_lookup_candidates(Files[g])
           known == {j \in DOMAIN cs : Asked(cs[j]) # NoAnswer}
<1>1. DOMAIN cs = 1 .. Len(cs) /\ Len(cs) \in Nat
  BY CandidatesAreLookups
<1>2. FirstAnswer(g) = IF known = {} THEN NoAnswer
                       ELSE Asked(cs[CHOOSE k \in known : \A j \in known : k <= j])
  BY DEF FirstAnswer
<1>. HIDE DEF cs
<1>3. i \in known /\ \A j \in known : i <= j
  <2>1. i \in known
    BY DEF cs
  <2>2. ASSUME NEW j \in known, ~ (i <= j) PROVE FALSE
    <3>1. j \in 1 .. i - 1 /\ Asked(cs[j]) # NoAnswer
      BY <1>1, <2>1, <2>2
    <3>. QED BY <3>1 DEF UnknownBefore, cs
  <2>. QED BY <2>1, <2>2
<1>4. \A k \in known : k <= i => k = i
  BY <1>1, <1>3
<1>. HIDE DEF known
<1>5. (CHOOSE k \in known : \A j \in known : k <= j) = i
  BY <1>3, <1>4
<1>. QED BY <1>2, <1>3, <1>5 DEF cs

LEMMA NoAnswerIfNoneKnown ==
    ASSUME NEW g,
           \A j \in DOMAIN metadata_lookup_candidates(Files[g]) :
              Asked(metadata_lookup_candidates(Files[g])[j]) = NoAnswer
    PROVE  FirstAnswer(g) = NoAnswer
  BY DEF FirstAnswer

Fields == {"pc", "group", "kind", "i", "key", "meta", "asked", "left", "got"}

\* A hinted id may turn out to be unknown.
BelongsTo(meta, g) ==
    \/ meta = FirstAnswer(g)
    \/ meta = NoAnswer /\ Files[g].hint # None

Asks(r) == r.pc \in {"check", "wait", "request"}

\* A worker asks for the metadata of a candidate, none before which is known,
\* under that candidate's key; afterwards it has the answer of its group.
WorkFits(r) ==
    /\ DOMAIN r = Fields
    /\ r.group \in Groups /\ r.kind \in Kinds
    /\ r.pc \in {"check", "wait", "request", "art", "artwait", "download"}
    /\ Asks(r) => r.asked
    /\ IF Asks(r) /\ r.kind = "metadata"
       THEN LET cs == metadata_lookup_candidates(Files[r.group]) IN
            /\ r.i \in DOMAIN cs /\ UnknownBefore(cs, r.i)
            /\ r.key = canonical_metadata_request_key(Files[r.group].type, cs[r.i])
       ELSE r.asked => BelongsTo(r.meta, r.group)

Requests ==
    /\ \A w \in Workers : work[w].pc = "request" =>
          Request(w) \in locked /\ ~ Cached(cache[work[w].kind], work[w].key)
    /\ \A v, w \in Workers :
          v # w /\ work[v].pc = "request" /\ work[w].pc = "request" => Request(v) # Request(w)

EnrichIInv ==
    /\ DOMAIN work = Workers /\ DOMAIN results = Groups /\ DOMAIN cache = Kinds
    /\ todo \subseteq Groups
    /\ \A w \in Workers : work[w] = Idle \/ WorkFits(work[w])
    /\ Requests
    /\ (\A k \in Kinds : Ordered(cache[k])) /\ Ordered(memo)
    /\ \A k \in DOMAIN cache["metadata"].val : cache["metadata"].val[k] = Answers[<<k[2], k[3]>>]
    /\ \A g \in Groups : results[g].ok /\ results[g].asked => BelongsTo(results[g].meta, g)

LEMMA EnrichInvariants == EnrichIInv => RequestsCollapse /\ AnswersBelongToTheGroup
<1> SUFFICES ASSUME EnrichIInv PROVE RequestsCollapse /\ AnswersBelongToTheGroup
  OBVIOUS
<1>1. CachesStayBounded
  BY OrderedIsConsistent DEF EnrichIInv, CachesStayBounded
<1>2. RequestsCollapse
  BY <1>1 DEF EnrichIInv, Requests, RequestsCollapse
<1>3. AnswersBelongToTheGroup
  BY DEF EnrichIInv, AnswersBelongToTheGroup, BelongsTo
<1>. QED BY <1>2, <1>3

LEMMA EnrichInitially == EnrichInit \/ EnrichIdle => EnrichIInv
<1> SUFFICES ASSUME EnrichInit \/ EnrichIdle PROVE EnrichIInv
  OBVIOUS
<1>1. /\ cache = [k \in Kinds |-> EmptyCache] /\ memo = EmptyCache
      /\ work = [w \in Workers |-> Idle] /\ todo \subseteq Groups
      /\ results = [g \in Groups |-> NoResult]
  BY DEF EnrichInit, EnrichIdle
<1>2. \A w \in Workers : work[w] = Idle /\ work[w].pc = "idle"
  BY <1>1 DEF Idle
<1>3. Requests
  BY <1>2 DEF Requests
<1>4. \A g \in Groups : ~ results[g].asked
  BY <1>1 DEF NoResult
<1>5. "metadata" \in Kinds
  BY DEF Kinds
<1>. QED BY <1>1, <1>2, <1>3, <1>4, <1>5, EmptyCacheOrdered DEF EnrichIInv

\* A candidate's key leads to the candidate's answer (canonical_metadata_request_key).
LEMMA KeyOfAnswer ==
    ASSUME NEW type, NEW l
    PROVE  LET k == canonical_metadata_request_key(type, l) IN Asked(l) = Answers[<<k[2], k[3]>>]
  BY DEF canonical_metadata_request_key, Asked

LEMMA SameStage ==
    ASSUME NEW r, WorkFits(r), NEW pc,
           \/ Asks(r) /\ pc \in {"check", "wait", "request"}
           \/ ~ Asks(r) /\ pc \in {"art", "artwait", "download"}
    PROVE  WorkFits([r EXCEPT !.pc = pc])
<1> DEFINE q == [r EXCEPT !.pc = pc]
<1>1. /\ DOMAIN q = Fields /\ q.pc = pc /\ q.group = r.group /\ q.kind = r.kind /\ q.i = r.i
      /\ q.key = r.key /\ q.meta = r.meta /\ q.asked = r.asked
  BY DEF WorkFits, Fields
<1>. HIDE DEF q
<1>2. WorkFits(q)
  BY <1>1 DEF WorkFits, Asks
<1>. QED BY <1>2 DEF q

LEMMA ArtworkFits ==
    ASSUME NEW w, WorkFits(work[w]), NEW meta, NEW outline,
           work[w].asked => BelongsTo(meta, work[w].group)
    PROVE  WorkFits(Artwork(w, meta, outline)) /\ Artwork(w, meta, outline).pc = "art"
<1> DEFINE q == Artwork(w, meta, outline)
<1>1. /\ DOMAIN q = Fields /\ q.pc = "art" /\ q.group = work[w].group /\ q.kind = work[w].kind
      /\ q.meta = meta /\ q.asked = work[w].asked
  BY DEF WorkFits, Fields, Artwork
<1>. HIDE DEF q
<1>2. WorkFits(q)
  BY <1>1 DEF WorkFits, Asks
<1>. QED BY <1>1, <1>2 DEF q

\* Wherever an answer takes a worker, it fits the group.
LEMMA ResolvedFits ==
    ASSUME NEW w, WorkFits(work[w]), Asks(work[w]), NEW v,
           work[w].kind = "metadata" => v = Asked(Candidates(w)[work[w].i])
    PROVE  WorkFits(Resolved(w, v)) /\ Resolved(w, v).pc # "request"
<1> DEFINE r == work[w]
           g == r.group
           cs == metadata_lookup_candidates(Files[g])
<1>0. /\ DOMAIN r = Fields /\ g \in Groups /\ r.asked /\ Candidates(w) = cs /\ F(w) = Files[g]
  BY DEF WorkFits, Candidates, F
<1>1. CASE r.kind # "metadata"
  BY <1>0, <1>1, ArtworkFits DEF Resolved, WorkFits
<1>2. CASE r.kind = "metadata"
  <2>0. /\ r.i \in DOMAIN cs /\ UnknownBefore(cs, r.i) /\ v = Asked(cs[r.i])
        /\ DOMAIN cs = 1 .. Len(cs) /\ Len(cs) \in Nat
    BY <1>0, <1>2, CandidatesAreLookups DEF WorkFits
  <2>1. CASE v # NoAnswer
    <3>1. BelongsTo(v, g)
      BY <1>0, <2>0, <2>1, AnswerOfFirstKnown DEF BelongsTo
    <3>2. CASE F(w).type # "series"
      BY <1>0, <1>2, <2>1, <3>1, <3>2, ArtworkFits DEF Resolved
    <3>3. CASE F(w).type = "series"
      <4> DEFINE q == Resolved(w, v)
      <4>1. q = [r EXCEPT !.pc = "check", !.kind = "complete", !.meta = v,
                          !.key = series_outline_request_key(F(w), v)]
        BY <1>2, <2>1, <3>3 DEF Resolved
      <4>2. /\ DOMAIN q = Fields /\ q.pc = "check" /\ q.group = g /\ q.kind = "complete"
            /\ q.meta = v /\ q.asked = r.asked
        BY <1>0, <4>1 DEF Fields
      <4>. HIDE DEF q
      <4>3. WorkFits(q)
        BY <1>0, <3>1, <4>2 DEF WorkFits, Asks, Kinds
      <4>. QED BY <4>2, <4>3 DEF q
    <3>. QED BY <3>2, <3>3
  <2>2. CASE v = NoAnswer /\ ~ (r.i < Len(cs))
    <3>1. ASSUME NEW j \in DOMAIN cs PROVE Asked(cs[j]) = NoAnswer
      <4>1. j = r.i \/ j \in 1 .. r.i - 1
        BY <2>0, <2>2
      <4>. QED BY <2>0, <2>2, <4>1 DEF UnknownBefore
    <3>2. BelongsTo(NoAnswer, g)
      BY <3>1, NoAnswerIfNoneKnown DEF BelongsTo
    <3>. QED BY <1>0, <1>2, <2>2, <3>2, ArtworkFits DEF Resolved
  <2>3. CASE v = NoAnswer /\ r.i < Len(cs)
    <3> DEFINE q == Resolved(w, v)
               n == r.i + 1
    <3>1. q = [r EXCEPT !.pc = "check", !.i = n,
                        !.key = canonical_metadata_request_key(Files[g].type, cs[n])]
      BY <1>0, <1>2, <2>3 DEF Resolved
    <3>2. /\ DOMAIN q = Fields /\ q.pc = "check" /\ q.group = g /\ q.kind = "metadata"
          /\ q.i = n /\ q.key = canonical_metadata_request_key(Files[g].type, cs[n])
          /\ q.asked = r.asked
      BY <1>0, <1>2, <3>1 DEF Fields
    <3>3. n \in DOMAIN cs /\ UnknownBefore(cs, n)
      <4>1. n \in DOMAIN cs /\ \A j \in 1 .. n - 1 : j = r.i \/ j \in 1 .. r.i - 1
        BY <2>0, <2>3
      <4>. QED BY <2>0, <2>3, <4>1 DEF UnknownBefore
    <3>. HIDE DEF q, n
    <3>4. WorkFits(q)
      BY <1>0, <3>2, <3>3 DEF WorkFits, Asks, Kinds
    <3>. QED BY <3>2, <3>4 DEF q
  <2>. QED BY <2>1, <2>2, <2>3
<1>. QED BY <1>1, <1>2

\* What is cached under a worker's key is the answer to its candidate.
LEMMA CachedAnswerFits ==
    ASSUME EnrichIInv, NEW w \in Workers, WorkFits(work[w]), Asks(work[w]),
           Cached(cache[work[w].kind], work[w].key)
    PROVE  LET v == cache[work[w].kind].val[work[w].key] IN
           WorkFits(Resolved(w, v)) /\ Resolved(w, v).pc # "request"
<1> DEFINE v == cache[work[w].kind].val[work[w].key]
<1>1. ASSUME work[w].kind = "metadata" PROVE v = Asked(Candidates(w)[work[w].i])
  <2>1. work[w].key = canonical_metadata_request_key(F(w).type, Candidates(w)[work[w].i])
    BY <1>1 DEF WorkFits, Candidates, F
  <2>2. v = Answers[<<work[w].key[2], work[w].key[3]>>]
    BY <1>1 DEF EnrichIInv, Cached
  <2>. HIDE DEF v
  <2>. QED BY <2>1, <2>2, KeyOfAnswer
<1>. HIDE DEF v
<1>2. WorkFits(Resolved(w, v)) /\ Resolved(w, v).pc # "request"
  BY <1>1, ResolvedFits
<1>. QED BY <1>2 DEF v

\* A step of one worker that asks for nothing new.
LEMMA WorkerStep ==
    ASSUME EnrichIInv, NEW w \in Workers, NEW r, work' = [work EXCEPT ![w] = r],
           r = Idle \/ WorkFits(r), r.pc # "request", todo' \subseteq todo,
           UNCHANGED cache, Ordered(memo'),
           \A v \in Workers : v # w /\ work[v].pc = "request" => Request(v) \in locked',
           DOMAIN results' = Groups,
           \A g \in Groups : results'[g].ok /\ results'[g].asked => BelongsTo(results'[g].meta, g)
    PROVE  EnrichIInv'
<1>1. /\ DOMAIN work' = Workers /\ work'[w] = r
      /\ \A v \in Workers : v # w => work'[v] = work[v]
  BY DEF EnrichIInv
<1>2. Requests'
  <2>1. ASSUME NEW v \in Workers, work'[v].pc = "request"
        PROVE  v # w /\ work'[v] = work[v] /\ Request(v)' = Request(v)
    BY <1>1, <2>1 DEF Request
  <2>2. ASSUME NEW v \in Workers, work'[v].pc = "request"
        PROVE  Request(v)' \in locked' /\ ~ Cached(cache'[work'[v].kind], work'[v].key)
    BY <2>1, <2>2 DEF EnrichIInv, Requests
  <2>3. ASSUME NEW v \in Workers, NEW u \in Workers, v # u, work'[v].pc = "request", work'[u].pc = "request"
        PROVE  Request(v)' # Request(u)'
    BY <2>1, <2>3 DEF EnrichIInv, Requests
  <2>. QED BY <2>2, <2>3 DEF Requests
<1>3. \A v \in Workers : work'[v] = Idle \/ WorkFits(work'[v])
  BY <1>1 DEF EnrichIInv
<1>. QED BY <1>1, <1>2, <1>3 DEF EnrichIInv

LEMMA StartFits ==
    ASSUME EnrichIInv, NEW w \in Workers, NEW g \in todo, StartGroup(w, g)
    PROVE  EnrichIInv'
<1> DEFINE f == Files[g]
           cs == metadata_lookup_candidates(f)
           asked == group_needs_remote_metadata(f)
           first == [pc |-> "check", group |-> g, kind |-> "metadata", i |-> 1,
                     key |-> canonical_metadata_request_key(f.type, cs[1]),
                     meta |-> NoAnswer, asked |-> TRUE, left |-> <<>>, got |-> <<>>]
           none == [pc |-> "art", group |-> g, kind |-> "metadata", i |-> 1, key |-> <<>>,
                    meta |-> NoAnswer, asked |-> asked, left |-> Sources(f, NoAnswer, NoAnswer), got |-> <<>>]
           r == IF asked /\ cs # <<>> THEN first ELSE none
<1>0. /\ work' = [work EXCEPT ![w] = r] /\ todo' \subseteq todo
      /\ UNCHANGED <<cache, memo, locked, results>>
  BY DEF StartGroup, caches
<1>1. g \in Groups /\ cs \in Seq(LookupsOf(f))
  BY CandidatesAreLookups DEF EnrichIInv
<1>2. ASSUME cs # <<>> PROVE WorkFits(first) /\ first.pc # "request"
  <2>1. 1 \in DOMAIN cs /\ UnknownBefore(cs, 1)
    BY <1>1, <1>2 DEF UnknownBefore
  <2>. QED BY <1>1, <2>1 DEF WorkFits, Asks, Fields, Kinds
<1>3. ASSUME ~ (asked /\ cs # <<>>) PROVE WorkFits(none) /\ none.pc # "request"
  <2>1. ASSUME asked PROVE BelongsTo(NoAnswer, g)
    <3>1. DOMAIN cs = {}
      BY <1>3, <2>1
    <3>. QED BY <3>1, NoAnswerIfNoneKnown DEF BelongsTo
  <2>2. asked => BelongsTo(NoAnswer, g)
    BY <2>1
  <2>. HIDE DEF asked
  <2>3. /\ DOMAIN none = Fields /\ none.group = g /\ none.kind = "metadata" /\ none.pc = "art"
        /\ none.asked = asked /\ none.meta = NoAnswer
    BY DEF Fields
  <2>. HIDE DEF none
  <2>. QED BY <1>1, <2>2, <2>3 DEF WorkFits, Asks, Kinds
<1>4. WorkFits(r) /\ r.pc # "request"
  BY <1>2, <1>3
<1>. HIDE DEF r
<1>5. \A v \in Workers : v # w /\ work[v].pc = "request" => Request(v) \in locked'
  BY <1>0 DEF EnrichIInv, Requests
<1>. QED BY <1>0, <1>4, <1>5, WorkerStep DEF EnrichIInv

\* A step of a worker before it has an answer, and one about artwork.
LEMMA ResolvedStep ==
    ASSUME EnrichIInv, NEW w \in Workers, WorkFits(work[w]), Asks(work[w]), work[w].pc # "request",
           Cached(cache[work[w].kind], work[w].key),
           work' = [work EXCEPT ![w] = Resolved(w, cache[work[w].kind].val[work[w].key])],
           UNCHANGED <<cache, memo, locked, results, todo>>
    PROVE  EnrichIInv'
<1> DEFINE r == Resolved(w, cache[work[w].kind].val[work[w].key])
<1>1. WorkFits(r) /\ r.pc # "request"
  BY CachedAnswerFits
<1>. HIDE DEF r
<1>2. \A v \in Workers : v # w /\ work[v].pc = "request" => Request(v) \in locked'
  BY DEF EnrichIInv, Requests
<1>. QED BY <1>1, <1>2, WorkerStep DEF EnrichIInv, r

LEMMA CheckCacheFits ==
    ASSUME EnrichIInv, NEW w \in Workers, WorkFits(work[w]), CheckCache(w)
    PROVE  EnrichIInv'
<1>0. /\ work[w].pc = "check" /\ Asks(work[w]) /\ UNCHANGED <<cache, memo, locked, results, todo>>
  BY DEF CheckCache, caches, Asks
<1>1. CASE Cached(cache[work[w].kind], work[w].key)
  BY <1>0, <1>1, ResolvedStep DEF CheckCache
<1>2. CASE ~ Cached(cache[work[w].kind], work[w].key)
  <2> DEFINE r == [work[w] EXCEPT !.pc = "wait"]
  <2>1. work' = [work EXCEPT ![w] = r]
    BY <1>2 DEF CheckCache, EnrichIInv
  <2>2. WorkFits(r)
    BY <1>0, SameStage
  <2>3. r.pc # "request"
    BY DEF WorkFits, Fields
  <2>. HIDE DEF r
  <2>4. \A v \in Workers : v # w /\ work[v].pc = "request" => Request(v) \in locked'
    BY <1>0 DEF EnrichIInv, Requests
  <2>. QED BY <1>0, <2>1, <2>2, <2>3, <2>4, WorkerStep DEF EnrichIInv
<1>. QED BY <1>1, <1>2

LEMMA LockFits ==
    ASSUME EnrichIInv, NEW w \in Workers, WorkFits(work[w]), lock_shared_request(w)
    PROVE  EnrichIInv'
<1>0. /\ work[w].pc = "wait" /\ Asks(work[w]) /\ Request(w) \notin locked
      /\ UNCHANGED <<cache, memo, results, todo>>
  BY DEF lock_shared_request, Asks
<1>1. CASE Cached(cache[work[w].kind], work[w].key)
  BY <1>0, <1>1, ResolvedStep DEF lock_shared_request
<1>2. CASE ~ Cached(cache[work[w].kind], work[w].key)
  <2> DEFINE r == [work[w] EXCEPT !.pc = "request"]
  <2>1. work' = [work EXCEPT ![w] = r] /\ locked' = locked \cup {Request(w)}
    BY <1>2 DEF lock_shared_request
  <2>2. WorkFits(r)
    BY <1>0, SameStage
  <2>3. r.kind = work[w].kind /\ r.key = work[w].key
    BY DEF WorkFits, Fields
  <2>. HIDE DEF r
  <2>4. /\ DOMAIN work' = Workers /\ work'[w] = r
        /\ \A v \in Workers : v # w => work'[v] = work[v]
    BY <2>1 DEF EnrichIInv
  <2>5. \A v \in Workers : Request(v)' = Request(v)
    BY <2>3, <2>4 DEF Request
  <2>6. Requests'
    <3>1. ASSUME NEW v \in Workers, work'[v].pc = "request"
          PROVE  Request(v)' \in locked' /\ ~ Cached(cache'[work'[v].kind], work'[v].key)
      BY <1>0, <1>2, <2>1, <2>3, <2>4, <2>5, <3>1 DEF EnrichIInv, Requests
    <3>2. ASSUME NEW v \in Workers, NEW u \in Workers, v # u,
                 work'[v].pc = "request", work'[u].pc = "request"
          PROVE  Request(v)' # Request(u)'
      BY <1>0, <2>4, <2>5, <3>2 DEF EnrichIInv, Requests
    <3>. QED BY <3>1, <3>2 DEF Requests
  <2>7. \A v \in Workers : work'[v] = Idle \/ WorkFits(work'[v])
    BY <2>2, <2>4 DEF EnrichIInv
  <2>. QED BY <1>0, <2>4, <2>6, <2>7 DEF EnrichIInv
<1>. QED BY <1>1, <1>2

\* An answer enters the cache under a key that no other worker asks for.
LEMMA AnswerFits ==
    ASSUME EnrichIInv, NEW w \in Workers, WorkFits(work[w]), ProviderAnswers(w)
    PROVE  EnrichIInv'
<1> DEFINE kind == work[w].kind
           key == work[w].key
           v == Answer(w)
           r == Resolved(w, v)
           c == Insert(cache[kind], key, v)
<1>0. /\ work[w].pc = "request" /\ Asks(work[w]) /\ kind \in Kinds
      /\ cache' = [cache EXCEPT ![kind] = c] /\ locked' = locked \ {Request(w)}
      /\ work' = [work EXCEPT ![w] = r]
      /\ UNCHANGED <<memo, results, todo>>
  BY DEF ProviderAnswers, Asks, WorkFits
<1>1. kind = "metadata" => v = Asked(Candidates(w)[work[w].i])
  BY DEF Answer
<1>2. kind = "metadata" => v = Answers[<<key[2], key[3]>>]
  <2>1. ASSUME kind = "metadata"
        PROVE  key = canonical_metadata_request_key(F(w).type, Candidates(w)[work[w].i])
    BY <1>0, <2>1 DEF WorkFits, Candidates, F
  <2>. HIDE DEF v, key
  <2>. QED BY <1>1, <2>1, KeyOfAnswer
<1>. HIDE DEF v
<1>3. WorkFits(r) /\ r.pc # "request"
  BY <1>0, <1>1, ResolvedFits
<1>4. Ordered(c) /\ DOMAIN c.val \subseteq DOMAIN cache[kind].val \cup {key} /\ c.val[key] = v
      /\ \A x \in DOMAIN c.val : x # key => c.val[x] = cache[kind].val[x]
  BY <1>0, InsertKeepsOrder, InsertKnows DEF EnrichIInv
<1>. HIDE DEF r, c
<1>5. /\ DOMAIN cache' = Kinds /\ cache'[kind] = c
      /\ \A k \in Kinds : k # kind => cache'[k] = cache[k]
  BY <1>0 DEF EnrichIInv
<1>6. /\ DOMAIN work' = Workers /\ work'[w] = r
      /\ \A u \in Workers : u # w => work'[u] = work[u]
  BY <1>0 DEF EnrichIInv
<1>7. Requests'
  <2>1. ASSUME NEW u \in Workers, work'[u].pc = "request"
        PROVE  /\ u # w /\ work'[u] = work[u] /\ Request(u)' = Request(u)
               /\ Request(u) # Request(w) /\ Request(u) \in locked
               /\ ~ Cached(cache[work[u].kind], work[u].key)
    <3>1. u # w /\ work'[u] = work[u]
      BY <1>3, <1>6, <2>1
    <3>. QED BY <1>0, <2>1, <3>1 DEF EnrichIInv, Requests, Request
  <2>2. ASSUME NEW u \in Workers, work'[u].pc = "request"
        PROVE  Request(u)' \in locked' /\ ~ Cached(cache'[work'[u].kind], work'[u].key)
    <3>1. Request(u)' \in locked'
      BY <1>0, <2>1, <2>2
    <3>2. work[u].kind # kind \/ work[u].key # key
      BY <2>1, <2>2 DEF Request
    <3>3. work[u].kind \in Kinds
      BY <2>1, <2>2 DEF EnrichIInv, WorkFits, Idle
    <3>4. ~ Cached(cache'[work[u].kind], work[u].key)
      BY <1>4, <1>5, <2>1, <2>2, <3>2, <3>3 DEF Cached
    <3>. QED BY <2>1, <2>2, <3>1, <3>4
  <2>3. ASSUME NEW u \in Workers, NEW t \in Workers, u # t, work'[u].pc = "request", work'[t].pc = "request"
        PROVE  Request(u)' # Request(t)'
    BY <2>1, <2>3 DEF EnrichIInv, Requests
  <2>. QED BY <2>2, <2>3 DEF Requests
<1>8. \A u \in Workers : work'[u] = Idle \/ WorkFits(work'[u])
  BY <1>3, <1>6 DEF EnrichIInv
<1>9. \A k \in Kinds : Ordered(cache'[k])
  BY <1>4, <1>5 DEF EnrichIInv
<1>10. \A k \in DOMAIN cache'["metadata"].val : cache'["metadata"].val[k] = Answers[<<k[2], k[3]>>]
  <2>1. "metadata" \in Kinds
    BY DEF Kinds
  <2>2. CASE kind # "metadata"
    BY <1>5, <2>1, <2>2 DEF EnrichIInv
  <2>3. CASE kind = "metadata"
    <3>1. ASSUME NEW k \in DOMAIN c.val PROVE c.val[k] = Answers[<<k[2], k[3]>>]
      <4>1. CASE k = key
        BY <1>2, <1>4, <2>3, <4>1
      <4>2. CASE k # key
        BY <1>4, <2>3, <4>2 DEF EnrichIInv
      <4>. QED BY <4>1, <4>2
    <3>. QED BY <1>5, <2>3, <3>1
  <2>. QED BY <2>2, <2>3
<1>. QED BY <1>0, <1>5, <1>6, <1>7, <1>8, <1>9, <1>10 DEF EnrichIInv

\* A group that ends has the answer that its worker had, if it ends well.
LEMMA EndsFits ==
    ASSUME EnrichIInv, NEW w \in Workers, WorkFits(work[w]), NEW ok, ok => ~ Asks(work[w]), Ends(w, ok),
           UNCHANGED <<cache, memo, todo>>,
           \A v \in Workers : v # w /\ work[v].pc = "request" => Request(v) \in locked'
    PROVE  EnrichIInv'
<1> DEFINE g == work[w].group
           e == [meta |-> work[w].meta, ok |-> ok, asked |-> work[w].asked, arts |-> work[w].got]
<1>1. work' = [work EXCEPT ![w] = Idle] /\ results' = [results EXCEPT ![g] = e]
  BY DEF Ends
<1>2. e.ok /\ e.asked => BelongsTo(e.meta, g)
  BY DEF WorkFits
<1>. HIDE DEF e
<1>3. /\ DOMAIN results' = Groups
      /\ \A h \in Groups : results'[h].ok /\ results'[h].asked => BelongsTo(results'[h].meta, h)
  BY <1>1, <1>2 DEF EnrichIInv
<1>4. Idle.pc # "request"
  BY DEF Idle
<1>. QED BY <1>1, <1>3, <1>4, WorkerStep DEF EnrichIInv

\* The locks of others stay when a worker gives up its own.
LEMMA OthersStayLocked ==
    ASSUME EnrichIInv, NEW w \in Workers, NEW lock,
           \/ work[w].pc = "request" /\ lock = Request(w)
           \/ lock[1] = "path"
    PROVE  \A v \in Workers : v # w /\ work[v].pc = "request" => Request(v) \in locked \ {lock}
<1> SUFFICES ASSUME NEW v \in Workers, v # w, work[v].pc = "request"
             PROVE  Request(v) \in locked \ {lock}
  OBVIOUS
<1>1. Request(v) \in locked
  BY DEF EnrichIInv, Requests
<1>2. Request(v)[1] # "path"
  BY DEF EnrichIInv, WorkFits, Kinds, Idle, Request
<1>3. work[w].pc = "request" => Request(v) # Request(w)
  BY DEF EnrichIInv, Requests
<1>. QED BY <1>1, <1>2, <1>3

LEMMA FailureFits ==
    ASSUME EnrichIInv, NEW w \in Workers, WorkFits(work[w]), NEW notFound \in BOOLEAN,
           ProviderFails(w, notFound)
    PROVE  EnrichIInv'
<1>0. /\ work[w].pc = "request" /\ Asks(work[w]) /\ work[w].asked /\ DOMAIN work[w] = Fields
      /\ locked' = locked \ {Request(w)} /\ UNCHANGED <<cache, memo, todo>>
  BY DEF ProviderFails, WorkFits, Asks
<1>1. \A v \in Workers : v # w /\ work[v].pc = "request" => Request(v) \in locked'
  BY <1>0, OthersStayLocked
<1>2. CASE work[w].kind = "complete"
  <2> DEFINE r == [work[w] EXCEPT !.pc = "check", !.kind = "outline"]
  <2>1. work' = [work EXCEPT ![w] = r] /\ UNCHANGED results
    BY <1>2 DEF ProviderFails, EnrichIInv
  <2>2. /\ DOMAIN r = Fields /\ r.pc = "check" /\ r.kind = "outline" /\ r.group = work[w].group
        /\ r.asked /\ r.meta = work[w].meta
    BY <1>0 DEF Fields
  <2>. HIDE DEF r
  <2>3. WorkFits(r)
    BY <1>0, <1>2, <2>2 DEF WorkFits, Asks, Kinds
  <2>. QED BY <1>0, <1>1, <2>1, <2>2, <2>3, WorkerStep DEF EnrichIInv
<1>3. CASE work[w].kind = "metadata" /\ notFound /\ F(w).hint # None
  <2> DEFINE r == Artwork(w, NoAnswer, NoAnswer)
  <2>1. work' = [work EXCEPT ![w] = r] /\ UNCHANGED results
    BY <1>3 DEF ProviderFails
  <2>2. BelongsTo(NoAnswer, work[w].group)
    BY <1>3 DEF BelongsTo, F
  <2>3. WorkFits(r) /\ r.pc # "request"
    BY <2>2, ArtworkFits
  <2>. HIDE DEF r
  <2>. QED BY <1>0, <1>1, <2>1, <2>3, WorkerStep DEF EnrichIInv
<1>4. CASE Ends(w, FALSE)
  BY <1>0, <1>1, <1>4, EndsFits
<1>. QED BY <1>2, <1>3, <1>4 DEF ProviderFails

\* What a worker does about artwork leaves the answer of its group alone.
LEMMA ArtworkStep ==
    ASSUME EnrichIInv, NEW w \in Workers, WorkFits(work[w]), ~ Asks(work[w]), NEW r,
           \/ \E s : r = Keeps(w, s)
           \/ \E pc \in {"artwait", "download"} : r = [work[w] EXCEPT !.pc = pc],
           work' = [work EXCEPT ![w] = r], UNCHANGED <<cache, results, todo>>, Ordered(memo'),
           \A v \in Workers : v # w /\ work[v].pc = "request" => Request(v) \in locked'
    PROVE  EnrichIInv'
<1>1. WorkFits(r) /\ r.pc # "request"
  <2>1. ASSUME NEW s, r = Keeps(w, s) PROVE WorkFits(r) /\ r.pc # "request"
    <3>1. /\ DOMAIN r = Fields /\ r.pc = "art" /\ r.group = work[w].group /\ r.kind = work[w].kind
          /\ r.meta = work[w].meta /\ r.asked = work[w].asked
      BY <2>1 DEF Keeps, WorkFits, Fields
    <3>. QED BY <3>1 DEF WorkFits, Asks
  <2>2. ASSUME NEW pc \in {"artwait", "download"}, r = [work[w] EXCEPT !.pc = pc]
        PROVE  WorkFits(r) /\ r.pc # "request"
    <3>1. r.pc = pc
      BY <2>2 DEF WorkFits, Fields
    <3>. QED BY <2>2, <3>1, SameStage
  <2>. QED BY <2>1, <2>2
<1>. QED BY <1>1, WorkerStep DEF EnrichIInv

LEMMA ProceedFits ==
    ASSUME EnrichIInv, NEW w \in Workers, Proceed(w)
    PROVE  EnrichIInv'
<1>1. ASSUME NEW g \in todo, StartGroup(w, g) PROVE EnrichIInv'
  BY <1>1, StartFits
<1>2. ASSUME work[w].pc # "idle" PROVE WorkFits(work[w])
  BY <1>2 DEF EnrichIInv, Idle
<1>3. \A v \in Workers : v # w /\ work[v].pc = "request" => Request(v) \in locked
  BY DEF EnrichIInv, Requests
<1>4. CASE CheckCache(w)
  BY <1>2, <1>4, CheckCacheFits DEF CheckCache
<1>5. CASE lock_shared_request(w)
  BY <1>2, <1>5, LockFits DEF lock_shared_request
<1>6. CASE ProviderAnswers(w)
  BY <1>2, <1>6, AnswerFits DEF ProviderAnswers
<1>7. ASSUME NEW n \in BOOLEAN, ProviderFails(w, n) PROVE EnrichIInv'
  BY <1>2, <1>7, FailureFits DEF ProviderFails
<1>8. CASE cache_artwork_source(w)
  <2>1. /\ WorkFits(work[w]) /\ ~ Asks(work[w]) /\ UNCHANGED <<cache, memo, locked, results, todo>>
    BY <1>2, <1>8 DEF cache_artwork_source, caches, Asks
  <2>2. \E r : /\ work' = [work EXCEPT ![w] = r]
               /\ \/ \E s : r = Keeps(w, s)
                  \/ r = [work[w] EXCEPT !.pc = "artwait"]
    <3>1. CASE ~ IsUrl(Source(w))
      BY <1>8, <3>1 DEF cache_artwork_source
    <3>2. CASE IsUrl(Source(w)) /\ ~ is_allowed_remote_artwork_url(Source(w))
      BY <1>8, <3>2 DEF cache_artwork_source
    <3>3. CASE /\ IsUrl(Source(w)) /\ is_allowed_remote_artwork_url(Source(w))
               /\ Cached(memo, Source(w))
      BY <1>8, <3>3 DEF cache_artwork_source
    <3>4. CASE /\ IsUrl(Source(w)) /\ is_allowed_remote_artwork_url(Source(w))
               /\ ~ Cached(memo, Source(w))
      BY <1>8, <3>4 DEF cache_artwork_source, EnrichIInv
    <3>. QED BY <3>1, <3>2, <3>3, <3>4
  <2>. QED BY <1>3, <2>1, <2>2, ArtworkStep DEF EnrichIInv
<1>9. CASE lock_cache_path(w)
  <2>1. /\ WorkFits(work[w]) /\ ~ Asks(work[w]) /\ UNCHANGED <<cache, results, todo>>
    BY <1>2, <1>9 DEF lock_cache_path, Asks
  <2>2. \A v \in Workers : v # w /\ work[v].pc = "request" => Request(v) \in locked'
    BY <1>3, <1>9 DEF lock_cache_path
  <2>3. Ordered(memo')
    <3>1. memo' = memo \/ memo' = Insert(memo, Source(w), TRUE)
      BY <1>9 DEF lock_cache_path
    <3>2. Ordered(memo)
      BY DEF EnrichIInv
    <3>3. Ordered(Insert(memo, Source(w), TRUE))
      BY <3>2, InsertKeepsOrder
    <3>4. CASE memo' = memo
      BY <3>2, <3>4
    <3>5. CASE memo' = Insert(memo, Source(w), TRUE)
      BY <3>3, <3>5
    <3>. QED BY <3>1, <3>4, <3>5
  <2>4. \E r : /\ work' = [work EXCEPT ![w] = r]
               /\ \/ \E s : r = Keeps(w, s)
                  \/ r = [work[w] EXCEPT !.pc = "download"]
    BY <1>9 DEF lock_cache_path, EnrichIInv
  <2>. QED BY <2>1, <2>2, <2>3, <2>4, ArtworkStep
<1>10. ASSUME NEW found \in BOOLEAN, Download(w, found) PROVE EnrichIInv'
  <2>1. /\ WorkFits(work[w]) /\ ~ Asks(work[w]) /\ UNCHANGED <<cache, results, todo>>
        /\ locked' = locked \ {PathLock(Source(w))}
    BY <1>2, <1>10 DEF Download, Asks
  <2>2. \A v \in Workers : v # w /\ work[v].pc = "request" => Request(v) \in locked'
    BY <2>1, OthersStayLocked DEF PathLock
  <2>3. Ordered(memo')
    BY <1>10, InsertKeepsOrder DEF Download, EnrichIInv
  <2>4. \E r : work' = [work EXCEPT ![w] = r] /\ \E s : r = Keeps(w, s)
    BY <1>10 DEF Download
  <2>. QED BY <2>1, <2>2, <2>3, <2>4, ArtworkStep
<1>11. CASE GroupEnriched(w)
  <2>1. /\ WorkFits(work[w]) /\ ~ Asks(work[w]) /\ Ends(w, TRUE)
        /\ UNCHANGED <<cache, memo, locked, todo>>
    BY <1>2, <1>11 DEF GroupEnriched, caches, Asks
  <2>. QED BY <1>3, <2>1, EndsFits
<1>. QED BY <1>1, <1>4, <1>5, <1>6, <1>7, <1>8, <1>9, <1>10, <1>11 DEF Proceed

LEMMA EnrichStep == EnrichIInv /\ [EnrichNext]_enrichVars => EnrichIInv'
<1> SUFFICES ASSUME EnrichIInv, [EnrichNext]_enrichVars PROVE EnrichIInv'
  OBVIOUS
<1>1. ASSUME NEW w \in Workers, Proceed(w) PROVE EnrichIInv'
  BY <1>1, ProceedFits
<1>2. ASSUME UNCHANGED <<cache, memo, locked, work, todo, results>> PROVE EnrichIInv'
  BY <1>2 DEF EnrichIInv, Requests, Request
<1>3. CASE Coordinate
  BY <1>2, <1>3 DEF Coordinate, Commit, Reject, CleanUp, caches
<1>4. CASE UNCHANGED enrichVars
  BY <1>2, <1>4 DEF enrichVars, caches
<1>. QED BY <1>1, <1>3, <1>4 DEF EnrichNext

\* Workers that need the same answer ask once, none asks for what is cached, and
\* the caches never outgrow their capacity (lock_shared_request, BoundedCache).
THEOREM RequestsStayCollapsed == EnrichSpec => []RequestsCollapse
<1>. QED BY EnrichInitially, EnrichStep, EnrichInvariants, PTL DEF EnrichSpec

\* A group is enriched with what the provider knows of its first known candidate,
\* whoever asked and whatever was cached, evicted or failed in between
\* (lookup_group_remote_metadata, lookup_remote_metadata_cached).
THEOREM AnswersStayWithTheirGroup == EnrichSpec => []AnswersBelongToTheGroup
<1>. QED BY EnrichInitially, EnrichStep, EnrichInvariants, PTL DEF EnrichSpec

LEMMA IntroRests == IntroIdle => IntroIInv
<1> SUFFICES ASSUME IntroIdle PROVE IntroIInv
  OBVIOUS
<1>1. /\ bytes = MaxVersion /\ rows = MaxVersion /\ MaxVersion \in Nat
      /\ analysis = [outcome |-> "no_match", of |-> MaxVersion, read |-> MaxVersion]
      /\ refresh = NoRefresh /\ markers = NoMarkers /\ job = NoJob /\ raced = FALSE
      /\ exec = [w \in Detectors |-> Resting]
  BY IntroAssumption DEF IntroIdle
<1>2. /\ analysis \in [outcome : Outcomes, of : Int, read : Int]
      /\ analysis.outcome = "no_match" /\ analysis.of = MaxVersion /\ analysis.read = MaxVersion
  BY <1>1 DEF Outcomes
<1>3. IntroTypeOK
  <2>1. bytes \in Nat /\ rows \in Nat /\ MaxVersion <= MaxVersion /\ FALSE \in BOOLEAN
    BY <1>1
  <2>. QED BY <1>1, <1>2, <2>1, IntroConstants DEF IntroTypeOK
<1>4. \A w \in Detectors : exec[w].pc = "idle"
  BY <1>1, IntroConstants
<1>5. RefreshFits
  BY <1>1, IntroConstants DEF RefreshFits
<1>6. IntroInv /\ Heard(analysis.of, analysis.read)
  BY <1>1, <1>2 DEF IntroInv, Heard
<1>. QED BY <1>1, <1>3, <1>4, <1>5, <1>6 DEF IntroIInv

\* The run's own specification, enrichment and intros together, keeps both.
THEOREM MediaWorkIsSafe == Spec => [](RequestsCollapse /\ AnswersBelongToTheGroup /\ IntroInv)
<1>1. Init => EnrichIInv /\ IntroIInv
  <2>1. CASE EnrichInit /\ IntroIdle
    BY <2>1, EnrichInitially, IntroRests
  <2>2. CASE EnrichIdle /\ IntroInit
    BY <2>2, EnrichInitially, IntroInitially
  <2>. QED BY <2>1, <2>2 DEF Init
<1>2. EnrichIInv /\ IntroIInv /\ [Next]_<<enrichVars, introVars>> => EnrichIInv' /\ IntroIInv'
  BY EnrichStep, IntroStep DEF Next
<1>3. EnrichIInv /\ IntroIInv => RequestsCollapse /\ AnswersBelongToTheGroup /\ IntroInv
  BY EnrichInvariants DEF IntroIInv
<1>. QED BY <1>1, <1>2, <1>3, PTL DEF Spec
=============================================================================
