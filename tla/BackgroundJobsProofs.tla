------------------------ MODULE BackgroundJobsProofs ------------------------
(***************************************************************************)
(* Proofs about BackgroundJobs for any number of jobs, workers, libraries  *)
(* and attempts: QueueInv is inductive, so mutual exclusion and the other  *)
(* invariants it contains hold in every reachable state, and from it the   *)
(* two action properties follow.                                           *)
(***************************************************************************)
EXTENDS BackgroundJobs, TLAPS

USE DistinctAssumption, AttemptsAssumption

ExecType == [job : JobIds \union {NoJob}, attempt : Nat,
             pc : {"idle", "claimed", "scanning"}, cancel : BOOLEAN]

\* The invariants that do not depend on the steps of a worker in memory.
TableInv == /\ RowShape
            /\ QueuedJobsHaveAttemptsLeft
            /\ ScanAgreesWithJob
            /\ DeletedLibraryJobs
            /\ OpenTransactions
            /\ OneActiveScanPerLibrary
            /\ MutualExclusion

\* A status change of a job that keeps every other row and the tables around
\* it; the shape of complete, retry, finalize and of the clock's steps.
StatusStep(j, r, s) ==
    /\ r.type = jobs[j].type
    /\ r.lib = jobs[j].lib
    /\ jobs[j].status # "absent" /\ r.status # "absent"
    /\ r.attempt <= Max(j)
    /\ r.live => r.status \in Executing
    /\ r.status = "pending" => r.attempt < Max(j) /\ r.owner = NoWorker
    /\ r.status \in Executing => r.status = jobs[j].status
    /\ r.status \in Active => jobs[j].status \in Active
    /\ r.status = "pending" => jobs[j].status \in {"pending", "running"}
    /\ RowLocked(j) => r.status = jobs[j].status
    /\ r.type = "scan" => Agree(r.status, s)
    /\ s # "none" => scans[j] # "none"

\* A status step keeps the table invariants.
LEMMA StatusStepKeepsTables ==
    ASSUME TypeOK, TableInv,
           NEW j \in JobIds, NEW r \in Row, NEW s \in ScanStatus,
           StatusStep(j, r, s),
           jobs' = [jobs EXCEPT ![j] = r],
           scans' = [scans EXCEPT ![j] = s],
           UNCHANGED <<libs, tx>>
    PROVE  TableInv'
<1>1. /\ jobs'[j] = r
      /\ scans'[j] = s
      /\ \A i \in JobIds : i # j => jobs'[i] = jobs[i] /\ scans'[i] = scans[i]
  BY DEF TypeOK
<1>2. /\ r.type \in JobType
      /\ jobs[j].lib \in Libraries
  BY DEF TableInv, RowShape, StatusStep, Row, TypeOK
<1>3. RowShape'
  BY <1>1, <1>2 DEF RowShape, TableInv, StatusStep, Max
<1>4. QueuedJobsHaveAttemptsLeft'
  BY <1>1 DEF QueuedJobsHaveAttemptsLeft, TableInv, StatusStep, Max
<1>5. ScanAgreesWithJob'
  BY <1>1 DEF ScanAgreesWithJob, TableInv, StatusStep
<1>6. DeletedLibraryJobs'
  BY <1>1 DEF DeletedLibraryJobs, TableInv, StatusStep, Executing, Active
<1>7. OpenTransactions'
  BY <1>1 DEF OpenTransactions, TableInv, StatusStep, RowLocked, Active, Executing
<1>8. OneActiveScanPerLibrary'
  BY <1>1 DEF OneActiveScanPerLibrary, TableInv, StatusStep
<1>9. MutualExclusion'
  BY <1>1 DEF MutualExclusion, TableInv, StatusStep, Conflict, Executing
<1>. QED BY <1>3, <1>4, <1>5, <1>6, <1>7, <1>8, <1>9 DEF TableInv

\* A new pending row of a type that may be queued beside anything else.
LEMMA InsertKeepsTables ==
    ASSUME TypeOK, TableInv,
           NEW j \in JobIds, jobs[j].status = "absent",
           NEW type \in {"intro", "artwork_cleanup", "revalidate"},
           NEW l \in Libraries, NEW retention \in BOOLEAN,
           jobs' = [jobs EXCEPT ![j] = NewJob(type, l, retention)],
           UNCHANGED <<scans, libs, tx>>
    PROVE  TableInv'
<1>1. /\ jobs'[j] = NewJob(type, l, retention)
      /\ \A i \in JobIds : i # j => jobs'[i] = jobs[i]
  BY DEF TypeOK
<1>2. type \in JobType /\ MaxAttempts[type] \in Nat \ {0}
  BY DEF JobType
<1>3. jobs[j].type = "none" /\ scans[j] = "none"
  BY DEF TableInv, RowShape, ScanAgreesWithJob
<1>4. RowShape'
  BY <1>1, <1>2 DEF RowShape, TableInv, NewJob, Max
<1>5. QueuedJobsHaveAttemptsLeft'
  BY <1>1, <1>2 DEF QueuedJobsHaveAttemptsLeft, TableInv, NewJob, Max
<1>6. ScanAgreesWithJob'
  BY <1>1, <1>3 DEF ScanAgreesWithJob, TableInv, NewJob
<1>7. DeletedLibraryJobs'
  BY <1>1 DEF DeletedLibraryJobs, TableInv, NewJob
<1>8. OpenTransactions'
  BY <1>1 DEF OpenTransactions, TableInv, NewJob
<1>9. OneActiveScanPerLibrary'
  BY <1>1 DEF OneActiveScanPerLibrary, TableInv, NewJob
<1>10. MutualExclusion'
  BY <1>1 DEF MutualExclusion, TableInv, NewJob, Executing
<1>. QED BY <1>4, <1>5, <1>6, <1>7, <1>8, <1>9, <1>10 DEF TableInv

\* What the sweep of a claim does to one row: nothing, an end, a later retry
\* (all of them status steps), or its deletion.
LEMMA SweptRows ==
    ASSUME TypeOK, TableInv, NEW old \in SUBSET Prunable, NEW j \in JobIds
    PROVE  /\ Swept(old)[j] \in Row
           /\ ReapedScan(j) \in ScanStatus
           /\ j \in old => Swept(old)[j] = Absent /\ scans[j] = "none"
                           /\ ReapedScan(j) = "none" /\ jobs[j].status \in Terminal
           /\ j \notin old /\ jobs[j].status # "absent" =>
                 StatusStep(j, Swept(old)[j], ReapedScan(j))
           /\ j \notin old /\ jobs[j].status = "absent" =>
                 Swept(old)[j] = jobs[j] /\ ReapedScan(j) = scans[j]
<1>1. jobs[j] \in Row /\ scans[j] \in ScanStatus
  BY DEF TypeOK
<1>2. Swept(old)[j] = IF j \in old THEN Absent ELSE Reaped(j)
  BY DEF Swept
<1>3. Absent \in Row
  BY DEF Absent, Row, JobStatus
<1>4. ReapedScan(j) \in ScanStatus
  BY <1>1 DEF ReapedScan, FinalizedScan, abandoned_terminal_transition, ScanStatus
<1>5. CASE j \in old
  <2>1. jobs[j].type # "scan" /\ jobs[j].status \in Terminal
    BY <1>5 DEF Prunable
  <2>2. scans[j] = "none"
    BY <2>1 DEF TableInv, ScanAgreesWithJob
  <2>3. ~ Abandoned(j)
    BY <2>1 DEF Abandoned, Terminal
  <2>. QED BY <1>2, <1>3, <1>4, <1>5, <2>1, <2>2, <2>3 DEF ReapedScan
<1>6. CASE j \notin old /\ ~ Abandoned(j)
  <2>1. Swept(old)[j] = jobs[j] /\ ReapedScan(j) = scans[j]
    BY <1>2, <1>6 DEF Reaped, ReapedScan
  <2>2. jobs[j].status # "absent" => StatusStep(j, jobs[j], scans[j])
    BY DEF StatusStep, TableInv, RowShape, QueuedJobsHaveAttemptsLeft,
           ScanAgreesWithJob, Max
  <2>. QED BY <1>1, <1>6, <2>1, <2>2
<1>7. CASE j \notin old /\ Abandoned(j)
  <2>1. /\ jobs[j].status \in Executing
        /\ jobs[j].type \in JobType
        /\ Max(j) \in Nat \ {0}
        /\ ~ RowLocked(j)
        /\ ~ jobs[j].live
        /\ jobs[j].attempt <= Max(j)
    BY <1>1, <1>7 DEF Abandoned, Executing, TableInv, RowShape, Max, Row
  <2>2. CASE jobs[j].type = "artwork_cleanup" /\ jobs[j].status = "running"
    <3>1. Swept(old)[j] = Rescheduled(j)
      BY <1>2, <1>7, <2>2 DEF Reaped
    <3>2. Rescheduled(j) \in Row
      <4>1. Max(j) - 1 \in Nat /\ "pending" \in JobStatus
        BY <2>1 DEF JobStatus, Active
      <4>2. [jobs[j] EXCEPT !.status = "pending"] \in Row
        BY <1>1, <4>1 DEF Row
      <4>3. [jobs[j] EXCEPT !.status = "pending", !.attempt = Max(j) - 1] \in Row
        BY <4>1, <4>2 DEF Row
      <4>4. [jobs[j] EXCEPT !.status = "pending", !.attempt = Max(j) - 1,
                            !.owner = NoWorker] \in Row
        BY <4>3 DEF Row
      <4>. QED BY <4>4 DEF Rescheduled, Row
    <3>3. scans[j] = "none" /\ ReapedScan(j) = "none"
      BY <2>2 DEF TableInv, ScanAgreesWithJob, ReapedScan, FinalizedScan, ActiveScan
    <3>4. StatusStep(j, Rescheduled(j), ReapedScan(j))
      BY <1>1, <2>1, <2>2, <3>3
         DEF StatusStep, Rescheduled, Row, Executing, Active
    <3>. QED BY <1>4, <1>7, <2>1, <3>1, <3>2, <3>4 DEF Executing
  <2>3. CASE ~ (jobs[j].type = "artwork_cleanup" /\ jobs[j].status = "running")
    <3> DEFINE st == abandoned_terminal_transition(jobs[j].status)
               r == [jobs[j] EXCEPT !.status = st, !.owner = NoWorker]
    <3>1. Swept(old)[j] = r
      BY <1>2, <1>7, <2>3 DEF Reaped
    <3>2. st \in {"cancelled", "failed"}
      BY DEF abandoned_terminal_transition
    <3>3. r \in Row
      BY <1>1, <3>2 DEF Row, JobStatus, Terminal
    <3>4. jobs[j].type = "scan" => Agree(st, ReapedScan(j))
      BY <1>7, <2>1 DEF ReapedScan, FinalizedScan, TableInv, ScanAgreesWithJob,
         Agree, abandoned_terminal_transition, Executing, ActiveScan
    <3>5. ReapedScan(j) # "none" => scans[j] # "none"
      BY DEF ReapedScan, FinalizedScan, ActiveScan
    <3>6. StatusStep(j, r, ReapedScan(j))
      BY <1>1, <2>1, <3>2, <3>4, <3>5 DEF StatusStep, Row, Executing, Active
    <3>. QED BY <1>4, <1>7, <2>1, <3>1, <3>3, <3>6 DEF Executing
  <2>. QED BY <2>2, <2>3
<1>. QED BY <1>5, <1>6, <1>7

\* A claim keeps the table invariants: the swept rows by SweptRows, the claimed
\* row because no executing row blocks it, no other scan of its library is
\* active, and a scan and a cache cleanup of one library never both exist.
LEMMA ClaimKeepsTables ==
    ASSUME TypeOK, TableInv, NEW old \in SUBSET Prunable,
           NEW c, NEW w \in Workers,
           c \in JobIds => Picked(Swept(old), c),
           jobs' = [i \in JobIds |-> IF i = c THEN Claimed(Swept(old)[i], w)
                                     ELSE Swept(old)[i]],
           scans' = [i \in JobIds |-> ReapedScan(i)],
           UNCHANGED <<libs, tx>>
    PROVE  /\ jobs' \in [JobIds -> Row]
           /\ scans' \in [JobIds -> ScanStatus]
           /\ TableInv'
<1> DEFINE rows == Swept(old)
<1>1. \A i \in JobIds :
        /\ rows[i] \in Row
        /\ ReapedScan(i) \in ScanStatus
        /\ i \in old => rows[i] = Absent /\ scans[i] = "none"
                        /\ ReapedScan(i) = "none" /\ jobs[i].status \in Terminal
        /\ i \notin old /\ jobs[i].status # "absent" =>
              StatusStep(i, rows[i], ReapedScan(i))
        /\ i \notin old /\ jobs[i].status = "absent" =>
              rows[i] = jobs[i] /\ ReapedScan(i) = scans[i]
  BY SweptRows
<1>2. \A i \in JobIds : /\ i # c => jobs'[i] = rows[i]
                        /\ i = c => jobs'[i] = Claimed(rows[i], w)
                        /\ scans'[i] = ReapedScan(i)
  OBVIOUS
<1> HIDE DEF rows
\* A row that is still there after the sweep was there before, as the same job.
<1>3. \A i \in JobIds : rows[i].status # "absent" =>
         /\ i \notin old /\ jobs[i].status # "absent"
         /\ StatusStep(i, rows[i], ReapedScan(i))
         /\ rows[i].type = jobs[i].type /\ rows[i].lib = jobs[i].lib
         /\ rows[i].type \in JobType /\ rows[i].lib \in Libraries
         /\ Max(i) \in Nat /\ Max(i) = MaxAttempts[rows[i].type]
  BY <1>1 DEF StatusStep, TableInv, RowShape, Absent, TypeOK, Row, Max
<1>4. \A i \in JobIds : rows[i].status = "absent" =>
         rows[i].type = "none" /\ ~ rows[i].live /\ ReapedScan(i) = "none"
  BY <1>1 DEF StatusStep, TableInv, RowShape, Absent, ScanAgreesWithJob, Executing
\* The claimed row.
<1>5. ASSUME c \in JobIds
      PROVE  /\ rows[c].status \in {"pending", "running"}
             /\ rows[c].attempt < Max(c)
             /\ ~ RowLocked(c)
             /\ \A i \in JobIds : i # c => ~ Blocks(rows[i], rows[c])
             /\ rows[c].status # "absent"
  <2>1. Picked(rows, c)
    BY <1>5 DEF rows
  <2>2. /\ Claimable(rows[c]) /\ ~ RowLocked(c)
        /\ \A i \in JobIds : i # c => ~ Blocks(rows[i], rows[c])
    BY <2>1 DEF Picked, Candidate
  <2>. QED BY <1>3, <1>5, <2>2 DEF Claimable
<1>6. ASSUME c \in JobIds
      PROVE  LET r == Claimed(rows[c], w) IN
             /\ r \in Row
             /\ r.status = "running" /\ r.type = rows[c].type
             /\ r.lib = rows[c].lib /\ r.attempt = rows[c].attempt + 1
  <2> DEFINE r1 == [rows[c] EXCEPT !.status = "running"]
             n == r1.attempt + 1
             r2 == [r1 EXCEPT !.attempt = n]
             r3 == [r2 EXCEPT !.owner = w]
  <2>1. rows[c] \in Row /\ "running" \in JobStatus
    BY <1>1, <1>6 DEF JobStatus, Active, Executing
  <2>2. /\ r1 \in Row /\ r1.status = "running" /\ r1.attempt = rows[c].attempt
        /\ r1.type = rows[c].type /\ r1.lib = rows[c].lib
    BY <2>1 DEF Row
  <2>3. /\ r2 \in Row /\ r2.status = "running" /\ r2.attempt = rows[c].attempt + 1
        /\ r2.type = rows[c].type /\ r2.lib = rows[c].lib
    <3>1. n \in Nat /\ n = rows[c].attempt + 1
      BY <2>1, <2>2 DEF Row
    <3> HIDE DEF r1, n
    <3>. QED BY <2>2, <3>1 DEF Row
  <2>4. /\ r3 \in Row /\ r3.status = "running" /\ r3.attempt = rows[c].attempt + 1
        /\ r3.type = rows[c].type /\ r3.lib = rows[c].lib
    BY <2>3 DEF Row
  <2>5. Claimed(rows[c], w) = [r3 EXCEPT !.live = TRUE]
    BY DEF Claimed
  <2>. QED BY <2>4, <2>5 DEF Row
<1>7. jobs' \in [JobIds -> Row] /\ scans' \in [JobIds -> ScanStatus]
  BY <1>1, <1>2, <1>6
\* Rows after the step, as seen from before it.
<1>8. \A i \in JobIds : jobs'[i].status # "absent" =>
         /\ jobs[i].status # "absent" /\ rows[i].status # "absent"
         /\ jobs'[i].type = jobs[i].type /\ jobs'[i].lib = jobs[i].lib
         /\ jobs'[i].type \in JobType /\ jobs'[i].lib \in Libraries
         /\ jobs'[i].status \in Active => jobs[i].status \in Active
         /\ jobs'[i].status \in {"pending", "running"} =>
               jobs[i].status \in {"pending", "running"}
         /\ jobs'[i].status = "cancel_requested" =>
               jobs[i].status = "cancel_requested"
  BY <1>2, <1>3, <1>5, <1>6 DEF StatusStep, Active, Executing
<1>9. RowShape'
  <2> SUFFICES ASSUME NEW i \in JobIds
               PROVE  /\ jobs'[i].status = "absent" <=> jobs'[i].type = "none"
                      /\ jobs'[i].status # "absent" =>
                            /\ jobs'[i].lib \in Libraries
                            /\ jobs'[i].attempt <= MaxAttempts[jobs'[i].type]
                      /\ jobs'[i].live => jobs'[i].status \in Executing
    BY DEF RowShape, Max
  <2>1. CASE i = c
    BY <1>1, <1>2, <1>3, <1>5, <1>6, <1>8, <2>1 DEF JobType, Row, Executing
  <2>2. CASE i # c
    BY <1>2, <1>3, <1>4, <1>8, <2>2 DEF StatusStep, JobType
  <2>. QED BY <2>1, <2>2
<1>10. QueuedJobsHaveAttemptsLeft'
  BY <1>2, <1>3, <1>6 DEF QueuedJobsHaveAttemptsLeft, StatusStep, Max
<1>11. ScanAgreesWithJob'
  BY <1>2, <1>3, <1>4, <1>5, <1>6
     DEF ScanAgreesWithJob, TableInv, StatusStep, Agree
<1>12. DeletedLibraryJobs'
  BY <1>8, <1>9 DEF DeletedLibraryJobs, RowShape, TableInv
<1>13. OpenTransactions'
  <2>1. ASSUME NEW l \in Libraries, NEW i \in tx[l].rows
        PROVE  /\ jobs'[i].lib = l
               /\ jobs'[i].type \in {"scan", "intro"}
               /\ jobs'[i].status \in {"pending", "running"}
    <3>1. i \in JobIds /\ RowLocked(i)
      BY DEF TypeOK, RowLocked
    <3>2. /\ jobs[i].lib = l
          /\ jobs[i].type \in {"scan", "intro"}
          /\ jobs[i].status \in {"pending", "running"}
      BY DEF OpenTransactions, TableInv
    <3>3. i # c /\ i \notin old
      BY <1>1, <1>5, <3>1, <3>2 DEF Terminal
    <3>4. StatusStep(i, rows[i], ReapedScan(i)) /\ jobs'[i] = rows[i]
      BY <1>1, <1>2, <3>1, <3>2, <3>3
    <3>. QED BY <3>1, <3>2, <3>4 DEF StatusStep
  <2>2. ASSUME NEW l \in Libraries, tx[l].op = "scan", NEW i \in JobIds,
               jobs'[i].type = "scan", jobs'[i].lib = l
        PROVE  jobs'[i].status \notin Active
    BY <1>8, <1>9, <2>2 DEF OpenTransactions, TableInv, RowShape
  <2>3. ASSUME NEW l \in Libraries, tx[l].op = "delete", NEW i \in JobIds,
               jobs'[i].type = "scan", jobs'[i].lib = l,
               jobs'[i].status \in {"pending", "running"}
        PROVE  i \in tx[l].rows
    BY <1>8, <2>3 DEF OpenTransactions, TableInv
  <2>. QED BY <2>1, <2>2, <2>3 DEF OpenTransactions, TableInv
<1>14. OneActiveScanPerLibrary'
  BY <1>2, <1>4, <1>8 DEF OneActiveScanPerLibrary, TableInv, Active, Executing
<1>15. MutualExclusion'
  <2>1. ASSUME NEW i \in JobIds, NEW k \in JobIds, i # k, i # c, k # c,
               jobs'[i].status \in Executing, jobs'[k].status \in Executing
        PROVE  ~ Conflict(jobs'[i], jobs'[k])
    <3>1. /\ jobs[i].status \in Executing /\ jobs[k].status \in Executing
          /\ jobs'[i].type = jobs[i].type /\ jobs'[i].lib = jobs[i].lib
          /\ jobs'[k].type = jobs[k].type /\ jobs'[k].lib = jobs[k].lib
      BY <1>2, <1>3, <2>1 DEF StatusStep, Executing
    <3>. QED BY <2>1, <3>1 DEF MutualExclusion, TableInv, Conflict
  <2>2. ASSUME NEW i \in JobIds, c \in JobIds, i # c, jobs'[i].status \in Executing
        PROVE  ~ Conflict(jobs'[i], jobs'[c]) /\ ~ Conflict(jobs'[c], jobs'[i])
    <3> DEFINE a == jobs'[i]
               b == jobs'[c]
    <3>1. /\ ~ Blocks(a, rows[c]) /\ b.type = rows[c].type /\ b.lib = rows[c].lib
          /\ b.status = "running" /\ a.status \in Active
      BY <1>2, <1>5, <1>6, <2>2 DEF Active
    <3>2. a.type = "scan" /\ b.type = "scan" => a.lib # b.lib
      BY <1>14, <2>2, <3>1 DEF OneActiveScanPerLibrary, Active, Executing
    <3>3. ~ (a.type = "cache_cleanup" /\ b.type = "scan" /\ a.lib = b.lib)
      BY <1>12, <2>2, <3>1 DEF DeletedLibraryJobs
    <3> HIDE DEF a, b
    <3>. QED BY <2>2, <3>1, <3>2, <3>3 DEF Conflict, Blocks, JobType, a, b
  <2>. QED BY <2>1, <2>2 DEF MutualExclusion
<1>. QED BY <1>7, <1>9, <1>10, <1>11, <1>12, <1>13, <1>14, <1>15 DEF TableInv

\* What both library transactions write to the rows they locked.
LEMMA CancelledRows ==
    ASSUME TypeOK, TableInv, NEW l \in Libraries, NEW i \in JobIds
    PROVE  LET r == CancelLocked(l, jobs)[i] IN
           /\ r \in Row
           /\ r.type = jobs[i].type /\ r.lib = jobs[i].lib
           /\ r.attempt = jobs[i].attempt /\ r.owner = jobs[i].owner
           /\ r.live = jobs[i].live
           /\ i \notin tx[l].rows => r = jobs[i]
           /\ i \in tx[l].rows =>
                 \/ jobs[i].status = "pending" /\ r.status = "cancelled"
                 \/ jobs[i].status = "running" /\ r.status = "cancel_requested"
<1>1. jobs[i] \in Row
  BY DEF TypeOK
<1>2. i \in tx[l].rows => jobs[i].status \in {"pending", "running"}
  BY DEF TableInv, OpenTransactions
<1>3. {"cancelled", "cancel_requested"} \subseteq JobStatus
  BY DEF JobStatus, Active, Terminal, Executing
<1>. QED BY <1>1, <1>2, <1>3 DEF CancelLocked, Row

\* Committing a scan request: the library has no active scan (its lock was
\* held since the check), and the intro jobs it cancels were not executing a
\* conflicting job.
LEMMA EnqueueScanKeepsTables ==
    ASSUME TypeOK, TableInv, NEW l \in Libraries, NEW j \in JobIds,
           EnqueueScanCommit(l, j)
    PROVE  /\ jobs' \in [JobIds -> Row]
           /\ scans' \in [JobIds -> ScanStatus]
           /\ TableInv'
<1> DEFINE n == NewJob("scan", l, FALSE)
           r(i) == CancelLocked(l, jobs)[i]
<1>1. /\ jobs[j].status = "absent"
      /\ tx[l].op = "scan"
      /\ l \in libs
      /\ libs' = libs
      /\ jobs'[j] = n
      /\ scans'[j] = "pending"
      /\ \A i \in JobIds : i # j => jobs'[i] = r(i) /\ scans'[i] = scans[i]
      /\ DOMAIN jobs' = JobIds /\ DOMAIN scans' = JobIds
      /\ jobs' = [i \in JobIds |-> jobs'[i]]
  <2>1. /\ jobs[j].status = "absent" /\ tx[l].op = "scan" /\ libs' = libs
        /\ jobs' = [CancelLocked(l, jobs) EXCEPT ![j] = n]
        /\ scans' = [scans EXCEPT ![j] = "pending"]
    BY DEF EnqueueScanCommit, Fresh
  <2>2. l \in libs
    BY <2>1 DEF TableInv, OpenTransactions
  <2>3. DOMAIN CancelLocked(l, jobs) = JobIds
    BY DEF CancelLocked
  <2>4. scans \in [JobIds -> ScanStatus]
    BY DEF TypeOK
  <2>5. CancelLocked(l, jobs) = [i \in JobIds |-> CancelLocked(l, jobs)[i]]
    BY <2>3 DEF CancelLocked
  <2>6. /\ jobs'[j] = n
        /\ \A i \in JobIds : i # j => jobs'[i] = r(i)
        /\ DOMAIN jobs' = JobIds
        /\ jobs' = [i \in JobIds |-> jobs'[i]]
    <3> HIDE DEF n
    <3>. QED BY <2>1, <2>3, <2>5
  <2>7. /\ scans'[j] = "pending"
        /\ \A i \in JobIds : i # j => scans'[i] = scans[i]
        /\ DOMAIN scans' = JobIds
    BY <2>1, <2>4
  <2>. QED BY <2>1, <2>2, <2>6, <2>7
<1>2. \A i \in JobIds :
           /\ r(i) \in Row
           /\ r(i).type = jobs[i].type /\ r(i).lib = jobs[i].lib
           /\ r(i).attempt = jobs[i].attempt /\ r(i).owner = jobs[i].owner
           /\ r(i).live = jobs[i].live
           /\ i \notin tx[l].rows => r(i) = jobs[i]
           /\ i \in tx[l].rows =>
                 \/ jobs[i].status = "pending" /\ r(i).status = "cancelled"
                 \/ jobs[i].status = "running" /\ r(i).status = "cancel_requested"
  BY CancelledRows
<1>3. n \in Row /\ n.type = "scan" /\ n.lib = l /\ n.status = "pending"
      /\ n.attempt = 0 /\ n.owner = NoWorker /\ ~ n.live
  BY DEF NewJob, Row, JobType, JobStatus, Active
<1> HIDE DEF n, r
<1>4. jobs' \in [JobIds -> Row] /\ scans' \in [JobIds -> ScanStatus]
  <2>1. \A i \in JobIds : jobs'[i] \in Row
    BY <1>1, <1>2, <1>3
  <2>2. scans' \in [JobIds -> ScanStatus]
    BY DEF EnqueueScanCommit, TypeOK, ScanStatus, ActiveScan
  <2>. QED BY <1>1, <2>1, <2>2
<1>5. \A i \in tx[l].rows : i \in JobIds /\ jobs[i].type = "intro"
  <2>1. \A i \in tx[l].rows : /\ i \in JobIds /\ jobs[i].lib = l
                              /\ jobs[i].type \in {"scan", "intro"}
                              /\ jobs[i].status \in {"pending", "running"}
    BY DEF TypeOK, TableInv, OpenTransactions
  <2>. QED BY <1>1, <2>1 DEF TableInv, OpenTransactions, Active, Executing
<1>6. \A i \in JobIds : jobs[i].type = "scan" /\ jobs[i].lib = l =>
                           jobs[i].status \notin Active
  BY <1>1 DEF TableInv, OpenTransactions
<1>7. /\ MaxAttempts["scan"] \in Nat \ {0}
      /\ jobs[j].type = "none"
  BY <1>1 DEF JobType, TableInv, RowShape
<1>8. RowShape'
  <2> SUFFICES ASSUME NEW i \in JobIds
               PROVE  /\ jobs'[i].status = "absent" <=> jobs'[i].type = "none"
                      /\ jobs'[i].status # "absent" =>
                            /\ jobs'[i].lib \in Libraries
                            /\ jobs'[i].attempt <= MaxAttempts[jobs'[i].type]
                      /\ jobs'[i].live => jobs'[i].status \in Executing
    BY DEF RowShape, Max
  <2>1. CASE i = j
    BY <1>1, <1>3, <1>7, <2>1
  <2>2. CASE i # j
    BY <1>1, <1>2, <2>2 DEF TableInv, RowShape, Max, Executing
  <2>. QED BY <2>1, <2>2
<1>9. QueuedJobsHaveAttemptsLeft'
  BY <1>1, <1>2, <1>3, <1>7 DEF TableInv, QueuedJobsHaveAttemptsLeft, Max
<1>10. ScanAgreesWithJob'
  BY <1>1, <1>2, <1>3, <1>5 DEF TableInv, ScanAgreesWithJob, Agree
<1>11. DeletedLibraryJobs'
  BY <1>1, <1>2, <1>3, <1>5 DEF TableInv, DeletedLibraryJobs
<1>12. OpenTransactions'
  <2>1. /\ tx'[l] = NoTx
        /\ \A m \in Libraries : m # l => tx'[m] = tx[m]
    BY DEF EnqueueScanCommit, TypeOK
  <2>2. ASSUME NEW m \in Libraries, m # l, NEW i \in JobIds, jobs'[i].lib = m
        PROVE  jobs'[i] = jobs[i]
    BY <1>1, <1>2, <1>3, <2>2 DEF TableInv, OpenTransactions
  <2>3. ASSUME NEW m \in Libraries, m # l, NEW i \in JobIds, jobs[i].lib = m,
               jobs[i].status # "absent"
        PROVE  jobs'[i] = jobs[i]
    BY <1>1, <1>2, <2>3 DEF TableInv, OpenTransactions
  <2>4. ASSUME NEW m \in Libraries, m # l, NEW i \in tx[m].rows
        PROVE  jobs'[i] = jobs[i] /\ i \in JobIds
    BY <2>3, <2>4 DEF TypeOK, TableInv, OpenTransactions
  <2>. QED BY <1>1, <2>1, <2>2, <2>4 DEF TableInv, OpenTransactions, NoTx
<1>13. OneActiveScanPerLibrary'
  BY <1>1, <1>2, <1>3, <1>5, <1>6, <1>7
     DEF TableInv, OneActiveScanPerLibrary
<1>14. MutualExclusion'
  <2>1. \A i \in JobIds : jobs'[i].status \in Executing =>
            /\ jobs[i].status \in Executing
            /\ jobs'[i].type = jobs[i].type /\ jobs'[i].lib = jobs[i].lib
    BY <1>1, <1>2, <1>3 DEF Executing
  <2>. QED BY <2>1 DEF TableInv, MutualExclusion, Conflict
<1>. QED BY <1>4, <1>8, <1>9, <1>10, <1>11, <1>12, <1>13, <1>14 DEF TableInv

\* Committing a deletion: every unfinished scan of the library was locked and is
\* now cancelled or asked to stop, so the cache cleanup queued here never meets
\* a scan that could still be claimed.
LEMMA DeleteLibraryKeepsTables ==
    ASSUME TypeOK, TableInv, NEW l \in Libraries, NEW j \in JobIds,
           DeleteLibraryCommit(l, j)
    PROVE  /\ jobs' \in [JobIds -> Row]
           /\ scans' \in [JobIds -> ScanStatus]
           /\ TableInv'
<1> DEFINE n == NewJob("cache_cleanup", l, FALSE)
           r(i) == CancelLocked(l, jobs)[i]
<1>1. /\ jobs[j].status = "absent"
      /\ tx[l].op = "delete"
      /\ l \in libs
      /\ libs' = libs \ {l}
      /\ jobs'[j] = n
      /\ \A i \in JobIds : i # j => jobs'[i] = r(i)
      /\ \A i \in JobIds : scans'[i] = IF jobs[i].lib = l THEN "none" ELSE scans[i]
      /\ DOMAIN jobs' = JobIds /\ DOMAIN scans' = JobIds
      /\ jobs' = [i \in JobIds |-> jobs'[i]]
  <2>1. /\ jobs[j].status = "absent" /\ tx[l].op = "delete" /\ libs' = libs \ {l}
        /\ jobs' = [CancelLocked(l, jobs) EXCEPT ![j] = n]
        /\ scans' = [i \in JobIds |-> IF jobs[i].lib = l THEN "none" ELSE scans[i]]
    BY DEF DeleteLibraryCommit, Fresh
  <2>2. l \in libs
    BY <2>1 DEF TableInv, OpenTransactions
  <2>3. DOMAIN CancelLocked(l, jobs) = JobIds
    BY DEF CancelLocked
  <2>4. CancelLocked(l, jobs) = [i \in JobIds |-> CancelLocked(l, jobs)[i]]
    BY <2>3 DEF CancelLocked
  <2>5. /\ jobs'[j] = n
        /\ \A i \in JobIds : i # j => jobs'[i] = r(i)
        /\ DOMAIN jobs' = JobIds
        /\ jobs' = [i \in JobIds |-> jobs'[i]]
    <3> HIDE DEF n
    <3>. QED BY <2>1, <2>3, <2>4
  <2>. QED BY <2>1, <2>2, <2>5
<1>2. \A i \in JobIds :
           /\ r(i) \in Row
           /\ r(i).type = jobs[i].type /\ r(i).lib = jobs[i].lib
           /\ r(i).attempt = jobs[i].attempt /\ r(i).owner = jobs[i].owner
           /\ r(i).live = jobs[i].live
           /\ i \notin tx[l].rows => r(i) = jobs[i]
           /\ i \in tx[l].rows =>
                 \/ jobs[i].status = "pending" /\ r(i).status = "cancelled"
                 \/ jobs[i].status = "running" /\ r(i).status = "cancel_requested"
  BY CancelledRows
<1>3. n \in Row /\ n.type = "cache_cleanup" /\ n.lib = l /\ n.status = "pending"
      /\ n.attempt = 0 /\ n.owner = NoWorker /\ ~ n.live
  BY DEF NewJob, Row, JobType, JobStatus, Active
<1> HIDE DEF n, r
<1>4. jobs' \in [JobIds -> Row] /\ scans' \in [JobIds -> ScanStatus]
  <2>1. \A i \in JobIds : jobs'[i] \in Row
    BY <1>1, <1>2, <1>3
  <2>2. scans' \in [JobIds -> ScanStatus]
    BY DEF DeleteLibraryCommit, TypeOK, ScanStatus, ActiveScan
  <2>. QED BY <1>1, <2>1, <2>2
<1>5. \A i \in JobIds :
         /\ jobs[i].type = "scan"
         /\ jobs[i].lib = l
         /\ jobs[i].status \in {"pending", "running"}
         => i \in tx[l].rows
  BY <1>1 DEF TableInv, OpenTransactions
<1>6. \A i \in tx[l].rows : i \in JobIds /\ jobs[i].lib = l
  BY DEF TypeOK, TableInv, OpenTransactions
<1>7. /\ MaxAttempts["cache_cleanup"] \in Nat \ {0}
      /\ jobs[j].type = "none" /\ scans[j] = "none"
  BY <1>1 DEF JobType, TableInv, RowShape, ScanAgreesWithJob
<1>8. RowShape'
  <2> SUFFICES ASSUME NEW i \in JobIds
               PROVE  /\ jobs'[i].status = "absent" <=> jobs'[i].type = "none"
                      /\ jobs'[i].status # "absent" =>
                            /\ jobs'[i].lib \in Libraries
                            /\ jobs'[i].attempt <= MaxAttempts[jobs'[i].type]
                      /\ jobs'[i].live => jobs'[i].status \in Executing
    BY DEF RowShape, Max
  <2>1. CASE i = j
    BY <1>1, <1>3, <1>7, <2>1
  <2>2. CASE i # j
    BY <1>1, <1>2, <2>2 DEF TableInv, RowShape, Max, Executing
  <2>. QED BY <2>1, <2>2
<1>9. QueuedJobsHaveAttemptsLeft'
  BY <1>1, <1>2, <1>3, <1>7 DEF TableInv, QueuedJobsHaveAttemptsLeft, Max
<1>10. ScanAgreesWithJob'
  BY <1>1, <1>2, <1>3, <1>5, <1>6, <1>7 DEF TableInv, ScanAgreesWithJob, Agree
<1>11. DeletedLibraryJobs'
  BY <1>1, <1>2, <1>3, <1>5, <1>6 DEF TableInv, DeletedLibraryJobs
<1>12. OpenTransactions'
  <2>1. /\ tx'[l] = NoTx
        /\ \A m \in Libraries : m # l => tx'[m] = tx[m]
    BY DEF DeleteLibraryCommit, TypeOK
  <2>2. ASSUME NEW m \in Libraries, m # l, NEW i \in JobIds, jobs'[i].lib = m
        PROVE  jobs'[i] = jobs[i]
    BY <1>1, <1>2, <1>3, <2>2 DEF TableInv, OpenTransactions
  <2>3. ASSUME NEW m \in Libraries, m # l, NEW i \in JobIds, jobs[i].lib = m,
               jobs[i].status # "absent"
        PROVE  jobs'[i] = jobs[i]
    BY <1>1, <1>2, <2>3 DEF TableInv, OpenTransactions
  <2>4. ASSUME NEW m \in Libraries, m # l, NEW i \in tx[m].rows
        PROVE  jobs'[i] = jobs[i] /\ i \in JobIds
    BY <2>3, <2>4 DEF TypeOK, TableInv, OpenTransactions
  <2>. QED BY <1>1, <2>1, <2>2, <2>4 DEF TableInv, OpenTransactions, NoTx
<1>13. OneActiveScanPerLibrary'
  <2>1. \A i \in JobIds : jobs'[i].type = "scan" =>
            /\ jobs[i].type = "scan" /\ jobs'[i].lib = jobs[i].lib
            /\ jobs'[i].status \in Active => jobs[i].status \in Active
    BY <1>1, <1>2, <1>3 DEF Active, Executing
  <2>. QED BY <2>1 DEF TableInv, OneActiveScanPerLibrary
<1>14. MutualExclusion'
  <2>1. \A i \in JobIds : jobs'[i].status \in Executing =>
            /\ jobs[i].status \in Executing
            /\ jobs'[i].type = jobs[i].type /\ jobs'[i].lib = jobs[i].lib
    BY <1>1, <1>2, <1>3 DEF Executing
  <2>. QED BY <2>1 DEF TableInv, MutualExclusion, Conflict
<1>. QED BY <1>4, <1>8, <1>9, <1>10, <1>11, <1>12, <1>13, <1>14 DEF TableInv

\* The fence names an existing job in execution whose row is not locked.
LEMMA FencedJob ==
    ASSUME QueueInv, NEW w \in Workers, Fence(w)
    PROVE  LET j == exec[w].job IN
           /\ j \in JobIds
           /\ jobs[j] \in Row
           /\ scans[j] \in ScanStatus
           /\ jobs[j].status \in Executing
           /\ jobs[j].type \in JobType
           /\ Max(j) \in Nat \ {0}
           /\ jobs[j].attempt <= Max(j)
           /\ exec[w].attempt = jobs[j].attempt
           /\ ~ RowLocked(j)
<1>1. exec[w].job \in JobIds
  BY DEF QueueInv, Fence
<1>2. jobs[exec[w].job] \in Row /\ scans[exec[w].job] \in ScanStatus
  BY <1>1 DEF QueueInv, TypeOK
<1>3. jobs[exec[w].job].status \in Executing /\ ~ RowLocked(exec[w].job)
      /\ exec[w].attempt = jobs[exec[w].job].attempt
  BY DEF Fence
<1>4. jobs[exec[w].job].type \in JobType
  BY <1>1, <1>2, <1>3 DEF QueueInv, RowShape, Row, Executing
<1>. QED BY <1>1, <1>2, <1>3, <1>4 DEF QueueInv, RowShape, Max, Executing

\* A released row is a row again, unlocked.
LEMMA ReleasedRow ==
    ASSUME NEW j \in JobIds, jobs[j] \in Row, NEW status \in JobStatus
    PROVE  LET r == Released(j, status) IN
           /\ r \in Row
           /\ r.type = jobs[j].type /\ r.lib = jobs[j].lib
           /\ r.status = status /\ r.attempt = jobs[j].attempt
           /\ r.owner = NoWorker /\ ~ r.live
<1> DEFINE r1 == [jobs[j] EXCEPT !.status = status]
           r2 == [r1 EXCEPT !.owner = NoWorker]
<1>1. /\ r1 \in Row /\ r1.type = jobs[j].type /\ r1.lib = jobs[j].lib
      /\ r1.status = status /\ r1.attempt = jobs[j].attempt
  BY DEF Row
<1>2. /\ r2 \in Row /\ r2.type = jobs[j].type /\ r2.lib = jobs[j].lib
      /\ r2.status = status /\ r2.attempt = jobs[j].attempt /\ r2.owner = NoWorker
  BY <1>1 DEF Row
<1>3. Released(j, status) = [r2 EXCEPT !.live = FALSE]
  BY DEF Released
<1>. QED BY <1>2, <1>3 DEF Row

\* Ending an execution through its fence is a status step.
LEMMA EndingIsStatusStep ==
    ASSUME QueueInv, NEW w \in Workers, Fence(w),
           NEW r \in Row, NEW s \in ScanStatus,
           LET j == exec[w].job IN
           /\ r.type = jobs[j].type /\ r.lib = jobs[j].lib /\ ~ r.live
           /\ \/ r.status \in Terminal
              \/ /\ r.status = "pending" /\ jobs[j].status = "running"
                 /\ r.owner = NoWorker /\ r.attempt < Max(j)
           /\ r.attempt <= Max(j)
           /\ r.type = "scan" => Agree(r.status, s)
           /\ s # "none" => scans[j] # "none"
    PROVE  StatusStep(exec[w].job, r, s)
  BY FencedJob DEF StatusStep, Terminal, Active, Executing

\* Every way of ending an execution keeps the invariant.
LEMMA EndExecutionKeepsQueueInv ==
    ASSUME QueueInv, NEW w \in Workers, EndExecution(w)
    PROVE  QueueInv'
<1> DEFINE j == exec[w].job
<1>0. TypeOK /\ TableInv
  BY DEF QueueInv, TableInv
<1>1. /\ exec' = [exec EXCEPT ![w] = Idle]
      /\ UNCHANGED <<libs, tx, sched>>
  BY DEF EndExecution, CompleteScan, CancelScan, finalize_scan_job,
         complete_background_job, retry_or_fail_background_job, Abandon
<1>2. /\ libs' \subseteq Libraries /\ sched' = sched /\ tx' = tx
      /\ exec' \in [Workers -> ExecType]
      /\ \A v \in Workers : exec'[v].pc # "idle" => exec'[v].job \in JobIds
  BY <1>0, <1>1 DEF TypeOK, ExecType, Idle, QueueInv
<1>3. ASSUME NEW r \in Row, NEW s \in ScanStatus, Fence(w), StatusStep(j, r, s),
             jobs' = [jobs EXCEPT ![j] = r], scans' = [scans EXCEPT ![j] = s]
      PROVE  QueueInv'
  <2>1. j \in JobIds
    BY <1>3, FencedJob
  <2>2. TableInv'
    BY <1>0, <1>1, <1>3, <2>1, StatusStepKeepsTables
  <2>3. TypeOK'
    BY <1>0, <1>2, <1>3, <2>1 DEF TypeOK, ExecType
  <2>. QED BY <1>2, <2>2, <2>3 DEF QueueInv, TableInv
<1>4. ASSUME NEW requested \in {"success", "cancelled"}, finalize_scan_job(w, requested)
      PROVE  QueueInv'
  <2> DEFINE effective == IF jobs[j].status = "cancel_requested"
                          THEN "cancelled" ELSE requested
             st == BackgroundStatus(effective)
             s == FinalizedScan(j, effective)
             r == Released(j, st)
  <2>1. /\ Fence(w)
        /\ \/ scans[j] \in ActiveScan
           \/ scans[j] = "none" /\ jobs[j].status = "cancel_requested"
    <3>1. FinalizeScanFence(w)
      BY <1>4 DEF finalize_scan_job
    <3>. QED BY <3>1 DEF FinalizeScanFence
  <2>2. st \in JobStatus /\ st \in Terminal
    BY DEF JobStatus, Terminal, BackgroundStatus
  <2>3. /\ r \in Row /\ r.type = jobs[j].type /\ r.lib = jobs[j].lib
        /\ r.status = st /\ r.attempt = jobs[j].attempt /\ ~ r.live
    BY <2>1, <2>2, FencedJob, ReleasedRow
  <2>4. s \in ScanStatus /\ (s # "none" => scans[j] # "none") /\ Agree(st, s)
    BY <2>1, FencedJob DEF FinalizedScan, ScanStatus, ActiveScan, Agree, BackgroundStatus
  <2>5. jobs' = [jobs EXCEPT ![j] = r] /\ scans' = [scans EXCEPT ![j] = s]
    BY <1>4 DEF finalize_scan_job
  <2> HIDE DEF r, s, st
  <2>6. StatusStep(j, r, s)
    BY <2>1, <2>2, <2>3, <2>4, FencedJob, EndingIsStatusStep
  <2>. QED BY <1>3, <2>1, <2>3, <2>4, <2>5, <2>6
<1>5. CASE complete_background_job(w)
  <2> DEFINE st == IF jobs[j].status = "cancel_requested" THEN "cancelled" ELSE "succeeded"
             r == Released(j, st)
  <2>1. Fence(w) /\ jobs[j].type # "scan" /\ scans' = scans
        /\ jobs' = [jobs EXCEPT ![j] = r]
    BY <1>5 DEF complete_background_job
  <2>2. st \in JobStatus /\ st \in Terminal
    BY DEF JobStatus, Terminal
  <2>3. /\ r \in Row /\ r.type = jobs[j].type /\ r.lib = jobs[j].lib
        /\ r.status = st /\ r.attempt = jobs[j].attempt /\ ~ r.live
    BY <2>1, <2>2, FencedJob, ReleasedRow
  <2>4. scans[j] \in ScanStatus /\ scans' = [scans EXCEPT ![j] = scans[j]]
    BY <1>0, <2>1, FencedJob DEF TypeOK
  <2> HIDE DEF r, st
  <2>5. StatusStep(j, r, scans[j])
    BY <2>1, <2>2, <2>3, <2>4, FencedJob, EndingIsStatusStep
  <2>. QED BY <1>3, <2>1, <2>3, <2>4, <2>5
<1>6. CASE retry_or_fail_background_job(w)
  <2> DEFINE st == RetryStatus(j, exec[w].attempt)
             reset == st = "pending" /\ jobs[j].attempt >= Max(j)
             r1 == Released(j, st)
             a == IF reset THEN Max(j) - 1 ELSE r1.attempt
             r2 == [r1 EXCEPT !.attempt = a]
             r == [r2 EXCEPT !.due = IF st = "pending" THEN FALSE ELSE @]
             s == FinalizedScan(j, st)
  <2>1. Fence(w)
        /\ jobs' = [jobs EXCEPT ![j] = r] /\ scans' = [scans EXCEPT ![j] = s]
    BY <1>6 DEF retry_or_fail_background_job
  <2>2. /\ j \in JobIds /\ jobs[j] \in Row /\ scans[j] \in ScanStatus
        /\ jobs[j].status \in Executing
        /\ Max(j) \in Nat \ {0} /\ jobs[j].attempt <= Max(j)
        /\ exec[w].attempt = jobs[j].attempt
    BY <2>1, FencedJob
  <2>3. /\ st \in {"cancelled", "failed", "pending"}
        /\ st = "pending" => jobs[j].status = "running"
        /\ st = "pending" /\ jobs[j].attempt >= Max(j) => jobs[j].type = "artwork_cleanup"
    BY <2>2 DEF RetryStatus, Executing
  <2>4. /\ r1 \in Row /\ r1.type = jobs[j].type /\ r1.lib = jobs[j].lib
        /\ r1.status = st /\ r1.attempt = jobs[j].attempt
        /\ r1.owner = NoWorker /\ ~ r1.live
    <3>1. st \in JobStatus
      BY <2>3 DEF JobStatus, Active, Terminal
    <3>. QED BY <2>2, <3>1, ReleasedRow
  <2>5. a \in Nat /\ a <= Max(j) /\ (st = "pending" => a < Max(j))
    BY <2>2, <2>4 DEF Row
  <2>6. s \in ScanStatus /\ (s # "none" => scans[j] # "none")
        /\ (jobs[j].type = "scan" => Agree(st, s))
    BY <1>0, <2>2, <2>3 DEF FinalizedScan, ScanStatus, ActiveScan, Agree, Executing,
       TableInv, ScanAgreesWithJob
  <2> HIDE DEF a, r1, s, st
  <2>7. /\ r2 \in Row /\ r2.type = jobs[j].type /\ r2.lib = jobs[j].lib
        /\ r2.status = st /\ r2.attempt = a
        /\ r2.owner = NoWorker /\ ~ r2.live
    BY <2>4, <2>5 DEF Row
  <2> HIDE DEF r2
  <2>8. /\ r \in Row /\ r.type = jobs[j].type /\ r.lib = jobs[j].lib
        /\ r.status = st /\ r.attempt = a
        /\ r.owner = NoWorker /\ ~ r.live
    BY <2>7 DEF Row
  <2> HIDE DEF r
  <2>9. StatusStep(j, r, s)
    BY <2>1, <2>2, <2>3, <2>5, <2>6, <2>8, EndingIsStatusStep DEF Terminal
  <2>. QED BY <1>3, <2>1, <2>6, <2>8, <2>9
<1>7. CASE Abandon(w)
  <2>1. jobs' = jobs /\ scans' = scans
    BY <1>7 DEF Abandon
  <2>2. TableInv'
    BY <1>0, <1>1, <2>1 DEF TableInv, RowShape, QueuedJobsHaveAttemptsLeft,
       ScanAgreesWithJob, DeletedLibraryJobs, OpenTransactions,
       OneActiveScanPerLibrary, MutualExclusion, Max
  <2>. QED BY <1>0, <1>2, <2>1, <2>2 DEF QueueInv, TypeOK, TableInv, ExecType
<1>. QED BY <1>4, <1>5, <1>6, <1>7 DEF EndExecution, CompleteScan, CancelScan

\* Claims, the start of a scan and the heartbeat keep the invariant.
LEMMA WorkerStepKeepsQueueInv ==
    ASSUME QueueInv, NEW w \in Workers, WorkerStep(w)
    PROVE  QueueInv'
<1>0. TypeOK /\ TableInv
  BY DEF QueueInv, TableInv
<1>1. CASE claim_background_job(w)
  <2>1. PICK old \in SUBSET Prunable :
          LET rows == Swept(old) IN
          \/ \E j \in JobIds :
                /\ Picked(rows, j)
                /\ jobs' = [rows EXCEPT ![j] = Claimed(@, w)]
                /\ exec' = [exec EXCEPT ![w] =
                              [job |-> j, attempt |-> rows[j].attempt + 1,
                               pc |-> "claimed", cancel |-> FALSE]]
          \/ /\ \A j \in JobIds : ~ Candidate(rows, j)
             /\ jobs' = rows
             /\ UNCHANGED exec
    BY <1>1 DEF claim_background_job
  <2>2. scans' = [i \in JobIds |-> ReapedScan(i)] /\ UNCHANGED <<libs, tx, sched>>
    BY <1>1 DEF claim_background_job
  <2>3. ASSUME NEW c, c \in JobIds => Picked(Swept(old), c),
               jobs' = [i \in JobIds |-> IF i = c THEN Claimed(Swept(old)[i], w)
                                         ELSE Swept(old)[i]],
               exec' \in [Workers -> ExecType],
               \A v \in Workers : exec'[v].pc # "idle" => exec'[v].job \in JobIds
        PROVE  QueueInv'
    <3>1. /\ jobs' \in [JobIds -> Row]
          /\ scans' \in [JobIds -> ScanStatus]
          /\ TableInv'
      BY <1>0, <2>2, <2>3, ClaimKeepsTables
    <3>. QED BY <1>0, <2>2, <2>3, <3>1 DEF QueueInv, TypeOK, TableInv, ExecType
  <2>4. CASE \E j \in JobIds :
                /\ Picked(Swept(old), j)
                /\ jobs' = [Swept(old) EXCEPT ![j] = Claimed(@, w)]
                /\ exec' = [exec EXCEPT ![w] =
                              [job |-> j, attempt |-> Swept(old)[j].attempt + 1,
                               pc |-> "claimed", cancel |-> FALSE]]
    <3>1. PICK j \in JobIds :
                /\ Picked(Swept(old), j)
                /\ jobs' = [Swept(old) EXCEPT ![j] = Claimed(@, w)]
                /\ exec' = [exec EXCEPT ![w] =
                              [job |-> j, attempt |-> Swept(old)[j].attempt + 1,
                               pc |-> "claimed", cancel |-> FALSE]]
      BY <2>4
    <3>2. jobs' = [i \in JobIds |-> IF i = j THEN Claimed(Swept(old)[i], w)
                                    ELSE Swept(old)[i]]
      BY <3>1 DEF Swept
    <3>3. Swept(old)[j].attempt \in Nat
      BY <1>0, SweptRows DEF Row
    <3>4. /\ exec' \in [Workers -> ExecType]
          /\ \A v \in Workers : exec'[v].pc # "idle" => exec'[v].job \in JobIds
      BY <1>0, <3>1, <3>3 DEF TypeOK, ExecType, QueueInv
    <3>5. Picked(Swept(old), j)
      BY <3>1
    <3>. QED BY ONLY <2>3, <3>2, <3>4, <3>5, Zenon
  <2>5. CASE jobs' = Swept(old) /\ UNCHANGED exec
    <3>1. jobs' = [i \in JobIds |-> IF i = NoJob THEN Claimed(Swept(old)[i], w)
                                    ELSE Swept(old)[i]]
      BY <2>5 DEF Swept
    <3>2. /\ exec' \in [Workers -> ExecType]
          /\ \A v \in Workers : exec'[v].pc # "idle" => exec'[v].job \in JobIds
      BY <1>0, <2>5 DEF TypeOK, ExecType, QueueInv
    <3>. QED BY <2>3, <3>1, <3>2
  <2>. QED BY <2>1, <2>4, <2>5
<1>2. CASE mark_scan_job_running(w)
  <2> DEFINE j == exec[w].job
  <2>1. /\ Fence(w) /\ jobs[j].status = "running" /\ scans[j] \in ActiveScan
        /\ jobs[j].type = "scan"
    BY <1>2 DEF mark_scan_job_running, ActiveScanFence
  <2>2. /\ j \in JobIds /\ jobs[j] \in Row /\ jobs[j].attempt <= Max(j)
    BY <2>1, FencedJob
  <2>3. "running" \in ScanStatus /\ StatusStep(j, jobs[j], "running")
    BY <1>0, <2>1, <2>2 DEF ScanStatus, ActiveScan, StatusStep, Agree, Executing,
       Active, TableInv, RowShape
  <2>4. jobs' = [jobs EXCEPT ![j] = jobs[j]] /\ scans' = [scans EXCEPT ![j] = "running"]
        /\ UNCHANGED <<libs, tx, sched>>
    BY <1>0, <1>2, <2>2 DEF mark_scan_job_running, TypeOK
  <2>5. TableInv'
    BY <1>0, <2>2, <2>3, <2>4, StatusStepKeepsTables
  <2>6. /\ exec' \in [Workers -> ExecType]
        /\ \A v \in Workers : exec'[v].pc # "idle" => exec'[v].job \in JobIds
    BY <1>0, <1>2, <2>2 DEF mark_scan_job_running, TypeOK, ExecType, QueueInv
  <2>. QED BY <1>0, <2>2, <2>3, <2>4, <2>5, <2>6 DEF QueueInv, TypeOK, TableInv, ExecType
<1>3. CASE run_lease_heartbeat(w)
  <2>1. UNCHANGED <<jobs, scans, libs, tx, sched>>
    BY <1>3 DEF run_lease_heartbeat
  <2>2. /\ exec' \in [Workers -> ExecType]
        /\ \A v \in Workers : exec'[v].pc # "idle" => exec'[v].job \in JobIds
    <3>1. exec' = [exec EXCEPT ![w] = [exec[w] EXCEPT !.cancel = TRUE]]
      BY <1>0, <1>3 DEF run_lease_heartbeat, TypeOK
    <3>2. exec[w] \in ExecType
      BY <1>0 DEF TypeOK, ExecType
    <3>3. /\ [exec[w] EXCEPT !.cancel = TRUE] \in ExecType
          /\ [exec[w] EXCEPT !.cancel = TRUE].pc = exec[w].pc
          /\ [exec[w] EXCEPT !.cancel = TRUE].job = exec[w].job
      BY <3>2 DEF ExecType
    <3>4. exec \in [Workers -> ExecType]
      BY <1>0 DEF TypeOK, ExecType
    <3>. QED BY <3>1, <3>3, <3>4 DEF QueueInv
  <2>3. TableInv'
    BY <1>0, <2>1 DEF TableInv, RowShape, QueuedJobsHaveAttemptsLeft,
       ScanAgreesWithJob, DeletedLibraryJobs, OpenTransactions,
       OneActiveScanPerLibrary, MutualExclusion, Max
  <2>. QED BY <1>0, <2>1, <2>2, <2>3 DEF QueueInv, TypeOK, TableInv, ExecType
<1>. QED BY <1>1, <1>2, <1>3, EndExecutionKeepsQueueInv DEF WorkerStep

\* Beginning and ending the library transactions keeps the invariant.
LEMMA LibraryTxKeepsQueueInv ==
    ASSUME QueueInv, NEW l \in Libraries,
           EnqueueScanBegin(l) \/ DeleteLibraryBegin(l) \/ EndLibraryTx(l)
    PROVE  QueueInv'
<1>0. TypeOK /\ TableInv
  BY DEF QueueInv, TableInv
<1>1. UNCHANGED <<sched, exec>>
  BY DEF EnqueueScanBegin, DeleteLibraryBegin, EndLibraryTx, EnqueueScanCommit,
         DeleteLibraryCommit, LibraryRollback
<1>2. ASSUME NEW t \in [op : {"none", "scan", "delete"}, rows : SUBSET JobIds],
             tx' = [tx EXCEPT ![l] = t], UNCHANGED <<jobs, scans, libs>>,
             OpenTransactions'
      PROVE  QueueInv'
  <2>1. TableInv'
    BY <1>0, <1>2 DEF TableInv, RowShape, QueuedJobsHaveAttemptsLeft,
       ScanAgreesWithJob, DeletedLibraryJobs,
       OneActiveScanPerLibrary, MutualExclusion, Max
  <2>. QED BY <1>0, <1>1, <1>2, <2>1 DEF QueueInv, TypeOK, TableInv
<1>3. \A types \in SUBSET {"scan", "intro"} : \A j \in LibraryRows(l, types) :
         /\ j \in JobIds /\ jobs[j].lib = l /\ jobs[j].type \in {"scan", "intro"}
         /\ jobs[j].status \in {"pending", "running"}
  BY DEF LibraryRows
<1>4. CASE EnqueueScanBegin(l)
  <2> DEFINE t == [op |-> "scan", rows |-> LibraryRows(l, {"intro"})]
  <2>1. tx' = [tx EXCEPT ![l] = t] /\ UNCHANGED <<jobs, scans, libs>> /\ l \in libs
    BY <1>4 DEF EnqueueScanBegin
  <2>2. t \in [op : {"none", "scan", "delete"}, rows : SUBSET JobIds]
    BY DEF LibraryRows
  <2>3. \A j \in JobIds : jobs[j].type = "scan" /\ jobs[j].lib = l =>
                             jobs[j].status \notin Active
    <3>1. \A j \in JobIds : jobs[j].lib = l => scans[j] \notin ActiveScan
      BY <1>4 DEF EnqueueScanBegin, HasActiveScan
    <3>. QED BY <1>0, <2>1, <3>1 DEF TableInv, ScanAgreesWithJob, Agree,
            DeletedLibraryJobs, Active, Executing, ActiveScan
  <2>4. OpenTransactions'
    <3>1. tx'[l] = t /\ \A m \in Libraries : m # l => tx'[m] = tx[m]
      BY <1>0, <2>1 DEF TypeOK
    <3>2. {"intro"} \in SUBSET {"scan", "intro"}
      OBVIOUS
    <3>. QED BY <1>0, <1>3, <2>1, <2>3, <3>1, <3>2 DEF TableInv, OpenTransactions
  <2>. QED BY <1>2, <2>1, <2>2, <2>4
<1>5. CASE DeleteLibraryBegin(l)
  <2> DEFINE t == [op |-> "delete", rows |-> LibraryRows(l, {"scan", "intro"})]
  <2>1. tx' = [tx EXCEPT ![l] = t] /\ UNCHANGED <<jobs, scans, libs>> /\ l \in libs
    BY <1>5 DEF DeleteLibraryBegin
  <2>2. t \in [op : {"none", "scan", "delete"}, rows : SUBSET JobIds]
    BY DEF LibraryRows
  <2>3. OpenTransactions'
    <3>1. tx'[l] = t /\ \A m \in Libraries : m # l => tx'[m] = tx[m]
      BY <1>0, <2>1 DEF TypeOK
    <3>2. {"scan", "intro"} \in SUBSET {"scan", "intro"}
      OBVIOUS
    <3>3. \A j \in JobIds : /\ jobs[j].type = "scan"
                            /\ jobs[j].lib = l
                            /\ jobs[j].status \in {"pending", "running"}
                            => j \in t.rows
      BY DEF LibraryRows
    <3>. QED BY <1>0, <1>3, <2>1, <3>1, <3>2, <3>3 DEF TableInv, OpenTransactions
  <2>. QED BY <1>2, <2>1, <2>2, <2>3
<1>6. CASE LibraryRollback(l)
  <2>1. tx' = [tx EXCEPT ![l] = NoTx] /\ UNCHANGED <<jobs, scans, libs>>
    BY <1>6 DEF LibraryRollback
  <2>2. NoTx \in [op : {"none", "scan", "delete"}, rows : SUBSET JobIds]
    BY DEF NoTx
  <2>3. OpenTransactions'
    <3>1. tx'[l] = NoTx /\ \A m \in Libraries : m # l => tx'[m] = tx[m]
      BY <1>0, <2>1 DEF TypeOK
    <3>. QED BY <1>0, <2>1, <3>1 DEF TableInv, OpenTransactions, NoTx
  <2>. QED BY <1>2, <2>1, <2>2, <2>3
<1>7. ASSUME NEW j \in JobIds, EnqueueScanCommit(l, j) \/ DeleteLibraryCommit(l, j)
      PROVE  QueueInv'
  <2>1. /\ jobs' \in [JobIds -> Row]
        /\ scans' \in [JobIds -> ScanStatus]
        /\ TableInv'
    BY <1>0, <1>7, EnqueueScanKeepsTables, DeleteLibraryKeepsTables
  <2>2. /\ libs' \subseteq Libraries
        /\ tx' \in [Libraries -> [op : {"none", "scan", "delete"}, rows : SUBSET JobIds]]
    <3>1. tx' = [tx EXCEPT ![l] = NoTx] /\ libs' \subseteq libs
      BY <1>7 DEF EnqueueScanCommit, DeleteLibraryCommit
    <3>2. NoTx \in [op : {"none", "scan", "delete"}, rows : SUBSET JobIds]
      BY DEF NoTx
    <3>. QED BY <1>0, <3>1, <3>2 DEF TypeOK
  <2>. QED BY <1>0, <1>1, <2>1, <2>2 DEF QueueInv, TypeOK, TableInv
<1>. QED BY <1>4, <1>5, <1>6, <1>7 DEF EndLibraryTx

\* Requests other than the library transactions keep the invariant.
LEMMA RequestKeepsQueueInv ==
    ASSUME QueueInv, Request
    PROVE  QueueInv'
<1>0. TypeOK /\ TableInv
  BY DEF QueueInv, TableInv
<1>1. ASSUME NEW j \in JobIds, jobs[j].status = "absent",
             NEW type \in {"intro", "artwork_cleanup", "revalidate"},
             NEW l \in Libraries, NEW retention \in BOOLEAN,
             jobs' = [jobs EXCEPT ![j] = NewJob(type, l, retention)],
             UNCHANGED <<scans, libs, tx, exec>>,
             sched' = sched \/ sched' = NoPick
      PROVE  QueueInv'
  <2>1. TableInv'
    BY <1>0, <1>1, InsertKeepsTables
  <2>2. NewJob(type, l, retention) \in Row
    BY DEF NewJob, Row, JobType, JobStatus, Active
  <2>3. NoPick \in [lib : Libraries \union {NoLibrary}, retention : BOOLEAN]
    BY DEF NoPick
  <2>. QED BY <1>0, <1>1, <2>1, <2>2, <2>3 DEF QueueInv, TypeOK, TableInv
<1>2. ASSUME UNCHANGED <<jobs, scans, libs, tx, exec>>,
             sched' \in [lib : Libraries \union {NoLibrary}, retention : BOOLEAN],
             sched' = NoPick \/ sched'.lib \in Libraries
      PROVE  QueueInv'
  <2>1. TableInv'
    BY <1>0, <1>2 DEF TableInv, RowShape, QueuedJobsHaveAttemptsLeft,
       ScanAgreesWithJob, DeletedLibraryJobs, OpenTransactions,
       OneActiveScanPerLibrary, MutualExclusion, Max
  <2>. QED BY <1>0, <1>2, <2>1 DEF QueueInv, TypeOK, TableInv
<1>3. ASSUME NEW l \in Libraries, NEW j \in JobIds,
             \/ enqueue_season_intro_detection(l, j)
             \/ enqueue_tmdb_artwork_cleanup(l, j)
      PROVE  QueueInv'
  BY <1>1, <1>3 DEF enqueue_season_intro_detection, enqueue_tmdb_artwork_cleanup, Fresh
<1>4. ASSUME NEW l \in Libraries, NEW retention \in BOOLEAN,
             RevalidationSnapshot(l, retention)
      PROVE  QueueInv'
  BY <1>2, <1>4 DEF RevalidationSnapshot
<1>5. ASSUME NEW j \in JobIds, RevalidationInsert(j)
      PROVE  QueueInv'
  <2>1. /\ sched.lib \in Libraries /\ sched.retention \in BOOLEAN
        /\ jobs[j].status = "absent" /\ sched' = NoPick
        /\ UNCHANGED <<scans, libs, tx, exec>>
    BY <1>0, <1>5 DEF RevalidationInsert, Fresh, QueueInv, TypeOK
  <2>2. CASE NoActiveRevalidation
    <3>1. jobs' = [jobs EXCEPT ![j] = NewJob("revalidate", sched.lib, sched.retention)]
      BY <1>5, <2>2 DEF RevalidationInsert
    <3>. QED BY <1>1, <2>1, <3>1
  <2>3. CASE ~ NoActiveRevalidation
    <3>1. jobs' = jobs
      BY <1>5, <2>3 DEF RevalidationInsert
    <3>2. NoPick \in [lib : Libraries \union {NoLibrary}, retention : BOOLEAN]
      BY DEF NoPick
    <3>. QED BY <1>2, <2>1, <3>1, <3>2
  <2>. QED BY <2>2, <2>3
<1>. QED BY <1>3, <1>4, <1>5, LibraryTxKeepsQueueInv DEF Request

\* The clock keeps the invariant.
LEMMA ClockKeepsQueueInv ==
    ASSUME QueueInv, Clock
    PROVE  QueueInv'
<1>0. TypeOK /\ TableInv
  BY DEF QueueInv, TableInv
<1>1. PICK j \in JobIds : LeaseExpires(j) \/ BecomesDue(j)
  BY DEF Clock
<1>2. PICK r : /\ r \in {[jobs[j] EXCEPT !.live = FALSE], [jobs[j] EXCEPT !.due = TRUE]}
               /\ jobs' = [jobs EXCEPT ![j] = r]
               /\ jobs[j].live \/ jobs[j].status = "pending"
  <2>1. CASE LeaseExpires(j)
    BY <1>0, <2>1 DEF LeaseExpires, TypeOK
  <2>2. CASE BecomesDue(j)
    BY <1>0, <2>2 DEF BecomesDue, TypeOK
  <2>. QED BY <1>1, <2>1, <2>2
<1>3. UNCHANGED <<scans, libs, tx, sched, exec>>
  BY <1>1 DEF LeaseExpires, BecomesDue
<1>4. jobs[j] \in Row /\ scans[j] \in ScanStatus
  BY <1>0 DEF TypeOK
<1>5. /\ r \in Row /\ r.type = jobs[j].type /\ r.lib = jobs[j].lib
      /\ r.status = jobs[j].status /\ r.attempt = jobs[j].attempt
      /\ r.owner = jobs[j].owner /\ (r.live => jobs[j].live)
  BY <1>2, <1>4 DEF Row
<1>6. StatusStep(j, r, scans[j])
  BY <1>0, <1>2, <1>5 DEF StatusStep, TableInv, RowShape, QueuedJobsHaveAttemptsLeft,
     ScanAgreesWithJob, Executing, Max
<1>7. scans' = [scans EXCEPT ![j] = scans[j]]
  BY <1>0, <1>3 DEF TypeOK
<1>8. TableInv'
  BY <1>0, <1>2, <1>3, <1>4, <1>5, <1>6, <1>7, StatusStepKeepsTables
<1>. QED BY <1>0, <1>2, <1>3, <1>5, <1>8 DEF QueueInv, TypeOK, TableInv

\* QueueInv is inductive.
LEMMA NextKeepsQueueInv ==
    ASSUME QueueInv, [Next]_vars
    PROVE  QueueInv'
<1>1. CASE UNCHANGED vars
  BY <1>1 DEF vars, QueueInv, TypeOK, RowShape, QueuedJobsHaveAttemptsLeft,
     ScanAgreesWithJob, DeletedLibraryJobs, OpenTransactions,
     OneActiveScanPerLibrary, MutualExclusion, Max
<1>. QED BY <1>1, WorkerStepKeepsQueueInv, LibraryTxKeepsQueueInv,
            RequestKeepsQueueInv, ClockKeepsQueueInv DEF Next

\* The inductive invariant holds in every reachable state of the queue.
THEOREM QueueInvariant == Spec => []QueueInv
<1>1. Init => QueueInv
  <2> SUFFICES ASSUME Init PROVE QueueInv
    OBVIOUS
  <2>1. /\ \A j \in JobIds : jobs[j] = Absent /\ scans[j] = "none"
        /\ \A l \in Libraries : tx[l] = NoTx
        /\ \A w \in Workers : exec[w] = Idle
        /\ libs = Libraries /\ sched = NoPick
    BY DEF Init
  <2>2. Absent \in Row
    BY DEF Absent, Row, JobStatus
  <2>3. TypeOK
    BY <2>2 DEF Init, TypeOK, ScanStatus, NoTx, NoPick, Idle
  <2>. QED BY <2>1, <2>3 DEF QueueInv, RowShape, QueuedJobsHaveAttemptsLeft,
     ScanAgreesWithJob, DeletedLibraryJobs, OpenTransactions, Absent, NoTx, Idle,
     OneActiveScanPerLibrary, MutualExclusion, Executing, Active, Agree
<1>. QED BY <1>1, NextKeepsQueueInv, PTL DEF Spec

\* Type correctness of the queue.
THEOREM TypeCorrectness == Spec => []TypeOK
  BY QueueInvariant, PTL DEF QueueInv

\* No two conflicting jobs are ever claimed at the same time.
THEOREM ClaimsAreExclusive == Spec => []MutualExclusion
  BY QueueInvariant, PTL DEF QueueInv

\* The visible scan and its job never disagree.
THEOREM ScansAgree == Spec => []ScanAgreesWithJob
  BY QueueInvariant, PTL DEF QueueInv

\* A library has at most one unfinished scan.
THEOREM ScansAreSingle == Spec => []OneActiveScanPerLibrary
  BY QueueInvariant, PTL DEF QueueInv

\* A queued job is within reach of the candidate query.
THEOREM QueueIsClaimable == Spec => []QueuedJobsHaveAttemptsLeft
  BY QueueInvariant, PTL DEF QueueInv

-----------------------------------------------------------------------------
(* The action properties.                                                  *)

\* The ways in which the status of job j may change in a step.
StatusChange(j) ==
    \/ jobs[j].status = "absent" /\ jobs'[j].status = "pending"
    \/ jobs[j].status = "pending" /\ jobs'[j].status \in {"running", "cancelled"}
    \/ jobs[j].status \in Terminal /\ jobs'[j].status = "absent"
    \/ jobs[j].status = "running" /\ jobs'[j].status = "cancel_requested"
    \/ /\ jobs[j].status \in Executing
       /\ jobs[j].status = "cancel_requested" => jobs'[j].status = "cancelled"
       /\ jobs'[j].status \in Terminal \union {"pending", "running"}
       /\ \/ ~ jobs[j].live
          \/ \E w \in Workers : CurrentExecutor(w, j) /\ exec'[w] = Idle

\* A claim changes the status of queued jobs, of jobs whose lease ran out and
\* of finished jobs that it prunes.
LEMMA ClaimChangesStatus ==
    ASSUME QueueInv, NEW w \in Workers, claim_background_job(w),
           NEW j \in JobIds, jobs'[j].status # jobs[j].status
    PROVE  StatusChange(j)
<1>1. PICK old \in SUBSET Prunable :
        \/ \E c \in JobIds : /\ Picked(Swept(old), c)
                             /\ jobs' = [Swept(old) EXCEPT ![c] = Claimed(@, w)]
        \/ jobs' = Swept(old)
  BY DEF claim_background_job
<1>2. Swept(old)[j] = IF j \in old THEN Absent ELSE Reaped(j)
  BY DEF Swept
<1>3. jobs[j] \in Row
  BY DEF QueueInv, TypeOK
<1>4. CASE j \in old
  <2>1. Swept(old)[j].status = "absent" /\ jobs[j].status \in Terminal
    BY <1>2, <1>4 DEF Absent, Prunable
  <2>2. ~ Picked(Swept(old), j)
    BY <2>1 DEF Picked, Candidate, Claimable
  <2>3. jobs'[j] = Swept(old)[j]
    BY <1>1, <2>2 DEF Swept
  <2>. QED BY <2>1, <2>3 DEF StatusChange
<1>5. CASE j \notin old /\ ~ Abandoned(j)
  <2>1. Swept(old)[j] = jobs[j]
    BY <1>2, <1>5 DEF Reaped
  <2>2. PICK c \in JobIds : /\ Picked(Swept(old), c)
                            /\ jobs' = [Swept(old) EXCEPT ![c] = Claimed(@, w)]
    BY <1>1, <2>1
  <2>3. j = c
    BY <2>1, <2>2 DEF Swept
  <2>4. jobs'[j] = Claimed(jobs[j], w)
    BY <2>1, <2>2, <2>3 DEF Swept
  <2>5. jobs'[j].status = "running"
    BY <1>3, <2>4 DEF Claimed, Row
  <2>6. jobs[j].status = "pending" \/ jobs[j].status = "running"
    BY <2>1, <2>2, <2>3 DEF Picked, Candidate, Claimable
  <2>. QED BY <2>5, <2>6 DEF StatusChange
<1>6. CASE j \notin old /\ Abandoned(j)
  <2>1. jobs[j].status \in Executing /\ ~ jobs[j].live
    BY <1>6 DEF Abandoned, Executing
  <2>2. ASSUME jobs[j].status = "cancel_requested"
        PROVE  jobs'[j].status = "cancelled"
    <3>1. Swept(old)[j] = [jobs[j] EXCEPT !.status = abandoned_terminal_transition(@),
                                          !.owner = NoWorker]
      BY <1>2, <1>6, <2>2 DEF Reaped
    <3>2. Swept(old)[j].status = "cancelled"
      BY <1>3, <2>2, <3>1 DEF abandoned_terminal_transition, Row
    <3>3. ~ Picked(Swept(old), j)
      BY <3>2 DEF Picked, Candidate, Claimable
    <3>4. jobs'[j] = Swept(old)[j]
      BY <1>1, <3>3 DEF Swept
    <3>. QED BY <3>2, <3>4
  <2>3. Swept(old)[j].status \in {"pending", "failed", "cancelled"}
    <3>1. \/ Swept(old)[j] = Rescheduled(j)
          \/ Swept(old)[j] = [jobs[j] EXCEPT !.status = abandoned_terminal_transition(@),
                                             !.owner = NoWorker]
      BY <1>2, <1>6 DEF Reaped
    <3>2. Rescheduled(j).status = "pending"
      BY <1>3 DEF Rescheduled, Row
    <3>. QED BY <1>3, <3>1, <3>2 DEF abandoned_terminal_transition, Row
  <2>4. Swept(old)[j] \in Row
    BY SweptRows DEF QueueInv, TableInv
  <2>5. Claimed(Swept(old)[j], w).status = "running"
    BY <2>4 DEF Claimed, Row
  <2>6. jobs'[j] \in {Swept(old)[j], Claimed(Swept(old)[j], w)}
    BY <1>1 DEF Swept
  <2>7. jobs'[j].status \in Terminal \union {"pending", "running"}
    BY <2>3, <2>5, <2>6 DEF Terminal
  <2>. QED BY <2>1, <2>2, <2>7 DEF StatusChange
<1>. QED BY <1>4, <1>5, <1>6

\* Ending an execution changes the status of the job of the current executor.
LEMMA EndChangesStatus ==
    ASSUME QueueInv, NEW w \in Workers, EndExecution(w),
           NEW j \in JobIds, jobs'[j].status # jobs[j].status
    PROVE  StatusChange(j)
<1>1. exec' = [exec EXCEPT ![w] = Idle]
  BY DEF EndExecution, CompleteScan, CancelScan, finalize_scan_job,
         complete_background_job, retry_or_fail_background_job, Abandon
<1>2. Fence(w)
  BY DEF EndExecution, CompleteScan, CancelScan, finalize_scan_job, FinalizeScanFence,
         complete_background_job, retry_or_fail_background_job, Abandon
<1>3. PICK r : jobs' = [jobs EXCEPT ![exec[w].job] = r]
  BY <1>2 DEF EndExecution, CompleteScan, CancelScan, finalize_scan_job,
         complete_background_job, retry_or_fail_background_job, Abandon
<1>4. j = exec[w].job /\ jobs[j] \in Row
  BY <1>3 DEF QueueInv, TypeOK
<1>5. CurrentExecutor(w, j) /\ exec'[w] = Idle /\ jobs[j].status \in Executing
  BY <1>1, <1>2, <1>4 DEF CurrentExecutor, Fence, QueueInv, TypeOK
<1>6. ASSUME jobs[j].status = "cancel_requested"
      PROVE  jobs'[j].status = "cancelled"
  <2>1. Released(j, "cancelled").status = "cancelled"
    BY <1>4, ReleasedRow DEF JobStatus, Terminal
  <2>2. ASSUME NEW requested \in {"success", "cancelled"},
               finalize_scan_job(w, requested)
        PROVE  jobs'[j].status = "cancelled"
    <3>1. jobs'[j] = Released(j, BackgroundStatus("cancelled"))
      BY <1>4, <1>6, <2>2 DEF finalize_scan_job, QueueInv, TypeOK
    <3>. QED BY <2>1, <3>1 DEF BackgroundStatus
  <2>3. CASE complete_background_job(w)
    <3>1. jobs'[j] = Released(j, "cancelled")
      BY <1>4, <1>6, <2>3 DEF complete_background_job, QueueInv, TypeOK
    <3>. QED BY <2>1, <3>1
  <2>4. CASE retry_or_fail_background_job(w)
    <3> DEFINE r1 == Released(j, "cancelled")
    <3>1. RetryStatus(j, exec[w].attempt) = "cancelled"
      BY <1>6 DEF RetryStatus
    <3>2. jobs'[j] = [r1 EXCEPT !.attempt = @, !.due = @]
      BY <1>4, <2>4, <3>1 DEF retry_or_fail_background_job, QueueInv, TypeOK
    <3>3. r1 \in Row /\ r1.status = "cancelled"
      BY <1>4, ReleasedRow DEF JobStatus, Terminal
    <3> HIDE DEF r1
    <3>. QED BY <3>2, <3>3 DEF Row
  <2>5. CASE Abandon(w)
    BY <2>5 DEF Abandon
  <2>. QED BY <2>2, <2>3, <2>4, <2>5 DEF EndExecution, CompleteScan, CancelScan
<1>7. jobs'[j].status \in Terminal \union {"pending", "running"}
  <2>1. ASSUME NEW status \in Terminal \union {"pending"},
               jobs'[j] = Released(j, status)
        PROVE  jobs'[j].status \in Terminal \union {"pending", "running"}
    <3>1. status \in JobStatus
      BY DEF JobStatus, Active
    <3>2. Released(j, status).status = status
      BY <1>4, <3>1, ReleasedRow
    <3>. QED BY <2>1, <3>2
  <2>2. ASSUME NEW requested \in {"success", "cancelled"},
               finalize_scan_job(w, requested)
        PROVE  jobs'[j].status \in Terminal \union {"pending", "running"}
    <3>1. \E s \in {"success", "cancelled"} : jobs'[j] = Released(j, BackgroundStatus(s))
      BY <1>4, <2>2 DEF finalize_scan_job, QueueInv, TypeOK
    <3>. QED BY <2>1, <3>1 DEF BackgroundStatus, Terminal
  <2>3. CASE complete_background_job(w)
    <3>1. \E s \in {"succeeded", "cancelled"} : jobs'[j] = Released(j, s)
      BY <1>4, <2>3 DEF complete_background_job, QueueInv, TypeOK
    <3>. QED BY <2>1, <3>1 DEF Terminal
  <2>4. CASE retry_or_fail_background_job(w)
    <3> DEFINE s == RetryStatus(j, exec[w].attempt)
               r1 == Released(j, s)
               reset == s = "pending" /\ jobs[j].attempt >= Max(j)
    <3>1. s \in {"cancelled", "failed", "pending"}
      BY DEF RetryStatus
    <3>2. jobs'[j] = [r1 EXCEPT !.attempt = IF reset THEN Max(j) - 1 ELSE @,
                                !.due = IF s = "pending" THEN FALSE ELSE @]
      BY <1>4, <2>4 DEF retry_or_fail_background_job, QueueInv, TypeOK
    <3>3. r1 \in Row /\ r1.status = s
      BY <1>4, <3>1, ReleasedRow DEF JobStatus, Terminal, Active
    <3> HIDE DEF r1, s, reset
    <3>4. jobs'[j].status = s
      BY <3>2, <3>3 DEF Row
    <3>. QED BY <3>1, <3>4 DEF Terminal
  <2>5. CASE Abandon(w)
    BY <2>5 DEF Abandon
  <2>. QED BY <2>2, <2>3, <2>4, <2>5 DEF EndExecution, CompleteScan, CancelScan
<1>. QED BY <1>5, <1>6, <1>7 DEF StatusChange

\* Every change of a job's status is one of those.
LEMMA StatusChanges ==
    ASSUME QueueInv, Next, NEW j \in JobIds, jobs'[j].status # jobs[j].status
    PROVE  StatusChange(j)
<1>0. TypeOK /\ TableInv
  BY DEF QueueInv, TableInv
<1>1. ASSUME NEW w \in Workers, WorkerStep(w)
      PROVE  StatusChange(j)
  BY <1>1, ClaimChangesStatus, EndChangesStatus
     DEF WorkerStep, mark_scan_job_running, run_lease_heartbeat
<1>2. ASSUME NEW l \in Libraries, EndLibraryTx(l)
      PROVE  StatusChange(j)
  <2>1. PICK c \in JobIds :
          /\ jobs[c].status = "absent"
          /\ \E t : jobs' = [CancelLocked(l, jobs) EXCEPT ![c] = NewJob(t, l, FALSE)]
    BY <1>2 DEF EndLibraryTx, EnqueueScanCommit, DeleteLibraryCommit, LibraryRollback,
       Fresh
  <2>2. CASE j = c
    <3>1. jobs'[j].status = "pending"
      BY <2>1, <2>2 DEF CancelLocked, NewJob
    <3>. QED BY <2>1, <2>2, <3>1 DEF StatusChange
  <2>3. CASE j # c
    <3>1. jobs'[j] = CancelLocked(l, jobs)[j]
      BY <2>1, <2>3 DEF CancelLocked
    <3>2. j \in tx[l].rows
      BY <3>1 DEF CancelLocked
    <3>. QED BY <1>0, <3>1, <3>2, CancelledRows DEF StatusChange
  <2>. QED BY <2>2, <2>3
<1>3. CASE Request
  <2>1. PICK c \in JobIds :
          /\ jobs[c].status = "absent"
          /\ \E t, l, x : jobs' = [jobs EXCEPT ![c] = NewJob(t, l, x)]
    BY <1>3 DEF Request, EnqueueScanBegin, DeleteLibraryBegin, RevalidationSnapshot,
       enqueue_season_intro_detection, enqueue_tmdb_artwork_cleanup, RevalidationInsert,
       Fresh
  <2>2. j = c /\ jobs'[j].status = "pending"
    BY <1>0, <2>1 DEF TypeOK, NewJob
  <2>. QED BY <2>1, <2>2 DEF StatusChange
<1>4. CASE Clock
  <2>1. PICK c \in JobIds : \/ jobs' = [jobs EXCEPT ![c].live = FALSE]
                           \/ jobs' = [jobs EXCEPT ![c].due = TRUE]
    BY <1>4 DEF Clock, LeaseExpires, BecomesDue
  <2>2. jobs \in [JobIds -> Row] /\ jobs[c] \in Row
    BY <1>0, <2>1 DEF TypeOK
  <2>3. jobs'[j].status = jobs[j].status
    BY <2>1, <2>2 DEF Row
  <2>. QED BY <2>3
<1>. QED BY <1>1, <1>2, <1>3, <1>4 DEF Next

\* A cancellation request is never lost and a finished job never comes back.
THEOREM EndsAreFinal == Spec => CancellationAndEndAreFinal
<1> DEFINE Final == \A j \in JobIds :
          /\ jobs[j].status = "cancel_requested" =>
                jobs'[j].status \in {"cancel_requested", "cancelled"}
          /\ jobs[j].status \in Terminal =>
                jobs'[j].status \in {jobs[j].status, "absent"}
<1>1. QueueInv /\ [Next]_vars => [Final]_vars
  <2> SUFFICES ASSUME QueueInv, Next PROVE Final
    OBVIOUS
  <2>1. ASSUME NEW j \in JobIds, jobs'[j].status # jobs[j].status PROVE StatusChange(j)
    BY <2>1, StatusChanges
  <2>. QED BY <2>1 DEF StatusChange, Terminal, Executing
<1>. QED BY <1>1, QueueInvariant, PTL DEF Spec, CancellationAndEndAreFinal

\* The queue implements what JobLifecycle promises of every job.
THEOREM QueueImplementsLifecycle == Spec => ImplementsLifecycle
<1> DEFINE Phase == [j \in JobIds |-> jobs[j].status]
<1>1. Init => Lifecycle!Init
  BY DEF Init, Lifecycle!Init, Absent
<1>2. QueueInv /\ [Next]_vars => [Lifecycle!Next]_Phase
  <2> SUFFICES ASSUME QueueInv, [Next]_vars PROVE Lifecycle!Next \/ UNCHANGED Phase
    OBVIOUS
  <2>1. CASE UNCHANGED vars
    BY <2>1 DEF vars
  <2>2. CASE Next
    <3>1. ASSUME NEW j \in JobIds, jobs'[j].status # jobs[j].status
          PROVE  StatusChange(j)
      BY <2>2, <3>1, StatusChanges
    <3>2. ASSUME NEW j \in JobIds, StatusChange(j)
          PROVE  jobs'[j].status \in Lifecycle!Moves[jobs[j].status] \/ jobs'[j].status = jobs[j].status
      BY <3>2 DEF StatusChange, Lifecycle!Moves, Terminal, Executing
    <3>. QED BY <3>1, <3>2 DEF Lifecycle!Next
  <2>. QED BY <2>1, <2>2
<1>. QED BY <1>1, <1>2, QueueInvariant, PTL
     DEF Spec, ImplementsLifecycle, Lifecycle!Spec

\* A live lease is exclusive: a stale worker commits nothing.
THEOREM LeasesAreExclusive == Spec => LiveLeaseIsExclusive
<1> DEFINE Exclusive == \A j \in JobIds :
          /\ jobs[j].status \in Executing
          /\ jobs[j].live
          /\ jobs'[j].status # jobs[j].status
          => \/ jobs[j].status = "running" /\ jobs'[j].status = "cancel_requested"
             \/ \E w \in Workers : CurrentExecutor(w, j) /\ exec'[w] = Idle
<1>1. QueueInv /\ [Next]_vars => [Exclusive]_vars
  <2> SUFFICES ASSUME QueueInv, Next PROVE Exclusive
    OBVIOUS
  <2>1. ASSUME NEW j \in JobIds, jobs'[j].status # jobs[j].status PROVE StatusChange(j)
    BY <2>1, StatusChanges
  <2>. QED BY <2>1 DEF StatusChange, Terminal, Executing
<1>. QED BY <1>1, QueueInvariant, PTL DEF Spec, LiveLeaseIsExclusive
=============================================================================
