---------------------------- MODULE ScanRegistry ----------------------------
(***************************************************************************)
(* The in-memory registry of running scans in one mova-server process, and *)
(* the requests that stop a scan before they act: deleting a library and   *)
(* changing its metadata language.                                         *)
(*                                                                         *)
(* A worker registers the scan it executes and removes it at the end.  A   *)
(* request raises the cancellation flag of the registered scan and waits,  *)
(* with a timeout, on a Notify that finish_scan fires.  Registry methods   *)
(* are atomic (a mutex); what a task does between two of them is not.      *)
(*                                                                         *)
(* The database is reduced to the scan job of a library and its owner:     *)
(* BackgroundJobs models it in full.  A worker that lost its lease goes on *)
(* executing until it notices.                                             *)
(***************************************************************************)
CONSTANTS
    Libraries, Workers,
    Deleters,      \* requests to delete a library
    Changers,      \* requests to change a library's metadata language
    Languages,     \* metadata languages
    Initial,       \* the language every library is created with
    Handles,       \* ActiveScanHandles: one for every task that can hold one
    NoWorker, NoLibrary, NoHandle

Requests == Deleters \union Changers

ASSUME ActorsAssumption == /\ NoWorker \notin Workers
                           /\ NoLibrary \notin Libraries
                           /\ NoHandle \notin Handles
                           /\ Deleters \intersect Changers = {}
ASSUME LanguagesAssumption == Initial \in Languages

VARIABLES
    active,    \* active[l]: the handle of the scan registered for l
    deleting,  \* libraries in the deletion process
    handle,    \* handle[h]: the flags that a scan and its handles share
    worker,    \* worker[w]: the scan a worker executes
    request,   \* request[r]: where a request stands
    scanJob,   \* scanJob[l]: the library's scan job in the database
    language,  \* language[l]: metadata language of the library row
    catalog    \* catalog[l]: language of the metadata committed last

vars == <<active, deleting, handle, worker, request, scanJob, language, catalog>>

NewHandle == [cancel |-> FALSE, finished |-> FALSE]
IdleWorker == [pc |-> "idle", lib |-> NoLibrary, handle |-> NoHandle,
               language |-> Initial]
Start == [pc |-> "start", lib |-> NoLibrary, handle |-> NoHandle, woken |-> FALSE]
NoScan == [status |-> "none", owner |-> NoWorker]

Init ==
    /\ active = [l \in Libraries |-> NoHandle]
    /\ deleting = {}
    /\ handle = [h \in Handles |-> NewHandle]
    /\ worker = [w \in Workers |-> IdleWorker]
    /\ request = [r \in Requests |-> Start]
    /\ scanJob = [l \in Libraries |-> NoScan]
    /\ language = [l \in Libraries |-> Initial]
    /\ catalog = [l \in Libraries |-> Initial]

Deleted(l) == scanJob[l].status = "deleted"

-----------------------------------------------------------------------------
(* The database around the registry.                                       *)

\* enqueue_scan_job_tx: an active scan of the library is left as it is.
EnqueuedScan(l) == IF scanJob[l].status = "none"
                   THEN [status |-> "pending", owner |-> NoWorker] ELSE scanJob[l]

\* The handler's is_deleting test is over before the insert, and a scan queued
\* by the creation of a library makes no such test: it guards nothing here.
enqueue_library_scan(l) ==
    /\ scanJob' = [scanJob EXCEPT ![l] = EnqueuedScan(l)]
    /\ UNCHANGED <<active, deleting, handle, worker, request, language, catalog>>

\* The lease of a running scan runs out: the job is up for another claim, or
\* reaped when that was its last attempt.
LoseLease(l) ==
    /\ scanJob[l].status = "running"
    /\ \E status \in {"pending", "none"} :
          scanJob' = [scanJob EXCEPT ![l] = [status |-> status, owner |-> NoWorker]]
    /\ UNCHANGED <<active, deleting, handle, worker, request, language, catalog>>

-----------------------------------------------------------------------------
(* A worker executing a scan.                                              *)

claim(w, l) ==
    /\ worker[w].pc = "idle"
    /\ scanJob[l].status = "pending"
    /\ scanJob' = [scanJob EXCEPT ![l] = [status |-> "running", owner |-> w]]
    /\ worker' = [worker EXCEPT ![w] = [IdleWorker EXCEPT !.pc = "claimed", !.lib = l]]
    /\ UNCHANGED <<active, deleting, handle, request, language, catalog>>

MayRegister(l) == l \notin deleting /\ active[l] = NoHandle

Unheld(h) == /\ \A w \in Workers : worker[w].handle # h
             /\ \A r \in Requests : request[r].handle # h

\* Which of the free handles is allocated makes no difference.
Allocated(h) == h = CHOOSE x \in Handles : Unheld(x)

register_scan(w, h) ==
    LET l == worker[w].lib IN
    /\ worker[w].pc = "claimed"
    /\ MayRegister(l)
    /\ Unheld(h) /\ Allocated(h)
    /\ handle' = [handle EXCEPT ![h] = NewHandle]
    /\ active' = [active EXCEPT ![l] = h]
    /\ worker' = [worker EXCEPT ![w].pc = "registered", ![w].handle = h]
    /\ UNCHANGED <<deleting, request, scanJob, language, catalog>>

Owns(w) == scanJob[worker[w].lib] = [status |-> "running", owner |-> w]

\* The job row after its owner gave it back (retried or ended).
Returned(w, status) ==
    IF Owns(w) THEN [scanJob EXCEPT ![worker[w].lib] = [status |-> status, owner |-> NoWorker]]
    ELSE scanJob

\* DeleteInProgress or AlreadyRunning: the execution fails before it starts.
RegisterRefused(w) ==
    /\ worker[w].pc = "claimed"
    /\ ~ MayRegister(worker[w].lib)
    /\ worker' = [worker EXCEPT ![w].pc = "finished"]
    /\ UNCHANGED <<active, deleting, handle, request, scanJob, language, catalog>>

\* get_library at the start of execute_scan_job_with_cancellation.
LoadLibrary(w) ==
    /\ worker[w].pc = "registered"
    /\ ~ Deleted(worker[w].lib)
    /\ worker' = [worker EXCEPT ![w].pc = "scanning",
                                ![w].language = language[worker[w].lib]]
    /\ UNCHANGED <<active, deleting, handle, request, scanJob, language, catalog>>

\* One committed batch of metadata, fenced by the ownership of the job.
CommitMetadata(w) ==
    /\ worker[w].pc = "scanning"
    /\ Owns(w)
    /\ catalog' = [catalog EXCEPT ![worker[w].lib] = worker[w].language]
    /\ UNCHANGED <<active, deleting, handle, worker, request, scanJob, language>>

\* The execution returns: the scan and its job are finalised (completed, failed
\* or cancelled), or an error or the fence leaves the job as it is.
EndScan(w) ==
    /\ worker[w].pc \in {"registered", "scanning"}
    /\ scanJob' \in {Returned(w, "none"), scanJob}
    /\ worker' = [worker EXCEPT ![w].pc = "ended"]
    /\ UNCHANGED <<active, deleting, handle, request, language, catalog>>

\* Fault: the entry of a finished scan stays in the map.
FinishKeepingEntry(w) ==
    /\ worker[w].pc = "ended"
    /\ worker' = [worker EXCEPT ![w].pc = "removed"]
    /\ UNCHANGED <<active, deleting, handle, request, scanJob, language, catalog>>

\* finish_scan: out of the map under the lock ...
FinishRemove(w) ==
    /\ worker[w].pc = "ended"
    /\ active' = [active EXCEPT ![worker[w].lib] = NoHandle]
    /\ worker' = [worker EXCEPT ![w].pc = "removed"]
    /\ UNCHANGED <<deleting, handle, request, scanJob, language, catalog>>

\* ... then the flag ...
FinishFlag(w) ==
    /\ worker[w].pc = "removed"
    /\ handle' = [handle EXCEPT ![worker[w].handle].finished = TRUE]
    /\ worker' = [worker EXCEPT ![w].pc = "flagged"]
    /\ UNCHANGED <<active, deleting, request, scanJob, language, catalog>>

\* ... then notify_waiters, which wakes those who wait now and nobody later.
FinishNotify(w) ==
    /\ worker[w].pc = "flagged"
    /\ request' = [r \in Requests |->
          IF request[r].pc = "waiting" /\ request[r].handle = worker[w].handle
          THEN [request[r] EXCEPT !.woken = TRUE] ELSE request[r]]
    /\ worker' = [worker EXCEPT ![w].pc = "finished", ![w].handle = NoHandle]
    /\ UNCHANGED <<active, deleting, handle, scanJob, language, catalog>>

\* Back in the worker's loop: a job that is still its own is retried or failed.
retry_or_fail(w) ==
    /\ worker[w].pc = "finished"
    /\ \E status \in {"pending", "none"} : scanJob' = Returned(w, status)
    /\ worker' = [worker EXCEPT ![w] = IdleWorker]
    /\ UNCHANGED <<active, deleting, handle, request, language, catalog>>

-----------------------------------------------------------------------------
(* A request that stops the scan first.                                    *)

begin_delete(r, l) ==
    /\ r \in Deleters
    /\ request[r].pc = "start"
    /\ ~ Deleted(l)
    /\ l \notin deleting
    /\ deleting' = deleting \union {l}
    /\ request' = [request EXCEPT ![r].pc = "lookup", ![r].lib = l]
    /\ UNCHANGED <<active, handle, worker, scanJob, language, catalog>>

BeginLanguageChange(r, l) ==
    /\ r \in Changers
    /\ request[r].pc = "start"
    /\ ~ Deleted(l)
    /\ l \notin deleting
    /\ request' = [request EXCEPT ![r].pc = "lookup", ![r].lib = l]
    /\ UNCHANGED <<active, deleting, handle, worker, scanJob, language, catalog>>

Stopped(h) == [handle[h] EXCEPT !.cancel = TRUE]

\* active_scan, and cancel on the handle it returns.
active_scan(r) ==
    /\ request[r].pc = "lookup"
    /\ LET h == active[request[r].lib] IN
       \/ /\ h = NoHandle
          /\ request' = [request EXCEPT ![r].pc = "commit"]
          /\ UNCHANGED handle
       \/ /\ h # NoHandle
          /\ request' = [request EXCEPT ![r].pc = "load", ![r].handle = h]
          /\ handle' = [handle EXCEPT ![h] = Stopped(h)]
    /\ UNCHANGED <<active, deleting, worker, scanJob, language, catalog>>

\* wait_finished: the flag is read first ...
LoadFinished(r) ==
    /\ request[r].pc = "load"
    /\ request' = [request EXCEPT ![r].pc =
                      IF handle[request[r].handle].finished THEN "commit" ELSE "subscribe"]
    /\ UNCHANGED <<active, deleting, handle, worker, scanJob, language, catalog>>

\* ... and only then does the request begin to listen.
Subscribe(r) ==
    /\ request[r].pc = "subscribe"
    /\ request' = [request EXCEPT ![r].pc = "waiting"]
    /\ UNCHANGED <<active, deleting, handle, worker, scanJob, language, catalog>>

Woken(r) ==
    /\ request[r].pc = "waiting" /\ request[r].woken
    /\ request' = [request EXCEPT ![r].pc = "commit"]
    /\ UNCHANGED <<active, deleting, handle, worker, scanJob, language, catalog>>

\* The guard of a deletion is dropped with the request.
Leave(r) ==
    /\ request' = [request EXCEPT ![r] = Start]
    /\ deleting' = IF r \in Deleters THEN deleting \ {request[r].lib} ELSE deleting

\* LIBRARY_SCAN_STOP_WAIT_TIMEOUT; a notification that is there wins.
Timeout(r) ==
    /\ request[r].pc = "waiting" /\ ~ request[r].woken
    /\ Leave(r)
    /\ UNCHANGED <<active, handle, worker, scanJob, language, catalog>>

delete_library(r) ==
    /\ r \in Deleters
    /\ request[r].pc = "commit"
    /\ scanJob' = [scanJob EXCEPT ![request[r].lib] = [status |-> "deleted", owner |-> NoWorker]]
    /\ Leave(r)
    /\ UNCHANGED <<active, handle, worker, language, catalog>>

\* Fault: the language changes whatever the library's scan job is doing.
LanguageMayChangeAnyway(l) == ~ Deleted(l)

\* enqueue_scan_job_tx reports that there is no active scan.
LanguageMayChange(l) == scanJob[l].status = "none"

\* The new language and the scan that applies it commit together.
update_library(r) ==
    LET l == request[r].lib IN
    /\ r \in Changers
    /\ request[r].pc = "commit"
    /\ LanguageMayChange(l)
    /\ \E new \in Languages \ {language[l]} : language' = [language EXCEPT ![l] = new]
    /\ scanJob' = [scanJob EXCEPT ![l] = EnqueuedScan(l)]
    /\ Leave(r)
    /\ UNCHANGED <<active, handle, worker, catalog>>

\* A scan became active in the meantime, or the library is gone.
UpdateRefused(r) ==
    /\ r \in Changers
    /\ request[r].pc = "commit"
    /\ ~ LanguageMayChange(request[r].lib)
    /\ Leave(r)
    /\ UNCHANGED <<active, handle, worker, scanJob, language, catalog>>

\* What a worker does without waiting for the scan's own work.
Step(w) == \/ (\E h \in Handles : register_scan(w, h)) \/ RegisterRefused(w)
           \/ FinishRemove(w) \/ FinishFlag(w) \/ FinishNotify(w)
           \/ retry_or_fail(w)

Scanning(w) == LoadLibrary(w) \/ CommitMetadata(w) \/ EndScan(w)

Proceed(r) == \/ active_scan(r) \/ LoadFinished(r) \/ Subscribe(r)
              \/ Woken(r) \/ Timeout(r)
              \/ delete_library(r) \/ update_library(r) \/ UpdateRefused(r)

Next ==
    \/ \E l \in Libraries : enqueue_library_scan(l) \/ LoseLease(l)
    \/ \E w \in Workers : \/ \E l \in Libraries : claim(w, l)
                          \/ Step(w) \/ Scanning(w)
    \/ \E r \in Requests : \/ \E l \in Libraries : \/ begin_delete(r, l)
                                                   \/ BeginLanguageChange(r, l)
                           \/ Proceed(r)

Spec == Init /\ [][Next]_vars

-----------------------------------------------------------------------------
(* Properties.                                                             *)

WorkerPcs == {"idle", "claimed", "registered", "scanning", "ended", "removed",
              "flagged", "finished"}
RequestPcs == {"start", "lookup", "load", "subscribe", "waiting", "commit"}

HandleType == [cancel : BOOLEAN, finished : BOOLEAN]
WorkerType == [pc : WorkerPcs, lib : Libraries \union {NoLibrary},
               handle : Handles \union {NoHandle}, language : Languages]
RequestType == [pc : RequestPcs, lib : Libraries \union {NoLibrary},
                handle : Handles \union {NoHandle}, woken : BOOLEAN]
JobType == [status : {"none", "pending", "running", "deleted"},
            owner : Workers \union {NoWorker}]

\* Every variable has its type.
TypeOK ==
    /\ active \in [Libraries -> Handles \union {NoHandle}]
    /\ deleting \subseteq Libraries
    /\ handle \in [Handles -> HandleType]
    /\ worker \in [Workers -> WorkerType]
    /\ request \in [Requests -> RequestType]
    /\ scanJob \in [Libraries -> JobType]
    /\ language \in [Libraries -> Languages]
    /\ catalog \in [Libraries -> Languages]

Registered == {"registered", "scanning", "ended"}

\* A worker holds its own handle from registration to notification, and the
\* map holds the handles of exactly those that have not been removed.
Registrations ==
    /\ \A w \in Workers :
          /\ worker[w].pc = "idle" \/ worker[w].lib \in Libraries
          /\ worker[w].pc \in {"idle", "claimed", "finished"} <=> worker[w].handle = NoHandle
          /\ worker[w].pc \in Registered => active[worker[w].lib] = worker[w].handle
          /\ worker[w].pc = "flagged" => handle[worker[w].handle].finished
    /\ \A v, w \in Workers :
          worker[v].handle = worker[w].handle => v = w \/ worker[v].handle = NoHandle
    /\ \A l \in Libraries : active[l] # NoHandle =>
          /\ \E w \in Workers : /\ worker[w].pc \in Registered
                               /\ worker[w].lib = l
                               /\ worker[w].handle = active[l]
          /\ ~ handle[active[l]].finished

\* A request that waits holds the handle it waits on.
Waits ==
    \A r \in Requests :
        /\ request[r].pc = "start" \/ request[r].lib \in Libraries
        /\ request[r].pc \in {"load", "subscribe", "waiting"} =>
              request[r].handle \in Handles
        /\ request[r].woken => request[r].pc \in {"waiting", "commit"}
        /\ request[r].pc = "waiting" /\ request[r].woken =>
              handle[request[r].handle].finished

\* From begin_delete on, the only scan of the library is the one found then,
\* and none is left when the deletion commits.
Deletions ==
    \A r \in Deleters : request[r].pc # "start" =>
        /\ request[r].lib \in deleting
        /\ \A q \in Deleters :
              request[q].pc # "start" /\ request[q].lib = request[r].lib => q = r
        /\ request[r].pc # "lookup" =>
              active[request[r].lib] \in {NoHandle, request[r].handle}
        /\ request[r].pc = "commit" => active[request[r].lib] = NoHandle

\* The fence lets a scan commit only what it loaded in the current language.
LoadedLanguage ==
    \A w \in Workers : worker[w].pc = "scanning" /\ Owns(w) =>
                            worker[w].language = language[worker[w].lib]

\* The inductive invariant: registry, handles, requests and languages fit
\* together at every point between two critical sections.
RegistryInv == TypeOK /\ Registrations /\ Waits /\ Deletions /\ LoadedLanguage

ScanRuntime(w, l) == worker[w].lib = l /\ worker[w].pc \in {"registered", "scanning"}

\* A library is not deleted from the database while a scan of it executes in
\* this process, however registration, cancellation, lease loss and the end of
\* scans interleave with the request (delete_library_after_stopping_scan).
NoDeleteUnderScan ==
    \A r \in Deleters, w \in Workers :
        request[r].pc = "commit" => ~ ScanRuntime(w, request[r].lib)

\* Metadata is only ever committed in the language the library has now: a scan
\* that loaded the old language can no longer commit after a change
\* (update_library against the fence of a scan).
CommitsUseCurrentLanguage ==
    [][\A l \in Libraries : catalog'[l] # catalog[l] => catalog'[l] = language[l]]_vars

\* One process never executes two scans of a library, even when a lost lease
\* lets a second worker claim the job while the first still executes.
OneScanRuntime ==
    \A l \in Libraries, v, w \in Workers :
        ScanRuntime(v, l) /\ ScanRuntime(w, l) => v = w
=============================================================================
