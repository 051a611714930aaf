---------------------------- MODULE RealtimeSync ----------------------------
(***************************************************************************)
(* How a change committed in PostgreSQL reaches the screen of one signed   *)
(* in web client, for one library.                                         *)
(*                                                                         *)
(* A committed change raises the revision of a resource and notifies the   *)
(* server's listener; the dispatcher batches notified resources and scan   *)
(* events into the broadcast channels the client's event stream reads.     *)
(* The client keeps, per resource, the revision it has applied and the one *)
(* it was told of, fetches what is behind, and reconciles with             *)
(* GET /api/realtime/state whenever events may have been missed.  While a  *)
(* scan runs, refreshes of the catalog wait, and the scan is shown on a    *)
(* temporary card.                                                         *)
(*                                                                         *)
(* A revision map sent to the client is a function on Resources in which 0 *)
(* means "not mentioned": a stored revision is never 0.                    *)
(***************************************************************************)
EXTENDS Naturals, Sequences, FiniteSets

CONSTANTS
    Catalog,    \* resource "library:{id}:catalog"
    Scan,       \* resource "library:{id}:scan"
    Others,     \* resources of the user: profile, continue-watching, ...
    MaxRev,     \* bound: MaxRev[r] revisions of resource r
    MaxScans,   \* bound: scans of the library
    MaxFaults,  \* bound: lost connections, crashes and failed requests
    Cap,        \* messages a broadcast channel keeps
    Slots,      \* bound: reconciliations in flight at once
    Starts      \* whether the client starts connected and up to date: TRUE, FALSE or either

Resources == {Catalog, Scan} \cup Others

ASSUME ResourceAssumption ==
    Catalog # Scan /\ Catalog \notin Others /\ Scan \notin Others

ASSUME BoundAssumption ==
    /\ MaxRev \in [Resources -> Nat] /\ MaxScans \in Nat /\ MaxFaults \in Nat
    /\ Cap \in Nat \ {0}
    /\ Slots \in Nat \ {0}
    /\ Starts \subseteq BOOLEAN

VARIABLES
    \* PostgreSQL
    rev,          \* realtime_revisions
    scan,         \* the active scan job of the library, 0 when there is none
    jobs,         \* scan jobs created so far
    unheard,      \* resources whose notification was lost with nobody told of it
    \* The server process
    listening,    \* the listener holds a subscription
    pending,      \* notified resources: on their way, or in pending_resources
    reliable,     \* the FIFO of checkpoints and ends of scans
    progress,     \* scan jobs with progress to be sent
    \* The event stream
    connected,
    channels,     \* messages the stream has yet to read, per channel
    resync,       \* channels from which resync.required is read next
    \* The client
    view,         \* revision of the data on the screen
    applied,      \* appliedRevisions
    requested,    \* requestedRevisions
    forced,       \* forcedResourceRefreshes
    attempts,     \* resourceRefreshAttempts
    active,       \* activeScanLibraryIds holds the library
    runtime,      \* scan job on the library's card, 0 when there is no card
    finishing,    \* ended scans whose cards wait for revisions to be applied
    based,        \* a first snapshot was applied (serverEpoch is known)
    refreshDue,   \* resourceRefreshScheduled
    reconcileDue, \* reconcileScheduled
    batches,      \* refreshes in flight
    reconciles,   \* reconciliations in flight
    faults

dbVars == <<rev, scan, jobs, unheard>>
serverVars == <<listening, pending, reliable, progress>>
streamVars == <<connected, channels, resync>>
revisionVars == <<view, applied, requested, forced, attempts, batches>>
cardVars == <<active, runtime, finishing>>
clientVars == <<revisionVars, cardVars, based, refreshDue, reconcileDue, reconciles>>
vars == <<dbVars, serverVars, streamVars, clientVars, faults>>

Revisions == [Resources -> Nat]
AtMost(f, g) == \A r \in Resources : f[r] <= g[r]
NoRevisions == [r \in Resources |-> 0]
Channels == {"library", "user"}
Events == [kind : {"checkpoint", "finished"}, job : 1 .. MaxScans]
Messages == [kind : {"resources.changed", "scan.progress", "scan.finished"},
             job : 0 .. MaxScans, changes : Revisions]
Batches == [targets : Revisions, fetched : BOOLEAN]
Ends == [job : 0 .. MaxScans, need : Revisions]
ReconcileSteps == {"idle", "scans", "answered", "fetching", "fetched"}
Reconciles == [step : ReconcileSteps, revs : Revisions, scan : 0 .. MaxScans]
NoReconcile == [step |-> "idle", revs |-> NoRevisions, scan |-> 0]

TypeOK ==
    /\ rev \in Revisions /\ scan \in 0 .. MaxScans /\ jobs \in 0 .. MaxScans
    /\ unheard \subseteq Resources
    /\ listening \in BOOLEAN /\ pending \subseteq Resources
    /\ reliable \in Seq(Events) /\ progress \subseteq 1 .. MaxScans
    /\ connected \in BOOLEAN /\ channels \in [Channels -> Seq(Messages)]
    /\ resync \subseteq Channels \cup {"public"}
    /\ view \in Revisions /\ applied \in Revisions /\ requested \in Revisions
    /\ forced \subseteq Resources /\ attempts \in [Resources -> 0 .. 2]
    /\ active \in BOOLEAN /\ runtime \in 0 .. MaxScans /\ finishing \subseteq Ends
    /\ based \in BOOLEAN /\ refreshDue \in BOOLEAN /\ reconcileDue \in BOOLEAN
    /\ batches \subseteq Batches
    /\ reconciles \in [1 .. Slots -> Reconciles]
    /\ faults \in 0 .. MaxFaults

Init ==
    /\ rev = NoRevisions /\ scan = 0 /\ jobs = 0 /\ unheard = {}
    /\ listening \in Starts /\ connected = listening /\ based = listening
    /\ pending = {} /\ reliable = <<>> /\ progress = {}
    /\ channels = [c \in Channels |-> <<>>] /\ resync = {}
    /\ view = NoRevisions /\ applied = NoRevisions /\ requested = NoRevisions
    /\ forced = {} /\ attempts = NoRevisions /\ batches = {}
    /\ active = FALSE /\ runtime = 0 /\ finishing = {}
    /\ refreshDue = FALSE /\ reconcileDue = FALSE
    /\ reconciles = [s \in 1 .. Slots |-> NoReconcile]
    /\ faults = 0

\* Everything that fails draws on one bound.
Fault == faults < MaxFaults /\ faults' = faults + 1

-----------------------------------------------------------------------------
(* Committed changes.  The revision and the notification are part of the   *)
(* transaction that makes the change.                                      *)

\* A notification without a listener is gone.  One that is under way when the
\* listener's connection fails for good (ListenerLost) need not be lost as well:
\* to the streams it is as if the commit had come after the failure.
mova_bump_realtime_revision(r) ==
    /\ rev[r] < MaxRev[r]
    /\ rev' = [rev EXCEPT ![r] = @ + 1]
    /\ pending' = IF listening THEN pending \cup {r} ELSE pending
    /\ unheard' = unheard \ {r}

\* Any other change of the catalog or of the user's data.
Change(r) ==
    /\ r # Scan
    /\ mova_bump_realtime_revision(r)
    /\ UNCHANGED <<scan, jobs, listening, reliable, progress, streamVars, clientVars, faults>>

\* Ordinary progress waits for the next tick; a full queue drops it.
ReportProgress(j) == progress' \in {progress, progress \cup {j}}

StartScan ==
    /\ scan = 0 /\ jobs < MaxScans
    /\ mova_bump_realtime_revision(Scan)
    /\ jobs' = jobs + 1 /\ scan' = jobs + 1
    /\ ReportProgress(jobs + 1)
    /\ UNCHANGED <<listening, reliable, streamVars, clientVars, faults>>

\* The job is claimed, or goes back to the queue; the bound leaves a revision
\* for its end.
ScanStatusChanges ==
    /\ scan # 0 /\ rev[Scan] + 1 < MaxRev[Scan]
    /\ mova_bump_realtime_revision(Scan)
    /\ ReportProgress(scan)
    /\ UNCHANGED <<scan, jobs, listening, reliable, streamVars, clientVars, faults>>

\* The last of the local commits is followed by a checkpoint.
CommitGroup(last) ==
    /\ scan # 0
    /\ mova_bump_realtime_revision(Catalog)
    /\ reliable' = IF last THEN Append(reliable, [kind |-> "checkpoint", job |-> scan])
                   ELSE reliable
    /\ ReportProgress(scan)
    /\ UNCHANGED <<scan, jobs, listening, streamVars, clientVars, faults>>

FinishScan ==
    /\ scan # 0
    /\ mova_bump_realtime_revision(Scan)
    /\ scan' = 0
    /\ reliable' = Append(reliable, [kind |-> "finished", job |-> scan])
    /\ UNCHANGED <<jobs, listening, progress, streamVars, clientVars, faults>>

-----------------------------------------------------------------------------
(* The server: listener, dispatcher and event stream.                      *)

\* visibility_for_resource: the channel that carries a resource.
Visibility(r) == IF r \in Others THEN "user" ELSE "library"

\* A full channel overwrites its oldest message, and the stream that reads it
\* next gets resync.required in its place.
Pushed(c, m) ==
    IF ~connected THEN channels[c]
    ELSE IF Len(channels[c]) < Cap THEN Append(channels[c], m)
    ELSE Append(Tail(channels[c]), m)

Lagged(cs) == {c \in cs : connected /\ Len(channels[c]) >= Cap}

publish(c, m) ==
    /\ channels' = [channels EXCEPT ![c] = Pushed(c, m)]
    /\ resync' = resync \cup Lagged({c})
    /\ UNCHANGED connected

\* Fault: streams are not told to resynchronise.
ListenerSubscribesQuietly ==
    /\ ~listening /\ listening' = TRUE
    /\ UNCHANGED <<dbVars, pending, reliable, progress, streamVars, clientVars, faults>>

\* The listener subscribes, now or again: streams may have missed changes.
ListenerSubscribes ==
    /\ ~listening /\ listening' = TRUE
    /\ resync' = IF connected THEN resync \cup {"public"} ELSE resync
    /\ UNCHANGED <<dbVars, pending, reliable, progress, connected, channels, clientVars, faults>>

\* recv returns an error: the connection is gone and could not be made again.
ListenerLost ==
    /\ Fault /\ listening /\ listening' = FALSE
    /\ UNCHANGED <<dbVars, pending, reliable, progress, streamVars, clientVars>>

\* recv makes a broken connection again and listens by itself.  What was notified
\* meanwhile is lost and the loop around recv sees nothing of it, so no stream is
\* told to resynchronise.
ListenerReconnects ==
    /\ Fault /\ listening
    /\ \E lost \in (SUBSET pending) \ {{}} :
          /\ pending' = pending \ lost
          /\ unheard' = unheard \cup lost
    /\ UNCHANGED <<rev, scan, jobs, listening, reliable, progress, streamVars, clientVars>>

\* The changes of a set of resources as they are now.
Current(rs) == [r \in Resources |-> IF r \in rs THEN rev[r] ELSE 0]

\* One message for each channel with a resource that changed.
flush_resource_changes ==
    LET of(c) == {r \in pending : Visibility(r) = c}
        message(c) == [kind |-> "resources.changed", job |-> 0, changes |-> Current(of(c))]
    IN /\ pending # {} /\ pending' = {}
       /\ channels' = [c \in Channels |->
              IF of(c) = {} THEN channels[c] ELSE Pushed(c, message(c))]
       /\ resync' = resync \cup Lagged({c \in Channels : of(c) # {}})
       /\ UNCHANGED <<dbVars, listening, reliable, progress, connected, clientVars, faults>>

\* Progress carries no revisions.
flush_scan_progress(j) ==
    /\ j \in progress /\ progress' = progress \ {j}
    /\ publish("library", [kind |-> "scan.progress", job |-> j, changes |-> NoRevisions])
    /\ UNCHANGED <<dbVars, listening, pending, reliable, clientVars, faults>>

\* A checkpoint or an end of a scan takes the progress of its job along, and
\* progress that comes later is recognised by its sequence number and dropped.
\* Without an answer from the database it is sent without revisions.
handle_reliable ==
    LET e == Head(reliable)
        message(changes) ==
            [kind |-> IF e.kind = "finished" THEN "scan.finished" ELSE "scan.progress",
             job |-> e.job, changes |-> changes]
    IN /\ reliable # <<>> /\ reliable' = Tail(reliable)
       /\ progress' = progress \ {e.job}
       /\ \/ /\ publish("library", message(Current({Catalog, Scan})))
             /\ unheard' = unheard \ {Catalog, Scan}
             /\ UNCHANGED faults
          \/ publish("library", message(NoRevisions)) /\ Fault /\ UNCHANGED unheard
       /\ UNCHANGED <<rev, scan, jobs, listening, pending, clientVars>>

StreamEnds ==
    /\ connected' = FALSE
    /\ channels' = [c \in Channels |-> <<>>]
    /\ resync' = {}

ConnectionLost ==
    /\ Fault /\ connected
    /\ StreamEnds
    /\ UNCHANGED <<dbVars, serverVars, clientVars>>

\* What the process had in memory is gone; a scan goes on when its job is
\* claimed again.
ServerRestarts ==
    /\ Fault
    /\ listening' = FALSE /\ pending' = {} /\ reliable' = <<>> /\ progress' = {}
    /\ StreamEnds
    /\ UNCHANGED <<dbVars, clientVars>>

-----------------------------------------------------------------------------
(* The client: which resources to refresh, and when.                       *)

\* A connection is made, at first or again; `open` asks for a reconciliation.
handleOpen ==
    /\ ~connected /\ connected' = TRUE
    /\ reconcileDue' = TRUE
    /\ UNCHANGED <<dbVars, serverVars, channels, resync, revisionVars, cardVars, based,
                   refreshDue, reconciles, faults>>

handleResyncRequired ==
    /\ resync # {}
    /\ StreamEnds
    /\ reconcileDue' = TRUE
    /\ UNCHANGED <<dbVars, serverVars, revisionVars, cardVars, based, refreshDue,
                   reconciles, faults>>

\* Changes the client has not applied.
News(changes) == {r \in Resources : changes[r] > applied[r]}

Larger(a, b) == IF a > b THEN a ELSE b

Asked(changes) ==
    [r \in Resources |-> IF r \in News(changes) THEN Larger(requested[r], changes[r])
                         ELSE requested[r]]

\* shouldDeferResourceRefresh
Deferred(r, scanning) == r = Catalog /\ scanning

\* waitForResourceChanges with force: refresh even what a scan defers.
ForceRefresh(changes) ==
    /\ requested' = Asked(changes)
    /\ forced' = forced \cup News(changes)
    /\ refreshDue' = (refreshDue \/ News(changes) # {})

\* A changed scan resource asks for a reconciliation, which also refreshes;
\* anything else asks for a refresh.
handleResourcesChanged(m) ==
    /\ requested' = Asked(m.changes)
    /\ reconcileDue' = (reconcileDue \/ m.changes[Scan] > 0)
    /\ refreshDue' = (refreshDue \/ m.changes[Scan] = 0)
    /\ UNCHANGED <<forced, cardVars>>

handleScanProgress(m) ==
    /\ active' = TRUE /\ runtime' = m.job
    /\ ForceRefresh(m.changes)
    /\ UNCHANGED <<reconcileDue, finishing>>

\* The card stays until the revisions named with the end are applied.
handleScanFinished(m) ==
    LET need == [r \in Resources |-> IF r \in News(m.changes) THEN m.changes[r] ELSE 0]
    IN /\ active' = FALSE
       /\ \/ /\ m.changes = NoRevisions
             /\ runtime' = m.job
             /\ reconcileDue' = TRUE
             /\ UNCHANGED <<requested, forced, refreshDue, finishing>>
          \/ /\ m.changes # NoRevisions
             /\ ForceRefresh(m.changes)
             /\ IF need = NoRevisions
                THEN runtime' = 0 /\ UNCHANGED finishing
                ELSE /\ runtime' = m.job
                     /\ finishing' = finishing \cup {[job |-> m.job, need |-> need]}
             /\ UNCHANGED reconcileDue

Deliver(c) ==
    /\ connected /\ c \notin resync /\ channels[c] # <<>>
    /\ channels' = [channels EXCEPT ![c] = Tail(@)]
    /\ LET m == Head(channels[c])
       IN \/ m.kind = "resources.changed" /\ handleResourcesChanged(m)
          \/ m.kind = "scan.progress" /\ handleScanProgress(m)
          \/ m.kind = "scan.finished" /\ handleScanFinished(m)
    /\ UNCHANGED <<dbVars, serverVars, connected, resync, view, applied, attempts, batches,
                   based, reconciles, faults>>

-----------------------------------------------------------------------------
(* The client: a refresh, from its timer to the end of its fetches.        *)

Members(b) == {r \in Resources : b.targets[r] > 0}
inFlightResources == UNION {Members(b) : b \in batches}

\* Resources that are behind and may be refreshed now.
Refreshable(as, fs) ==
    {r \in Resources : requested[r] > as[r] /\ (~Deferred(r, active) \/ r \in fs)}

\* The timer: what is behind and not being fetched is fetched, up to what is
\* requested at this moment.
runResourceRefreshBatch ==
    LET rs == Refreshable(applied, forced) \ inFlightResources
    IN /\ refreshDue /\ refreshDue' = FALSE
       /\ batches' = IF rs = {} THEN batches
                     ELSE batches \cup
                          {[targets |-> [r \in Resources |-> IF r \in rs THEN requested[r] ELSE 0],
                            fetched |-> FALSE]}
       /\ UNCHANGED <<dbVars, serverVars, streamVars, view, applied, requested, forced, attempts,
                      cardVars, based, reconcileDue, reconciles, faults>>

\* Fault: the queries are not awaited.
Unanswered(b) == view

\* The queries of the resources are answered with the data as it is now.
Answered(b) == [r \in Resources |-> IF r \in Members(b) THEN rev[r] ELSE view[r]]

invalidateQueryKeys(b) ==
    /\ ~b.fetched
    /\ view' = Answered(b)
    /\ batches' = (batches \ {b}) \cup {[b EXCEPT !.fetched = TRUE]}
    /\ UNCHANGED <<dbVars, serverVars, streamVars, applied, requested, forced, attempts,
                   cardVars, based, refreshDue, reconcileDue, reconciles, faults>>

\* Fault: a waiter for the very revision that was applied goes on waiting.
resolveOlderWaiters(as) ==
    {[w EXCEPT !.need = [r \in Resources |-> IF w.need[r] < as[r] THEN 0 ELSE w.need[r]]]
        : w \in finishing}

\* What ended scans still wait for once the applied revisions are as.
resolveResourceWaiters(as) ==
    {[w EXCEPT !.need = [r \in Resources |-> IF w.need[r] <= as[r] THEN 0 ELSE w.need[r]]]
        : w \in finishing}

\* clearFinishedRuntime for the ends that wait for nothing any more.
Settle(as, clear) ==
    LET ends == resolveResourceWaiters(as)
        done == {w \in ends : w.need = NoRevisions}
    IN /\ finishing' = ends \ done
       /\ runtime' = IF clear \/ \E w \in done : w.job = runtime THEN 0 ELSE runtime

\* The targets of the batch are applied, not what was requested meanwhile.
AppliedBy(b) == [r \in Resources |-> IF r \in Members(b) THEN b.targets[r] ELSE applied[r]]

StillBehind(as, fs) == Refreshable(as, fs) # {}

RefreshSucceeds(b) ==
    LET as == AppliedBy(b)
        fs == forced \ Members(b)
    IN /\ b.fetched
       /\ applied' = as /\ forced' = fs
       /\ attempts' = [r \in Resources |-> IF r \in Members(b) THEN 0 ELSE attempts[r]]
       /\ batches' = batches \ {b}
       /\ Settle(as, Scan \in Members(b) /\ ~active)
       /\ refreshDue' = (refreshDue \/ StillBehind(as, fs))
       /\ UNCHANGED <<dbVars, serverVars, streamVars, view, requested, active, based,
                      reconcileDue, reconciles, faults>>

\* Two retries, then a reconciliation.
RefreshFails(b) ==
    LET last == \E r \in Members(b) : attempts[r] = 2
        next == IF \E r \in Members(b) : attempts[r] = 1 THEN 2 ELSE 1
    IN /\ Fault
       /\ batches' = batches \ {b}
       /\ attempts' = [r \in Resources |->
              IF r \notin Members(b) THEN attempts[r] ELSE IF last THEN 0 ELSE next]
       /\ refreshDue' = (refreshDue \/ ~last)
       /\ reconcileDue' = (reconcileDue \/ last)
       /\ UNCHANGED <<dbVars, serverVars, streamVars, view, applied, requested, forced,
                      cardVars, based, reconciles>>

-----------------------------------------------------------------------------
(* The client: a reconciliation.  The handler reads the revisions first and *)
(* the active scans second.                                                 *)

Step(s, record) == reconciles' = [reconciles EXCEPT ![s] = record]

\* The timer fires and the request reads the revisions.
reconcileState(s) ==
    /\ reconcileDue /\ reconcileDue' = FALSE
    /\ reconciles[s].step = "idle"
    /\ Step(s, [NoReconcile EXCEPT !.step = "scans", !.revs = rev])
    /\ unheard' = {}
    /\ UNCHANGED <<rev, scan, jobs, serverVars, streamVars, revisionVars, cardVars, based,
                   refreshDue, faults>>

list_active_scan_jobs(s) ==
    /\ reconciles[s].step = "scans"
    /\ Step(s, [reconciles[s] EXCEPT !.step = "answered", !.scan = scan])
    /\ UNCHANGED <<dbVars, serverVars, streamVars, revisionVars, cardVars, based, refreshDue,
                   reconcileDue, faults>>

\* The first answer is the base line: cards are rebuilt from it and all data
\* is fetched before its revisions count as applied.
FirstSnapshot(s) ==
    /\ reconciles[s].step = "answered" /\ ~based
    /\ active' = (reconciles[s].scan # 0)
    /\ runtime' = reconciles[s].scan
    /\ applied' = NoRevisions
    /\ Step(s, [reconciles[s] EXCEPT !.step = "fetching"])
    /\ UNCHANGED <<dbVars, serverVars, streamVars, view, requested, forced, attempts, batches,
                   finishing, based, refreshDue, reconcileDue, faults>>

FetchFirst(s) ==
    /\ reconciles[s].step = "fetching"
    /\ view' = rev
    /\ Step(s, [reconciles[s] EXCEPT !.step = "fetched"])
    /\ UNCHANGED <<dbVars, serverVars, streamVars, applied, requested, forced, attempts, batches,
                   cardVars, based, refreshDue, reconcileDue, faults>>

ApplyFirst(s) ==
    /\ reconciles[s].step = "fetched"
    /\ based' = TRUE
    /\ applied' = reconciles[s].revs
    /\ Settle(reconciles[s].revs, FALSE)
    /\ refreshDue' = (refreshDue \/ \E r \in Resources : requested[r] > reconciles[s].revs[r])
    /\ Step(s, NoReconcile)
    /\ UNCHANGED <<dbVars, serverVars, streamVars, view, requested, forced, attempts, batches,
                   active, reconcileDue, faults>>

\* A later answer replaces the set of active scans, adds cards for them and
\* asks for what is behind.
LaterSnapshot(s) ==
    LET answer == reconciles[s]
        scanning == answer.scan # 0
    IN /\ answer.step = "answered" /\ based
       /\ active' = scanning
       /\ runtime' = IF scanning THEN answer.scan ELSE runtime
       /\ requested' = Asked(answer.revs)
       /\ refreshDue' = (refreshDue \/ \E r \in News(answer.revs) : ~Deferred(r, scanning))
       /\ Step(s, NoReconcile)
       /\ UNCHANGED <<dbVars, serverVars, streamVars, view, applied, forced, attempts, batches,
                      finishing, based, reconcileDue, faults>>

\* A failed request or first fetch is followed by another reconciliation.
ReconcileFails(s) ==
    /\ Fault
    /\ reconciles[s].step # "idle"
    /\ Step(s, NoReconcile)
    /\ reconcileDue' = TRUE
    /\ UNCHANGED <<dbVars, serverVars, streamVars, revisionVars, cardVars, based, refreshDue>>

-----------------------------------------------------------------------------
Server ==
    \/ ListenerSubscribes
    \/ flush_resource_changes
    \/ handle_reliable
    \/ \E j \in 1 .. MaxScans : flush_scan_progress(j)

Client ==
    \/ handleOpen
    \/ handleResyncRequired
    \/ \E c \in Channels : Deliver(c)
    \/ runResourceRefreshBatch
    \/ \E b \in batches : invalidateQueryKeys(b) \/ RefreshSucceeds(b)

Reconcile(s) ==
    \/ reconcileState(s)
    \/ list_active_scan_jobs(s)
    \/ FirstSnapshot(s)
    \/ FetchFirst(s)
    \/ ApplyFirst(s)
    \/ LaterSnapshot(s)

Next ==
    \/ \E r \in Resources : Change(r)
    \/ StartScan
    \/ ScanStatusChanges
    \/ \E last \in BOOLEAN : CommitGroup(last)
    \/ FinishScan
    \/ Server
    \/ Client
    \/ \E s \in 1 .. Slots : Reconcile(s)
    \/ ListenerLost \/ ListenerReconnects \/ ConnectionLost \/ ServerRestarts
    \/ \E b \in batches : RefreshFails(b)
    \/ \E s \in 1 .. Slots : ReconcileFails(s)

Spec == Init /\ [][Next]_vars

\* The tasks of the server, the browser and its timers keep running, requests
\* are answered (each failure is counted), the stream reconnects, and a scan
\* ends, which BackgroundJobs shows of its job.
Fairness ==
    /\ WF_vars(ListenerSubscribes)
    /\ WF_vars(flush_resource_changes)
    /\ WF_vars(handle_reliable)
    /\ \A j \in 1 .. MaxScans : WF_vars(flush_scan_progress(j))
    /\ WF_vars(handleOpen) /\ WF_vars(handleResyncRequired)
    /\ \A c \in Channels : WF_vars(Deliver(c))
    /\ WF_vars(runResourceRefreshBatch)
    /\ WF_vars(\E b \in batches : invalidateQueryKeys(b) \/ RefreshSucceeds(b))
    /\ \A s \in 1 .. Slots : WF_vars(Reconcile(s))
    /\ WF_vars(FinishScan)

FairSpec == Spec /\ Fairness
-----------------------------------------------------------------------------
\* A revision is marked as applied only when the data on the screen is at
\* least that new, whatever fetches, events and snapshots overlap (SSE.md:
\* the client must not mark a cache it has not refreshed as applied).
AppliedIsShown == AtMost(applied, view) /\ AtMost(view, rev)

\* What makes that inductive: every revision the client was told of exists,
\* and data fetched for a target is at least as new as the target.
KnownRevisionsExist ==
    /\ AtMost(requested, rev)
    /\ \A b \in batches : AtMost(b.targets, rev)
    /\ \A c \in Channels : \A i \in DOMAIN channels[c] : AtMost(channels[c][i].changes, rev)
    /\ \A s \in 1 .. Slots : AtMost(reconciles[s].revs, rev)

FetchedIsShown ==
    /\ \A b \in batches : b.fetched => AtMost(b.targets, view)
    /\ \A s \in 1 .. Slots : reconciles[s].step = "fetched" => AtMost(reconciles[s].revs, view)

SyncInv == TypeOK /\ AppliedIsShown /\ KnownRevisionsExist /\ FetchedIsShown

\* When changes stop, the screen comes to show the last of them and stays
\* there, although notifications, events, connections and requests were lost.
\* Two things are left out.  A change whose notification was lost while recv
\* reconnected by itself stays unseen until the resource changes again or the
\* client reconciles.  And the catalog once a scan has run: its refreshes are
\* held back while the client believes the library to be scanning, and a
\* reconciliation that ends this belief does not make up for them.
UpToDate(r) == view[r] = rev[r] \/ (r = Catalog /\ jobs > 0)

Synced == \A r \in Resources : <>[](UpToDate(r) \/ r \in unheard)

\* What docs/SSE.md says of resync.required: it is also sent when the listener
\* subscribes again, to close the gap in its notifications, so that a lost one
\* never leaves the screen behind.  The code sends it only where its own loop
\* subscribes, not when recv reconnects (run_postgres_revision_listener).
LossesAreMadeUp == \A r \in Resources : <>[]UpToDate(r)

\* What the end of a scan waits for is applied in the end, so that no promise
\* of handleScanFinished, and no card kept by it, is left for ever.
EndsSettle == <>[](finishing = {})
=============================================================================
