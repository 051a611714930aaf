------------------------- MODULE RealtimeSyncProofs -------------------------
(***************************************************************************)
(* SyncInv is an inductive invariant of RealtimeSync, for any set of       *)
(* resources, any channel capacity and any number of reconciliations in    *)
(* flight.                                                                 *)
(***************************************************************************)
EXTENDS RealtimeSync, TLAPS

\* The revision maps the model builds are revision maps.
LEMMA RevisionMaps ==
    ASSUME TypeOK
    PROVE  /\ NoRevisions \in Revisions
           /\ \A rs \in SUBSET Resources : Current(rs) \in Revisions
           /\ \A cs \in Revisions : Asked(cs) \in Revisions
           /\ \A cs \in Revisions : News(cs) \subseteq Resources
  BY DEF TypeOK, NoRevisions, Revisions, Current, Asked, News, Larger

\* Publishing a message keeps the channels well formed.
LEMMA Publishing ==
    ASSUME TypeOK, NEW c \in Channels, NEW m \in Messages
    PROVE  Pushed(c, m) \in Seq(Messages)
<1>1. channels[c] \in Seq(Messages)
  BY DEF TypeOK
<1>2. CASE Len(channels[c]) < Cap
  BY <1>1, <1>2 DEF Pushed
<1>3. CASE ~(Len(channels[c]) < Cap)
  <2>1. Len(channels[c]) > 0
    BY <1>1, <1>3, BoundAssumption
  <2>2. channels[c] # <<>>
    BY <1>1, <2>1
  <2>3. Tail(channels[c]) \in Seq(Messages)
    BY <1>1, <2>2
  <2>. QED BY <1>1, <1>3, <2>3 DEF Pushed
<1>. QED BY <1>2, <1>3

\* Steps of the database.
LEMMA DatabaseTypes ==
    ASSUME TypeOK,
           \/ \E r \in Resources : Change(r)
           \/ StartScan
           \/ ScanStatusChanges
           \/ \E last \in BOOLEAN : CommitGroup(last)
           \/ FinishScan
    PROVE  TypeOK'
<1> USE DEF TypeOK
<1>1. ASSUME NEW r \in Resources, mova_bump_realtime_revision(r)
      PROVE  rev' \in Revisions /\ pending' \subseteq Resources /\ unheard' \subseteq Resources
  BY <1>1 DEF mova_bump_realtime_revision, Revisions
<1>2. Catalog \in Resources /\ Scan \in Resources
  BY DEF Resources
<1>3. ASSUME NEW r \in Resources, Change(r)
      PROVE  TypeOK'
  BY <1>1, <1>3 DEF Change, streamVars, clientVars, revisionVars, cardVars
<1>4. ASSUME StartScan
      PROVE  TypeOK'
  <2>1. jobs + 1 \in 1 .. MaxScans
    BY <1>4, BoundAssumption DEF StartScan
  <2>2. progress' \subseteq 1 .. MaxScans
    BY <1>4, <2>1 DEF StartScan, ReportProgress
  <2>. QED BY <1>1, <1>2, <1>4, <2>1, <2>2
           DEF StartScan, streamVars, clientVars, revisionVars, cardVars
<1>5. ASSUME scan # 0
      PROVE  scan \in 1 .. MaxScans
  BY <1>5, BoundAssumption
<1>8. ASSUME ScanStatusChanges
      PROVE  TypeOK'
  <2>1. progress' \subseteq 1 .. MaxScans
    BY <1>5, <1>8 DEF ScanStatusChanges, ReportProgress
  <2>. QED BY <1>1, <1>2, <1>8, <2>1
           DEF ScanStatusChanges, streamVars, clientVars, revisionVars, cardVars
<1>6. ASSUME NEW last \in BOOLEAN, CommitGroup(last)
      PROVE  TypeOK'
  <2>1. progress' \subseteq 1 .. MaxScans
    BY <1>5, <1>6 DEF CommitGroup, ReportProgress
  <2>2. reliable' \in Seq(Events)
    <3>1. [kind |-> "checkpoint", job |-> scan] \in Events
      BY <1>5, <1>6 DEF CommitGroup, Events
    <3>2. Append(reliable, [kind |-> "checkpoint", job |-> scan]) \in Seq(Events)
      BY <3>1
    <3>. QED BY <3>2, <1>6 DEF CommitGroup
  <2>. QED BY <1>1, <1>2, <1>6, <2>1, <2>2
           DEF CommitGroup, streamVars, clientVars, revisionVars, cardVars
<1>7. ASSUME FinishScan
      PROVE  TypeOK'
  <2>1. reliable' \in Seq(Events)
    BY <1>5, <1>7 DEF FinishScan, Events
  <2>2. scan' \in 0 .. MaxScans
    BY <1>7, BoundAssumption DEF FinishScan
  <2>. QED BY <1>1, <1>2, <1>7, <2>1, <2>2
           DEF FinishScan, streamVars, clientVars, revisionVars, cardVars
<1>. QED BY <1>3, <1>4, <1>6, <1>7, <1>8

\* Steps of the server, and what is lost.
LEMMA ServerTypes ==
    ASSUME TypeOK,
           Server \/ ListenerLost \/ ListenerReconnects \/ ConnectionLost \/ ServerRestarts
    PROVE  TypeOK'
<1> USE DEF TypeOK
<1>1. ASSUME ListenerSubscribes
      PROVE  TypeOK'
  BY <1>1 DEF ListenerSubscribes, dbVars, clientVars, revisionVars, cardVars
<1>2. ASSUME flush_resource_changes
      PROVE  TypeOK'
  <2> DEFINE of(c) == {r \in pending : Visibility(r) = c}
             message(c) == [kind |-> "resources.changed", job |-> 0, changes |-> Current(of(c))]
  <2>0. \A c \in Channels : Current(of(c)) \in Revisions
    BY RevisionMaps
  <2>1. \A c \in Channels : message(c) \in Messages
    BY <2>0, BoundAssumption DEF Messages
  <2>2. \A c \in Channels : Pushed(c, message(c)) \in Seq(Messages)
    BY <2>1, Publishing
  <2>3. channels' = [c \in Channels |->
            IF of(c) = {} THEN channels[c] ELSE Pushed(c, message(c))]
    BY <1>2 DEF flush_resource_changes
  <2>4. channels' \in [Channels -> Seq(Messages)]
    BY <2>2, <2>3
  <2>5. resync' \subseteq Channels \cup {"public"}
    BY <1>2 DEF flush_resource_changes, Lagged
  <2>. QED BY <1>2, <2>4, <2>5
           DEF flush_resource_changes, dbVars, clientVars, revisionVars, cardVars
<1>3. ASSUME NEW m \in Messages, publish("library", m)
      PROVE  /\ channels' \in [Channels -> Seq(Messages)]
             /\ resync' \subseteq Channels \cup {"public"}
             /\ connected' \in BOOLEAN
  BY <1>3, Publishing DEF publish, Lagged, Channels
<1>4. ASSUME handle_reliable
      PROVE  TypeOK'
  <2> DEFINE e == Head(reliable)
             message(cs) ==
                 [kind |-> IF e.kind = "finished" THEN "scan.finished" ELSE "scan.progress",
                  job |-> e.job, changes |-> cs]
  <2>1. e \in Events /\ reliable' \in Seq(Events)
    BY <1>4 DEF handle_reliable
  <2>2. \A cs \in Revisions : message(cs) \in Messages
    BY <2>1 DEF Messages, Events
  <2>3. Current({Catalog, Scan}) \in Revisions /\ NoRevisions \in Revisions
    BY RevisionMaps DEF Resources
  <2>4. /\ \/ publish("library", message(Current({Catalog, Scan}))) /\ UNCHANGED faults
           \/ publish("library", message(NoRevisions)) /\ Fault
        /\ unheard' \subseteq unheard
    BY <1>4 DEF handle_reliable
  <2>5. faults' \in 0 .. MaxFaults
    BY <2>4, BoundAssumption DEF Fault
  <2>6. /\ channels' \in [Channels -> Seq(Messages)]
        /\ resync' \subseteq Channels \cup {"public"}
        /\ connected' \in BOOLEAN
    BY <2>2, <2>3, <2>4, <1>3
  <2>. QED BY <1>4, <2>1, <2>4, <2>5, <2>6
           DEF handle_reliable, dbVars, clientVars, revisionVars, cardVars
<1>5. ASSUME NEW j \in 1 .. MaxScans, flush_scan_progress(j)
      PROVE  TypeOK'
  <2>1. [kind |-> "scan.progress", job |-> j, changes |-> NoRevisions] \in Messages
    <3>1. NoRevisions \in Revisions
      BY RevisionMaps
    <3>2. j \in 0 .. MaxScans
      BY BoundAssumption
    <3>. QED BY <3>1, <3>2 DEF Messages
  <2>. QED BY <1>3, <1>5, <2>1
           DEF flush_scan_progress, dbVars, clientVars, revisionVars, cardVars
<1>6. ASSUME Fault
      PROVE  faults' \in 0 .. MaxFaults
  BY <1>6, BoundAssumption DEF Fault
<1>7. ASSUME StreamEnds
      PROVE  /\ channels' \in [Channels -> Seq(Messages)]
             /\ resync' \subseteq Channels \cup {"public"}
             /\ connected' \in BOOLEAN
  <2>1. <<>> \in Seq(Messages)
    OBVIOUS
  <2>. QED BY <1>7, <2>1 DEF StreamEnds
<1>8. ASSUME ListenerLost \/ ListenerReconnects \/ ConnectionLost \/ ServerRestarts
      PROVE  TypeOK'
  <2>1. CASE ListenerLost
    BY <1>6, <2>1 DEF ListenerLost, dbVars, streamVars, clientVars, revisionVars, cardVars
  <2>2. CASE ConnectionLost
    BY <1>6, <1>7, <2>2 DEF ConnectionLost, dbVars, serverVars, clientVars, revisionVars, cardVars
  <2>3. CASE ServerRestarts
    <3>1. <<>> \in Seq(Events)
      OBVIOUS
    <3>. QED BY <1>6, <1>7, <2>3, <3>1 DEF ServerRestarts, dbVars, clientVars, revisionVars, cardVars
  <2>4. CASE ListenerReconnects
    BY <1>6, <2>4 DEF ListenerReconnects, streamVars, clientVars, revisionVars, cardVars
  <2>. QED BY <1>8, <2>1, <2>2, <2>3, <2>4
<1>. QED BY <1>1, <1>2, <1>4, <1>5, <1>8 DEF Server

\* What is left of the waits of ended scans, and the cards.
LEMMA SettleTypes ==
    ASSUME TypeOK, NEW as \in Revisions, NEW clear \in BOOLEAN, Settle(as, clear)
    PROVE  finishing' \subseteq Ends /\ runtime' \in 0 .. MaxScans
<1>1. ASSUME NEW w \in finishing
      PROVE  [w EXCEPT !.need = [r \in Resources |-> IF w.need[r] <= as[r] THEN 0 ELSE w.need[r]]]
                \in Ends
  <2>1. w \in Ends
    BY DEF TypeOK
  <2>2. [r \in Resources |-> IF w.need[r] <= as[r] THEN 0 ELSE w.need[r]] \in Revisions
    BY <2>1 DEF Ends, Revisions
  <2>. QED BY <2>1, <2>2 DEF Ends
<1>2. resolveResourceWaiters(as) \subseteq Ends
  BY <1>1 DEF resolveResourceWaiters
<1>3. finishing' \subseteq resolveResourceWaiters(as)
  BY DEF Settle
<1>4. runtime' = 0 \/ runtime' = runtime
  BY DEF Settle
<1>5. 0 \in 0 .. MaxScans
  BY BoundAssumption
<1>6. runtime \in 0 .. MaxScans
  BY DEF TypeOK
<1>7. runtime' \in 0 .. MaxScans
  BY <1>4, <1>5, <1>6
<1>. QED BY <1>2, <1>3, <1>7

\* Events the client handles.
LEMMA EventTypes ==
    ASSUME TypeOK,
           handleOpen \/ handleResyncRequired \/ \E c \in Channels : Deliver(c)
    PROVE  TypeOK'
<1> USE DEF TypeOK
<1>1. ASSUME handleOpen
      PROVE  TypeOK'
  BY <1>1 DEF handleOpen, dbVars, serverVars, revisionVars, cardVars
<1>2. ASSUME handleResyncRequired
      PROVE  TypeOK'
  <2>1. <<>> \in Seq(Messages)
    OBVIOUS
  <2>. QED BY <1>2, <2>1 DEF handleResyncRequired, StreamEnds, dbVars, serverVars, revisionVars, cardVars
<1>3. ASSUME NEW c \in Channels, Deliver(c)
      PROVE  TypeOK'
  <2> DEFINE m == Head(channels[c])
  <2>1. channels[c] \in Seq(Messages) /\ channels[c] # <<>>
    BY <1>3 DEF Deliver
  <2>2. m \in Messages /\ Tail(channels[c]) \in Seq(Messages)
    BY <2>1
  <2>3. channels' \in [Channels -> Seq(Messages)]
    BY <1>3, <2>2 DEF Deliver
  <2>4. m.changes \in Revisions /\ m.job \in 0 .. MaxScans
    BY <2>2 DEF Messages
  <2> HIDE DEF m
  <2>5. Asked(m.changes) \in Revisions /\ News(m.changes) \subseteq Resources
    BY <2>4, RevisionMaps
  <2>6. ASSUME ForceRefresh(m.changes)
        PROVE  requested' \in Revisions /\ forced' \subseteq Resources /\ refreshDue' \in BOOLEAN
    BY <2>5, <2>6 DEF ForceRefresh
  <2>7. /\ UNCHANGED <<dbVars, serverVars, connected, resync, view, applied, attempts, batches,
                       based, reconciles, faults>>
        /\ \/ m.kind = "resources.changed" /\ handleResourcesChanged(m)
           \/ m.kind = "scan.progress" /\ handleScanProgress(m)
           \/ m.kind = "scan.finished" /\ handleScanFinished(m)
    BY <1>3 DEF Deliver, m
  <2>8. CASE handleResourcesChanged(m)
    BY <2>3, <2>5, <2>7, <2>8 DEF handleResourcesChanged, dbVars, serverVars, cardVars
  <2>9. CASE handleScanProgress(m)
    BY <2>3, <2>4, <2>6, <2>7, <2>9 DEF handleScanProgress, dbVars, serverVars
  <2>10. CASE m.kind = "scan.finished" /\ handleScanFinished(m)
    <3> DEFINE need == [r \in Resources |-> IF r \in News(m.changes) THEN m.changes[r] ELSE 0]
    <3>1. need \in Revisions
      BY <2>4 DEF Revisions
    <3>2. CASE m.changes = NoRevisions
      BY <2>3, <2>4, <2>7, <2>10, <3>2 DEF handleScanFinished, dbVars, serverVars
    <3>3. CASE m.changes # NoRevisions /\ need = NoRevisions
      <4>1. /\ active' = FALSE /\ runtime' = 0 /\ UNCHANGED <<finishing, reconcileDue>>
            /\ ForceRefresh(m.changes)
        BY <2>10, <3>3 DEF handleScanFinished
      <4>2. runtime' \in 0 .. MaxScans
        BY <4>1, BoundAssumption
      <4>. QED BY <2>3, <2>6, <2>7, <4>1, <4>2 DEF dbVars, serverVars
    <3>4. CASE m.changes # NoRevisions /\ need # NoRevisions
      <4>2. [job |-> m.job, need |-> need] \in Ends
        BY <2>4, <3>1 DEF Ends
      <4>. QED BY <2>3, <2>4, <2>6, <2>7, <2>10, <3>4, <4>2 DEF handleScanFinished, dbVars, serverVars
    <3>. QED BY <3>2, <3>3, <3>4
  <2>. QED BY <2>7, <2>8, <2>9, <2>10
<1>. QED BY <1>1, <1>2, <1>3

\* Refreshes.
LEMMA RefreshTypes ==
    ASSUME TypeOK,
           \/ runResourceRefreshBatch
           \/ \E b \in batches : invalidateQueryKeys(b) \/ RefreshSucceeds(b) \/ RefreshFails(b)
    PROVE  TypeOK'
<1> USE DEF TypeOK
<1>1. ASSUME runResourceRefreshBatch
      PROVE  TypeOK'
  <2> DEFINE rs == Refreshable(applied, forced) \ inFlightResources
             ts == [r \in Resources |-> IF r \in rs THEN requested[r] ELSE 0]
  <2>1. ts \in Revisions
    BY DEF Revisions
  <2>2. [targets |-> ts, fetched |-> FALSE] \in Batches
    BY <2>1 DEF Batches
  <2>3. batches' \subseteq Batches
    BY <1>1, <2>2 DEF runResourceRefreshBatch
  <2>. QED BY <1>1, <2>3 DEF runResourceRefreshBatch, dbVars, serverVars, streamVars, cardVars
<1>2. ASSUME NEW b \in batches, invalidateQueryKeys(b)
      PROVE  TypeOK'
  <2>1. view' \in Revisions
    BY <1>2 DEF invalidateQueryKeys, Answered, Revisions
  <2>2. b \in Batches /\ [b EXCEPT !.fetched = TRUE] \in Batches
    BY DEF Batches
  <2>3. batches' \subseteq Batches
    BY <1>2, <2>2 DEF invalidateQueryKeys
  <2>. QED BY <1>2, <2>1, <2>3
           DEF invalidateQueryKeys, dbVars, serverVars, streamVars, cardVars
<1>3. ASSUME NEW b \in batches, RefreshSucceeds(b)
      PROVE  TypeOK'
  <2> DEFINE as == AppliedBy(b)
  <2>1. b \in Batches
    OBVIOUS
  <2>2. as \in Revisions
    BY <2>1 DEF AppliedBy, Batches, Revisions
  <2>3. /\ applied' = as /\ forced' \subseteq forced /\ batches' \subseteq batches
        /\ attempts' = [r \in Resources |-> IF r \in Members(b) THEN 0 ELSE attempts[r]]
        /\ Settle(as, Scan \in Members(b) /\ ~active)
        /\ refreshDue' \in BOOLEAN
        /\ UNCHANGED <<dbVars, serverVars, streamVars, view, requested, active, based,
                       reconcileDue, reconciles, faults>>
    BY <1>3 DEF RefreshSucceeds, StillBehind
  <2>4. attempts' \in [Resources -> 0 .. 2]
    BY <2>3
  <2> HIDE DEF as
  <2>5. finishing' \subseteq Ends /\ runtime' \in 0 .. MaxScans
    BY <2>2, <2>3, SettleTypes
  <2>. QED BY <2>2, <2>3, <2>4, <2>5 DEF dbVars, serverVars, streamVars
<1>4. ASSUME NEW b \in batches, RefreshFails(b)
      PROVE  TypeOK'
  <2>1. faults' \in 0 .. MaxFaults
    BY <1>4, BoundAssumption DEF RefreshFails, Fault
  <2>2. attempts' \in [Resources -> 0 .. 2]
    BY <1>4 DEF RefreshFails
  <2>. QED BY <1>4, <2>1, <2>2
           DEF RefreshFails, dbVars, serverVars, streamVars, cardVars
<1>. QED BY <1>1, <1>2, <1>3, <1>4

\* Reconciliations.
LEMMA ReconcileTypes ==
    ASSUME TypeOK, NEW s \in 1 .. Slots, Reconcile(s) \/ ReconcileFails(s)
    PROVE  TypeOK'
<1> USE DEF TypeOK
<1>0. NoRevisions \in Revisions
  BY RevisionMaps
<1>1. NoReconcile \in Reconciles
  BY <1>0, BoundAssumption DEF NoReconcile, Reconciles, ReconcileSteps
<1>2. /\ reconciles[s] \in Reconciles
      /\ \A q \in ReconcileSteps : [reconciles[s] EXCEPT !.step = q] \in Reconciles
      /\ reconciles[s].revs \in Revisions /\ reconciles[s].scan \in 0 .. MaxScans
  BY DEF Reconciles
<1>3. ASSUME NEW x \in Reconciles, Step(s, x)
      PROVE  reconciles' \in [1 .. Slots -> Reconciles]
  BY <1>3 DEF Step
<1>4. ASSUME reconcileState(s)
      PROVE  TypeOK'
  <2>1. [NoReconcile EXCEPT !.step = "scans", !.revs = rev] \in Reconciles
    BY <1>1 DEF Reconciles, ReconcileSteps
  <2>. QED BY <1>3, <1>4, <2>1
           DEF reconcileState, dbVars, serverVars, streamVars, revisionVars, cardVars
<1>5. ASSUME list_active_scan_jobs(s)
      PROVE  TypeOK'
  <2>1. [reconciles[s] EXCEPT !.step = "answered", !.scan = scan] \in Reconciles
    BY <1>2 DEF Reconciles, ReconcileSteps
  <2>. QED BY <1>3, <1>5, <2>1
           DEF list_active_scan_jobs, dbVars, serverVars, streamVars, revisionVars, cardVars
<1>6. ASSUME FirstSnapshot(s)
      PROVE  TypeOK'
  <2>1. reconciles' \in [1 .. Slots -> Reconciles]
    BY <1>2, <1>3, <1>6 DEF FirstSnapshot, ReconcileSteps
  <2>. QED BY <1>0, <1>2, <1>6, <2>1 DEF FirstSnapshot, dbVars, serverVars, streamVars
<1>7. ASSUME FetchFirst(s)
      PROVE  TypeOK'
  <2>1. reconciles' \in [1 .. Slots -> Reconciles]
    BY <1>2, <1>3, <1>7 DEF FetchFirst, ReconcileSteps
  <2>. QED BY <1>7, <2>1 DEF FetchFirst, dbVars, serverVars, streamVars, cardVars
<1>8. ASSUME ApplyFirst(s)
      PROVE  TypeOK'
  <2>1. reconciles' \in [1 .. Slots -> Reconciles]
    BY <1>1, <1>3, <1>8 DEF ApplyFirst
  <2>2. finishing' \subseteq Ends /\ runtime' \in 0 .. MaxScans
    BY <1>2, <1>8, SettleTypes DEF ApplyFirst
  <2>. QED BY <1>2, <1>8, <2>1, <2>2 DEF ApplyFirst, dbVars, serverVars, streamVars
<1>9. ASSUME LaterSnapshot(s)
      PROVE  TypeOK'
  <2>1. reconciles' \in [1 .. Slots -> Reconciles]
    BY <1>1, <1>3, <1>9 DEF LaterSnapshot
  <2>2. requested' \in Revisions
    BY <1>2, <1>9, RevisionMaps DEF LaterSnapshot
  <2>. QED BY <1>2, <1>9, <2>1, <2>2 DEF LaterSnapshot, dbVars, serverVars, streamVars
<1>10. ASSUME ReconcileFails(s)
       PROVE  TypeOK'
  <2>1. reconciles' \in [1 .. Slots -> Reconciles]
    BY <1>1, <1>3, <1>10 DEF ReconcileFails
  <2>2. faults' \in 0 .. MaxFaults
    BY <1>10, BoundAssumption DEF ReconcileFails, Fault
  <2>. QED BY <1>10, <2>1, <2>2
           DEF ReconcileFails, dbVars, serverVars, streamVars, revisionVars, cardVars
<1>. QED BY <1>4, <1>5, <1>6, <1>7, <1>8, <1>9, <1>10 DEF Reconcile

\* Every step keeps the types.
LEMMA TypeStep ==
    ASSUME TypeOK, [Next]_vars
    PROVE  TypeOK'
<1>1. CASE UNCHANGED vars
  BY <1>1 DEF TypeOK, vars, dbVars, serverVars, streamVars, clientVars, revisionVars, cardVars
<1>2. CASE Next
  BY <1>2, DatabaseTypes, ServerTypes, EventTypes, RefreshTypes, ReconcileTypes
  DEF Next, Client
<1>. QED BY <1>1, <1>2

-----------------------------------------------------------------------------
(* Revisions only grow.                                                    *)

LEMMA Transitive ==
    ASSUME NEW f \in Revisions, NEW g \in Revisions, NEW h \in Revisions,
           AtMost(f, g), AtMost(g, h)
    PROVE  AtMost(f, h)
<1> SUFFICES ASSUME NEW r \in Resources
             PROVE  f[r] <= h[r]
  BY DEF AtMost
<1>1. f[r] \in Nat /\ g[r] \in Nat /\ h[r] \in Nat
  BY DEF Revisions
<1>2. f[r] <= g[r] /\ g[r] <= h[r]
  BY DEF AtMost
<1>. QED BY <1>1, <1>2

LEMMA Reflexive ==
    ASSUME NEW f \in Revisions
    PROVE  AtMost(f, f) /\ AtMost(NoRevisions, f)
  BY DEF AtMost, Revisions, NoRevisions

\* A revision is raised by a committed change and never taken back.
LEMMA RevisionsGrow ==
    ASSUME TypeOK, [Next]_vars
    PROVE  AtMost(rev, rev')
<1>1. ASSUME NEW r \in Resources, mova_bump_realtime_revision(r)
      PROVE  AtMost(rev, rev')
  BY <1>1 DEF mova_bump_realtime_revision, AtMost, TypeOK, Revisions
<1>2. Catalog \in Resources /\ Scan \in Resources
  BY DEF Resources
<1>3. CASE UNCHANGED rev
  BY <1>3, Reflexive DEF TypeOK
<1>4. CASE \/ \E r \in Resources : Change(r)
           \/ StartScan
           \/ ScanStatusChanges
           \/ \E last \in BOOLEAN : CommitGroup(last)
           \/ FinishScan
  BY <1>1, <1>2, <1>4 DEF Change, StartScan, ScanStatusChanges, CommitGroup, FinishScan
<1>5. CASE UNCHANGED vars
  BY <1>3, <1>5 DEF vars, dbVars
<1>6. CASE Server \/ ListenerLost \/ ListenerReconnects \/ ConnectionLost \/ ServerRestarts
  BY <1>3, <1>6 DEF Server, ListenerSubscribes, flush_resource_changes, handle_reliable,
       flush_scan_progress, ListenerLost, ListenerReconnects, ConnectionLost,
       ServerRestarts, dbVars
<1>7. CASE Client \/ \E b \in batches : RefreshFails(b)
  BY <1>3, <1>7 DEF Client, handleOpen, handleResyncRequired, Deliver, runResourceRefreshBatch,
       invalidateQueryKeys, RefreshSucceeds, RefreshFails, dbVars
<1>8. CASE \E s \in 1 .. Slots : Reconcile(s) \/ ReconcileFails(s)
  BY <1>3, <1>8 DEF Reconcile, reconcileState, list_active_scan_jobs, FirstSnapshot, FetchFirst,
       ApplyFirst, LaterSnapshot, ReconcileFails, dbVars
<1>. QED BY <1>4, <1>5, <1>6, <1>7, <1>8 DEF Next

\* What existed before a step exists after it.
LEMMA StillExists ==
    ASSUME TypeOK, [Next]_vars, NEW f \in Revisions, AtMost(f, rev)
    PROVE  AtMost(f, rev')
<1>1. TypeOK' /\ AtMost(rev, rev')
  BY TypeStep, RevisionsGrow
<1>2. rev \in Revisions /\ rev' \in Revisions
  BY <1>1 DEF TypeOK
<1>. QED BY <1>1, <1>2, Transitive

-----------------------------------------------------------------------------
(* KnownRevisionsExist, one lemma for each place a revision is kept in.    *)

LEMMA RequestedExists ==
    ASSUME TypeOK, KnownRevisionsExist, [Next]_vars
    PROVE  AtMost(requested', rev')
<1>1. ASSUME NEW cs \in Revisions, AtMost(cs, rev), requested' = Asked(cs)
      PROVE  AtMost(requested', rev')
  <2>1. AtMost(requested, rev) /\ requested \in Revisions
    BY DEF KnownRevisionsExist, TypeOK
  <2>2. AtMost(Asked(cs), rev)
    BY <1>1, <2>1 DEF AtMost, Asked, Larger, Revisions
  <2>3. Asked(cs) \in Revisions
    BY RevisionMaps
  <2>. QED BY <1>1, <2>2, <2>3, StillExists
<1>2. CASE UNCHANGED requested
  BY <1>2, StillExists DEF KnownRevisionsExist, TypeOK
<1>3. ASSUME NEW c \in Channels, Deliver(c)
      PROVE  AtMost(requested', rev')
  <2> DEFINE m == Head(channels[c])
  <2>1. channels[c] \in Seq(Messages) /\ channels[c] # <<>>
    BY <1>3 DEF Deliver, TypeOK
  <2>2. m \in Messages /\ m = channels[c][1] /\ 1 \in DOMAIN channels[c]
    BY <2>1
  <2>3. m.changes \in Revisions /\ AtMost(m.changes, rev)
    BY <2>2 DEF Messages, KnownRevisionsExist
  <2> HIDE DEF m
  <2>4. requested' = Asked(m.changes) \/ UNCHANGED requested
    BY <1>3 DEF Deliver, m, handleResourcesChanged, handleScanProgress, handleScanFinished,
                ForceRefresh
  <2>. QED BY <1>1, <1>2, <2>3, <2>4
<1>4. ASSUME NEW s \in 1 .. Slots, LaterSnapshot(s)
      PROVE  AtMost(requested', rev')
  <2>1. reconciles[s].revs \in Revisions /\ AtMost(reconciles[s].revs, rev)
    BY DEF TypeOK, Reconciles, KnownRevisionsExist
  <2>. QED BY <1>1, <1>4, <2>1 DEF LaterSnapshot
<1>5. CASE UNCHANGED vars
  BY <1>2, <1>5 DEF vars, clientVars, revisionVars
<1>6. CASE Server \/ ListenerLost \/ ListenerReconnects \/ ConnectionLost \/ ServerRestarts
  BY <1>2, <1>6 DEF Server, ListenerSubscribes, flush_resource_changes, handle_reliable,
       flush_scan_progress, ListenerLost, ListenerReconnects, ConnectionLost,
       ServerRestarts, clientVars, revisionVars
<1>7. CASE Client \/ \E b \in batches : RefreshFails(b)
  BY <1>2, <1>3, <1>7 DEF Client, handleOpen, handleResyncRequired, runResourceRefreshBatch,
       invalidateQueryKeys, RefreshSucceeds, RefreshFails, revisionVars
<1>8. CASE \E s \in 1 .. Slots : Reconcile(s) \/ ReconcileFails(s)
  BY <1>2, <1>4, <1>8 DEF Reconcile, reconcileState, list_active_scan_jobs, FirstSnapshot,
       FetchFirst, ApplyFirst, ReconcileFails, revisionVars
<1>9. CASE \/ \E r \in Resources : Change(r)
           \/ StartScan
           \/ ScanStatusChanges
           \/ \E last \in BOOLEAN : CommitGroup(last)
           \/ FinishScan
  BY <1>2, <1>9 DEF Change, StartScan, ScanStatusChanges, CommitGroup, FinishScan, clientVars, revisionVars
<1>. QED BY <1>5, <1>6, <1>7, <1>8, <1>9 DEF Next

LEMMA TargetsExist ==
    ASSUME TypeOK, KnownRevisionsExist, [Next]_vars
    PROVE  \A b \in batches' : AtMost(b.targets, rev')
<1>1. \A b \in batches : b \in Batches /\ b.targets \in Revisions /\ AtMost(b.targets, rev)
  BY DEF TypeOK, Batches, KnownRevisionsExist
<1>2. CASE batches' \subseteq batches
  BY <1>1, <1>2, StillExists
<1>3. ASSUME runResourceRefreshBatch
      PROVE  \A b \in batches' : AtMost(b.targets, rev')
  <2> DEFINE rs == Refreshable(applied, forced) \ inFlightResources
             ts == [r \in Resources |-> IF r \in rs THEN requested[r] ELSE 0]
  <2>1. AtMost(requested, rev) /\ requested \in Revisions /\ rev \in Revisions
    BY DEF KnownRevisionsExist, TypeOK
  <2>2. ts \in Revisions /\ AtMost(ts, rev)
    BY <2>1 DEF AtMost, Revisions
  <2>3. \A b \in batches' : b \in batches \/ b.targets = ts
    BY <1>3 DEF runResourceRefreshBatch
  <2> HIDE DEF ts
  <2>. QED BY <1>1, <2>2, <2>3, StillExists
<1>4. ASSUME NEW b \in batches, invalidateQueryKeys(b)
      PROVE  \A d \in batches' : AtMost(d.targets, rev')
  <2>1. [b EXCEPT !.fetched = TRUE].targets = b.targets
    BY <1>1 DEF Batches
  <2>2. \A d \in batches' : d \in batches \/ d.targets = b.targets
    BY <1>4, <2>1 DEF invalidateQueryKeys
  <2>. QED BY <1>1, <2>2, StillExists
<1>5. CASE UNCHANGED vars
  BY <1>2, <1>5 DEF vars, clientVars, revisionVars
<1>6. CASE Server \/ ListenerLost \/ ListenerReconnects \/ ConnectionLost \/ ServerRestarts
  BY <1>2, <1>6 DEF Server, ListenerSubscribes, flush_resource_changes, handle_reliable,
       flush_scan_progress, ListenerLost, ListenerReconnects, ConnectionLost,
       ServerRestarts, clientVars, revisionVars
<1>7. CASE Client \/ \E b \in batches : RefreshFails(b)
  BY <1>2, <1>3, <1>4, <1>7 DEF Client, handleOpen, handleResyncRequired, Deliver,
       RefreshSucceeds, RefreshFails, revisionVars
<1>8. CASE \E s \in 1 .. Slots : Reconcile(s) \/ ReconcileFails(s)
  BY <1>2, <1>8 DEF Reconcile, reconcileState, list_active_scan_jobs, FirstSnapshot,
       FetchFirst, ApplyFirst, LaterSnapshot, ReconcileFails, revisionVars
<1>9. CASE \/ \E r \in Resources : Change(r)
           \/ StartScan
           \/ ScanStatusChanges
           \/ \E last \in BOOLEAN : CommitGroup(last)
           \/ FinishScan
  BY <1>2, <1>9 DEF Change, StartScan, ScanStatusChanges, CommitGroup, FinishScan, clientVars, revisionVars
<1>. QED BY <1>5, <1>6, <1>7, <1>8, <1>9 DEF Next

LEMMA AnswersExist ==
    ASSUME TypeOK, KnownRevisionsExist, [Next]_vars
    PROVE  \A s \in 1 .. Slots : AtMost(reconciles'[s].revs, rev')
<1>1. \A s \in 1 .. Slots : /\ reconciles[s] \in Reconciles
                            /\ reconciles[s].revs \in Revisions
                            /\ AtMost(reconciles[s].revs, rev)
  BY DEF TypeOK, Reconciles, KnownRevisionsExist
<1>2. CASE UNCHANGED reconciles
  BY <1>1, <1>2, StillExists
<1>3. ASSUME NEW s \in 1 .. Slots, NEW x \in Reconciles, Step(s, x), AtMost(x.revs, rev)
      PROVE  \A t \in 1 .. Slots : AtMost(reconciles'[t].revs, rev')
  <2>1. \A t \in 1 .. Slots : reconciles'[t] = x \/ reconciles'[t] = reconciles[t]
    BY <1>3 DEF Step, TypeOK
  <2>2. x.revs \in Revisions
    BY DEF Reconciles
  <2>. QED BY <1>1, <1>3, <2>1, <2>2, StillExists
<1>4. /\ NoReconcile \in Reconciles /\ NoReconcile.revs = NoRevisions
      /\ rev \in Revisions /\ AtMost(NoRevisions, rev) /\ AtMost(rev, rev)
  <2>1. NoRevisions \in Revisions /\ rev \in Revisions
    BY RevisionMaps DEF TypeOK
  <2>2. NoReconcile \in Reconciles /\ NoReconcile.revs = NoRevisions
    BY <2>1, BoundAssumption DEF NoReconcile, Reconciles, ReconcileSteps
  <2>. QED BY <2>1, <2>2, Reflexive
<1>5. ASSUME NEW s \in 1 .. Slots, Reconcile(s) \/ ReconcileFails(s)
      PROVE  \A t \in 1 .. Slots : AtMost(reconciles'[t].revs, rev')
  <2>1. CASE reconcileState(s)
    <3>1. /\ [NoReconcile EXCEPT !.step = "scans", !.revs = rev] \in Reconciles
          /\ [NoReconcile EXCEPT !.step = "scans", !.revs = rev].revs = rev
      BY <1>4 DEF Reconciles, ReconcileSteps
    <3>. QED BY <1>3, <1>4, <2>1, <3>1 DEF reconcileState
  <2>2. CASE list_active_scan_jobs(s)
    <3>1. /\ [reconciles[s] EXCEPT !.step = "answered", !.scan = scan] \in Reconciles
          /\ [reconciles[s] EXCEPT !.step = "answered", !.scan = scan].revs = reconciles[s].revs
      BY <1>1 DEF Reconciles, ReconcileSteps, TypeOK
    <3>. QED BY <1>1, <1>3, <2>2, <3>1 DEF list_active_scan_jobs
  <2>3. \A q \in ReconcileSteps : /\ [reconciles[s] EXCEPT !.step = q] \in Reconciles
                                  /\ [reconciles[s] EXCEPT !.step = q].revs = reconciles[s].revs
    BY <1>1 DEF Reconciles
  <2>4. CASE FirstSnapshot(s) \/ FetchFirst(s)
    <3>1. "fetching" \in ReconcileSteps /\ "fetched" \in ReconcileSteps
      BY DEF ReconcileSteps
    <3>. QED BY <1>1, <1>3, <2>3, <2>4, <3>1 DEF FirstSnapshot, FetchFirst
  <2>5. CASE ApplyFirst(s) \/ LaterSnapshot(s) \/ ReconcileFails(s)
    BY <1>3, <1>4, <2>5 DEF ApplyFirst, LaterSnapshot, ReconcileFails
  <2>. QED BY <1>5, <2>1, <2>2, <2>4, <2>5 DEF Reconcile
<1>6. CASE UNCHANGED vars
  BY <1>2, <1>6 DEF vars, clientVars
<1>7. CASE Server \/ ListenerLost \/ ListenerReconnects \/ ConnectionLost \/ ServerRestarts
  BY <1>2, <1>7 DEF Server, ListenerSubscribes, flush_resource_changes, handle_reliable,
       flush_scan_progress, ListenerLost, ListenerReconnects, ConnectionLost,
       ServerRestarts, clientVars
<1>8. CASE Client \/ \E b \in batches : RefreshFails(b)
  BY <1>2, <1>8 DEF Client, handleOpen, handleResyncRequired, Deliver, runResourceRefreshBatch,
       invalidateQueryKeys, RefreshSucceeds, RefreshFails
<1>9. CASE \/ \E r \in Resources : Change(r)
           \/ StartScan
           \/ ScanStatusChanges
           \/ \E last \in BOOLEAN : CommitGroup(last)
           \/ FinishScan
  BY <1>2, <1>9 DEF Change, StartScan, ScanStatusChanges, CommitGroup, FinishScan, clientVars
<1>. QED BY <1>5, <1>6, <1>7, <1>8, <1>9 DEF Next

\* The messages of a channel after a push.
LEMMA PushedMessages ==
    ASSUME TypeOK, KnownRevisionsExist, NEW c \in Channels, NEW m \in Messages,
           AtMost(m.changes, rev)
    PROVE  \A i \in DOMAIN Pushed(c, m) : AtMost(Pushed(c, m)[i].changes, rev)
<1> DEFINE q == channels[c]
<1>1. q \in Seq(Messages) /\ \A i \in DOMAIN q : AtMost(q[i].changes, rev)
  BY DEF TypeOK, KnownRevisionsExist
<1>2. ASSUME NEW z \in Seq(Messages), \A i \in DOMAIN z : AtMost(z[i].changes, rev)
      PROVE  \A i \in DOMAIN Append(z, m) : AtMost(Append(z, m)[i].changes, rev)
  <2>1. \A i \in DOMAIN Append(z, m) :
            IF i = Len(z) + 1 THEN Append(z, m)[i] = m
            ELSE i \in DOMAIN z /\ Append(z, m)[i] = z[i]
    OBVIOUS
  <2>. QED BY <1>2, <2>1
<1>3. CASE q # <<>>
  <2>1. /\ Tail(q) \in Seq(Messages)
        /\ \A i \in DOMAIN Tail(q) : i + 1 \in DOMAIN q /\ Tail(q)[i] = q[i + 1]
    BY <1>1, <1>3
  <2>2. \A i \in DOMAIN Tail(q) : AtMost(Tail(q)[i].changes, rev)
    BY <1>1, <2>1
  <2>3. \A i \in DOMAIN Append(Tail(q), m) : AtMost(Append(Tail(q), m)[i].changes, rev)
    BY <1>2, <2>1, <2>2
  <2>4. \A i \in DOMAIN Append(q, m) : AtMost(Append(q, m)[i].changes, rev)
    BY <1>1, <1>2
  <2>5. Pushed(c, m) \in {q, Append(q, m), Append(Tail(q), m)}
    BY DEF Pushed
  <2>. QED BY <1>1, <2>3, <2>4, <2>5
<1>4. CASE q = <<>>
  <2>1. Len(q) < Cap
    BY <1>4, BoundAssumption
  <2>2. Pushed(c, m) \in {q, Append(q, m)}
    BY <2>1 DEF Pushed
  <2>3. \A i \in DOMAIN Append(q, m) : AtMost(Append(q, m)[i].changes, rev)
    BY <1>1, <1>2
  <2>. QED BY <1>1, <2>2, <2>3
<1>. QED BY <1>3, <1>4

LEMMA MessagesExist ==
    ASSUME TypeOK, KnownRevisionsExist, [Next]_vars
    PROVE  \A c \in Channels : \A i \in DOMAIN channels'[c] : AtMost(channels'[c][i].changes, rev')
<1> DEFINE Told(q, rv) == \A i \in DOMAIN q : AtMost(q[i].changes, rv)
<1>1. /\ \A c \in Channels : channels[c] \in Seq(Messages) /\ Told(channels[c], rev)
      /\ rev \in Revisions
  BY DEF TypeOK, KnownRevisionsExist
<1>2. ASSUME NEW q \in Seq(Messages), Told(q, rev)
      PROVE  Told(q, rev')
  <2>1. \A i \in DOMAIN q : q[i] \in Messages
    OBVIOUS
  <2>2. \A i \in DOMAIN q : q[i].changes \in Revisions
    BY <2>1 DEF Messages
  <2>. QED BY <1>2, <2>2, StillExists
<1>3. CASE \A c \in Channels : channels'[c] = channels[c]
  <2>1. \A c \in Channels : Told(channels[c], rev')
    BY <1>1, <1>2
  <2>. QED BY <1>3, <2>1
<1>4. \A rs \in SUBSET Resources : AtMost(Current(rs), rev)
  BY <1>1 DEF AtMost, Current, Revisions
<1>5. AtMost(NoRevisions, rev)
  BY <1>1, Reflexive
<1>6. ASSUME NEW m \in Messages, AtMost(m.changes, rev), publish("library", m)
      PROVE  \A c \in Channels : Told(channels'[c], rev')
  <2>1. \A c \in Channels : channels'[c] = IF c = "library" THEN Pushed(c, m) ELSE channels[c]
    BY <1>6 DEF publish, TypeOK
  <2>2. \A c \in Channels : Pushed(c, m) \in Seq(Messages) /\ Told(Pushed(c, m), rev)
    BY <1>6, Publishing, PushedMessages
  <2>3. \A c \in Channels : Told(Pushed(c, m), rev') /\ Told(channels[c], rev')
    BY <1>1, <1>2, <2>2
  <2>. QED BY <2>1, <2>3
<1>7. ASSUME flush_resource_changes
      PROVE  \A c \in Channels : Told(channels'[c], rev')
  <2> DEFINE of(c) == {r \in pending : Visibility(r) = c}
             message(c) == [kind |-> "resources.changed", job |-> 0, changes |-> Current(of(c))]
  <2>1. \A c \in Channels : of(c) \in SUBSET Resources
    BY DEF TypeOK
  <2>2. \A c \in Channels : Current(of(c)) \in Revisions /\ AtMost(Current(of(c)), rev)
    BY <1>4, <2>1, RevisionMaps
  <2>3. \A c \in Channels : message(c) \in Messages /\ message(c).changes = Current(of(c))
    BY <2>2, BoundAssumption DEF Messages
  <2> HIDE DEF message
  <2>4. \A c \in Channels : Pushed(c, message(c)) \in Seq(Messages)
                            /\ Told(Pushed(c, message(c)), rev)
    BY <2>2, <2>3, Publishing, PushedMessages
  <2>5. \A c \in Channels : Told(Pushed(c, message(c)), rev') /\ Told(channels[c], rev')
    BY <1>1, <1>2, <2>4
  <2>6. channels' = [c \in Channels |->
            IF of(c) = {} THEN channels[c] ELSE Pushed(c, message(c))]
    BY <1>7 DEF flush_resource_changes, message
  <2>7. \A c \in Channels : channels'[c] \in {channels[c], Pushed(c, message(c))}
    BY <2>6
  <2>. QED BY <2>5, <2>7
<1>8. ASSUME handle_reliable
      PROVE  \A c \in Channels : Told(channels'[c], rev')
  <2> DEFINE e == Head(reliable)
             message(cs) ==
                 [kind |-> IF e.kind = "finished" THEN "scan.finished" ELSE "scan.progress",
                  job |-> e.job, changes |-> cs]
  <2>1. e \in Events
    BY <1>8 DEF handle_reliable, TypeOK
  <2>2. \A cs \in Revisions : message(cs) \in Messages /\ message(cs).changes = cs
    BY <2>1 DEF Messages, Events
  <2>3. Current({Catalog, Scan}) \in Revisions /\ NoRevisions \in Revisions
    BY RevisionMaps DEF Resources
  <2>4. AtMost(Current({Catalog, Scan}), rev)
    BY <1>4 DEF Resources
  <2>5. \/ publish("library", message(Current({Catalog, Scan})))
        \/ publish("library", message(NoRevisions))
    BY <1>8 DEF handle_reliable
  <2> HIDE DEF message
  <2>. QED BY <1>5, <1>6, <2>2, <2>3, <2>4, <2>5
<1>9. ASSUME NEW j \in 1 .. MaxScans, flush_scan_progress(j)
      PROVE  \A c \in Channels : Told(channels'[c], rev')
  <2> DEFINE m == [kind |-> "scan.progress", job |-> j, changes |-> NoRevisions]
  <2>1. NoRevisions \in Revisions /\ j \in 0 .. MaxScans
    BY RevisionMaps, BoundAssumption
  <2>2. m \in Messages /\ m.changes = NoRevisions
    BY <2>1 DEF Messages
  <2>3. publish("library", m)
    BY <1>9 DEF flush_scan_progress
  <2> HIDE DEF m
  <2>. QED BY <1>5, <1>6, <2>2, <2>3
<1>10. CASE \A c \in Channels : channels'[c] = <<>>
  BY <1>10
<1>11. ASSUME NEW c \in Channels, Deliver(c)
       PROVE  \A d \in Channels : Told(channels'[d], rev')
  <2>1. channels[c] # <<>> /\ \A d \in Channels : channels'[d] = IF d = c THEN Tail(channels[c]) ELSE channels[d]
    BY <1>11 DEF Deliver, TypeOK
  <2>2. /\ Tail(channels[c]) \in Seq(Messages)
        /\ \A i \in DOMAIN Tail(channels[c]) : i + 1 \in DOMAIN channels[c] /\ Tail(channels[c])[i] = channels[c][i + 1]
    BY <1>1, <2>1
  <2>3. Told(Tail(channels[c]), rev)
    BY <1>1, <2>2
  <2>4. Told(Tail(channels[c]), rev') /\ \A d \in Channels : Told(channels[d], rev')
    BY <1>1, <1>2, <2>2, <2>3
  <2>. QED BY <2>1, <2>4
<1> HIDE DEF Told
<1>12. CASE Server \/ ListenerLost \/ ListenerReconnects \/ ConnectionLost \/ ServerRestarts
  <2>1. CASE ListenerSubscribes \/ ListenerLost \/ ListenerReconnects
    BY <1>3, <2>1 DEF ListenerSubscribes, ListenerLost, ListenerReconnects, streamVars, Told
  <2>2. CASE ConnectionLost \/ ServerRestarts
    BY <1>10, <2>2 DEF ConnectionLost, ServerRestarts, StreamEnds
  <2>. QED BY <1>7, <1>8, <1>9, <1>12, <2>1, <2>2 DEF Server, Told
<1>13. CASE Client \/ \E b \in batches : RefreshFails(b)
  <2>1. CASE handleResyncRequired
    BY <1>10, <2>1 DEF handleResyncRequired, StreamEnds
  <2>2. CASE handleOpen \/ runResourceRefreshBatch \/ \E b \in batches :
                invalidateQueryKeys(b) \/ RefreshSucceeds(b) \/ RefreshFails(b)
    BY <1>3, <2>2 DEF handleOpen, runResourceRefreshBatch, invalidateQueryKeys, RefreshSucceeds,
         RefreshFails, streamVars
  <2>. QED BY <1>11, <1>13, <2>1, <2>2 DEF Client, Told
<1>14. CASE \/ \E s \in 1 .. Slots : Reconcile(s) \/ ReconcileFails(s)
            \/ UNCHANGED vars
  BY <1>3, <1>14 DEF Reconcile, reconcileState, list_active_scan_jobs, FirstSnapshot,
       FetchFirst, ApplyFirst, LaterSnapshot, ReconcileFails, streamVars, vars
<1>15. CASE \/ \E r \in Resources : Change(r)
            \/ StartScan
            \/ ScanStatusChanges
            \/ \E last \in BOOLEAN : CommitGroup(last)
            \/ FinishScan
  BY <1>3, <1>15 DEF Change, StartScan, ScanStatusChanges, CommitGroup, FinishScan, streamVars
<1>. QED BY <1>12, <1>13, <1>14, <1>15 DEF Next

LEMMA KnownStep ==
    ASSUME TypeOK, KnownRevisionsExist, [Next]_vars
    PROVE  KnownRevisionsExist'
  BY RequestedExists, TargetsExist, MessagesExist, AnswersExist DEF KnownRevisionsExist

-----------------------------------------------------------------------------
(* What is on the screen.                                                  *)

\* Data on the screen is replaced by newer data only, and always exists.
LEMMA ScreenGrows ==
    ASSUME TypeOK, AppliedIsShown, [Next]_vars
    PROVE  AtMost(view, view') /\ AtMost(view', rev')
<1>1. view \in Revisions /\ rev \in Revisions /\ AtMost(view, rev)
  BY DEF TypeOK, AppliedIsShown
<1>2. CASE UNCHANGED view
  BY <1>1, <1>2, Reflexive, StillExists
<1>3. ASSUME NEW b \in batches, invalidateQueryKeys(b)
      PROVE  AtMost(view, view') /\ AtMost(view', rev')
  BY <1>1, <1>3 DEF invalidateQueryKeys, Answered, dbVars, AtMost, Revisions
<1>4. ASSUME NEW s \in 1 .. Slots, FetchFirst(s)
      PROVE  AtMost(view, view') /\ AtMost(view', rev')
  <2>1. view' = rev /\ rev' = rev
    BY <1>4 DEF FetchFirst, dbVars
  <2>. QED BY <1>1, <2>1, Reflexive
<1>5. CASE UNCHANGED vars
  BY <1>2, <1>5 DEF vars, clientVars, revisionVars
<1>6. CASE Server \/ ListenerLost \/ ListenerReconnects \/ ConnectionLost \/ ServerRestarts
  BY <1>2, <1>6 DEF Server, ListenerSubscribes, flush_resource_changes, handle_reliable,
       flush_scan_progress, ListenerLost, ListenerReconnects, ConnectionLost,
       ServerRestarts, clientVars, revisionVars
<1>7. CASE Client \/ \E b \in batches : RefreshFails(b)
  BY <1>2, <1>3, <1>7 DEF Client, handleOpen, handleResyncRequired, Deliver,
       runResourceRefreshBatch, RefreshSucceeds, RefreshFails, revisionVars
<1>8. CASE \E s \in 1 .. Slots : Reconcile(s) \/ ReconcileFails(s)
  BY <1>2, <1>4, <1>8 DEF Reconcile, reconcileState, list_active_scan_jobs, FirstSnapshot,
       ApplyFirst, LaterSnapshot, ReconcileFails, revisionVars
<1>9. CASE \/ \E r \in Resources : Change(r)
           \/ StartScan
           \/ ScanStatusChanges
           \/ \E last \in BOOLEAN : CommitGroup(last)
           \/ FinishScan
  BY <1>2, <1>9 DEF Change, StartScan, ScanStatusChanges, CommitGroup, FinishScan, clientVars, revisionVars
<1>. QED BY <1>5, <1>6, <1>7, <1>8, <1>9 DEF Next

\* What was shown before a step is shown after it.
LEMMA StillShown ==
    ASSUME TypeOK, AppliedIsShown, [Next]_vars, NEW f \in Revisions, AtMost(f, view)
    PROVE  AtMost(f, view')
<1>1. TypeOK' /\ AtMost(view, view')
  BY TypeStep, ScreenGrows
<1>2. view \in Revisions /\ view' \in Revisions
  BY <1>1 DEF TypeOK
<1>. QED BY <1>1, <1>2, Transitive

\* The end of a refresh or of a first reconciliation marks as applied what its
\* own fetch has put on the screen.
LEMMA AppliedStep ==
    ASSUME TypeOK, AppliedIsShown, FetchedIsShown, [Next]_vars
    PROVE  AppliedIsShown'
<1>1. applied \in Revisions /\ view \in Revisions /\ AtMost(applied, view)
  BY DEF TypeOK, AppliedIsShown
<1>2. CASE UNCHANGED applied
  BY <1>1, <1>2, StillShown, ScreenGrows DEF AppliedIsShown
<1>3. ASSUME NEW f \in Revisions, AtMost(f, view), applied' = f
      PROVE  AppliedIsShown'
  BY <1>3, StillShown, ScreenGrows DEF AppliedIsShown
<1>4. ASSUME NEW b \in batches, RefreshSucceeds(b)
      PROVE  AppliedIsShown'
  <2> DEFINE as == AppliedBy(b)
  <2>1. b.targets \in Revisions /\ AtMost(b.targets, view)
    BY <1>4 DEF TypeOK, Batches, FetchedIsShown, RefreshSucceeds
  <2>2. as \in Revisions /\ AtMost(as, view)
    BY <1>1, <2>1 DEF AppliedBy, AtMost, Revisions
  <2>3. applied' = as
    BY <1>4 DEF RefreshSucceeds
  <2> HIDE DEF as
  <2>. QED BY <1>3, <2>2, <2>3
<1>5. ASSUME NEW s \in 1 .. Slots, FirstSnapshot(s) \/ ApplyFirst(s)
      PROVE  AppliedIsShown'
  <2>1. NoRevisions \in Revisions /\ AtMost(NoRevisions, view)
    BY <1>1, RevisionMaps, Reflexive
  <2>2. reconciles[s].revs \in Revisions
    BY DEF TypeOK, Reconciles
  <2>3. CASE FirstSnapshot(s)
    BY <1>3, <2>1, <2>3 DEF FirstSnapshot
  <2>4. CASE ApplyFirst(s)
    BY <1>3, <2>2, <2>4 DEF ApplyFirst, FetchedIsShown
  <2>. QED BY <1>5, <2>3, <2>4
<1>6. CASE UNCHANGED vars
  BY <1>2, <1>6 DEF vars, clientVars, revisionVars
<1>7. CASE Server \/ ListenerLost \/ ListenerReconnects \/ ConnectionLost \/ ServerRestarts
  BY <1>2, <1>7 DEF Server, ListenerSubscribes, flush_resource_changes, handle_reliable,
       flush_scan_progress, ListenerLost, ListenerReconnects, ConnectionLost,
       ServerRestarts, clientVars, revisionVars
<1>8. CASE Client \/ \E b \in batches : RefreshFails(b)
  BY <1>2, <1>4, <1>8 DEF Client, handleOpen, handleResyncRequired, Deliver,
       runResourceRefreshBatch, invalidateQueryKeys, RefreshFails, revisionVars
<1>9. CASE \E s \in 1 .. Slots : Reconcile(s) \/ ReconcileFails(s)
  BY <1>2, <1>5, <1>9 DEF Reconcile, reconcileState, list_active_scan_jobs, FetchFirst,
       LaterSnapshot, ReconcileFails, revisionVars
<1>10. CASE \/ \E r \in Resources : Change(r)
            \/ StartScan
            \/ ScanStatusChanges
            \/ \E last \in BOOLEAN : CommitGroup(last)
            \/ FinishScan
  BY <1>2, <1>10 DEF Change, StartScan, ScanStatusChanges, CommitGroup, FinishScan, clientVars, revisionVars
<1>. QED BY <1>6, <1>7, <1>8, <1>9, <1>10 DEF Next

\* A batch that was answered shows its targets.
LEMMA FetchedBatches ==
    ASSUME TypeOK, AppliedIsShown, KnownRevisionsExist, FetchedIsShown, [Next]_vars
    PROVE  \A b \in batches' : b.fetched => AtMost(b.targets, view')
<1>1. \A b \in batches : /\ b \in Batches /\ b.targets \in Revisions
                         /\ AtMost(b.targets, rev)
                         /\ b.fetched => AtMost(b.targets, view)
  BY DEF TypeOK, Batches, KnownRevisionsExist, FetchedIsShown
<1>2. CASE \A b \in batches' : b \in batches \/ ~b.fetched
  BY <1>1, <1>2, StillShown
<1>3. ASSUME NEW b \in batches, invalidateQueryKeys(b)
      PROVE  \A d \in batches' : d.fetched => AtMost(d.targets, view')
  <2>1. AtMost(b.targets, view')
    <3>1. \A r \in Resources : b.targets[r] \in Nat /\ b.targets[r] <= rev[r] /\ view[r] \in Nat
      BY <1>1 DEF AtMost, Revisions, TypeOK
    <3>2. \A r \in Resources : view'[r] = IF b.targets[r] > 0 THEN rev[r] ELSE view[r]
      BY <1>3 DEF invalidateQueryKeys, Answered, Members
    <3>. QED BY <3>1, <3>2 DEF AtMost
  <2>2. [b EXCEPT !.fetched = TRUE].targets = b.targets
    BY <1>1 DEF Batches
  <2>3. \A d \in batches' : d \in batches \/ d.targets = b.targets
    BY <1>3, <2>2 DEF invalidateQueryKeys
  <2>. QED BY <1>1, <2>1, <2>3, StillShown
<1>4. CASE runResourceRefreshBatch
  BY <1>2, <1>4 DEF runResourceRefreshBatch
<1>5. CASE UNCHANGED vars
  BY <1>2, <1>5 DEF vars, clientVars, revisionVars
<1>6. CASE Server \/ ListenerLost \/ ListenerReconnects \/ ConnectionLost \/ ServerRestarts
  BY <1>2, <1>6 DEF Server, ListenerSubscribes, flush_resource_changes, handle_reliable,
       flush_scan_progress, ListenerLost, ListenerReconnects, ConnectionLost,
       ServerRestarts, clientVars, revisionVars
<1>7. CASE Client \/ \E b \in batches : RefreshFails(b)
  BY <1>2, <1>3, <1>4, <1>7 DEF Client, handleOpen, handleResyncRequired, Deliver,
       RefreshSucceeds, RefreshFails, revisionVars
<1>8. CASE \E s \in 1 .. Slots : Reconcile(s) \/ ReconcileFails(s)
  BY <1>2, <1>8 DEF Reconcile, reconcileState, list_active_scan_jobs, FirstSnapshot,
       FetchFirst, ApplyFirst, LaterSnapshot, ReconcileFails, revisionVars
<1>9. CASE \/ \E r \in Resources : Change(r)
           \/ StartScan
           \/ ScanStatusChanges
           \/ \E last \in BOOLEAN : CommitGroup(last)
           \/ FinishScan
  BY <1>2, <1>9 DEF Change, StartScan, ScanStatusChanges, CommitGroup, FinishScan, clientVars, revisionVars
<1>. QED BY <1>5, <1>6, <1>7, <1>8, <1>9 DEF Next

\* A first reconciliation that fetched everything shows what it answered.
LEMMA FetchedSnapshots ==
    ASSUME TypeOK, AppliedIsShown, KnownRevisionsExist, FetchedIsShown, [Next]_vars
    PROVE  \A s \in 1 .. Slots :
               reconciles'[s].step = "fetched" => AtMost(reconciles'[s].revs, view')
<1>1. \A s \in 1 .. Slots : /\ reconciles[s] \in Reconciles
                            /\ reconciles[s].revs \in Revisions
                            /\ AtMost(reconciles[s].revs, rev)
                            /\ reconciles[s].step = "fetched" => AtMost(reconciles[s].revs, view)
  BY DEF TypeOK, Reconciles, KnownRevisionsExist, FetchedIsShown
<1>2. CASE \A s \in 1 .. Slots : reconciles'[s] = reconciles[s] \/ reconciles'[s].step # "fetched"
  BY <1>1, <1>2, StillShown
<1>3. ASSUME NEW s \in 1 .. Slots, NEW x, Step(s, x)
      PROVE  \A t \in 1 .. Slots : reconciles'[t] = IF t = s THEN x ELSE reconciles[t]
  BY <1>3 DEF Step, TypeOK
<1>4. ASSUME NEW s \in 1 .. Slots, FetchFirst(s)
      PROVE  \A t \in 1 .. Slots :
                 reconciles'[t].step = "fetched" => AtMost(reconciles'[t].revs, view')
  <2>1. \A t \in 1 .. Slots : reconciles'[t].revs = reconciles[t].revs
    BY <1>1, <1>4 DEF FetchFirst, Step, TypeOK, Reconciles
  <2>2. view' = rev
    BY <1>4 DEF FetchFirst
  <2>. QED BY <1>1, <2>1, <2>2
<1>5. ASSUME NEW s \in 1 .. Slots, Reconcile(s) \/ ReconcileFails(s), ~FetchFirst(s)
      PROVE  \A t \in 1 .. Slots : reconciles'[t] = reconciles[t] \/ reconciles'[t].step # "fetched"
  <2>1. NoReconcile.step = "idle"
    BY DEF NoReconcile
  <2>2. CASE ApplyFirst(s) \/ LaterSnapshot(s) \/ ReconcileFails(s)
    <3>1. Step(s, NoReconcile)
      BY <2>2 DEF ApplyFirst, LaterSnapshot, ReconcileFails
    <3>. QED BY <1>3, <2>1, <3>1
  <2>3. CASE reconcileState(s)
    <3> DEFINE x == [NoReconcile EXCEPT !.step = "scans", !.revs = rev]
    <3>1. Step(s, x) /\ x.step = "scans"
      BY <2>3 DEF reconcileState, NoReconcile
    <3> HIDE DEF x
    <3>. QED BY <1>3, <3>1
  <2>4. CASE list_active_scan_jobs(s)
    <3> DEFINE x == [reconciles[s] EXCEPT !.step = "answered", !.scan = scan]
    <3>1. Step(s, x) /\ x.step = "answered"
      BY <1>1, <2>4 DEF list_active_scan_jobs, Reconciles
    <3> HIDE DEF x
    <3>. QED BY <1>3, <3>1
  <2>5. CASE FirstSnapshot(s)
    <3> DEFINE x == [reconciles[s] EXCEPT !.step = "fetching"]
    <3>1. Step(s, x) /\ x.step = "fetching"
      BY <1>1, <2>5 DEF FirstSnapshot, Reconciles
    <3> HIDE DEF x
    <3>. QED BY <1>3, <3>1
  <2>. QED BY <1>5, <2>2, <2>3, <2>4, <2>5 DEF Reconcile
<1>6. CASE UNCHANGED vars
  BY <1>2, <1>6 DEF vars, clientVars
<1>7. CASE Server \/ ListenerLost \/ ListenerReconnects \/ ConnectionLost \/ ServerRestarts
  BY <1>2, <1>7 DEF Server, ListenerSubscribes, flush_resource_changes, handle_reliable,
       flush_scan_progress, ListenerLost, ListenerReconnects, ConnectionLost,
       ServerRestarts, clientVars
<1>8. CASE Client \/ \E b \in batches : RefreshFails(b)
  BY <1>2, <1>8 DEF Client, handleOpen, handleResyncRequired, Deliver, runResourceRefreshBatch,
       invalidateQueryKeys, RefreshSucceeds, RefreshFails
<1>9. CASE \/ \E r \in Resources : Change(r)
           \/ StartScan
           \/ ScanStatusChanges
           \/ \E last \in BOOLEAN : CommitGroup(last)
           \/ FinishScan
  BY <1>2, <1>9 DEF Change, StartScan, ScanStatusChanges, CommitGroup, FinishScan, clientVars
<1>. QED BY <1>2, <1>4, <1>5, <1>6, <1>7, <1>8, <1>9 DEF Next

-----------------------------------------------------------------------------
LEMMA SyncInit == Init => SyncInv
<1> SUFFICES ASSUME Init
             PROVE  SyncInv
  OBVIOUS
<1>1. NoRevisions \in Revisions /\ AtMost(NoRevisions, NoRevisions)
  BY DEF NoRevisions, Revisions, AtMost
<1>2. NoReconcile \in Reconciles /\ NoReconcile.revs = NoRevisions /\ NoReconcile.step = "idle"
  BY <1>1, BoundAssumption DEF NoReconcile, Reconciles, ReconcileSteps
<1>3. TypeOK
  <2>1. channels \in [Channels -> Seq(Messages)] /\ reliable \in Seq(Events)
    BY DEF Init
  <2>2. attempts \in [Resources -> 0 .. 2]
    BY DEF Init, NoRevisions
  <2>3. reconciles \in [1 .. Slots -> Reconciles]
    BY <1>2 DEF Init
  <2>4. 0 \in 0 .. MaxScans /\ 0 \in 0 .. MaxFaults /\ Starts \subseteq BOOLEAN
    BY BoundAssumption
  <2>. QED BY <1>1, <2>1, <2>2, <2>3, <2>4 DEF Init, TypeOK
<1>4. AppliedIsShown
  BY <1>1 DEF Init, AppliedIsShown
<1>5. KnownRevisionsExist
  BY <1>1, <1>2 DEF Init, KnownRevisionsExist
<1>6. FetchedIsShown
  BY <1>2 DEF Init, FetchedIsShown
<1>. QED BY <1>3, <1>4, <1>5, <1>6 DEF SyncInv

\* Whatever events, fetches, reconciliations, restarts and losses overlap, the
\* client knows only revisions that exist, and what it fetched is on screen.
THEOREM SyncInvariant == Spec => []SyncInv
<1>1. Init => SyncInv
  BY SyncInit
<1>2. ASSUME SyncInv, [Next]_vars
      PROVE  SyncInv'
  <2>1. TypeOK /\ AppliedIsShown /\ KnownRevisionsExist /\ FetchedIsShown
    BY <1>2 DEF SyncInv
  <2>2. FetchedIsShown'
    BY <1>2, <2>1, FetchedBatches, FetchedSnapshots DEF FetchedIsShown
  <2>. QED BY <1>2, <2>1, <2>2, TypeStep, AppliedStep, KnownStep DEF SyncInv
<1>. QED BY <1>1, <1>2, PTL DEF Spec

\* The client never marks a revision as applied that its screen does not show
\* (appliedRevisions is written by runResourceRefreshBatch and reconcileState
\* only after their queries were answered).
THEOREM AppliedRevisionsAreShown == Spec => []AppliedIsShown
<1>1. SyncInv => AppliedIsShown
  BY DEF SyncInv
<1>. QED BY <1>1, SyncInvariant, PTL
=============================================================================
