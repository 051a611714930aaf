--------------------------- MODULE MCRealtimeSync ---------------------------
(* Three instances of RealtimeSync for TLC in one state space: a client    *)
(* connects while the catalog and the user's data change; and a client     *)
(* that is up to date when a scan starts follows the scan, either through  *)
(* a fault and overlapping reconciliations or through a change of the      *)
(* scan's status or a commit to the catalog.                               *)
EXTENDS RealtimeSync

VARIABLE instance

AllRevisions == [r \in Resources |-> IF r = Scan THEN 3 ELSE 1]

\* Of the revisions of the scan resource, one is its start and one its end.
StatusChanges == rev[Scan] - (IF scan = 0 THEN 2 * jobs ELSE 2 * jobs - 1)
OneReconciliation == \A s \in 2 .. Slots : reconciles[s] = NoReconcile
OnlyTheLibrary == \A r \in Others : rev[r] = 0

\* What is bounded here is not fair; a reconciliation that finds no slot waits.
Instance ==
    CASE instance = "connect" -> jobs = 0 /\ OneReconciliation
      [] instance = "faults" -> /\ rev[Catalog] = 0 /\ StatusChanges = 0
                                /\ OnlyTheLibrary /\ faults <= 1
      [] instance = "commits" -> /\ rev[Catalog] + StatusChanges <= 1 /\ faults = 0
                                 /\ OnlyTheLibrary /\ OneReconciliation

SyncInit == Init /\ instance \in IF based THEN {"faults", "commits"} ELSE {"connect"}

SyncSpec == /\ SyncInit
            /\ [][Next /\ UNCHANGED instance /\ Instance']_<<vars, instance>>
            /\ Fairness
=============================================================================
