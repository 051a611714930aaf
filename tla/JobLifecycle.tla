---------------------------- MODULE JobLifecycle ----------------------------
(***************************************************************************)
(* What the background queue promises of every job, whoever claims, loses, *)
(* retries, cancels and prunes it: it is queued before it is executed, it  *)
(* is forgotten only once it has an end, an end is for good, and once its  *)
(* cancellation was requested it is neither executed again nor reported as *)
(* anything but cancelled.                                                 *)
(***************************************************************************)
CONSTANT Jobs

VARIABLE phase

\* How a job may go on.
Moves == [absent           |-> {"pending"},
          pending          |-> {"running", "cancelled"},
          running          |-> {"pending", "cancel_requested", "succeeded", "failed", "cancelled"},
          cancel_requested |-> {"cancelled"},
          succeeded        |-> {"absent"},
          failed           |-> {"absent"},
          cancelled        |-> {"absent"}]

Init == phase = [j \in Jobs |-> "absent"]

\* One transaction may move several jobs, each by one move.
Next ==
    /\ phase' = [j \in Jobs |-> phase'[j]]
    /\ \A j \in Jobs : phase'[j] = phase[j] \/ phase'[j] \in Moves[phase[j]]

Spec == Init /\ [][Next]_phase
=============================================================================
