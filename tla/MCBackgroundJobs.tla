-------------------------- MODULE MCBackgroundJobs --------------------------
(* A small instance of BackgroundJobs for TLC. *)
EXTENDS BackgroundJobs

\* One attempt fewer than the code's 3 for scans and intro detection, so that
\* first, repeated and exhausted attempts all happen.  The cleanups have one
\* instead of 10 and 2147483647; revalidation keeps its single attempt.
MCMaxAttempts == [t \in JobType |-> IF t \in {"scan", "intro"} THEN 2 ELSE 1]
=============================================================================
