--------------------------- MODULE MCScanExecution ---------------------------
(***************************************************************************)
(* The execution of scans in one process, for TLC: the registry with the   *)
(* requests that stop a scan, and the pipeline of one scan.  They share no *)
(* variable, so a behaviour moves one of them while the other has nothing  *)
(* to do: the registry moves once the pipeline's scan was cancelled before *)
(* it started.                                                             *)
(*                                                                         *)
(* Three groups of two planned ones, channels of one place and two         *)
(* preparations at a time; two workers, a deletion and a language change   *)
(* around one library.                                                     *)
(***************************************************************************)
EXTENDS ScanPipeline, ScanRegistry

MCPending == <<<<1>>, <<2, 3>>>>
MCSize == <<1, 2, 1>>
MCFates ==
    {<<"matched", "nothing", "review">>, <<"outage", "matched", "outage">>,
     <<"patch_rejected", "matched", "rejected">>, <<"rejected", "rejected", "rejected">>,
     <<"review", "lost", "matched">>, <<"outage", "patch_rejected", "matched">>}

\* The fates of a scan that never ran do not matter: one choice of them will do.
NeverStarted ==
    task = "ended" /\ job.attempts = 0 /\ fate = CHOOSE f \in Fates : TRUE

ExecutionInit == PipelineInit /\ Init

ExecutionNext ==
    \/ PipelineNext /\ UNCHANGED vars
    \/ NeverStarted /\ Next /\ UNCHANGED pipelineVars

ExecutionSpec ==
    /\ ExecutionInit /\ [][ExecutionNext]_<<pipelineVars, vars>>
    /\ PipelineFairness
=============================================================================
