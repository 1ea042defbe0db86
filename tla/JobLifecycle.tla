----------------------------- MODULE JobLifecycle -----------------------------
(***************************************************************************)
(* What the job subsystem promises about one row of the jobs table, with   *)
(* no queue, no workers and no failures in sight: a job is submitted once, *)
(* started once, leaves at most one score row behind, and its final status *)
(* never changes.  A completed score job has its score row.                *)
(*                                                                         *)
(* This is the "async embed/score job state machine" of                    *)
(* docs/architecture.md.  JobQueue is shown to implement it.               *)
(***************************************************************************)

CONSTANTS
  EmbedJobs,  \* jobs of type "embed"
  ScoreJobs   \* jobs of type "score"

Jobs == EmbedJobs \cup ScoreJobs

VARIABLES
  status,  \* status of each job, "absent" before it is submitted
  scored   \* the score jobs that have left a row in lead_scores

vars == <<status, scored>>

Init ==
  /\ status = [j \in Jobs |-> "absent"]
  /\ scored = {}

Submit(j) ==
  /\ status[j] = "absent"
  /\ status' = [status EXCEPT ![j] = "queued"]
  /\ UNCHANGED scored

Start(j) ==
  /\ status[j] = "queued"
  /\ status' = [status EXCEPT ![j] = "running"]
  /\ UNCHANGED scored

\* The one effect of a score job.
Record(j) ==
  /\ j \in ScoreJobs \ scored
  /\ status[j] = "running"
  /\ scored' = scored \cup {j}
  /\ UNCHANGED status

Complete(j) ==
  /\ status[j] = "running"
  /\ j \in ScoreJobs => j \in scored
  /\ status' = [status EXCEPT ![j] = "completed"]
  /\ UNCHANGED scored

Fail(j) ==
  /\ status[j] = "running"
  /\ status' = [status EXCEPT ![j] = "failed"]
  /\ UNCHANGED scored

Next ==
  \E j \in Jobs : Submit(j) \/ Start(j) \/ Record(j) \/ Complete(j) \/ Fail(j)

Spec == Init /\ [][Next]_vars
===============================================================================
