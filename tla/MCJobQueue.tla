----------------------------- MODULE MCJobQueue -------------------------------
(***************************************************************************)
(* Instances of JobQueue for TLC: an embed and a score job, two workers.   *)
(***************************************************************************)
EXTENDS JobQueue
===============================================================================
