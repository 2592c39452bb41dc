------------------------------- MODULE MCJobs -------------------------------
(***************************************************************************)
(* Model checking of the jobs.                                             *)
(***************************************************************************)
EXTENDS Jobs
=============================================================================
