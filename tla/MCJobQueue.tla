----------------------------- MODULE MCJobQueue -----------------------------
(***************************************************************************)
(* The job queue on two workers and two jobs.                              *)
(***************************************************************************)
EXTENDS JobQueue

=============================================================================
