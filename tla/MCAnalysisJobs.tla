---------------------------- MODULE MCAnalysisJobs ----------------------------
(* A small instance of AnalysisJobs for TLC: two analyses, so that one can   *)
(* retry or rerun the other, two workers, and one request at a time.         *)
EXTENDS AnalysisJobs
=============================================================================
