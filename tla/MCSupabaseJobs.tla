---------------------------- MODULE MCSupabaseJobs ----------------------------
(***************************************************************************)
(* Small instances of SupabaseJobs: the tasks are model values, and one of *)
(* the jobs waits for a human.                                             *)
(***************************************************************************)
EXTENDS SupabaseJobs, TLC

CONSTANTS w1, w2, o1, o2

===============================================================================
