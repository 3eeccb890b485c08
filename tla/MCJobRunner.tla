----------------------------- MODULE MCJobRunner ------------------------------
(***************************************************************************)
(* Small instances of JobRunner, with one code site and one site that is   *)
(* only data.                                                              *)
(***************************************************************************)
EXTENDS JobRunner, TLC

CONSTANTS a, b, c, code, data, p, q, r, w1, w2

OneDataJob == [j \in Jobs |-> IF j = c THEN data ELSE code]

OneCodeJob == [j \in Jobs |-> IF j = a THEN code ELSE data]

(* a and c run on one profile *)
SharedProfiles == [j \in Jobs |-> IF j = b THEN q ELSE p]

(* every job has a profile of its own *)
OwnProfiles == [j \in Jobs |-> CASE j = a -> p [] j = b -> q [] j = c -> r]

===============================================================================
