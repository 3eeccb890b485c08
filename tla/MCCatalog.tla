------------------------------- MODULE MCCatalog ------------------------------
(***************************************************************************)
(* A small instance of Catalog: one id that clients choose, one uuid, and  *)
(* a directory for each.                                                   *)
(***************************************************************************)
EXTENDS Catalog, TLC

CONSTANTS p, u, g, example, code, data, c1, c2

OwnDirs == [i \in Profiles |-> i]

(* a group, a site, or neither *)
SomeRows ==
    {[group |-> g, site |-> None], [group |-> None, site |-> data], [group |-> None, site |-> None]}

Symmetry == Permutations(Clients)

===============================================================================
