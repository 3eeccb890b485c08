---------------------------- MODULE MCProfileDialog ----------------------------
(***************************************************************************)
(* A small instance of ProfileDialog: two profiles, an id to draw, and two *)
(* tasks of the page.                                                      *)
(***************************************************************************)
EXTENDS ProfileDialog, TLC

CONSTANTS a, b, n, t1, t2

(* all is set, all but the viewport, or nothing *)
SomeChoices == {Fields, Fields \ {"viewport"}, {}}

Symmetry == Permutations(Tasks) \cup Permutations(Stored)

================================================================================
