------------------------------- MODULE MCCockpit ------------------------------
(***************************************************************************)
(* A small instance of Cockpit: the timer and a handler, and one task for  *)
(* each of the plans that the model value names.                           *)
(***************************************************************************)
EXTENDS Cockpit, TLC

CONSTANTS timer, handler, filters, events, error, g, j, k

Plans ==
    [p \in Partials |->
        CASE p = filters -> FilterPlan [] p = events -> EventsPlan
          [] p = error -> SessionErrorPlan]

===============================================================================
