------------------------------- MODULE JobState -------------------------------
(***************************************************************************)
(* The job statuses and the table of transitions between them             *)
(* (jobs/state.py).  The repositories refuse every status change that the *)
(* table does not list.  A job that has not been created yet is Absent.    *)
(***************************************************************************)

Absent == "absent"

Waiting == {"WAITING_CAPTCHA", "WAITING_HUMAN"}

Terminal == {"SUCCEEDED", "FAILED", "CANCELLED"}

Statuses == {"QUEUED", "RUNNING"} \cup Waiting \cup Terminal

(* _ALLOWED_TRANSITIONS, as a set of pairs. *)
AllowedTransitions ==
    ({"QUEUED"} \X {"RUNNING", "CANCELLED"})
    \cup ({"RUNNING"} \X (Waiting \cup Terminal))
    \cup (Waiting \X {"RUNNING", "FAILED", "CANCELLED"})

(* can_transition(current, target) *)
CanTransition(current, target) == <<current, target>> \in AllowedTransitions

===============================================================================
