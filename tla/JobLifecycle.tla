----------------------------- MODULE JobLifecycle -----------------------------
(***************************************************************************)
(* What the job runner promises about a job, without workers, queues,      *)
(* locks or checkpoints: it is claimed at most once, at most MaxSite jobs  *)
(* of a site are held at a time, and while nothing holds a job its outcome *)
(* can change only because the operator pauses or cancels it.              *)
(***************************************************************************)
EXTENDS JobState, Naturals, FiniteSets

CONSTANTS Jobs, Sites, SiteOf, MaxSite

VARIABLES
    status,  \* status of each job
    held     \* the jobs that were claimed and are not released yet

lifecycleVars == <<status, held>>

LifecycleInit ==
    /\ status = [j \in Jobs |-> Absent]
    /\ held = {}

(* The statuses a worker can take a job through without giving the         *)
(* operator a chance in between: one or two allowed transitions.           *)
Reaches(s, t) ==
    \/ s = t
    \/ CanTransition(s, t)
    \/ \E u \in Statuses : CanTransition(s, u) /\ CanTransition(u, t)

Move(j, t) == status' = [status EXCEPT ![j] = t]

Submit(j) ==
    /\ status[j] = Absent
    /\ Move(j, "QUEUED")
    /\ UNCHANGED held

ClaimJob(j) ==
    /\ status[j] = "QUEUED"
    /\ Cardinality({k \in held : SiteOf[k] = SiteOf[j]}) < MaxSite
    /\ Move(j, "RUNNING")
    /\ held' = held \cup {j}

OperatorMoves(j) ==
    /\ \/ CanTransition(status[j], "CANCELLED") /\ Move(j, "CANCELLED")
       \/ status[j] = "RUNNING" /\ Move(j, "WAITING_HUMAN")
    /\ UNCHANGED held

(* Whoever holds a job may move it along, and let go of it. *)
HolderMoves(j) ==
    /\ j \in held
    /\ \E t \in Statuses : Reaches(status[j], t) /\ Move(j, t)
    /\ held' \in {held, held \ {j}}

LifecycleNext ==
    \E j \in Jobs : Submit(j) \/ ClaimJob(j) \/ OperatorMoves(j) \/ HolderMoves(j)

LifecycleSpec == LifecycleInit /\ [][LifecycleNext]_lifecycleVars

===============================================================================
