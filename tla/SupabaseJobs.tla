------------------------------ MODULE SupabaseJobs -----------------------------
(***************************************************************************)
(* The job runner over the Supabase repository (repositories/supabase.py). *)
(* There every repository call is a request to the database, in a thread:  *)
(* the task that makes it is suspended, others run meanwhile, the call may *)
(* fail, and the rows outlive the process.  update_job_status is three     *)
(* such calls: it reads the row, checks the transition against what it     *)
(* read, writes the row, and records an event.                             *)
(*                                                                         *)
(* An action is one call with what its task does with the answer until its *)
(* next call.  What JobRunner models of the runner itself is left out here *)
(* (site limits, adapters, profiles in use, stop): no site is at its       *)
(* limit, every site has an adapter, and every job a profile of its own.   *)
(***************************************************************************)
EXTENDS Naturals, Sequences, FiniteSets, JobState

CONSTANTS
    Jobs,       \* jobs, numbered in the order of created_at
    HumanJobs,  \* those whose workflow waits for a human after its page steps
    Poller,     \* the task of _poll_loop
    Tick,       \* the claim task of the scheduler
    Workers,    \* the worker tasks
    Operators,  \* API requests that are served at the same time
    NoTask,     \* who holds _claim_guard when it is free
    Faults      \* what may go wrong: "call" (a call fails), "crash"

ASSUME JobsAssumption == Jobs \subseteq Nat /\ HumanJobs \subseteq Jobs /\ 0 \notin Jobs
ASSUME TasksAssumption ==
    /\ Poller # Tick /\ NoTask \notin {Poller, Tick}
    /\ {Poller, Tick} \cap Workers = {} /\ {Poller, Tick} \cap Operators = {}
    /\ Workers \cap Operators = {}

Claimers == {Poller, Tick}
Tasks == Claimers \cup Workers \cup Operators

NoJob == 0

VARIABLES
    row,         \* automation_jobs: the status of each job, "absent" before it is created
    at,          \* where each task is
    stage,       \* the call of update_job_status it waits for
    job,         \* the job it is busy with
    queue,       \* the asyncio queue
    claimed,     \* the keys of _claimed_site
    checkpoint,  \* the checkpoint of each job
    guard,       \* who holds _claim_guard
    started,     \* history: the jobs that were ever given to a worker
    faulty       \* history: a call has failed, or the process has restarted

taskVars == <<at, stage, job>>
stateVars == <<row, at, stage, job, queue, claimed, checkpoint, guard, started>>
vars == <<stateVars, faulty>>

(* The update each place is about, and the status it asks for.             *)
Target ==
    [claiming |-> "RUNNING", asking |-> "WAITING_HUMAN", resuming |-> "RUNNING",
     succeeding |-> "SUCCEEDED", pausing |-> "WAITING_HUMAN", cancelling |-> "CANCELLED",
     failing |-> "FAILED"]

Updating == DOMAIN Target

TypeOK ==
    /\ row \in [Jobs -> Statuses \cup {Absent}]
    /\ at \in [Tasks -> {"idle", "dead", "assigned", "working", "waiting", "asked"} \cup Updating]
    /\ stage \in [Tasks -> {"none", "read", "write", "log"}]
    /\ \A t \in Tasks : stage[t] # "none" <=> at[t] \in Updating
    /\ job \in [Tasks -> Jobs \cup {NoJob}]
    /\ \A t \in Tasks : job[t] = NoJob <=> at[t] \in {"idle", "dead"}
    /\ queue \in Seq(Jobs)
    /\ claimed \subseteq Jobs
    /\ checkpoint \in [Jobs -> {"none", "waiting", "resumed", "cancelled"}]
    /\ guard \in Claimers \cup {NoTask}
    /\ started \subseteq Jobs
    /\ faulty \in BOOLEAN

(* Nothing in memory: the state of a process that has just started.        *)
Restarted ==
    /\ at' = [t \in Tasks |-> "idle"]
    /\ stage' = [t \in Tasks |-> "none"]
    /\ job' = [t \in Tasks |-> NoJob]
    /\ queue' = <<>>
    /\ claimed' = {}
    /\ checkpoint' = [j \in Jobs |-> "none"]
    /\ guard' = NoTask

Init ==
    /\ row = [j \in Jobs |-> Absent]
    /\ at = [t \in Tasks |-> "idle"]
    /\ stage = [t \in Tasks |-> "none"]
    /\ job = [t \in Tasks |-> NoJob]
    /\ queue = <<>>
    /\ claimed = {}
    /\ checkpoint = [j \in Jobs |-> "none"]
    /\ guard = NoTask
    /\ started = {}
    /\ faulty = FALSE

(* Task t is suspended at place, busy with job j, before call s.           *)
Suspend(t, place, j, s) ==
    /\ at' = [at EXCEPT ![t] = place]
    /\ job' = [job EXCEPT ![t] = j]
    /\ stage' = [stage EXCEPT ![t] = s]

(* It calls update_job_status.                                             *)
BeginUpdate(t, place, j) == Suspend(t, place, j, "read")

-------------------------------------------------------------------------------
(* Requests of the operator.                                               *)

CreateJob(j) ==
    /\ row[j] = Absent
    /\ \A i \in Jobs : i < j => row[i] # Absent
    /\ row' = [row EXCEPT ![j] = "QUEUED"]
    /\ UNCHANGED <<taskVars, queue, claimed, checkpoint, guard, started>>

(* cancel_job reads the row and finds that the job may be cancelled.       *)
CancelAsked(o, j) ==
    /\ at[o] = "idle"
    /\ CanTransition(row[j], "CANCELLED")
    /\ Suspend(o, "asked", j, "none")
    /\ UNCHANGED <<row, queue, claimed, checkpoint, guard, started>>

(* Then it cancels the checkpoint, if there is one by now, and calls       *)
(* update_job_status.                                                      *)
CancelCheckpoint(o) ==
    /\ at[o] = "asked"
    /\ checkpoint' = [checkpoint EXCEPT ![job[o]] = IF @ = "none" THEN "none" ELSE "cancelled"]
    /\ BeginUpdate(o, "cancelling", job[o])
    /\ UNCHANGED <<row, queue, claimed, guard, started>>

Pause(o, j) ==
    /\ at[o] = "idle"
    /\ row[j] = "RUNNING"
    /\ BeginUpdate(o, "pausing", j)
    /\ UNCHANGED <<row, queue, claimed, checkpoint, guard, started>>

(* resume_job looks for a checkpoint only, and never at the status.        *)
Resume(j) ==
    /\ checkpoint[j] = "waiting"
    /\ checkpoint' = [checkpoint EXCEPT ![j] = "resumed"]
    /\ UNCHANGED <<row, taskVars, queue, claimed, guard, started>>

-------------------------------------------------------------------------------
(* Claims and workers.                                                     *)

OldestQueued(j) ==
    /\ row[j] = "QUEUED"
    /\ \A i \in Jobs : row[i] = "QUEUED" => j <= i

(* Mutant: the two claimers do not exclude each other.                     *)
QueryUnguarded(c, j) ==
    /\ at[c] = "idle"
    /\ OldestQueued(j)
    /\ guard' = c
    /\ BeginUpdate(c, "claiming", j)
    /\ UNCHANGED <<row, queue, claimed, checkpoint, started>>

(* claim_next_queued selects a job, and updates it in calls of its own.    *)
Query(c, j) ==
    /\ at[c] = "idle" /\ guard = NoTask
    /\ OldestQueued(j)
    /\ guard' = c
    /\ BeginUpdate(c, "claiming", j)
    /\ UNCHANGED <<row, queue, claimed, checkpoint, started>>

(* A worker takes the head of the queue, records that and reads the job.   *)
Take(w) ==
    /\ at[w] = "idle"
    /\ queue # <<>>
    /\ queue' = Tail(queue)
    /\ started' = started \cup {Head(queue)}
    /\ Suspend(w, "assigned", Head(queue), "none")
    /\ UNCHANGED <<row, claimed, checkpoint, guard>>

(* Mutant: the job stays in hand.                                          *)
LeaveKeepsJob(w, place) ==
    /\ claimed' = claimed \ {job[w]}
    /\ Suspend(w, place, job[w], "none")
    /\ UNCHANGED <<queue, checkpoint, guard, started>>

(* The worker's round ends, and its site slot is free.                     *)
LeaveJob(w, place) ==
    /\ claimed' = claimed \ {job[w]}
    /\ Suspend(w, place, NoJob, "none")
    /\ UNCHANGED <<queue, checkpoint, guard, started>>

Goes(w, from, to) ==
    /\ at[w] = from
    /\ IF to \in Updating THEN BeginUpdate(w, to, job[w]) ELSE Suspend(w, to, job[w], "none")
    /\ UNCHANGED <<row, queue, claimed, guard, started>>

(* The page is asked for and the page steps run, whatever the status is.   *)
Assigned(w) == Goes(w, "assigned", "working") /\ UNCHANGED checkpoint

StepsDone(w) ==
    /\ Goes(w, "working", IF job[w] \in HumanJobs THEN "asking" ELSE "succeeding")
    /\ UNCHANGED checkpoint

StepFails(w) == Goes(w, "working", "pausing") /\ UNCHANGED checkpoint

(* Mutant: the exception is recorded, the status is not.                   *)
PageFailsSilently(w) ==
    /\ at[w] = "working"
    /\ LeaveJob(w, "idle")
    /\ UNCHANGED row

PageFails(w) == Goes(w, "working", "failing") /\ UNCHANGED checkpoint

WakeResumed(w) ==
    /\ Goes(w, "waiting", "resuming")
    /\ checkpoint[job[w]] = "resumed"
    /\ checkpoint' = [checkpoint EXCEPT ![job[w]] = "none"]

WakeCancelled(w) ==
    /\ Goes(w, "waiting", "cancelling")
    /\ checkpoint[job[w]] = "cancelled"
    /\ checkpoint' = [checkpoint EXCEPT ![job[w]] = "none"]

-------------------------------------------------------------------------------
(* What a task does when update_job_status is over: "done", "refused" by   *)
(* the transition table, or "failed", because a call failed.               *)

(* Mutant: the exception leaves the guard held.                            *)
ClaimOverGuarded(c, outcome) ==
    /\ at[c] = "claiming"
    /\ IF outcome = "done"
       THEN /\ queue' = Append(queue, job[c])
            /\ claimed' = claimed \cup {job[c]}
            /\ guard' = NoTask
            /\ Suspend(c, "idle", NoJob, "none")
       ELSE /\ Suspend(c, IF c = Poller THEN "dead" ELSE "idle", NoJob, "none")
            /\ UNCHANGED <<queue, claimed, guard>>
    /\ UNCHANGED <<checkpoint, started>>

(* _claim_one.  An exception ends the poller; the claim task of a tick     *)
(* would have ended anyway.                                                *)
ClaimOver(c, outcome) ==
    /\ at[c] = "claiming"
    /\ guard' = NoTask
    /\ IF outcome = "done"
       THEN /\ queue' = Append(queue, job[c])
            /\ claimed' = claimed \cup {job[c]}
            /\ Suspend(c, "idle", NoJob, "none")
       ELSE /\ Suspend(c, IF c = Poller THEN "dead" ELSE "idle", NoJob, "none")
            /\ UNCHANGED <<queue, claimed>>
    /\ UNCHANGED <<checkpoint, started>>

(* The request is answered: 200, 409 or 500. *)
RequestOver(o) ==
    /\ Suspend(o, "idle", NoJob, "none")
    /\ UNCHANGED <<queue, claimed, checkpoint, guard, started>>

NextUpdate(w, place) ==
    /\ BeginUpdate(w, place, job[w])
    /\ UNCHANGED <<queue, claimed, checkpoint, guard, started>>

(* wait_for_human registers its checkpoint only now.                       *)
AskingOver(w, outcome) ==
    /\ at[w] = "asking"
    /\ \/ /\ outcome = "done"
          /\ Suspend(w, "waiting", job[w], "none")
          /\ checkpoint' = [checkpoint EXCEPT ![job[w]] = "waiting"]
          /\ UNCHANGED <<queue, claimed, guard, started>>
       \/ outcome # "done" /\ NextUpdate(w, "pausing")

ResumingOver(w, outcome) ==
    /\ at[w] = "resuming"
    /\ NextUpdate(w, IF outcome = "done" THEN "succeeding" ELSE "pausing")

(* WorkflowEngine._safe_status: a refusal is recorded, a failure is left   *)
(* to _run_job, which tries to let the job fail.                           *)
EngineOver(w, outcome) ==
    /\ at[w] \in {"succeeding", "pausing", "cancelling"}
    /\ IF outcome = "failed" THEN NextUpdate(w, "failing") ELSE LeaveJob(w, "idle")

(* JobRunner._safe_update_status: a failure ends the worker.               *)
FailingOver(w, outcome) ==
    /\ at[w] = "failing"
    /\ LeaveJob(w, IF outcome = "failed" THEN "dead" ELSE "idle")

UpdateOver(t, outcome) ==
    \/ t \in Claimers /\ ClaimOver(t, outcome)
    \/ t \in Operators /\ RequestOver(t)
    \/ /\ t \in Workers
       /\ \/ AskingOver(t, outcome) \/ ResumingOver(t, outcome)
          \/ EngineOver(t, outcome) \/ FailingOver(t, outcome)

-------------------------------------------------------------------------------
(* The calls of update_job_status.                                         *)

Legal(t) == CanTransition(row[job[t]], Target[at[t]])

ReadsLegal(t) ==
    /\ stage[t] = "read"
    /\ Legal(t)
    /\ stage' = [stage EXCEPT ![t] = "write"]
    /\ UNCHANGED <<row, at, job, queue, claimed, checkpoint, guard, started>>

ReadsIllegal(t) ==
    /\ stage[t] = "read"
    /\ ~Legal(t)
    /\ UpdateOver(t, "refused")
    /\ UNCHANGED row

Written(t) == [row EXCEPT ![job[t]] = Target[at[t]]]

(* The write has no condition on the status: it lands on whatever the row  *)
(* has become since it was read.                                           *)
Writes(t) ==
    /\ stage[t] = "write"
    /\ row' = Written(t)
    /\ stage' = [stage EXCEPT ![t] = "log"]
    /\ UNCHANGED <<at, job, queue, claimed, checkpoint, guard, started>>

Logs(t) ==
    /\ stage[t] = "log"
    /\ UpdateOver(t, "done")
    /\ UNCHANGED row

-------------------------------------------------------------------------------
(* Faults.                                                                 *)

(* A call of update_job_status, or of an event before it, fails; a write   *)
(* may have reached the database all the same.                             *)
CallFails(t) ==
    /\ "call" \in Faults
    /\ stage[t] # "none"
    /\ \/ row' = row
       \/ stage[t] = "write" /\ row' = Written(t)
    /\ UpdateOver(t, "failed")

(* claim_next_queued cannot select: the poller ends.                       *)
QueryFails ==
    /\ "call" \in Faults
    /\ at[Poller] = "idle" /\ guard = NoTask
    /\ Suspend(Poller, "dead", NoJob, "none")
    /\ UNCHANGED <<row, queue, claimed, checkpoint, guard, started>>

(* Mutant: the slot is given back by _run_job only.                        *)
AssignedFailsClaimed(w) ==
    /\ "call" \in Faults
    /\ at[w] = "assigned"
    /\ Suspend(w, "dead", NoJob, "none")
    /\ UNCHANGED <<row, queue, claimed, checkpoint, guard, started>>

(* The event of the assignment, get_job and get_site are outside every try *)
(* of the worker but the one that gives the slot back.                     *)
AssignedFails(w) ==
    /\ "call" \in Faults
    /\ at[w] = "assigned"
    /\ LeaveJob(w, "dead")
    /\ UNCHANGED row

(* The process ends, by a crash or by stop, and is started again.  Writes  *)
(* on their way may still land.                                            *)
Crash ==
    /\ "crash" \in Faults
    /\ row' \in [Jobs -> Statuses \cup {Absent}]
    /\ \A j \in Jobs :
          \/ row'[j] = row[j]
          \/ \E t \in Tasks : stage[t] = "write" /\ row'[j] = Written(t)[j]
    /\ Restarted
    /\ UNCHANGED started

-------------------------------------------------------------------------------

Update(t) == ReadsLegal(t) \/ ReadsIllegal(t) \/ Writes(t) \/ Logs(t)

Works(w) ==
    Assigned(w) \/ StepsDone(w) \/ StepFails(w) \/ PageFails(w) \/ WakeResumed(w) \/ WakeCancelled(w)

Asks(o) == \E j \in Jobs : CancelAsked(o, j) \/ Pause(o, j)

GoesWell ==
    \/ \E j \in Jobs : CreateJob(j) \/ Resume(j)
    \/ \E o \in Operators : Asks(o) \/ CancelCheckpoint(o)
    \/ \E c \in Claimers, j \in Jobs : Query(c, j)
    \/ \E w \in Workers : Take(w) \/ Works(w)
    \/ \E t \in Tasks : Update(t)

GoesWrong ==
    \/ \E w \in Workers : AssignedFails(w)
    \/ \E t \in Tasks : CallFails(t)
    \/ QueryFails
    \/ Crash

Next ==
    \/ GoesWell /\ UNCHANGED faulty
    \/ GoesWrong /\ faulty' = TRUE

Spec == Init /\ [][Next]_vars

(* Every task goes on when its call is answered, page operations end, and  *)
(* the scheduler ticks every second.  The operator owes nothing.           *)
Fairness ==
    /\ WF_stateVars(\E j \in Jobs : Query(Tick, j))
    /\ \A t \in Tasks : WF_stateVars(Update(t))
    /\ \A w \in Workers : WF_stateVars(Take(w) \/ Works(w))
    /\ \A o \in Operators : WF_stateVars(CancelCheckpoint(o))

LiveSpec == Spec /\ Fairness

-------------------------------------------------------------------------------
(* Properties.                                                             *)

Queued == {queue[i] : i \in 1 .. Len(queue)}

(* A job is given to a worker at most once, ever: through claims of two    *)
(* tasks, lost cancels, failed calls and restarts (claim_next_queued,      *)
(* _claim_guard).                                                          *)
AtMostOnce ==
    /\ started \cap Queued = {}
    /\ \A i, k \in 1 .. Len(queue) : queue[i] = queue[k] => i = k

(* A claimed job is in the queue or on exactly one worker, and nothing     *)
(* else is claimed: no failed call leaks a slot (_worker_loop's finally).  *)
ClaimedOnce ==
    /\ claimed = Queued \cup {job[w] : w \in {v \in Workers : job[v] # NoJob}}
    /\ \A v, w \in Workers : v # w /\ job[v] # NoJob => job[v] # job[w]
    /\ \A w \in Workers : job[w] \notin Queued

(* As long as no call has failed and the process lives, a job whose row says *)
(* running is being claimed, waits in the queue or is on a worker: stale   *)
(* writes may lose a status, but none leaves a job running for ever        *)
(* (update_job_status).                                                    *)
RunningIsHeld ==
    ~faulty => \A j \in Jobs : row[j] = "RUNNING" =>
        j \in claimed \/ \E c \in Claimers : job[c] = j /\ stage[c] = "log"

(* Unless a call fails, a queued job leaves the queue although claims that *)
(* lose a race with a cancel raise, and end the poller (_poll_loop,        *)
(* _claim_one).                                                            *)
QueuedIsClaimed == \A j \in Jobs : (row[j] = "QUEUED") ~> (row[j] # "QUEUED" \/ faulty)

-------------------------------------------------------------------------------
(* Statements of the repository that the code does not meet.               *)

(* "rejects_terminal_restart" (tests/test_job_state.py): a terminal status *)
(* is never left.                                                          *)
TerminalIsFinal == [][\A j \in Jobs : row[j] \in Terminal => row'[j] = row[j]]_row

(* wait_for_human is to "wait for Resume/Cancel" (design document): a      *)
(* cancelled job does not keep its worker.                                 *)
CancelEndsRun ==
    \A j \in Jobs : (row[j] = "CANCELLED") ~> (\A w \in Workers : job[w] # j)

===============================================================================
