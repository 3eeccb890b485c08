------------------------------- MODULE JobRunner ------------------------------
(***************************************************************************)
(* The job runner: the asynchronous claim loop, the pool of workers, the   *)
(* workflow engine with its human checkpoints, the profile locks and the   *)
(* site limits, on top of the in-memory repository, with the operator's    *)
(* requests (create, pause, resume, cancel, edit sites) arriving in        *)
(* between.                                                                *)
(*                                                                         *)
(* Granularity.  Everything runs on one asyncio loop, so an action is the  *)
(* code a task runs from one suspension point to the next.  The methods of *)
(* the in-memory repository never suspend; a task does suspend at          *)
(* queue.get, at the page provider, at every page operation of a step, and *)
(* at a checkpoint.  Steps that only log (emit) do not suspend and are     *)
(* left out of the workflows.                                              *)
(***************************************************************************)
EXTENDS JobState, Naturals, Sequences, FiniteSets

CONSTANTS
    Jobs,        \* identities of the jobs that may be created
    Sites,       \* site keys
    CodeSites,   \* site keys that have an adapter module
    Profiles,    \* profile identities ("sim:site" ones included)
    Workers,     \* worker tasks: settings.max_global_concurrency of them
    MaxSite,     \* settings.max_site_concurrency
    SiteOf,      \* the site_key of each job
    ProfileOf,   \* the profile each job runs on
    NoJob,       \* what a worker without a job runs
    EditableSites \* bound: the sites the operator updates or deletes

ASSUME SitesAssumption == CodeSites \subseteq Sites /\ EditableSites \subseteq Sites
ASSUME MaxSiteAssumption == MaxSite \in Nat \ {0}
ASSUME PayloadAssumption == /\ SiteOf \in [Jobs -> Sites]
                            /\ ProfileOf \in [Jobs -> Profiles]
ASSUME NoJobAssumption == NoJob \notin Jobs
ASSUME FiniteAssumption == IsFiniteSet(Jobs) /\ IsFiniteSet(Workers)

VARIABLES
    status,      \* repository: status of each job, Absent before it is created
    order,       \* the created jobs, oldest created_at first
    site,        \* repository: "absent", "disabled" or "enabled"
    queue,       \* JobRunner._queue
    siteActive,  \* JobRunner._site_active (0 for a missing key)
    claimed,     \* the keys of JobRunner._claimed_site (its value is SiteOf)
    locked,      \* ProfileLockRegistry: the profiles whose lock is held
    pc,          \* where each worker task is suspended
    job,         \* the job each worker runs, or NoJob
    step,        \* the step of the workflow it is in
    checkpoint,  \* CheckpointRegistry: the checkpoint of each job, if any
    lifecycle,   \* progress of JobRunner.start and JobRunner.stop
    tick         \* a scheduler tick is on its way to the loop

claimVars == <<queue, siteActive, claimed>>
workerVars == <<pc, job, step>>
runVars == <<locked, pc, job, step, checkpoint>>
vars == <<status, order, site, queue, siteActive, claimed, locked, pc, job, step,
          checkpoint, lifecycle, tick>>

-------------------------------------------------------------------------------
(* Workflows: what the engine runs for a job of a site.                    *)

(* adapter_for: a code adapter wins; a site that is only data gets the     *)
(* generic adapter; a site that is neither has none.                       *)
HasAdapter(s) == s \in CodeSites \/ site[s] # "absent"

(* The example adapter is goto, fill, click; the generic one is goto, then *)
(* wait_for_human.                                                         *)
Workflow(s) == IF s \in CodeSites THEN <<"page", "page", "page">>
                                  ELSE <<"page", "human">>

StepAt(s, k) == IF k <= Len(Workflow(s)) THEN Workflow(s)[k] ELSE "end"

(* Where a worker task can be: "off" (not started, or ended without an     *)
(* exception), waiting on the queue, on the page provider, on a page       *)
(* operation of step k, on a checkpoint in step k, or dead (ended by an    *)
(* exception).                                                             *)
AtStates == {"off", "idle", "opening", "step", "human", "dead"}

RunStates == {"opening", "step", "human"}

Busy(w) == job[w] # NoJob

Accepting == lifecycle \in {"running", "stopping"}

TypeOK ==
    /\ status \in [Jobs -> Statuses \cup {Absent}]
    /\ order \in Seq(Jobs)
    /\ site \in [Sites -> {"absent", "disabled", "enabled"}]
    /\ queue \in Seq(Jobs)
    /\ siteActive \in [Sites -> Nat]
    /\ claimed \subseteq Jobs
    /\ locked \subseteq Profiles
    /\ pc \in [Workers -> AtStates]
    /\ job \in [Workers -> Jobs \cup {NoJob}]
    /\ step \in [Workers -> Nat]
    /\ \A w \in Workers : Busy(w) <=> pc[w] \in RunStates
    /\ checkpoint \in [Jobs -> {"none", "waiting", "resumed", "cancelled"}]
    /\ lifecycle \in {"new", "running", "stopping", "cancelling", "stopped", "raised"}
    /\ tick \in BOOLEAN

Init ==
    /\ status = [j \in Jobs |-> Absent]
    /\ order = <<>>
    /\ site = [s \in Sites |-> IF s \in CodeSites THEN "enabled" ELSE "absent"]
    /\ queue = <<>>
    /\ siteActive = [s \in Sites |-> 0]
    /\ claimed = {}
    /\ locked = {}
    /\ pc = [w \in Workers |-> "off"]
    /\ job = [w \in Workers |-> NoJob]
    /\ step = [w \in Workers |-> 0]
    /\ checkpoint = [j \in Jobs |-> "none"]
    /\ lifecycle = "new"
    /\ tick = FALSE

-------------------------------------------------------------------------------
(* Requests of the operator, from the API and the UI.                      *)

CreateJob(j) ==
    /\ Accepting
    /\ status[j] = Absent
    /\ status' = [status EXCEPT ![j] = "QUEUED"]
    /\ order' = Append(order, j)
    /\ UNCHANGED <<site, claimVars, runVars, lifecycle, tick>>

(* POST /api/jobs refuses unknown and disabled sites. *)
ApiCreateJob(j) == site[SiteOf[j]] = "enabled" /\ CreateJob(j)

(* The UI only asks that the site exists. *)
UiQueueJob(j) == site[SiteOf[j]] # "absent" /\ CreateJob(j)

(* Sets the event of the checkpoint a worker waits on; a checkpoint that   *)
(* is cancelled already stays so, and without one nothing happens.         *)
Resume(j) ==
    /\ Accepting
    /\ checkpoint[j] = "waiting"
    /\ checkpoint' = [checkpoint EXCEPT ![j] = "resumed"]
    /\ UNCHANGED <<status, order, site, claimVars, locked, workerVars, lifecycle, tick>>

(* Mutant: the cancel handler forgets the checkpoint.                      *)
CancelLeavesCheckpoint(j) ==
    /\ Accepting
    /\ CanTransition(status[j], "CANCELLED")
    /\ status' = [status EXCEPT ![j] = "CANCELLED"]
    /\ UNCHANGED <<order, site, claimVars, runVars, lifecycle, tick>>

Cancel(j) ==
    /\ Accepting
    /\ CanTransition(status[j], "CANCELLED")
    /\ checkpoint' = [checkpoint EXCEPT ![j] = IF @ = "none" THEN @ ELSE "cancelled"]
    /\ status' = [status EXCEPT ![j] = "CANCELLED"]
    /\ UNCHANGED <<order, site, claimVars, locked, workerVars, lifecycle, tick>>

Pause(j) ==
    /\ Accepting
    /\ status[j] = "RUNNING"
    /\ status' = [status EXCEPT ![j] = "WAITING_HUMAN"]
    /\ UNCHANGED <<order, site, claimVars, runVars, lifecycle, tick>>

CreateSite(s) ==
    /\ Accepting
    /\ site[s] = "absent"
    /\ \E e \in {"enabled", "disabled"} : site' = [site EXCEPT ![s] = e]
    /\ UNCHANGED <<status, order, claimVars, runVars, lifecycle, tick>>

UpdateSite(s) ==
    /\ Accepting
    /\ s \in EditableSites /\ site[s] # "absent"
    /\ \E e \in {"enabled", "disabled"} : site' = [site EXCEPT ![s] = e]
    /\ UNCHANGED <<status, order, claimVars, runVars, lifecycle, tick>>

(* No check for jobs of the site; code sites cannot be deleted. *)
DeleteSite(s) ==
    /\ Accepting
    /\ s \in EditableSites \ CodeSites
    /\ site' = [site EXCEPT ![s] = "absent"]
    /\ UNCHANGED <<status, order, claimVars, runVars, lifecycle, tick>>

-------------------------------------------------------------------------------
(* Claiming queued jobs.                                                   *)

(* Mutant: one job too many per site.                                      *)
SitesOverCapacity == {s \in Sites : siteActive[s] > MaxSite}

(* Mutant: one busy site excludes every site.                              *)
SitesTogether == {s \in Sites : \E u \in Sites : siteActive[u] >= MaxSite}

SitesAtCapacity == {s \in Sites : siteActive[s] >= MaxSite}

Claimable(j) == status[j] = "QUEUED" /\ SiteOf[j] \notin SitesAtCapacity

(* claim_next_queued: the oldest claimable job. *)
IsNext(j) ==
    \E i \in 1 .. Len(order) :
        /\ order[i] = j
        /\ Claimable(j)
        /\ \A k \in 1 .. (i - 1) : ~Claimable(order[k])

(* _claim_one, for the job it finds. *)
Claim(j) ==
    /\ IsNext(j)
    /\ status' = [status EXCEPT ![j] = "RUNNING"]
    /\ siteActive' = [siteActive EXCEPT ![SiteOf[j]] = @ + 1]
    /\ claimed' = claimed \cup {j}
    /\ queue' = Append(queue, j)

(* One round of _poll_loop that finds a job.  The loop ends when stop      *)
(* cancels it.                                                             *)
PollerClaim(j) ==
    /\ lifecycle = "running"
    /\ Claim(j)
    /\ UNCHANGED <<order, site, runVars, lifecycle, tick>>

(* The scheduler's thread hands a claim to the loop. *)
SchedulerTick ==
    /\ lifecycle = "running"
    /\ tick' = TRUE
    /\ UNCHANGED <<status, order, site, claimVars, runVars, lifecycle>>

(* The claim task it created runs, whatever stop has done in between. *)
TickClaim ==
    /\ tick
    /\ tick' = FALSE
    /\ \/ \E j \in Jobs : Claim(j)
       \/ (\A j \in Jobs : ~IsNext(j)) /\ UNCHANGED <<status, claimVars>>
    /\ UNCHANGED <<order, site, runVars, lifecycle>>

-------------------------------------------------------------------------------
(* The worker tasks.                                                       *)

(* Mutant: the change is written without asking the table.                 *)
UncheckedUpdate(st, j, target) == [st EXCEPT ![j] = target]

(* _safe_update_status and _safe_status: a refused change is only logged. *)
SafeUpdate(st, j, target) ==
    IF CanTransition(st[j], target) THEN [st EXCEPT ![j] = target] ELSE st

(* Mutant: the claim is read, not popped.                                  *)
ReleaseKeepsClaim(j) ==
    /\ UNCHANGED claimed
    /\ siteActive' = [siteActive EXCEPT ![SiteOf[j]] = IF @ > 1 THEN @ - 1 ELSE 0]

(* _release_site, and the end of the round of _worker_loop: the next round *)
(* starts unless stop was called.                                          *)
ReleaseSite(j) ==
    IF j \in claimed
    THEN /\ claimed' = claimed \ {j}
         /\ siteActive' = [siteActive EXCEPT ![SiteOf[j]] = IF @ > 1 THEN @ - 1 ELSE 0]
    ELSE UNCHANGED <<claimed, siteActive>>

NextRound == IF lifecycle = "running" THEN "idle" ELSE "off"

(* Worker w is suspended at p, in step k of job j. *)
Suspend(w, p, j, k) ==
    /\ pc' = [pc EXCEPT ![w] = p]
    /\ job' = [job EXCEPT ![w] = j]
    /\ step' = [step EXCEPT ![w] = k]

(* Mutant: the worker waits on the queue with the old job still in hand.   *)
EndRoundKeepsJob(w, j) ==
    /\ ReleaseSite(j)
    /\ Suspend(w, NextRound, j, 0)

EndRound(w, j) ==
    /\ ReleaseSite(j)
    /\ Suspend(w, NextRound, NoJob, 0)

(* ProfileLockHandle.release, then the end of the round. *)
LeaveJob(w, j) ==
    /\ locked' = locked \ {ProfileOf[j]}
    /\ EndRound(w, j)

(* A worker takes the head of the queue. *)
Take(w, j) ==
    /\ Accepting
    /\ pc[w] = "idle"
    /\ queue # <<>> /\ j = Head(queue)
    /\ queue' = Tail(queue)
    /\ UNCHANGED <<order, site, checkpoint, lifecycle, tick>>

TakeWithoutAdapter(w, j) ==
    /\ Take(w, j)
    /\ ~HasAdapter(SiteOf[j])
    /\ status' = SafeUpdate(status, j, "FAILED")
    /\ EndRound(w, j)
    /\ UNCHANGED locked

(* The profile is in use.  This update is not the safe one: for a job that *)
(* is terminal by now it raises, out of the worker's loop.                 *)
TakeProfileLocked(w, j) ==
    /\ Take(w, j)
    /\ HasAdapter(SiteOf[j])
    /\ ProfileOf[j] \in locked
    /\ \/ /\ CanTransition(status[j], "FAILED")
          /\ status' = [status EXCEPT ![j] = "FAILED"]
          /\ EndRound(w, j)
       \/ /\ ~CanTransition(status[j], "FAILED")
          /\ ReleaseSite(j)
          /\ Suspend(w, "dead", NoJob, 0)
          /\ UNCHANGED status
    /\ UNCHANGED locked

(* Mutant: the page is opened without trying the lock.                     *)
TakeUnlocked(w, j) ==
    /\ Take(w, j)
    /\ HasAdapter(SiteOf[j])
    /\ locked' = locked \cup {ProfileOf[j]}
    /\ Suspend(w, "opening", j, 0)
    /\ UNCHANGED <<status, siteActive, claimed>>

(* The lock is taken and the page provider is awaited, whatever the status *)
(* of the job has become since it was claimed.                             *)
TakeAndOpen(w, j) ==
    /\ Take(w, j)
    /\ HasAdapter(SiteOf[j])
    /\ ProfileOf[j] \notin locked
    /\ locked' = locked \cup {ProfileOf[j]}
    /\ Suspend(w, "opening", j, 0)
    /\ UNCHANGED <<status, siteActive, claimed>>

(* WorkflowEngine.run from step k on, when the statuses are st: to the     *)
(* next page operation, to a checkpoint, or to the end of the workflow.    *)
(* wait_for_human raises when the job may not wait, and the engine's own   *)
(* attempt to let it wait is then refused too.                             *)
Proceed(w, j, k, st) ==
    \/ /\ StepAt(SiteOf[j], k) = "page"
       /\ Suspend(w, "step", j, k)
       /\ status' = st
       /\ checkpoint' = [checkpoint EXCEPT ![j] = "none"]
       /\ UNCHANGED <<locked, claimed, siteActive>>
    \/ /\ StepAt(SiteOf[j], k) = "human"
       /\ CanTransition(st[j], "WAITING_HUMAN")
       /\ Suspend(w, "human", j, k)
       /\ status' = [st EXCEPT ![j] = "WAITING_HUMAN"]
       /\ checkpoint' = [checkpoint EXCEPT ![j] = "waiting"]
       /\ UNCHANGED <<locked, claimed, siteActive>>
    \/ /\ StepAt(SiteOf[j], k) = "human"
       /\ ~CanTransition(st[j], "WAITING_HUMAN")
       /\ status' = st
       /\ checkpoint' = [checkpoint EXCEPT ![j] = "none"]
       /\ LeaveJob(w, j)
    \/ /\ StepAt(SiteOf[j], k) = "end"
       /\ status' = SafeUpdate(st, j, "SUCCEEDED")
       /\ checkpoint' = [checkpoint EXCEPT ![j] = "none"]
       /\ LeaveJob(w, j)

(* Worker w, suspended in state p while it runs job j, goes on. *)
Continues(w, j, p) ==
    /\ Accepting
    /\ pc[w] = p /\ job[w] = j
    /\ UNCHANGED <<order, site, queue, lifecycle, tick>>

PageReady(w, j) == Continues(w, j, "opening") /\ Proceed(w, j, 1, status)

(* Mutant: the error is recorded, the status is not.                       *)
PageFailsSilently(w, j) ==
    /\ Continues(w, j, "opening")
    /\ LeaveJob(w, j)
    /\ UNCHANGED <<status, checkpoint>>

(* Mutant: the update of a page provider that raised is not the safe one.  *)
PageFailsUnsafe(w, j) ==
    /\ Continues(w, j, "opening")
    /\ locked' = locked \ {ProfileOf[j]}
    /\ ReleaseSite(j)
    /\ \/ /\ CanTransition(status[j], "FAILED")
          /\ status' = [status EXCEPT ![j] = "FAILED"]
          /\ Suspend(w, NextRound, NoJob, 0)
       \/ /\ ~CanTransition(status[j], "FAILED")
          /\ Suspend(w, "dead", NoJob, 0)
          /\ UNCHANGED status
    /\ UNCHANGED checkpoint

(* The page provider raises (no such profile, the launch fails). *)
PageFails(w, j) ==
    /\ Continues(w, j, "opening")
    /\ status' = SafeUpdate(status, j, "FAILED")
    /\ LeaveJob(w, j)
    /\ UNCHANGED checkpoint

StepDone(w, j) == Continues(w, j, "step") /\ Proceed(w, j, step[w] + 1, status)

(* A step raises: without fail_fast, which the runner does not set, the    *)
(* engine leaves the job waiting for a human, and returns.                 *)
StepFails(w, j) ==
    /\ Continues(w, j, "step")
    /\ status' = SafeUpdate(status, j, "WAITING_HUMAN")
    /\ LeaveJob(w, j)
    /\ UNCHANGED checkpoint

(* The checkpoint's event was set. wait_for_human goes on to RUNNING, which *)
(* is always allowed here (CheckpointAgrees).                              *)
WakeResumed(w, j) ==
    /\ Continues(w, j, "human")
    /\ checkpoint[j] = "resumed"
    /\ CanTransition(status[j], "RUNNING")
    /\ Proceed(w, j, step[w] + 1, [status EXCEPT ![j] = "RUNNING"])

WakeCancelled(w, j) ==
    /\ Continues(w, j, "human")
    /\ checkpoint[j] = "cancelled"
    /\ checkpoint' = [checkpoint EXCEPT ![j] = "none"]
    /\ status' = SafeUpdate(status, j, "CANCELLED")
    /\ LeaveJob(w, j)

-------------------------------------------------------------------------------
(* Start and stop: lifespan calls each once.                               *)

Start ==
    /\ lifecycle = "new"
    /\ lifecycle' = "running"
    /\ pc' = [w \in Workers |-> "idle"]
    /\ job' = [w \in Workers |-> NoJob]
    /\ step' = [w \in Workers |-> 0]
    /\ UNCHANGED <<status, order, site, claimVars, locked, checkpoint, tick>>

(* stop sets _stop and cancels the poller, and awaits its end. *)
StopBegins ==
    /\ lifecycle = "running"
    /\ lifecycle' = "stopping"
    /\ UNCHANGED <<status, order, site, claimVars, runVars, tick>>

(* Then it cancels every worker: whatever a worker awaits raises           *)
(* CancelledError when the loop gets to it.                                *)
StopCancels ==
    /\ lifecycle = "stopping"
    /\ lifecycle' = "cancelling"
    /\ UNCHANGED <<status, order, site, claimVars, runVars, tick>>

Cancelling == lifecycle \in {"cancelling", "raised"}

IdleWorkerStops(w) ==
    /\ Cancelling
    /\ pc[w] = "idle"
    /\ pc' = [pc EXCEPT ![w] = "off"]
    /\ UNCHANGED <<status, order, site, claimVars, locked, job, step, checkpoint,
                   lifecycle, tick>>

(* Mutant: the lock is released only when nothing was raised.              *)
BusyWorkerKeepsLock(w, j) ==
    /\ Cancelling
    /\ job[w] = j
    /\ checkpoint' = [checkpoint EXCEPT ![j] = "none"]
    /\ EndRound(w, j)
    /\ UNCHANGED <<status, order, site, queue, locked, lifecycle, tick>>

(* CancelledError passes every except clause; the finally clauses release  *)
(* the lock, the site and the checkpoint.  The status stays as it is.      *)
BusyWorkerStops(w, j) ==
    /\ Cancelling
    /\ job[w] = j
    /\ checkpoint' = [checkpoint EXCEPT ![j] = "none"]
    /\ LeaveJob(w, j)
    /\ UNCHANGED <<status, order, site, queue, lifecycle, tick>>

(* stop returns when it has awaited every worker, unless one of them ended *)
(* with an exception, which stop then raises.                              *)
StopReturns ==
    /\ lifecycle = "cancelling"
    /\ \A w \in Workers : pc[w] = "off"
    /\ lifecycle' = "stopped"
    /\ UNCHANGED <<status, order, site, claimVars, runVars, tick>>

StopRaises ==
    /\ lifecycle = "cancelling"
    /\ \E w \in Workers : pc[w] = "dead"
    /\ lifecycle' = "raised"
    /\ UNCHANGED <<status, order, site, claimVars, runVars, tick>>

-------------------------------------------------------------------------------

Operator ==
    \/ \E j \in Jobs : ApiCreateJob(j) \/ UiQueueJob(j) \/ Resume(j) \/ Cancel(j) \/ Pause(j)
    \/ \E s \in Sites : CreateSite(s) \/ UpdateSite(s) \/ DeleteSite(s)

Claiming == (\E j \in Jobs : PollerClaim(j)) \/ SchedulerTick \/ TickClaim

WorkerRuns(w, j) ==
    \/ TakeWithoutAdapter(w, j)
    \/ TakeProfileLocked(w, j)
    \/ TakeAndOpen(w, j)
    \/ PageReady(w, j)
    \/ PageFails(w, j)
    \/ StepDone(w, j)
    \/ StepFails(w, j)
    \/ WakeResumed(w, j)
    \/ WakeCancelled(w, j)

WorkerStops(w) == IdleWorkerStops(w) \/ \E j \in Jobs : BusyWorkerStops(w, j)

Lifespan == Start \/ StopBegins \/ StopCancels \/ StopReturns \/ StopRaises

Next ==
    \/ Operator
    \/ Claiming
    \/ \E w \in Workers, j \in Jobs : WorkerRuns(w, j)
    \/ \E w \in Workers : WorkerStops(w)
    \/ Lifespan

Spec == Init /\ [][Next]_vars

(* The loop gets round to every task that can run; page operations and     *)
(* launches end (they have timeouts); the poller wakes every second.  The  *)
(* operator and the scheduler owe nothing, and stop need not be called.    *)
Fairness ==
    /\ WF_vars(\E j \in Jobs : PollerClaim(j))
    /\ \A w \in Workers : WF_vars(\E j \in Jobs : WorkerRuns(w, j))
    /\ \A w \in Workers : WF_vars(WorkerStops(w))
    /\ WF_vars(StopCancels) /\ WF_vars(StopReturns) /\ WF_vars(StopRaises)

LiveSpec == Spec /\ Fairness

-------------------------------------------------------------------------------
(* Properties.                                                             *)

Running(w, j) == job[w] = j

Queued == {queue[i] : i \in 1 .. Len(queue)}

(* The counter of a site is the number of its claimed jobs, and never      *)
(* exceeds the limit, through claims by two tasks, every way a worker      *)
(* leaves a job, and stop (runner.py, _claim_one and _release_site).       *)
SiteSlots ==
    \A s \in Sites :
        /\ siteActive[s] = Cardinality({j \in claimed : SiteOf[j] = s})
        /\ siteActive[s] <= MaxSite

(* A claimed job is in exactly one place: once in the queue or on exactly  *)
(* one worker; and only claimed jobs are in those places.  No job runs     *)
(* twice, and no slot leaks (runner.py, _worker_loop's finally).           *)
ClaimedOnce ==
    /\ claimed = Queued \cup {j \in Jobs : \E w \in Workers : Running(w, j)}
    /\ \A i, k \in 1 .. Len(queue) : queue[i] = queue[k] => i = k
    /\ \A w \in Workers, j \in Jobs :
          Running(w, j) => j \notin Queued /\ \A v \in Workers \ {w} : ~Running(v, j)

(* Two workers never run jobs of one profile, and a profile is locked      *)
(* exactly while a worker runs a job of it (profiles.py; README,           *)
(* "Concurrency").                                                         *)
ProfileExclusive ==
    /\ \A v, w \in Workers :
          v # w /\ Busy(v) /\ Busy(w) =>
              ProfileOf[job[v]] # ProfileOf[job[w]]
    /\ locked = {ProfileOf[j] : j \in {k \in Jobs : \E w \in Workers : Running(w, k)}}

(* Until stop cancels the workers, a job whose status is RUNNING is held:  *)
(* something will still decide its outcome (runner.py, _run_job).          *)
RunningIsHeld ==
    lifecycle \in {"new", "running", "stopping"} =>
        \A j \in Jobs : status[j] = "RUNNING" => j \in claimed

(* A checkpoint exists exactly while a worker waits on it, and says the    *)
(* same as the status of the job: no resume or cancel of a waiting job is  *)
(* lost (checkpoints.py, and cancel_job).                                  *)
CheckpointAgrees ==
    \A j \in Jobs :
        /\ checkpoint[j] # "none" <=>
              \E w \in Workers : Running(w, j) /\ pc[w] = "human"
        /\ checkpoint[j] \in {"waiting", "resumed"} => status[j] = "WAITING_HUMAN"
        /\ checkpoint[j] = "cancelled" => status[j] = "CANCELLED"

(* A worker's loop ends with an exception in one case only: the job it     *)
(* takes was cancelled while it waited in the queue, and another worker    *)
(* still runs a job of its profile.  No request, failure or order of steps *)
(* ends it anywhere else (_run_job's updates, of which the one for a       *)
(* locked profile alone is not the safe one).                              *)
LostByCancel ==
    \A w \in Workers : pc[w] # "dead" /\ pc'[w] = "dead" =>
        /\ queue # <<>> /\ status[Head(queue)] = "CANCELLED"
        /\ \E v \in Workers \ {w} : Busy(v) /\ ProfileOf[job[v]] = ProfileOf[Head(queue)]

WorkersLostOnlyByCancel == [][LostByCancel]_vars

(* The runner implements the promise of JobLifecycle. *)
Lifecycle == INSTANCE JobLifecycle WITH held <- claimed

LifecycleSpec == Lifecycle!LifecycleSpec

Served(j) == status[j] # "QUEUED" /\ j \notin claimed

(* If no two jobs share a profile, then again and again every job there is *)
(* has been claimed, run and let go, but for sites with a job that waits   *)
(* for the operator: "a busy site cannot starve others" (README,           *)
(* "Concurrency").  One site must not be able to take all the workers      *)
(* (_claim_one, _worker_loop).                                             *)
JobsServed ==
    []<>(\/ lifecycle # "running"
         \/ \A j \in Jobs :
               \/ Served(j)
               \/ \E i \in Jobs : SiteOf[i] = SiteOf[j] /\ checkpoint[i] = "waiting")

(* A cancelled job stops running for good, waiting or not: its worker and  *)
(* its profile are free again (cancel_job, WorkflowEngine.run).            *)
CancelEndsRun ==
    \A j \in Jobs :
        (status[j] = "CANCELLED") ~> [](\A w \in Workers : ~Running(w, j))

(* stop always ends, by returning or by raising, and no worker runs on, no *)
(* profile is left locked (runner.py, stop).                               *)
StopEnds ==
    (lifecycle = "stopping") ~>
        /\ lifecycle \in {"stopped", "raised"}
        /\ \A w \in Workers : pc[w] \in {"off", "dead"}
        /\ locked = {}

-------------------------------------------------------------------------------
(* A statement of the code's comments that it does not meet.               *)

(* "we record the conflict as an event instead of crashing the worker"     *)
(* (runner.py, _safe_update_status).                                       *)
WorkersSurvive == \A w \in Workers : pc[w] # "dead"

===============================================================================
