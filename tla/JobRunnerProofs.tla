---------------------------- MODULE JobRunnerProofs ---------------------------
(***************************************************************************)
(* Theorems about JobRunner, for any jobs, sites, profiles and workers and *)
(* any site limit.                                                         *)
(***************************************************************************)
EXTENDS JobRunner, FiniteSetTheorems, SequenceTheorems, TLAPS

USE DEF Absent, Waiting, Terminal, Statuses

(* A refused change leaves the statuses alone, an allowed one stays in the *)
(* type: _safe_update_status keeps the table of statuses well formed.      *)
LEMMA SafeUpdateType ==
    ASSUME NEW st \in [Jobs -> Statuses \cup {Absent}], NEW j \in Jobs,
           NEW target \in Statuses
    PROVE  SafeUpdate(st, j, target) \in [Jobs -> Statuses \cup {Absent}]
BY DEF SafeUpdate

(* Releasing a site slot keeps the counters and the claims typed. *)
LEMMA ReleaseSiteType ==
    ASSUME TypeOK, NEW j \in Jobs, ReleaseSite(j)
    PROVE  claimed' \subseteq Jobs /\ siteActive' \in [Sites -> Nat]
<1>1. SiteOf[j] \in Sites
  BY PayloadAssumption
<1>2. (IF siteActive[SiteOf[j]] > 1 THEN siteActive[SiteOf[j]] - 1 ELSE 0) \in Nat
  BY <1>1 DEF TypeOK
<1>3. CASE j \in claimed
  BY <1>1, <1>2, <1>3 DEF ReleaseSite, TypeOK
<1>4. CASE j \notin claimed
  BY <1>4 DEF ReleaseSite, TypeOK
<1>. QED BY <1>3, <1>4

(* A worker is suspended with a job exactly where a job runs. *)
LEMMA SuspendType ==
    ASSUME TypeOK, NEW w \in Workers, NEW p \in AtStates, NEW j \in Jobs \cup {NoJob},
           NEW k \in Nat, j # NoJob <=> p \in RunStates, Suspend(w, p, j, k)
    PROVE  /\ pc' \in [Workers -> AtStates]
           /\ job' \in [Workers -> Jobs \cup {NoJob}]
           /\ step' \in [Workers -> Nat]
           /\ \A v \in Workers : Busy(v)' <=> pc'[v] \in RunStates
BY DEF TypeOK, Suspend, Busy

(* The end of a round frees the worker and keeps its variables typed. *)
LEMMA EndRoundType ==
    ASSUME TypeOK, NEW w \in Workers, NEW j \in Jobs, EndRound(w, j)
    PROVE  /\ claimed' \subseteq Jobs
           /\ siteActive' \in [Sites -> Nat]
           /\ pc' \in [Workers -> AtStates]
           /\ job' \in [Workers -> Jobs \cup {NoJob}]
           /\ step' \in [Workers -> Nat]
           /\ \A v \in Workers : Busy(v)' <=> pc'[v] \in RunStates
<1>1. NextRound \in AtStates /\ NextRound \notin RunStates
  BY DEF NextRound, AtStates, RunStates
<1>2. Suspend(w, NextRound, NoJob, 0)
  BY DEF EndRound
<1>3. claimed' \subseteq Jobs /\ siteActive' \in [Sites -> Nat]
  BY ReleaseSiteType DEF EndRound
<1>. QED BY <1>1, <1>2, <1>3, SuspendType

(* A claim keeps the job, the counters and the queue typed. *)
LEMMA ClaimType ==
    ASSUME TypeOK, NEW j \in Jobs, Claim(j)
    PROVE  /\ status' \in [Jobs -> Statuses \cup {Absent}]
           /\ siteActive' \in [Sites -> Nat]
           /\ claimed' \subseteq Jobs
           /\ queue' \in Seq(Jobs)
<1>1. SiteOf[j] \in Sites
  BY PayloadAssumption
<1>2. siteActive' \in [Sites -> Nat]
  BY <1>1 DEF TypeOK, Claim
<1>3. queue' \in Seq(Jobs)
  BY DEF TypeOK, Claim
<1>. QED BY <1>2, <1>3 DEF TypeOK, Claim

(* Wherever the workflow goes on to, every variable it changes is typed. *)
LEMMA ProceedType ==
    ASSUME TypeOK, NEW w \in Workers, NEW j \in Jobs, NEW k \in Nat,
           NEW st \in [Jobs -> Statuses \cup {Absent}], Proceed(w, j, k, st)
    PROVE  /\ status' \in [Jobs -> Statuses \cup {Absent}]
           /\ checkpoint' \in [Jobs -> {"none", "waiting", "resumed", "cancelled"}]
           /\ locked' \subseteq Profiles
           /\ claimed' \subseteq Jobs
           /\ siteActive' \in [Sites -> Nat]
           /\ pc' \in [Workers -> AtStates]
           /\ job' \in [Workers -> Jobs \cup {NoJob}]
           /\ step' \in [Workers -> Nat]
           /\ \A v \in Workers : Busy(v)' <=> pc'[v] \in RunStates
<1>. /\ "step" \in AtStates \cap RunStates
     /\ "human" \in AtStates \cap RunStates
     /\ j \in Jobs \cup {NoJob} /\ j # NoJob
  BY NoJobAssumption DEF AtStates, RunStates
<1>1. CASE StepAt(SiteOf[j], k) = "page"
  <2>1. /\ Suspend(w, "step", j, k) /\ status' = st
        /\ checkpoint' = [checkpoint EXCEPT ![j] = "none"]
        /\ UNCHANGED <<locked, claimed, siteActive>>
    BY <1>1 DEF Proceed
  <2>. QED BY <2>1, SuspendType DEF TypeOK
<1>2. CASE StepAt(SiteOf[j], k) = "human" /\ CanTransition(st[j], "WAITING_HUMAN")
  <2>1. /\ Suspend(w, "human", j, k) /\ status' = [st EXCEPT ![j] = "WAITING_HUMAN"]
        /\ checkpoint' = [checkpoint EXCEPT ![j] = "waiting"]
        /\ UNCHANGED <<locked, claimed, siteActive>>
    BY <1>2 DEF Proceed
  <2>. QED BY <2>1, SuspendType DEF TypeOK
<1>3. CASE StepAt(SiteOf[j], k) = "human" /\ ~CanTransition(st[j], "WAITING_HUMAN")
  <2>1. /\ LeaveJob(w, j) /\ status' = st
        /\ checkpoint' = [checkpoint EXCEPT ![j] = "none"]
    BY <1>3 DEF Proceed
  <2>. QED BY <2>1, EndRoundType DEF LeaveJob, TypeOK
<1>4. CASE StepAt(SiteOf[j], k) = "end"
  <2>1. /\ LeaveJob(w, j) /\ status' = SafeUpdate(st, j, "SUCCEEDED")
        /\ checkpoint' = [checkpoint EXCEPT ![j] = "none"]
    BY <1>4 DEF Proceed
  <2>. QED BY <2>1, EndRoundType, SafeUpdateType DEF LeaveJob, TypeOK
<1>. QED BY <1>1, <1>2, <1>3, <1>4 DEF Proceed

(* Every step keeps every variable of the runner in its type: the workers, *)
(* the claims, the counters and the checkpoints.                           *)
THEOREM TypeCorrect == Spec => []TypeOK
<1>1. Init => TypeOK
  <2>. SUFFICES ASSUME Init PROVE TypeOK
    OBVIOUS
  <2>1. <<>> \in Seq(Jobs)
    OBVIOUS
  <2>2. site \in [Sites -> {"absent", "disabled", "enabled"}]
    BY DEF Init
  <2>. QED BY <2>1, <2>2, NoJobAssumption DEF Init, TypeOK, Busy, AtStates, RunStates
<1>2. TypeOK /\ [Next]_vars => TypeOK'
  <2>. SUFFICES ASSUME TypeOK, [Next]_vars PROVE TypeOK'
    OBVIOUS
  <2>. USE DEF claimVars, workerVars, runVars
  <2>1. CASE Operator
    <3>1. ASSUME NEW j \in Jobs, ApiCreateJob(j) \/ UiQueueJob(j) PROVE TypeOK'
      <4>1. CreateJob(j)
        BY <3>1 DEF ApiCreateJob, UiQueueJob
      <4>2. order' \in Seq(Jobs)
        BY <4>1 DEF CreateJob, TypeOK
      <4>. QED BY <4>1, <4>2 DEF CreateJob, TypeOK, Busy
    <3>2. ASSUME NEW j \in Jobs, Resume(j) \/ Cancel(j) \/ Pause(j) PROVE TypeOK'
      BY <3>2 DEF Resume, Cancel, Pause, TypeOK, Busy
    <3>3. ASSUME NEW s \in Sites, CreateSite(s) \/ UpdateSite(s) \/ DeleteSite(s)
          PROVE TypeOK'
      BY <3>3 DEF CreateSite, UpdateSite, DeleteSite, TypeOK, Busy
    <3>. QED BY <2>1, <3>1, <3>2, <3>3 DEF Operator
  <2>2. CASE Claiming
    <3>1. ASSUME NEW j \in Jobs, PollerClaim(j) PROVE TypeOK'
      BY <3>1, ClaimType DEF PollerClaim, TypeOK, Busy
    <3>2. CASE SchedulerTick
      BY <3>2 DEF SchedulerTick, TypeOK, Busy
    <3>3. CASE TickClaim
      <4>1. ASSUME NEW j \in Jobs, Claim(j) PROVE TypeOK'
        BY <3>3, <4>1, ClaimType DEF TickClaim, TypeOK, Busy
      <4>2. CASE UNCHANGED <<status, claimVars>>
        BY <3>3, <4>2 DEF TickClaim, TypeOK, Busy
      <4>. QED BY <3>3, <4>1, <4>2 DEF TickClaim
    <3>. QED BY <2>2, <3>1, <3>2, <3>3 DEF Claiming
  <2>3. ASSUME NEW w \in Workers, NEW j \in Jobs, WorkerRuns(w, j) PROVE TypeOK'
    <3>1. CASE TakeWithoutAdapter(w, j)
      <4>1. queue' \in Seq(Jobs)
        BY <3>1 DEF TakeWithoutAdapter, Take, TypeOK
      <4>2. status' \in [Jobs -> Statuses \cup {Absent}]
        BY <3>1, SafeUpdateType DEF TakeWithoutAdapter, TypeOK
      <4>. QED BY <3>1, <4>1, <4>2, EndRoundType DEF TakeWithoutAdapter, Take, TypeOK
    <3>2. CASE TakeProfileLocked(w, j)
      <4>1. queue' \in Seq(Jobs)
        BY <3>2 DEF TakeProfileLocked, Take, TypeOK
      <4>2. CASE EndRound(w, j) /\ status' = [status EXCEPT ![j] = "FAILED"]
        BY <3>2, <4>1, <4>2, EndRoundType DEF TakeProfileLocked, Take, TypeOK
      <4>3. CASE ReleaseSite(j) /\ Suspend(w, "dead", NoJob, 0) /\ UNCHANGED status
        <5>1. "dead" \in AtStates /\ "dead" \notin RunStates
          BY DEF AtStates, RunStates
        <5>2. claimed' \subseteq Jobs /\ siteActive' \in [Sites -> Nat]
          BY <4>3, ReleaseSiteType
        <5>. QED BY <3>2, <4>1, <4>3, <5>1, <5>2, SuspendType
                 DEF TakeProfileLocked, Take, TypeOK
      <4>. QED BY <3>2, <4>2, <4>3 DEF TakeProfileLocked
    <3>3. CASE TakeAndOpen(w, j)
      <4>1. queue' \in Seq(Jobs)
        BY <3>3 DEF TakeAndOpen, Take, TypeOK
      <4>2. "opening" \in AtStates \cap RunStates /\ j # NoJob
        BY NoJobAssumption DEF AtStates, RunStates
      <4>3. Suspend(w, "opening", j, 0)
        BY <3>3 DEF TakeAndOpen
      <4>. QED BY <3>3, <4>1, <4>2, <4>3, SuspendType, PayloadAssumption
               DEF TakeAndOpen, Take, TypeOK
    <3>4. CASE PageReady(w, j)
      BY <3>4, ProceedType DEF PageReady, Continues, TypeOK
    <3>5. CASE PageFails(w, j)
      BY <3>5, EndRoundType, SafeUpdateType DEF PageFails, LeaveJob, Continues, TypeOK
    <3>6. CASE StepDone(w, j)
      BY <3>6, ProceedType DEF StepDone, Continues, TypeOK
    <3>7. CASE StepFails(w, j)
      BY <3>7, EndRoundType, SafeUpdateType DEF StepFails, LeaveJob, Continues, TypeOK
    <3>8. CASE WakeResumed(w, j)
      <4>1. [status EXCEPT ![j] = "RUNNING"] \in [Jobs -> Statuses \cup {Absent}]
        BY DEF TypeOK
      <4>2. step[w] + 1 \in Nat
        BY DEF TypeOK
      <4>. QED BY <3>8, <4>1, <4>2, ProceedType DEF WakeResumed, Continues, TypeOK
    <3>9. CASE WakeCancelled(w, j)
      BY <3>9, EndRoundType, SafeUpdateType DEF WakeCancelled, LeaveJob, Continues, TypeOK
    <3>. QED BY <2>3, <3>1, <3>2, <3>3, <3>4, <3>5, <3>6, <3>7, <3>8, <3>9 DEF WorkerRuns
  <2>4. ASSUME NEW w \in Workers, WorkerStops(w) PROVE TypeOK'
    <3>1. CASE IdleWorkerStops(w)
      BY <3>1 DEF IdleWorkerStops, TypeOK, Busy, AtStates, RunStates
    <3>2. ASSUME NEW j \in Jobs, BusyWorkerStops(w, j) PROVE TypeOK'
      BY <3>2, EndRoundType DEF BusyWorkerStops, LeaveJob, TypeOK
    <3>. QED BY <2>4, <3>1, <3>2 DEF WorkerStops
  <2>5. CASE Start
    BY <2>5, NoJobAssumption DEF Start, TypeOK, Busy, AtStates, RunStates
  <2>6. CASE StopBegins \/ StopCancels \/ StopReturns \/ StopRaises
    BY <2>6 DEF StopBegins, StopCancels, StopReturns, StopRaises, TypeOK, Busy
  <2>7. CASE UNCHANGED vars
    BY <2>7 DEF vars, TypeOK, Busy
  <2>. QED BY <2>1, <2>2, <2>3, <2>4, <2>5, <2>6, <2>7 DEF Next, Lifespan
<1>. QED BY <1>1, <1>2, PTL DEF Spec

-------------------------------------------------------------------------------
(* What the steps of the runner do to the queue, the claims, the locks and *)
(* the jobs of the workers: five kinds of step are all there is.           *)

(* No worker has a job before start. *)
Fresh == lifecycle = "new" => \A w \in Workers : job[w] = NoJob

Dequeue(w, j) ==
    /\ job[w] = NoJob
    /\ queue # <<>> /\ j = Head(queue)
    /\ queue' = Tail(queue)

QuietStep == UNCHANGED <<queue, siteActive, claimed, locked, job>>

ClaimStep(j) == Claim(j) /\ UNCHANGED <<locked, job>>

DropStep(w, j) == Dequeue(w, j) /\ ReleaseSite(j) /\ UNCHANGED <<locked, job>>

EnterStep(w, j) ==
    /\ Dequeue(w, j)
    /\ ProfileOf[j] \notin locked
    /\ locked' = locked \cup {ProfileOf[j]}
    /\ job' = [job EXCEPT ![w] = j]
    /\ UNCHANGED <<siteActive, claimed>>

LeaveStep(w, j) ==
    /\ job[w] = j
    /\ locked' = locked \ {ProfileOf[j]}
    /\ job' = [job EXCEPT ![w] = NoJob]
    /\ ReleaseSite(j)
    /\ UNCHANGED queue

RunStep ==
    \/ QuietStep
    \/ \E j \in Jobs : ClaimStep(j)
    \/ \E w \in Workers, j \in Jobs : DropStep(w, j) \/ EnterStep(w, j) \/ LeaveStep(w, j)

(* The workflow goes on with the job, or the worker leaves it. *)
LEMMA ProceedRuns ==
    ASSUME TypeOK, NEW w \in Workers, NEW j \in Jobs, NEW k, NEW st,
           Proceed(w, j, k, st), job[w] = j, UNCHANGED queue
    PROVE  QuietStep \/ LeaveStep(w, j)
<1>1. CASE LeaveJob(w, j)
  BY <1>1 DEF LeaveJob, EndRound, Suspend, LeaveStep
<1>2. CASE /\ Suspend(w, "step", j, k) \/ Suspend(w, "human", j, k)
           /\ UNCHANGED <<locked, claimed, siteActive>>
  <2>1. job' = job
    BY <1>2 DEF Suspend, TypeOK
  <2>. QED BY <1>2, <2>1 DEF QuietStep
<1>. QED BY <1>1, <1>2 DEF Proceed

(* Every step of the runner is of one of the five kinds. *)
LEMMA StepsRun ==
    ASSUME TypeOK, Fresh, [Next]_vars
    PROVE  RunStep
<1>. USE DEF claimVars, workerVars, runVars
<1>1. CASE Operator
  BY <1>1 DEF Operator, ApiCreateJob, UiQueueJob, CreateJob, Resume, Cancel, Pause,
     CreateSite, UpdateSite, DeleteSite, RunStep, QuietStep
<1>2. CASE Claiming
  BY <1>2 DEF Claiming, PollerClaim, SchedulerTick, TickClaim, RunStep, QuietStep, ClaimStep
<1>3. ASSUME NEW w \in Workers, NEW j \in Jobs, WorkerRuns(w, j) PROVE RunStep
  <2>1. ASSUME Take(w, j) PROVE Dequeue(w, j)
    BY <2>1 DEF Take, Dequeue, TypeOK, Busy, RunStates
  <2>2. ASSUME Take(w, j), NEW p, Suspend(w, p, NoJob, 0) PROVE UNCHANGED job
    BY <2>1, <2>2 DEF Suspend, Dequeue, TypeOK
  <2>3. CASE TakeWithoutAdapter(w, j)
    BY <2>1, <2>2, <2>3 DEF TakeWithoutAdapter, EndRound, DropStep, RunStep
  <2>4. CASE TakeProfileLocked(w, j)
    BY <2>1, <2>2, <2>4 DEF TakeProfileLocked, EndRound, DropStep, RunStep
  <2>5. CASE TakeAndOpen(w, j)
    BY <2>1, <2>5 DEF TakeAndOpen, Suspend, EnterStep, RunStep
  <2>6. CASE PageReady(w, j) \/ StepDone(w, j) \/ WakeResumed(w, j)
    <3>1. QuietStep \/ LeaveStep(w, j)
      BY <2>6, ProceedRuns DEF PageReady, StepDone, WakeResumed, Continues
    <3>. QED BY <3>1 DEF RunStep
  <2>7. CASE PageFails(w, j) \/ StepFails(w, j) \/ WakeCancelled(w, j)
    <3>1. LeaveStep(w, j)
      BY <2>7 DEF PageFails, StepFails, WakeCancelled, Continues, LeaveJob, EndRound,
         Suspend, LeaveStep
    <3>. QED BY <3>1 DEF RunStep
  <2>. QED BY <1>3, <2>3, <2>4, <2>5, <2>6, <2>7 DEF WorkerRuns
<1>4. ASSUME NEW w \in Workers, WorkerStops(w) PROVE RunStep
  <2>1. CASE IdleWorkerStops(w)
    BY <2>1 DEF IdleWorkerStops, RunStep, QuietStep
  <2>2. ASSUME NEW j \in Jobs, BusyWorkerStops(w, j) PROVE RunStep
    <3>1. LeaveStep(w, j)
      BY <2>2 DEF BusyWorkerStops, LeaveJob, EndRound, Suspend, LeaveStep
    <3>. QED BY <3>1 DEF RunStep
  <2>. QED BY <1>4, <2>1, <2>2 DEF WorkerStops
<1>5. CASE Start
  <2>1. job' = job
    BY <1>5 DEF Start, Fresh, TypeOK
  <2>. QED BY <1>5, <2>1 DEF Start, RunStep, QuietStep
<1>6. CASE StopBegins \/ StopCancels \/ StopReturns \/ StopRaises
  BY <1>6 DEF StopBegins, StopCancels, StopReturns, StopRaises, RunStep, QuietStep
<1>7. CASE UNCHANGED vars
  BY <1>7 DEF vars, RunStep, QuietStep
<1>. QED BY <1>1, <1>2, <1>3, <1>4, <1>5, <1>6, <1>7 DEF Next, Lifespan

(* Workers get jobs only after start. *)
LEMMA FreshInductive ==
    ASSUME TypeOK, Fresh, [Next]_vars
    PROVE  Fresh'
<1>1. CASE Operator
  BY <1>1 DEF Operator, ApiCreateJob, UiQueueJob, CreateJob, Resume, Cancel, Pause,
     CreateSite, UpdateSite, DeleteSite, Fresh, runVars, workerVars
<1>2. CASE Claiming
  BY <1>2 DEF Claiming, PollerClaim, SchedulerTick, TickClaim, Fresh, runVars
<1>3. ASSUME NEW w \in Workers, NEW j \in Jobs, WorkerRuns(w, j) PROVE Fresh'
  BY <1>3 DEF WorkerRuns, TakeWithoutAdapter, TakeProfileLocked, TakeAndOpen, Take,
     PageReady, PageFails, StepDone, StepFails, WakeResumed, WakeCancelled, Continues,
     Accepting, Fresh
<1>4. ASSUME NEW w \in Workers, WorkerStops(w) PROVE Fresh'
  BY <1>4 DEF WorkerStops, IdleWorkerStops, BusyWorkerStops, Cancelling, Fresh
<1>5. CASE Lifespan
  BY <1>5 DEF Lifespan, Start, StopBegins, StopCancels, StopReturns, StopRaises, Fresh
<1>6. CASE UNCHANGED vars
  BY <1>6 DEF vars, Fresh
<1>. QED BY <1>1, <1>2, <1>3, <1>4, <1>5, <1>6 DEF Next

(* So every step of a behaviour is of one of the five kinds. *)
LEMMA BehaviourRuns == Spec => [](TypeOK /\ Fresh) /\ [][RunStep]_vars
<1>1. Init => Fresh
  BY DEF Init, Fresh
<1>2. TypeOK /\ Fresh /\ [Next]_vars => Fresh'
  BY FreshInductive
<1>3. TypeOK /\ Fresh /\ [Next]_vars => [RunStep]_vars
  BY StepsRun
<1>. QED BY <1>1, <1>2, <1>3, TypeCorrect, PTL DEF Spec

-------------------------------------------------------------------------------
(* Profiles.  That a profile is locked exactly while a worker has a job of *)
(* it, and that two workers never have jobs of one profile, is inductive   *)
(* only together: a lock that outlives its worker would be no harm to the  *)
(* second, but one released too early would.                               *)

ProfileInv ==
    /\ \A v, w \in Workers : v # w /\ Busy(v) /\ Busy(w) =>
          ProfileOf[job[v]] # ProfileOf[job[w]]
    /\ \A x : x \in locked <=> \E w \in Workers : Busy(w) /\ ProfileOf[job[w]] = x

(* Each kind of step keeps at most one worker on a profile, and its lock. *)
LEMMA ProfileInvInductive ==
    ASSUME TypeOK, ProfileInv, [RunStep]_vars
    PROVE  ProfileInv'
<1>. USE NoJobAssumption DEF TypeOK
<1>1. CASE UNCHANGED <<locked, job>>
  BY <1>1 DEF ProfileInv, Busy
<1>2. ASSUME NEW w \in Workers, NEW j \in Jobs, EnterStep(w, j) PROVE ProfileInv'
  <2>1. /\ job' = [job EXCEPT ![w] = j] /\ locked' = locked \cup {ProfileOf[j]}
        /\ ~Busy(w) /\ j # NoJob /\ ProfileOf[j] \notin locked
    BY <1>2 DEF EnterStep, Dequeue, Busy
  <2>2. \A v \in Workers \ {w} : job'[v] = job[v]
    BY <2>1
  <2>3. job'[w] = j
    BY <2>1
  <2>4. \A u, v \in Workers : u # v /\ Busy(u)' /\ Busy(v)' =>
            ProfileOf[job'[u]] # ProfileOf[job'[v]]
    <3>1. \A v \in Workers \ {w} : Busy(v) => ProfileOf[job[v]] # ProfileOf[j]
      BY <2>1 DEF ProfileInv
    <3>. QED BY <2>2, <2>3, <3>1 DEF ProfileInv, Busy
  <2>5. ASSUME NEW x
        PROVE  x \in locked' <=> \E v \in Workers : Busy(v)' /\ ProfileOf[job'[v]] = x
    <3>1. x \in locked' <=> x \in locked \/ x = ProfileOf[j]
      BY <2>1
    <3>2. (\E v \in Workers : Busy(v)' /\ ProfileOf[job'[v]] = x)
            <=> x = ProfileOf[j] \/ \E v \in Workers : Busy(v) /\ ProfileOf[job[v]] = x
      BY <2>1, <2>2, <2>3 DEF Busy
    <3>. QED BY <3>1, <3>2 DEF ProfileInv
  <2>. QED BY <2>4, <2>5 DEF ProfileInv
<1>3. ASSUME NEW w \in Workers, NEW j \in Jobs, LeaveStep(w, j) PROVE ProfileInv'
  <2>1. /\ job' = [job EXCEPT ![w] = NoJob] /\ locked' = locked \ {ProfileOf[j]}
        /\ job[w] = j /\ j # NoJob
    BY <1>3 DEF LeaveStep
  <2>2. \A v \in Workers \ {w} : job'[v] = job[v]
    BY <2>1
  <2>3. job'[w] = NoJob
    BY <2>1
  <2>4. \A u, v \in Workers : u # v /\ Busy(u)' /\ Busy(v)' =>
            ProfileOf[job'[u]] # ProfileOf[job'[v]]
    <3>1. ASSUME NEW u \in Workers, Busy(u)'
          PROVE  u # w /\ Busy(u) /\ job'[u] = job[u]
      BY <2>2, <2>3, <3>1 DEF Busy
    <3>. QED BY <3>1 DEF ProfileInv
  <2>5. ASSUME NEW x
        PROVE  x \in locked' <=> \E v \in Workers : Busy(v)' /\ ProfileOf[job'[v]] = x
    <3>1. x \in locked' <=> x \in locked /\ x # ProfileOf[j]
      BY <2>1
    <3>2. \A v \in Workers \ {w} : Busy(v) => ProfileOf[job[v]] # ProfileOf[j]
      BY <2>1 DEF ProfileInv, Busy
    <3>3. (\E v \in Workers : Busy(v)' /\ ProfileOf[job'[v]] = x)
            <=> \E v \in Workers \ {w} : Busy(v) /\ ProfileOf[job[v]] = x
      BY <2>1, <2>2, <2>3 DEF Busy
    <3>. QED BY <2>1, <3>1, <3>2, <3>3 DEF ProfileInv
  <2>. QED BY <2>4, <2>5 DEF ProfileInv
<1>. QED BY <1>1, <1>2, <1>3 DEF RunStep, QuietStep, ClaimStep, DropStep, vars

(* Locks and workers agree in every reachable state. *)
LEMMA ProfileInvariant == Spec => []ProfileInv
<1>1. Init => ProfileInv
  BY DEF Init, ProfileInv, Busy
<1>2. TypeOK /\ ProfileInv /\ [RunStep]_vars => ProfileInv'
  BY ProfileInvInductive
<1>. QED BY <1>1, <1>2, BehaviourRuns, PTL DEF Spec

(* Two workers never run jobs of one profile, and the locks are those of   *)
(* the running jobs, for any number of workers.                            *)
THEOREM ProfileExclusiveCorrect == Spec => []ProfileExclusive
<1>1. TypeOK /\ ProfileInv => ProfileExclusive
  <2>. SUFFICES ASSUME TypeOK, ProfileInv PROVE ProfileExclusive
    OBVIOUS
  <2>1. \A x : x \in locked <=> \E j \in {k \in Jobs : \E w \in Workers : Running(w, k)} :
                                  x = ProfileOf[j]
    <3>1. ASSUME NEW w \in Workers
          PROVE  Busy(w) <=> \E j \in Jobs : Running(w, j)
      BY NoJobAssumption DEF TypeOK, Busy, Running
    <3>. QED BY <3>1 DEF ProfileInv, Running
  <2>2. locked = {ProfileOf[j] : j \in {k \in Jobs : \E w \in Workers : Running(w, k)}}
    BY <2>1
  <2>. QED BY <2>2 DEF ProfileInv, ProfileExclusive
<1>. QED BY <1>1, ProfileInvariant, TypeCorrect, PTL

-------------------------------------------------------------------------------
(* Site limits.  The counter equals the number of claimed jobs only as     *)
(* long as no job is claimed twice, which needs that a claimed job is not  *)
(* QUEUED any more and never becomes QUEUED again.                         *)

Claimed(s) == {j \in claimed : SiteOf[j] = s}

Underway(j) == status[j] \notin {Absent, "QUEUED"}

UnderwayKept == \A j \in Jobs : Underway(j) => Underway(j)'

SlotInv ==
    /\ \A s \in Sites : siteActive[s] = Cardinality(Claimed(s)) /\ siteActive[s] <= MaxSite
    /\ \A j \in claimed : Underway(j)

(* A safe update never moves a claimed or finished job back to QUEUED. *)
LEMMA SafeUpdateUnderway ==
    ASSUME NEW st \in [Jobs -> Statuses \cup {Absent}], NEW j \in Jobs,
           NEW t \in Statuses \ {"QUEUED"}, NEW k \in Jobs, st[k] \notin {Absent, "QUEUED"}
    PROVE  SafeUpdate(st, j, t)[k] \notin {Absent, "QUEUED"}
BY DEF SafeUpdate

(* Once claimed or cancelled, a job is never QUEUED again. *)
LEMMA StepsKeepUnderway ==
    ASSUME TypeOK, [Next]_vars
    PROVE  UnderwayKept
<1>. SUFFICES ASSUME NEW k \in Jobs, Underway(k) PROVE Underway(k)'
  BY DEF UnderwayKept
<1>. USE DEF TypeOK, Underway
<1>1. CASE Operator
  BY <1>1 DEF Operator, ApiCreateJob, UiQueueJob, CreateJob, Resume, Cancel, Pause,
     CreateSite, UpdateSite, DeleteSite
<1>2. CASE Claiming
  BY <1>2 DEF Claiming, PollerClaim, SchedulerTick, TickClaim, Claim
<1>3. ASSUME NEW w \in Workers, NEW j \in Jobs, WorkerRuns(w, j) PROVE Underway(k)'
  <2>1. CASE status' = status \/ \E t \in Statuses \ {"QUEUED"} : status' = SafeUpdate(status, j, t)
    BY <2>1, SafeUpdateUnderway
  <2>2. ASSUME NEW st \in [Jobs -> Statuses \cup {Absent}], NEW n,
               st[k] \notin {Absent, "QUEUED"}, Proceed(w, j, n, st)
        PROVE  Underway(k)'
    <3>1. \/ status' = st \/ status' = [st EXCEPT ![j] = "WAITING_HUMAN"]
          \/ status' = SafeUpdate(st, j, "SUCCEEDED")
      BY <2>2 DEF Proceed
    <3>2. CASE status' = SafeUpdate(st, j, "SUCCEEDED")
      BY <2>2, <3>2, SafeUpdateUnderway
    <3>3. CASE status' = st \/ status' = [st EXCEPT ![j] = "WAITING_HUMAN"]
      BY <2>2, <3>3
    <3>. QED BY <3>1, <3>2, <3>3
  <2>3. CASE PageReady(w, j) \/ StepDone(w, j)
    BY <2>2, <2>3 DEF PageReady, StepDone
  <2>4. CASE WakeResumed(w, j)
    BY <2>2, <2>4 DEF WakeResumed
  <2>5. CASE TakeWithoutAdapter(w, j) \/ TakeAndOpen(w, j)
    BY <2>1, <2>5 DEF TakeWithoutAdapter, TakeAndOpen
  <2>6. CASE TakeProfileLocked(w, j)
    BY <2>6 DEF TakeProfileLocked
  <2>7. CASE PageFails(w, j) \/ StepFails(w, j) \/ WakeCancelled(w, j)
    BY <2>1, <2>7 DEF PageFails, StepFails, WakeCancelled
  <2>. QED BY <1>3, <2>3, <2>4, <2>5, <2>6, <2>7 DEF WorkerRuns
<1>4. ASSUME NEW w \in Workers, WorkerStops(w) PROVE Underway(k)'
  BY <1>4 DEF WorkerStops, IdleWorkerStops, BusyWorkerStops
<1>5. CASE Lifespan
  BY <1>5 DEF Lifespan, Start, StopBegins, StopCancels, StopReturns, StopRaises
<1>6. CASE UNCHANGED vars
  BY <1>6 DEF vars
<1>. QED BY <1>1, <1>2, <1>3, <1>4, <1>5, <1>6 DEF Next

(* Cardinality makes sense: the claimed jobs are finitely many. *)
LEMMA ClaimedFinite ==
    ASSUME TypeOK, NEW s
    PROVE  IsFiniteSet(Claimed(s)) /\ Cardinality(Claimed(s)) \in Nat
BY FiniteAssumption, FS_Subset, FS_CardinalityType DEF TypeOK, Claimed

(* A claim counts the job it adds: the job was not claimed before, and its *)
(* site had a slot.                                                        *)
LEMMA ClaimCounts ==
    ASSUME TypeOK, SlotInv, UnderwayKept, NEW j \in Jobs, Claim(j)
    PROVE  SlotInv'
<1>1. j \notin claimed /\ SiteOf[j] \in Sites /\ siteActive[SiteOf[j]] < MaxSite
  <2>1. Claimable(j)
    BY DEF Claim, IsNext
  <2>2. SiteOf[j] \in Sites /\ siteActive[SiteOf[j]] \in Nat
    BY PayloadAssumption DEF TypeOK
  <2>3. siteActive[SiteOf[j]] < MaxSite
    BY <2>1, <2>2, MaxSiteAssumption DEF Claimable, SitesAtCapacity
  <2>. QED BY <2>1, <2>2, <2>3 DEF Claimable, SlotInv, Underway
<1>2. ASSUME NEW s \in Sites
      PROVE  siteActive'[s] = Cardinality(Claimed(s)') /\ siteActive'[s] <= MaxSite
  <2>1. CASE s = SiteOf[j]
    <3>1. Claimed(s)' = Claimed(s) \cup {j} /\ j \notin Claimed(s)
      BY <1>1, <2>1 DEF Claim, Claimed
    <3>2. Cardinality(Claimed(s)') = Cardinality(Claimed(s)) + 1
      BY <3>1, ClaimedFinite, FS_AddElement
    <3>3. siteActive'[s] = siteActive[s] + 1
      BY <2>1 DEF Claim, TypeOK
    <3>. QED BY <1>1, <2>1, <3>2, <3>3, MaxSiteAssumption DEF SlotInv, TypeOK
  <2>2. CASE s # SiteOf[j]
    <3>1. Claimed(s)' = Claimed(s)
      BY <2>2 DEF Claim, Claimed
    <3>2. siteActive'[s] = siteActive[s]
      BY <1>1, <2>2 DEF Claim, TypeOK
    <3>. QED BY <3>1, <3>2 DEF SlotInv
  <2>. QED BY <2>1, <2>2
<1>3. \A k \in claimed' : Underway(k)'
  <2>1. Underway(j)'
    BY DEF Claim, Underway, TypeOK
  <2>. QED BY <2>1 DEF Claim, SlotInv, UnderwayKept, TypeOK
<1>. QED BY <1>2, <1>3 DEF SlotInv

(* A release gives back exactly the slot its job has. *)
LEMMA ReleaseCounts ==
    ASSUME TypeOK, SlotInv, UnderwayKept, NEW j \in Jobs, ReleaseSite(j)
    PROVE  SlotInv'
<1>1. CASE j \notin claimed
  <2>1. claimed' = claimed /\ siteActive' = siteActive
    BY <1>1 DEF ReleaseSite
  <2>2. \A s : Claimed(s)' = Claimed(s)
    BY <2>1 DEF Claimed
  <2>. QED BY <2>1, <2>2 DEF SlotInv, UnderwayKept, TypeOK
<1>2. CASE j \in claimed
  <2>1. SiteOf[j] \in Sites
    BY PayloadAssumption
  <2>2. /\ claimed' = claimed \ {j}
        /\ siteActive' = [siteActive EXCEPT ![SiteOf[j]] = IF @ > 1 THEN @ - 1 ELSE 0]
    BY <1>2 DEF ReleaseSite
  <2>3. ASSUME NEW s \in Sites
        PROVE  siteActive'[s] = Cardinality(Claimed(s)') /\ siteActive'[s] <= MaxSite
    <3>1. CASE s = SiteOf[j]
      <4>1. Claimed(s)' = Claimed(s) \ {j} /\ j \in Claimed(s)
        BY <1>2, <2>2, <3>1 DEF Claimed
      <4>2. Cardinality(Claimed(s)') = Cardinality(Claimed(s)) - 1
        BY <4>1, ClaimedFinite, FS_RemoveElement
      <4>3. Cardinality(Claimed(s)) \in Nat /\ Cardinality(Claimed(s)) # 0
        BY <4>1, ClaimedFinite, FS_EmptySet
      <4>4. siteActive'[s] = IF siteActive[s] > 1 THEN siteActive[s] - 1 ELSE 0
        BY <2>2, <3>1 DEF TypeOK
      <4>. QED BY <4>2, <4>3, <4>4, MaxSiteAssumption DEF SlotInv, TypeOK
    <3>2. CASE s # SiteOf[j]
      <4>1. Claimed(s)' = Claimed(s)
        BY <2>2, <3>2 DEF Claimed
      <4>2. siteActive'[s] = siteActive[s]
        BY <2>1, <2>2, <3>2 DEF TypeOK
      <4>. QED BY <4>1, <4>2 DEF SlotInv
    <3>. QED BY <3>1, <3>2
  <2>. QED BY <2>2, <2>3 DEF SlotInv, UnderwayKept, TypeOK
<1>. QED BY <1>1, <1>2

(* Counters, claims and statuses agree in every reachable state. *)
LEMMA SlotInvariant == Spec => []SlotInv
<1>1. Init => SlotInv
  <2>. SUFFICES ASSUME Init PROVE SlotInv
    OBVIOUS
  <2>1. \A s : Claimed(s) = {}
    BY DEF Init, Claimed
  <2>2. \A s : Cardinality(Claimed(s)) = 0
    BY <2>1, FS_EmptySet
  <2>3. claimed = {} /\ \A s \in Sites : siteActive[s] = 0
    BY DEF Init
  <2>. QED BY <2>2, <2>3, MaxSiteAssumption DEF SlotInv
<1>2. TypeOK /\ SlotInv /\ [Next]_vars /\ [RunStep]_vars => SlotInv'
  <2>. SUFFICES ASSUME TypeOK, SlotInv, [Next]_vars, [RunStep]_vars PROVE SlotInv'
    OBVIOUS
  <2>1. UnderwayKept
    BY StepsKeepUnderway
  <2>2. CASE UNCHANGED <<siteActive, claimed>>
    <3>1. \A s : Claimed(s)' = Claimed(s)
      BY <2>2 DEF Claimed
    <3>. QED BY <2>1, <2>2, <3>1 DEF SlotInv, UnderwayKept, TypeOK
  <2>3. ASSUME NEW j \in Jobs, Claim(j) \/ ReleaseSite(j) PROVE SlotInv'
    BY <2>1, <2>3, ClaimCounts, ReleaseCounts
  <2>. QED BY <2>2, <2>3 DEF RunStep, QuietStep, ClaimStep, DropStep, EnterStep, LeaveStep, vars
<1>. QED BY <1>1, <1>2, BehaviourRuns, PTL DEF Spec

(* The counter of every site is the number of its claimed jobs and never   *)
(* passes the limit, for any number of jobs, sites and workers.            *)
THEOREM SiteSlotsCorrect == Spec => []SiteSlots
<1>1. SlotInv => SiteSlots
  BY DEF SlotInv, SiteSlots, Claimed
<1>. QED BY <1>1, SlotInvariant, PTL

-------------------------------------------------------------------------------
(* Claims.  A claimed job is in one place: in the queue once, or on one    *)
(* worker.                                                                 *)

QueueInv ==
    /\ \A i, k \in 1 .. Len(queue) : queue[i] = queue[k] => i = k
    /\ \A w \in Workers, i \in 1 .. Len(queue) : job[w] # queue[i]
    /\ \A v, w \in Workers : v # w /\ Busy(v) => job[v] # job[w]
    /\ \A j \in Jobs : j \in claimed <=>
          \/ \E i \in 1 .. Len(queue) : queue[i] = j
          \/ \E w \in Workers : job[w] = j

(* Taking the head off a queue without repetitions removes exactly its job. *)
LEMMA DequeueFacts ==
    ASSUME TypeOK, QueueInv, NEW w \in Workers, NEW j \in Jobs, Dequeue(w, j)
    PROVE  /\ Len(queue) \in Nat /\ Len(queue') = Len(queue) - 1
           /\ \A i \in 1 .. Len(queue') : queue'[i] = queue[i + 1] /\ queue'[i] # j
           /\ queue[1] = j /\ Len(queue) >= 1
           /\ \A i, k \in 1 .. Len(queue') : queue'[i] = queue'[k] => i = k
           /\ \A k \in Jobs : (\E i \in 1 .. Len(queue') : queue'[i] = k)
                 <=> k # j /\ \E i \in 1 .. Len(queue) : queue[i] = k
           /\ j \in claimed /\ \A v \in Workers : job[v] # j
<1>1. queue \in Seq(Jobs) /\ queue # <<>> /\ queue' = Tail(queue) /\ j = Head(queue)
  BY DEF TypeOK, Dequeue
<1>2. /\ Len(queue) \in Nat /\ Len(queue') = Len(queue) - 1 /\ Len(queue) >= 1
      /\ queue[1] = j /\ \A i \in 1 .. Len(queue') : queue'[i] = queue[i + 1]
  BY <1>1, HeadTailProperties, EmptySeq
<1>3. \A i \in 1 .. Len(queue') : queue'[i] # j
  BY <1>2 DEF QueueInv
<1>4. ASSUME NEW k \in Jobs
      PROVE  (\E i \in 1 .. Len(queue') : queue'[i] = k)
               <=> k # j /\ \E i \in 1 .. Len(queue) : queue[i] = k
  <2>1. ASSUME NEW i \in 1 .. Len(queue), queue[i] = k, k # j
        PROVE  i - 1 \in 1 .. Len(queue') /\ queue'[i - 1] = k
    BY <1>2, <2>1
  <2>2. ASSUME NEW i \in 1 .. Len(queue'), queue'[i] = k
        PROVE  k # j /\ i + 1 \in 1 .. Len(queue) /\ queue[i + 1] = k
    BY <1>2, <1>3, <2>2
  <2>. QED BY <2>1, <2>2
<1>5. j \in claimed /\ \A v \in Workers : job[v] # j
  BY <1>2 DEF QueueInv
<1>6. ASSUME NEW i \in 1 .. Len(queue'), NEW k \in 1 .. Len(queue'), queue'[i] = queue'[k]
      PROVE  i = k
  <2>1. /\ i + 1 \in 1 .. Len(queue) /\ k + 1 \in 1 .. Len(queue)
        /\ queue[i + 1] = queue[k + 1]
    BY <1>2, <1>6
  <2>. QED BY <2>1 DEF QueueInv
<1>. QED BY <1>2, <1>3, <1>4, <1>5, <1>6

(* Each kind of step keeps every claimed job in exactly one place. *)
LEMMA QueueInvInductive ==
    ASSUME TypeOK, SlotInv, QueueInv, [RunStep]_vars
    PROVE  QueueInv'
<1>. USE NoJobAssumption
<1>1. CASE UNCHANGED <<queue, claimed, job>>
  BY <1>1 DEF QueueInv, Busy
<1>2. ASSUME NEW j \in Jobs, ClaimStep(j) PROVE QueueInv'
  <2>1. j \notin claimed
    BY <1>2 DEF ClaimStep, Claim, IsNext, Claimable, SlotInv, Underway
  <2>2. /\ Len(queue) \in Nat /\ Len(queue') = Len(queue) + 1
        /\ \A i \in 1 .. Len(queue) : queue'[i] = queue[i]
        /\ queue'[Len(queue) + 1] = j
    BY <1>2, AppendProperties DEF ClaimStep, Claim, TypeOK
  <2>3. job' = job /\ claimed' = claimed \cup {j}
    BY <1>2 DEF ClaimStep, Claim
  <2>4. /\ \A i \in 1 .. Len(queue) : queue[i] # j
        /\ \A w \in Workers : job[w] # j
    BY <2>1 DEF QueueInv
  <2>5. \A i \in 1 .. Len(queue') : i \in 1 .. Len(queue) \/ i = Len(queue) + 1
    BY <2>2
  <2>6. \A i, k \in 1 .. Len(queue') : queue'[i] = queue'[k] => i = k
    BY <2>2, <2>4, <2>5 DEF QueueInv
  <2>7. \A w \in Workers, i \in 1 .. Len(queue') : job'[w] # queue'[i]
    BY <2>2, <2>3, <2>4, <2>5 DEF QueueInv
  <2>8. ASSUME NEW k \in Jobs
        PROVE  k \in claimed' <=> \/ \E i \in 1 .. Len(queue') : queue'[i] = k
                                  \/ \E w \in Workers : job'[w] = k
    <3>1. (\E i \in 1 .. Len(queue') : queue'[i] = k)
            <=> k = j \/ \E i \in 1 .. Len(queue) : queue[i] = k
      BY <2>2, <2>5
    <3>. QED BY <2>3, <3>1 DEF QueueInv
  <2>9. \A v, w \in Workers : v # w /\ Busy(v)' => job'[v] # job'[w]
    BY <2>3 DEF QueueInv, Busy
  <2>. QED BY <2>6, <2>7, <2>8, <2>9 DEF QueueInv
<1>3. ASSUME NEW w \in Workers, NEW j \in Jobs, DropStep(w, j) PROVE QueueInv'
  <2>1. Dequeue(w, j) /\ job' = job
    BY <1>3 DEF DropStep
  <2>2. claimed' = claimed \ {j}
    BY <1>3, <2>1, DequeueFacts DEF DropStep, ReleaseSite
  <2>3. \A i, k \in 1 .. Len(queue') : queue'[i] = queue'[k] => i = k
    BY <2>1, DequeueFacts
  <2>4. \A v \in Workers, i \in 1 .. Len(queue') : job'[v] # queue'[i]
    <3>1. \A i \in 1 .. Len(queue') : i + 1 \in 1 .. Len(queue) /\ queue'[i] = queue[i + 1]
      BY <2>1, DequeueFacts
    <3>. QED BY <2>1, <3>1 DEF QueueInv
  <2>5. \A k \in Jobs : k \in claimed' <=> \/ \E i \in 1 .. Len(queue') : queue'[i] = k
                                          \/ \E v \in Workers : job'[v] = k
    BY <2>1, <2>2, DequeueFacts DEF QueueInv
  <2>6. \A v, u \in Workers : v # u /\ Busy(v)' => job'[v] # job'[u]
    BY <2>1 DEF QueueInv, Busy
  <2>. QED BY <2>3, <2>4, <2>5, <2>6 DEF QueueInv
<1>4. ASSUME NEW w \in Workers, NEW j \in Jobs, EnterStep(w, j) PROVE QueueInv'
  <2>1. Dequeue(w, j) /\ claimed' = claimed /\ job' = [job EXCEPT ![w] = j] /\ j # NoJob
    BY <1>4 DEF EnterStep
  <2>2. job'[w] = j /\ job[w] = NoJob /\ \A v \in Workers \ {w} : job'[v] = job[v]
    BY <2>1 DEF TypeOK, Dequeue
  <2>3. \A i, k \in 1 .. Len(queue') : queue'[i] = queue'[k] => i = k
    BY <2>1, DequeueFacts
  <2>4. \A v \in Workers, i \in 1 .. Len(queue') : job'[v] # queue'[i]
    <3>1. \A i \in 1 .. Len(queue') :
            i + 1 \in 1 .. Len(queue) /\ queue'[i] = queue[i + 1] /\ queue'[i] # j
      BY <2>1, DequeueFacts
    <3>. QED BY <2>2, <3>1 DEF QueueInv
  <2>5. \A k \in Jobs : k \in claimed' <=> \/ \E i \in 1 .. Len(queue') : queue'[i] = k
                                          \/ \E v \in Workers : job'[v] = k
    <3>1. ASSUME NEW k \in Jobs
          PROVE  (\E v \in Workers : job'[v] = k) <=> k = j \/ \E v \in Workers : job[v] = k
      BY <2>2
    <3>. QED BY <2>1, <3>1, DequeueFacts DEF QueueInv
  <2>6. \A v, u \in Workers : v # u /\ Busy(v)' => job'[v] # job'[u]
    BY <2>1, <2>2, DequeueFacts DEF QueueInv, Busy
  <2>. QED BY <2>3, <2>4, <2>5, <2>6 DEF QueueInv
<1>5. ASSUME NEW w \in Workers, NEW j \in Jobs, LeaveStep(w, j) PROVE QueueInv'
  <2>1. job[w] = j /\ queue' = queue /\ job' = [job EXCEPT ![w] = NoJob] /\ j # NoJob
    BY <1>5 DEF LeaveStep
  <2>2. job'[w] = NoJob /\ \A v \in Workers \ {w} : job'[v] = job[v]
    BY <2>1 DEF TypeOK
  <2>3. claimed' = claimed \ {j}
    BY <1>5, <2>1 DEF LeaveStep, ReleaseSite, QueueInv
  <2>4. /\ \A i \in 1 .. Len(queue) : queue[i] # j /\ queue[i] # NoJob
        /\ \A v \in Workers \ {w} : job[v] # j
    BY <2>1 DEF QueueInv, Busy, TypeOK
  <2>5. \A v \in Workers, i \in 1 .. Len(queue') : job'[v] # queue'[i]
    BY <2>1, <2>2, <2>4 DEF QueueInv
  <2>6. \A k \in Jobs : k \in claimed' <=> \/ \E i \in 1 .. Len(queue') : queue'[i] = k
                                          \/ \E v \in Workers : job'[v] = k
    BY <2>1, <2>2, <2>3, <2>4 DEF QueueInv
  <2>7. \A v, u \in Workers : v # u /\ Busy(v)' => job'[v] # job'[u]
    BY <2>1, <2>2 DEF QueueInv, Busy
  <2>. QED BY <2>1, <2>5, <2>6, <2>7 DEF QueueInv
<1>. QED BY <1>1, <1>2, <1>3, <1>4, <1>5 DEF RunStep, QuietStep, vars

(* The queue and the workers hold every claimed job exactly once. *)
LEMMA QueueInvariant == Spec => []QueueInv
<1>1. Init => QueueInv
  <2>. SUFFICES ASSUME Init PROVE QueueInv
    OBVIOUS
  <2>1. Len(queue) = 0 /\ claimed = {} /\ \A w \in Workers : job[w] = NoJob
    BY EmptySeq DEF Init
  <2>. QED BY <2>1, NoJobAssumption DEF QueueInv, Busy
<1>2. TypeOK /\ SlotInv /\ QueueInv /\ [RunStep]_vars => QueueInv'
  BY QueueInvInductive
<1>. QED BY <1>1, <1>2, SlotInvariant, BehaviourRuns, PTL DEF Spec

(* No claimed job is lost, none runs twice, and no slot leaks, for any     *)
(* number of jobs and workers.                                             *)
THEOREM ClaimedOnceCorrect == Spec => []ClaimedOnce
<1>1. TypeOK /\ QueueInv => ClaimedOnce
  <2>. SUFFICES ASSUME TypeOK, QueueInv PROVE ClaimedOnce
    OBVIOUS
  <2>1. claimed = Queued \cup {j \in Jobs : \E w \in Workers : Running(w, j)}
    BY DEF TypeOK, QueueInv, Queued, Running
  <2>2. ASSUME NEW w \in Workers, NEW j \in Jobs, Running(w, j)
        PROVE  j \notin Queued /\ \A v \in Workers \ {w} : ~Running(v, j)
    BY <2>2, NoJobAssumption DEF QueueInv, Queued, Running, Busy
  <2>. QED BY <2>1, <2>2 DEF QueueInv, ClaimedOnce
<1>. QED BY <1>1, QueueInvariant, TypeCorrect, PTL

-------------------------------------------------------------------------------
(* Statuses.  What a worker does to the status of the job it holds.        *)

(* The table the abstract specification instantiates is the same table. *)
LEMMA SameTable ==
    /\ Lifecycle!Statuses = Statuses
    /\ \A s, t : Lifecycle!CanTransition(s, t) <=> CanTransition(s, t)
BY DEF Lifecycle!Statuses, Lifecycle!Waiting, Lifecycle!Terminal, Lifecycle!CanTransition,
   Lifecycle!AllowedTransitions, CanTransition, AllowedTransitions

(* One or two allowed transitions reach. *)
LEMMA ReachesFacts ==
    ASSUME NEW r, NEW s \in Statuses, NEW t, r = s \/ CanTransition(r, s),
           s = t \/ CanTransition(s, t)
    PROVE  Lifecycle!Reaches(r, t)
BY SameTable DEF Lifecycle!Reaches

(* The status of j becomes t, along one or two allowed transitions, and    *)
(* the claim is kept, or given up unless the job is left RUNNING.          *)
Moves(j, t) ==
    /\ status' = [status EXCEPT ![j] = t]
    /\ Lifecycle!Reaches(status[j], t)
    /\ claimed' = claimed \/ (claimed' = claimed \ {j} /\ t # "RUNNING")

(* Going on with the workflow moves only its own job, along the table. *)
LEMMA ProceedMoves ==
    ASSUME TypeOK, NEW w \in Workers, NEW j \in Jobs, NEW k, NEW s \in Statuses, j \in claimed,
           status[j] = s \/ CanTransition(status[j], s),
           Proceed(w, j, k, [status EXCEPT ![j] = s])
    PROVE  \E t \in Statuses : Moves(j, t)
<1>. DEFINE st == [status EXCEPT ![j] = s]
<1>0. st[j] = s /\ st \in [Jobs -> Statuses \cup {Absent}]
  BY DEF TypeOK
<1>. HIDE DEF st
<1>1. \A t \in Statuses : s = t \/ CanTransition(s, t) => Lifecycle!Reaches(status[j], t)
  BY ReachesFacts
<1>2. CASE StepAt(SiteOf[j], k) = "page"
  <2>1. status' = [status EXCEPT ![j] = s] /\ claimed' = claimed
    BY <1>2 DEF Proceed
  <2>. QED BY <1>1, <2>1 DEF Moves
<1>3. CASE StepAt(SiteOf[j], k) = "human" /\ CanTransition(s, "WAITING_HUMAN")
  <2>1. status' = [st EXCEPT ![j] = "WAITING_HUMAN"] /\ claimed' = claimed
    BY <1>0, <1>3 DEF Proceed, st
  <2>2. status' = [status EXCEPT ![j] = "WAITING_HUMAN"]
    BY <2>1 DEF st, TypeOK
  <2>. QED BY <1>1, <1>3, <2>1, <2>2 DEF Moves
<1>4. CASE StepAt(SiteOf[j], k) = "human" /\ ~CanTransition(s, "WAITING_HUMAN")
  <2>1. status' = st /\ LeaveJob(w, j)
    BY <1>0, <1>4 DEF Proceed, st
  <2>2. s # "RUNNING"
    BY <1>4 DEF CanTransition, AllowedTransitions
  <2>. QED BY <1>1, <2>1, <2>2 DEF Moves, LeaveJob, EndRound, ReleaseSite, st
<1>5. CASE StepAt(SiteOf[j], k) = "end"
  <2>1. status' = SafeUpdate(st, j, "SUCCEEDED") /\ LeaveJob(w, j)
    BY <1>5 DEF Proceed, st
  <2>2. claimed' = claimed \ {j}
    BY <2>1 DEF LeaveJob, EndRound, ReleaseSite
  <2>3. CASE CanTransition(s, "SUCCEEDED")
    <3>1. status' = [status EXCEPT ![j] = "SUCCEEDED"]
      BY <1>0, <2>1, <2>3 DEF SafeUpdate, st, TypeOK
    <3>. QED BY <1>1, <2>2, <2>3, <3>1 DEF Moves
  <2>4. CASE ~CanTransition(s, "SUCCEEDED")
    <3>1. status' = st
      BY <1>0, <2>1, <2>4 DEF SafeUpdate
    <3>2. s # "RUNNING"
      BY <2>4 DEF CanTransition, AllowedTransitions
    <3>. QED BY <1>1, <2>2, <3>1, <3>2 DEF Moves, st
  <2>. QED BY <2>3, <2>4
<1>. QED BY <1>0, <1>2, <1>3, <1>4, <1>5 DEF Proceed, st

(* A worker step moves only the job it has, along the table. *)
LEMMA WorkerMoves ==
    ASSUME TypeOK, NEW w \in Workers, NEW j \in Jobs, WorkerRuns(w, j),
           j \in claimed, Underway(j)
    PROVE  \E t \in Statuses : Moves(j, t)
<1>0. status[j] \in Statuses /\ status = [status EXCEPT ![j] = status[j]]
  BY DEF TypeOK, Underway
<1>1. \A t \in Statuses : status[j] = t \/ CanTransition(status[j], t)
                              => Lifecycle!Reaches(status[j], t)
  BY <1>0, ReachesFacts
<1>2. ASSUME NEW t \in Statuses \ {"RUNNING"}, status' = SafeUpdate(status, j, t),
             ReleaseSite(j), status[j] = "RUNNING" => CanTransition(status[j], t)
      PROVE  \E u \in Statuses : Moves(j, u)
  <2>1. claimed' = claimed \ {j}
    BY <1>2 DEF ReleaseSite
  <2>2. CASE CanTransition(status[j], t)
    BY <1>1, <1>2, <2>1, <2>2 DEF Moves, SafeUpdate
  <2>3. CASE ~CanTransition(status[j], t)
    BY <1>0, <1>1, <1>2, <2>1, <2>3 DEF Moves, SafeUpdate
  <2>. QED BY <2>2, <2>3
<1>3. \A t \in {"FAILED", "WAITING_HUMAN", "CANCELLED"} :
        status[j] = "RUNNING" => CanTransition(status[j], t)
  BY DEF CanTransition, AllowedTransitions
<1>4. CASE TakeWithoutAdapter(w, j)
  BY <1>2, <1>3, <1>4 DEF TakeWithoutAdapter, EndRound
<1>5. CASE TakeProfileLocked(w, j)
  <2>1. status' = SafeUpdate(status, j, "FAILED") /\ ReleaseSite(j)
    BY <1>5 DEF TakeProfileLocked, EndRound, SafeUpdate
  <2>. QED BY <1>2, <1>3, <2>1
<1>6. CASE TakeAndOpen(w, j)
  BY <1>0, <1>1, <1>6 DEF TakeAndOpen, Moves
<1>7. CASE PageReady(w, j) \/ StepDone(w, j)
  <2>1. ASSUME NEW k, Proceed(w, j, k, status) PROVE \E t \in Statuses : Moves(j, t)
    <3>1. Proceed(w, j, k, [status EXCEPT ![j] = status[j]])
      BY <1>0, <2>1
    <3>. QED BY <1>0, <3>1, ProceedMoves
  <2>. QED BY <1>7, <2>1 DEF PageReady, StepDone
<1>8. CASE PageFails(w, j)
  BY <1>2, <1>3, <1>8 DEF PageFails, LeaveJob, EndRound
<1>9. CASE StepFails(w, j)
  BY <1>2, <1>3, <1>9 DEF StepFails, LeaveJob, EndRound
<1>10. CASE WakeResumed(w, j)
  BY <1>10, ProceedMoves DEF WakeResumed
<1>11. CASE WakeCancelled(w, j)
  BY <1>2, <1>3, <1>11 DEF WakeCancelled, LeaveJob, EndRound
<1>. QED BY <1>4, <1>5, <1>6, <1>7, <1>8, <1>9, <1>10, <1>11 DEF WorkerRuns

(* The job a worker takes or goes on with is claimed. *)
LEMMA WorkerHolds ==
    ASSUME TypeOK, QueueInv, NEW w \in Workers, NEW j \in Jobs, WorkerRuns(w, j)
    PROVE  j \in claimed
<1>1. CASE job[w] = j
  BY <1>1 DEF QueueInv
<1>2. CASE Take(w, j)
  <2>1. Dequeue(w, j)
    BY <1>2 DEF Take, Dequeue, TypeOK, Busy, RunStates
  <2>. QED BY <2>1, DequeueFacts
<1>. QED BY <1>1, <1>2 DEF WorkerRuns, TakeWithoutAdapter, TakeProfileLocked, TakeAndOpen,
     PageReady, PageFails, StepDone, StepFails, WakeResumed, WakeCancelled, Continues

(* Until stop cancels the workers, a RUNNING job is held. *)
THEOREM RunningIsHeldCorrect == Spec => []RunningIsHeld
<1>1. Init => RunningIsHeld
  BY DEF Init, RunningIsHeld
<1>2. TypeOK /\ SlotInv /\ QueueInv /\ RunningIsHeld /\ [Next]_vars => RunningIsHeld'
  <2>. SUFFICES ASSUME TypeOK, SlotInv, QueueInv, RunningIsHeld, [Next]_vars
                PROVE  RunningIsHeld'
    OBVIOUS
  <2>. USE DEF claimVars, runVars, workerVars, RunningIsHeld
  <2>1. CASE Operator
    BY <2>1 DEF Operator, ApiCreateJob, UiQueueJob, CreateJob, Resume, Cancel, Pause,
       CreateSite, UpdateSite, DeleteSite, TypeOK
  <2>2. CASE Claiming
    BY <2>2 DEF Claiming, PollerClaim, SchedulerTick, TickClaim, Claim, TypeOK
  <2>3. ASSUME NEW w \in Workers, NEW j \in Jobs, WorkerRuns(w, j) PROVE RunningIsHeld'
    <3>1. j \in claimed /\ Underway(j)
      BY <2>3, WorkerHolds DEF SlotInv
    <3>2. PICK t \in Statuses : Moves(j, t)
      BY <2>3, <3>1, WorkerMoves
    <3>3. lifecycle' = lifecycle
      BY <2>3 DEF WorkerRuns, TakeWithoutAdapter, TakeProfileLocked, TakeAndOpen, Take,
         PageReady, PageFails, StepDone, StepFails, WakeResumed, WakeCancelled, Continues
    <3>. QED BY <3>1, <3>2, <3>3 DEF Moves, TypeOK
  <2>4. ASSUME NEW w \in Workers, WorkerStops(w) PROVE RunningIsHeld'
    BY <2>4 DEF WorkerStops, IdleWorkerStops, BusyWorkerStops, Cancelling
  <2>5. CASE Lifespan
    BY <2>5 DEF Lifespan, Start, StopBegins, StopCancels, StopReturns, StopRaises
  <2>6. CASE UNCHANGED vars
    BY <2>6 DEF vars
  <2>. QED BY <2>1, <2>2, <2>3, <2>4, <2>5, <2>6 DEF Next
<1>. QED BY <1>1, <1>2, TypeCorrect, SlotInvariant, QueueInvariant, PTL DEF Spec

-------------------------------------------------------------------------------
(* The promise of JobLifecycle.                                            *)

(* The Cardinality the abstract specification instantiates is the same one. *)
LEMMA SameCardinality == \A S : Lifecycle!Cardinality(S) = Cardinality(S)
BY DEF Lifecycle!Cardinality, Cardinality

(* A claim of the runner is a claim of the abstract specification: the     *)
(* site counter it read is the number of held jobs of the site.            *)
LEMMA ClaimAbstracts ==
    ASSUME TypeOK, SlotInv, NEW j \in Jobs, Claim(j)
    PROVE  Lifecycle!ClaimJob(j)
<1>1. Claimable(j) /\ SiteOf[j] \in Sites
  BY PayloadAssumption DEF Claim, IsNext
<1>2. siteActive[SiteOf[j]] < MaxSite
  BY <1>1, MaxSiteAssumption DEF Claimable, SitesAtCapacity, TypeOK
<1>3. Cardinality({k \in claimed : SiteOf[k] = SiteOf[j]}) < MaxSite
  BY <1>1, <1>2 DEF SlotInv, Claimed
<1>. QED BY <1>1, <1>3, SameCardinality DEF Claim, Claimable, Lifecycle!ClaimJob, Lifecycle!Move

(* Every step of the runner is a step or a stutter of JobLifecycle. *)
LEMMA StepsAbstract ==
    ASSUME TypeOK, SlotInv, QueueInv, [Next]_vars
    PROVE  [Lifecycle!LifecycleNext]_(Lifecycle!lifecycleVars)
<1>. USE DEF claimVars, runVars, workerVars, Lifecycle!LifecycleNext, Lifecycle!lifecycleVars
<1>1. CASE Operator
  <2>1. ASSUME NEW j \in Jobs, ApiCreateJob(j) \/ UiQueueJob(j)
        PROVE  Lifecycle!LifecycleNext
    BY <2>1 DEF ApiCreateJob, UiQueueJob, CreateJob, Lifecycle!Submit, Lifecycle!Move,
       Lifecycle!Absent
  <2>2. ASSUME NEW j \in Jobs, Cancel(j) \/ Pause(j)
        PROVE  Lifecycle!LifecycleNext
    BY <2>2, SameTable DEF Cancel, Pause, Lifecycle!OperatorMoves, Lifecycle!Move
  <2>3. ASSUME NEW j \in Jobs, Resume(j)
        PROVE  UNCHANGED <<status, claimed>>
    BY <2>3 DEF Resume
  <2>4. ASSUME NEW s \in Sites, CreateSite(s) \/ UpdateSite(s) \/ DeleteSite(s)
        PROVE  UNCHANGED <<status, claimed>>
    BY <2>4 DEF CreateSite, UpdateSite, DeleteSite
  <2>. QED BY <1>1, <2>1, <2>2, <2>3, <2>4 DEF Operator
<1>2. CASE Claiming
  <2>1. ASSUME NEW j \in Jobs, Claim(j) PROVE Lifecycle!LifecycleNext
    BY <2>1, ClaimAbstracts
  <2>. QED BY <1>2, <2>1 DEF Claiming, PollerClaim, SchedulerTick, TickClaim
<1>3. ASSUME NEW w \in Workers, NEW j \in Jobs, WorkerRuns(w, j)
      PROVE  Lifecycle!LifecycleNext
  <2>1. j \in claimed /\ Underway(j)
    BY <1>3, WorkerHolds DEF SlotInv
  <2>2. PICK t \in Statuses : Moves(j, t)
    BY <1>3, <2>1, WorkerMoves
  <2>3. Lifecycle!HolderMoves(j)
    BY <2>1, <2>2, SameTable DEF Moves, Lifecycle!HolderMoves, Lifecycle!Move
  <2>. QED BY <2>3
<1>4. ASSUME NEW w \in Workers, WorkerStops(w)
      PROVE  Lifecycle!LifecycleNext \/ UNCHANGED <<status, claimed>>
  <2>1. CASE IdleWorkerStops(w)
    BY <2>1 DEF IdleWorkerStops
  <2>2. ASSUME NEW j \in Jobs, BusyWorkerStops(w, j) PROVE Lifecycle!LifecycleNext
    <3>1. j \in claimed /\ Underway(j)
      BY <2>2 DEF BusyWorkerStops, QueueInv, SlotInv
    <3>2. status[j] \in Statuses /\ status' = [status EXCEPT ![j] = status[j]]
      BY <2>2, <3>1 DEF BusyWorkerStops, Underway, TypeOK
    <3>3. claimed' = claimed \ {j}
      BY <2>2, <3>1 DEF BusyWorkerStops, LeaveJob, EndRound, ReleaseSite
    <3>4. Lifecycle!HolderMoves(j)
      BY <3>1, <3>2, <3>3, SameTable, ReachesFacts DEF Lifecycle!HolderMoves, Lifecycle!Move
    <3>. QED BY <3>4
  <2>. QED BY <1>4, <2>1, <2>2 DEF WorkerStops
<1>5. CASE Lifespan
  BY <1>5 DEF Lifespan, Start, StopBegins, StopCancels, StopReturns, StopRaises
<1>6. CASE UNCHANGED vars
  BY <1>6 DEF vars
<1>. QED BY <1>1, <1>2, <1>3, <1>4, <1>5, <1>6 DEF Next

(* The runner implements JobLifecycle: a job is claimed at most once, a    *)
(* site holds at most MaxSite jobs, and a job that nothing holds only      *)
(* changes when the operator pauses or cancels it.                         *)
THEOREM LifecycleCorrect == Spec => LifecycleSpec
<1>1. Init => Lifecycle!LifecycleInit
  BY DEF Init, Lifecycle!LifecycleInit, Lifecycle!Absent
<1>2. TypeOK /\ SlotInv /\ QueueInv /\ [Next]_vars
        => [Lifecycle!LifecycleNext]_(Lifecycle!lifecycleVars)
  BY StepsAbstract
<1>. QED BY <1>1, <1>2, TypeCorrect, SlotInvariant, QueueInvariant, PTL
     DEF Spec, LifecycleSpec, Lifecycle!LifecycleSpec

-------------------------------------------------------------------------------
(* What JobLifecycleProofs shows of everything that implements the promise *)
(* holds of the runner.                                                    *)

Promise == INSTANCE JobLifecycleProofs WITH held <- claimed

(* The promise those theorems are about is the one the runner implements. *)
LEMMA SamePromise == Lifecycle!LifecycleSpec => Promise!LifecycleSpec
<1>. USE DEF Lifecycle!Absent, Promise!Absent, Lifecycle!Statuses, Promise!Statuses,
            Lifecycle!Waiting, Promise!Waiting, Lifecycle!Terminal, Promise!Terminal,
            Lifecycle!AllowedTransitions, Promise!AllowedTransitions, Lifecycle!CanTransition, Promise!CanTransition,
            Lifecycle!Cardinality, Promise!Cardinality, Lifecycle!Reaches, Promise!Reaches,
            Lifecycle!Move, Promise!Move, Lifecycle!Submit, Promise!Submit,
            Lifecycle!ClaimJob, Promise!ClaimJob, Lifecycle!OperatorMoves, Promise!OperatorMoves,
            Lifecycle!HolderMoves, Promise!HolderMoves, Lifecycle!lifecycleVars, Promise!lifecycleVars
<1>1. Lifecycle!LifecycleInit => Promise!LifecycleInit
  BY DEF Lifecycle!LifecycleInit, Promise!LifecycleInit
<1>2. Lifecycle!LifecycleNext => Promise!LifecycleNext
  BY DEF Lifecycle!LifecycleNext, Promise!LifecycleNext
<1>3. UNCHANGED Lifecycle!lifecycleVars => UNCHANGED Promise!lifecycleVars
  OBVIOUS
<1>. QED BY <1>1, <1>2, <1>3, PTL DEF Lifecycle!LifecycleSpec, Promise!LifecycleSpec

(* No step of a worker, of the operator or of stop takes a job out of      *)
(* SUCCEEDED, FAILED or CANCELLED (update_job of the memory repository).   *)
THEOREM TerminalIsFinal == Spec => [][Promise!TerminalKept]_(Promise!lifecycleVars)
BY LifecycleCorrect, SamePromise, Promise!TerminalIsFinal, PTL DEF LifecycleSpec

(* Only a queued job is claimed, and no job is ever queued again: each is  *)
(* claimed at most once (claim_next_queued, _claim_one).                   *)
THEOREM ClaimedAtMostOnce == Spec => [][Promise!ClaimedFromQueue]_(Promise!lifecycleVars)
BY LifecycleCorrect, SamePromise, Promise!ClaimedAtMostOnce, PTL DEF LifecycleSpec

(* A job succeeds or fails only while its slot is held, by the worker that *)
(* runs it (_run_job, and _release_site in _worker_loop's finally).        *)
THEOREM OutcomeIsHolders == Spec => [][Promise!OutcomeOfHolder]_(Promise!lifecycleVars)
BY LifecycleCorrect, SamePromise, Promise!OutcomeIsHolders, PTL DEF LifecycleSpec

-------------------------------------------------------------------------------
(* Checkpoints.                                                            *)

AtCheckpoint(w, j) == job[w] = j /\ pc[w] = "human"

(* What a checkpoint says about the status of its job. *)
Says(c, s) ==
    /\ c \in {"waiting", "resumed"} => s = "WAITING_HUMAN"
    /\ c = "cancelled" => s = "CANCELLED"

CheckpointInv ==
    \A j \in Jobs :
        /\ checkpoint[j] # "none" <=> \E w \in Workers : AtCheckpoint(w, j)
        /\ Says(checkpoint[j], status[j])

(* A worker that leaves its job leaves no checkpoint of it behind, and     *)
(* touches no other; so does one that goes on to a page operation.         *)
LEMMA WorkerClears ==
    ASSUME TypeOK, QueueInv, CheckpointInv, NEW w \in Workers, NEW j \in Jobs,
           job[w] \in {j, NoJob}, \A v \in Workers \ {w} : job[v] # j,
           pc'[w] # "human", job'[w] \in {j, NoJob},
           \A v \in Workers \ {w} : job'[v] = job[v] /\ pc'[v] = pc[v],
           checkpoint' = [checkpoint EXCEPT ![j] = "none"],
           \A i \in Jobs \ {j} : status'[i] = status[i]
    PROVE  CheckpointInv'
<1>2. checkpoint'[j] = "none" /\ \A i \in Jobs \ {j} : checkpoint'[i] = checkpoint[i]
  BY DEF TypeOK
<1>3. ASSUME NEW i \in Jobs
      PROVE  checkpoint'[i] # "none" <=> \E v \in Workers : AtCheckpoint(v, i)'
  <2>1. CASE i = j
    <3>1. \A v \in Workers : ~AtCheckpoint(v, j)'
      BY DEF AtCheckpoint
    <3>. QED BY <1>2, <2>1, <3>1
  <2>2. CASE i # j
    <3>1. ~AtCheckpoint(w, i) /\ ~AtCheckpoint(w, i)'
      BY <2>2, NoJobAssumption DEF AtCheckpoint
    <3>2. \A v \in Workers \ {w} : AtCheckpoint(v, i)' <=> AtCheckpoint(v, i)
      BY DEF AtCheckpoint
    <3>. QED BY <1>2, <2>2, <3>1, <3>2 DEF CheckpointInv
  <2>. QED BY <2>1, <2>2
<1>4. \A i \in Jobs : Says(checkpoint'[i], status'[i])
  BY <1>2 DEF CheckpointInv, Says
<1>. QED BY <1>3, <1>4 DEF CheckpointInv

(* A job that no worker has at a checkpoint has no checkpoint. *)
LEMMA NoCheckpoint ==
    ASSUME TypeOK, CheckpointInv, NEW j \in Jobs, \A v \in Workers : ~AtCheckpoint(v, j)
    PROVE  checkpoint = [checkpoint EXCEPT ![j] = "none"]
<1>1. checkpoint[j] = "none"
  BY DEF CheckpointInv
<1>. QED BY <1>1 DEF TypeOK

(* Suspending a worker changes no other. *)
LEMMA SuspendEffect ==
    ASSUME TypeOK, NEW w \in Workers, NEW p, NEW n, NEW k, Suspend(w, p, n, k)
    PROVE  /\ pc'[w] = p /\ job'[w] = n
           /\ \A v \in Workers \ {w} : job'[v] = job[v] /\ pc'[v] = pc[v]
BY DEF TypeOK, Suspend

(* Going on with the workflow keeps checkpoint and status in agreement. *)
LEMMA ProceedChecks ==
    ASSUME TypeOK, QueueInv, CheckpointInv, NEW w \in Workers, NEW j \in Jobs, NEW k,
           NEW st \in [Jobs -> Statuses \cup {Absent}],
           \A i \in Jobs \ {j} : st[i] = status[i], job[w] = j, Proceed(w, j, k, st)
    PROVE  CheckpointInv'
<1>. USE NoJobAssumption
<1>0. j \in claimed /\ \A v \in Workers \ {w} : job[v] # j
  BY DEF QueueInv, Busy
<1>1. CASE StepAt(SiteOf[j], k) = "page"
  <2>1. /\ Suspend(w, "step", j, k) /\ status' = st
        /\ checkpoint' = [checkpoint EXCEPT ![j] = "none"]
    BY <1>1 DEF Proceed
  <2>2. /\ job'[w] = j /\ pc'[w] = "step"
        /\ \A v \in Workers \ {w} : job'[v] = job[v] /\ pc'[v] = pc[v]
    BY <2>1, SuspendEffect
  <2>. QED BY <1>0, <2>1, <2>2, WorkerClears
<1>2. CASE StepAt(SiteOf[j], k) = "human" /\ CanTransition(st[j], "WAITING_HUMAN")
  <2>1. /\ Suspend(w, "human", j, k) /\ status' = [st EXCEPT ![j] = "WAITING_HUMAN"]
        /\ checkpoint' = [checkpoint EXCEPT ![j] = "waiting"]
    BY <1>2 DEF Proceed
  <2>2. /\ job'[w] = j /\ pc'[w] = "human"
        /\ \A v \in Workers \ {w} : job'[v] = job[v] /\ pc'[v] = pc[v]
    BY <2>1, SuspendEffect
  <2>3. /\ checkpoint'[j] = "waiting" /\ status'[j] = "WAITING_HUMAN"
        /\ \A i \in Jobs \ {j} : checkpoint'[i] = checkpoint[i] /\ status'[i] = status[i]
    BY <2>1 DEF TypeOK
  <2>4. ASSUME NEW i \in Jobs
        PROVE  checkpoint'[i] # "none" <=> \E v \in Workers : AtCheckpoint(v, i)'
    <3>1. CASE i = j
      BY <2>2, <2>3, <3>1 DEF AtCheckpoint
    <3>2. CASE i # j
      BY <2>2, <2>3, <3>2 DEF AtCheckpoint, CheckpointInv
    <3>. QED BY <3>1, <3>2
  <2>. QED BY <2>3, <2>4 DEF CheckpointInv, Says
<1>3. CASE LeaveJob(w, j) /\ checkpoint' = [checkpoint EXCEPT ![j] = "none"]
           /\ (status' = st \/ status' = SafeUpdate(st, j, "SUCCEEDED"))
  <2>1. /\ job'[w] = NoJob /\ pc'[w] = NextRound /\ NextRound # "human"
        /\ \A v \in Workers \ {w} : job'[v] = job[v] /\ pc'[v] = pc[v]
    BY <1>3, SuspendEffect DEF LeaveJob, EndRound, NextRound
  <2>2. \A i \in Jobs \ {j} : status'[i] = status[i]
    BY <1>3 DEF SafeUpdate
  <2>. QED BY <1>0, <1>3, <2>1, <2>2, WorkerClears
<1>. QED BY <1>1, <1>2, <1>3 DEF Proceed

(* A worker step keeps checkpoint and status in agreement. *)
LEMMA WorkerRunsChecks ==
    ASSUME TypeOK, QueueInv, CheckpointInv, NEW w \in Workers, NEW j \in Jobs, WorkerRuns(w, j)
    PROVE  CheckpointInv'
<1>. USE NoJobAssumption DEF TypeOK
<1>1. ASSUME Take(w, j), pc'[w] # "human", job'[w] \in {j, NoJob},
             \A v \in Workers \ {w} : job'[v] = job[v] /\ pc'[v] = pc[v],
             \A i \in Jobs \ {j} : status'[i] = status[i]
      PROVE  CheckpointInv'
  <2>1. Dequeue(w, j)
    BY <1>1 DEF Take, Dequeue, Busy, RunStates
  <2>2. j \in claimed /\ job[w] = NoJob /\ \A v \in Workers : job[v] # j
    BY <2>1, DequeueFacts DEF Dequeue
  <2>3. checkpoint' = [checkpoint EXCEPT ![j] = "none"]
    BY <1>1, <2>2, NoCheckpoint DEF Take, AtCheckpoint
  <2>. QED BY <1>1, <2>2, <2>3, WorkerClears
<1>2. ASSUME job[w] = j, EndRound(w, j), NEW t, status' = SafeUpdate(status, j, t),
             checkpoint' = [checkpoint EXCEPT ![j] = "none"]
      PROVE  CheckpointInv'
  <2>1. /\ job'[w] = NoJob /\ pc'[w] = NextRound /\ NextRound # "human"
        /\ \A v \in Workers \ {w} : job'[v] = job[v] /\ pc'[v] = pc[v]
    BY <1>2, SuspendEffect DEF EndRound, NextRound
  <2>2. \A i \in Jobs \ {j} : status'[i] = status[i]
    BY <1>2 DEF SafeUpdate
  <2>3. j \in claimed /\ \A v \in Workers \ {w} : job[v] # j
    BY <1>2 DEF QueueInv, Busy
  <2>. QED BY <1>2, <2>1, <2>2, <2>3, WorkerClears
<1>3. ASSUME job[w] = j, pc[w] # "human"
      PROVE  checkpoint = [checkpoint EXCEPT ![j] = "none"]
  <2>1. \A v \in Workers : ~AtCheckpoint(v, j)
    BY <1>3 DEF AtCheckpoint, QueueInv, Busy
  <2>. QED BY <2>1, NoCheckpoint
<1>5. CASE TakeWithoutAdapter(w, j) \/ TakeProfileLocked(w, j)
  <2>1. Suspend(w, NextRound, NoJob, 0) \/ Suspend(w, "dead", NoJob, 0)
    BY <1>5 DEF TakeWithoutAdapter, TakeProfileLocked, EndRound
  <2>2. /\ pc'[w] # "human" /\ job'[w] = NoJob
        /\ \A v \in Workers \ {w} : job'[v] = job[v] /\ pc'[v] = pc[v]
    BY <2>1, SuspendEffect DEF NextRound
  <2>3. Take(w, j) /\ \A i \in Jobs \ {j} : status'[i] = status[i]
    BY <1>5 DEF TakeWithoutAdapter, TakeProfileLocked, SafeUpdate
  <2>. QED BY <1>1, <2>2, <2>3
<1>6. CASE TakeAndOpen(w, j)
  <2>1. /\ pc'[w] # "human" /\ job'[w] = j
        /\ \A v \in Workers \ {w} : job'[v] = job[v] /\ pc'[v] = pc[v]
    BY <1>6, SuspendEffect DEF TakeAndOpen
  <2>. QED BY <1>1, <1>6, <2>1 DEF TakeAndOpen
<1>7. CASE PageReady(w, j) \/ StepDone(w, j)
  BY <1>7, ProceedChecks DEF PageReady, StepDone, Continues
<1>8. CASE PageFails(w, j) \/ StepFails(w, j)
  BY <1>2, <1>3, <1>8 DEF PageFails, StepFails, Continues, LeaveJob
<1>9. CASE WakeResumed(w, j)
  <2>. DEFINE st == [status EXCEPT ![j] = "RUNNING"]
  <2>1. /\ st \in [Jobs -> Statuses \cup {Absent}]
        /\ \A i \in Jobs \ {j} : st[i] = status[i]
    OBVIOUS
  <2>2. job[w] = j /\ Proceed(w, j, step[w] + 1, st)
    BY <1>9 DEF WakeResumed, Continues
  <2>. HIDE DEF st
  <2>. QED BY <2>1, <2>2, ProceedChecks
<1>10. CASE WakeCancelled(w, j)
  BY <1>2, <1>10 DEF WakeCancelled, Continues, LeaveJob
<1>. QED BY <1>5, <1>6, <1>7, <1>8, <1>9, <1>10 DEF WorkerRuns

(* Checkpoints and statuses agree after every step. *)
LEMMA CheckpointInvInductive ==
    ASSUME TypeOK, SlotInv, QueueInv, CheckpointInv, Fresh, [Next]_vars
    PROVE  CheckpointInv'
<1>. USE DEF claimVars, runVars, workerVars
<1>0. \A j \in Jobs : checkpoint[j] # "none" => Underway(j)
  BY DEF CheckpointInv, AtCheckpoint, QueueInv, SlotInv
<1>1. ASSUME UNCHANGED <<job, pc>>,
             NEW j \in Jobs, checkpoint'[j] # "none" <=> checkpoint[j] # "none",
             Says(checkpoint'[j], status'[j]),
             \A i \in Jobs \ {j} : checkpoint'[i] = checkpoint[i] /\ status'[i] = status[i]
      PROVE  CheckpointInv'
  <2>1. \A i \in Jobs : checkpoint'[i] # "none" <=> checkpoint[i] # "none"
    BY <1>1
  <2>2. \A i \in Jobs : Says(checkpoint'[i], status'[i])
    BY <1>1 DEF CheckpointInv
  <2>. QED BY <1>1, <2>1, <2>2 DEF CheckpointInv, AtCheckpoint
<1>2. CASE UNCHANGED <<job, pc, checkpoint, status>>
  BY <1>2 DEF CheckpointInv, AtCheckpoint
<1>3. CASE Operator
  <2>1. ASSUME NEW j \in Jobs, CreateJob(j) PROVE CheckpointInv'
    <3>1. checkpoint[j] = "none"
      BY <1>0, <2>1 DEF CreateJob, Underway
    <3>. QED BY <1>1, <2>1, <3>1 DEF CreateJob, Says, TypeOK
  <2>2. ASSUME NEW j \in Jobs, Resume(j) PROVE CheckpointInv'
    BY <1>1, <2>2 DEF Resume, Says, CheckpointInv, TypeOK
  <2>3. ASSUME NEW j \in Jobs, Cancel(j) PROVE CheckpointInv'
    BY <1>1, <2>3 DEF Cancel, Says, TypeOK
  <2>4. ASSUME NEW j \in Jobs, Pause(j) PROVE CheckpointInv'
    <3>1. checkpoint[j] = "none"
      BY <2>4 DEF Pause, CheckpointInv, Says, TypeOK
    <3>. QED BY <1>1, <2>4, <3>1 DEF Pause, Says, TypeOK
  <2>. QED BY <1>2, <1>3, <2>1, <2>2, <2>3, <2>4
       DEF Operator, ApiCreateJob, UiQueueJob, CreateSite, UpdateSite, DeleteSite
<1>4. CASE Claiming
  <2>1. ASSUME NEW j \in Jobs, Claim(j), UNCHANGED <<job, pc, checkpoint>> PROVE CheckpointInv'
    <3>1. checkpoint[j] = "none"
      BY <1>0, <2>1 DEF Claim, IsNext, Claimable, Underway
    <3>. QED BY <1>1, <2>1, <3>1 DEF Claim, Says, TypeOK
  <2>. QED BY <1>2, <1>4, <2>1 DEF Claiming, PollerClaim, SchedulerTick, TickClaim
<1>5. ASSUME NEW w \in Workers, NEW j \in Jobs, WorkerRuns(w, j) PROVE CheckpointInv'
  BY <1>5, WorkerRunsChecks
<1>6. ASSUME NEW w \in Workers, WorkerStops(w) PROVE CheckpointInv'
  <2>1. CASE IdleWorkerStops(w)
    <3>1. \A v \in Workers : pc'[v] = "human" <=> pc[v] = "human"
      BY <2>1 DEF IdleWorkerStops, TypeOK
    <3>. QED BY <2>1, <3>1 DEF IdleWorkerStops, CheckpointInv, AtCheckpoint
  <2>2. ASSUME NEW j \in Jobs, BusyWorkerStops(w, j) PROVE CheckpointInv'
    <3>1. /\ job'[w] = NoJob /\ pc'[w] # "human"
          /\ \A v \in Workers \ {w} : job'[v] = job[v] /\ pc'[v] = pc[v]
      BY <2>2, SuspendEffect DEF BusyWorkerStops, LeaveJob, EndRound, NextRound
    <3>2. job[w] = j /\ \A v \in Workers \ {w} : job[v] # j
      BY <2>2, NoJobAssumption DEF BusyWorkerStops, QueueInv, Busy
    <3>. QED BY <2>2, <3>1, <3>2, WorkerClears DEF BusyWorkerStops
  <2>. QED BY <1>6, <2>1, <2>2 DEF WorkerStops
<1>7. CASE Start
  <2>1. \A v \in Workers, j \in Jobs : ~AtCheckpoint(v, j) /\ ~AtCheckpoint(v, j)'
    BY <1>7, NoJobAssumption DEF Start, Fresh, AtCheckpoint
  <2>. QED BY <1>7, <2>1 DEF Start, CheckpointInv
<1>8. CASE StopBegins \/ StopCancels \/ StopReturns \/ StopRaises
  BY <1>2, <1>8 DEF StopBegins, StopCancels, StopReturns, StopRaises
<1>9. CASE UNCHANGED vars
  BY <1>2, <1>9 DEF vars
<1>. QED BY <1>3, <1>4, <1>5, <1>6, <1>7, <1>8, <1>9 DEF Next, Lifespan

(* Checkpoints and statuses agree in every reachable state. *)
LEMMA CheckpointInvariant == Spec => []CheckpointInv
<1>1. Init => CheckpointInv
  BY NoJobAssumption DEF Init, CheckpointInv, AtCheckpoint, Says
<1>2. TypeOK /\ SlotInv /\ QueueInv /\ Fresh /\ CheckpointInv /\ [Next]_vars => CheckpointInv'
  BY CheckpointInvInductive
<1>. QED BY <1>1, <1>2, SlotInvariant, QueueInvariant, BehaviourRuns, PTL DEF Spec

(* No resume or cancel of a waiting job is lost: the checkpoint is there   *)
(* exactly while the worker waits, and agrees with the status.             *)
THEOREM CheckpointAgreesCorrect == Spec => []CheckpointAgrees
<1>1. CheckpointInv => CheckpointAgrees
  BY DEF CheckpointInv, AtCheckpoint, Says, CheckpointAgrees, Running
<1>. QED BY <1>1, CheckpointInvariant, PTL

-------------------------------------------------------------------------------
(* What becomes of a worker.  The one step that ends a worker is to find   *)
(* the profile of its job in use when the job may not fail any more.       *)

(* No two jobs share a profile. *)
ProfilesApart == \A i, j \in Jobs : ProfileOf[i] = ProfileOf[j] => i = j

(* A job in the queue was claimed; since then the operator can have paused *)
(* or cancelled it, and nothing else.                                      *)
QueuedAlive ==
    \A i \in 1 .. Len(queue) : status[queue[i]] \in {"RUNNING", "WAITING_HUMAN", "CANCELLED"}

(* Only a worker whose job has its profile in use is ever lost. *)
LEMMA LossIsTake ==
    ASSUME TypeOK, [Next]_vars, NEW w \in Workers, pc[w] # "dead", pc'[w] = "dead"
    PROVE  \E j \in Jobs : TakeProfileLocked(w, j) /\ ~CanTransition(status[j], "FAILED")
<1>. USE DEF claimVars, runVars, workerVars, TypeOK
<1>1. CASE Operator \/ Claiming
  BY <1>1 DEF Operator, ApiCreateJob, UiQueueJob, CreateJob, Resume, Cancel, Pause,
     CreateSite, UpdateSite, DeleteSite, Claiming, PollerClaim, SchedulerTick, TickClaim
<1>2. ASSUME NEW v \in Workers, NEW j \in Jobs, WorkerRuns(v, j)
      PROVE  TakeProfileLocked(w, j) /\ ~CanTransition(status[j], "FAILED")
  <2>1. ASSUME NEW p, NEW n, NEW k, Suspend(v, p, n, k) PROVE v = w /\ p = "dead"
    BY <2>1 DEF Suspend
  <2>2. NextRound # "dead"
    BY DEF NextRound
  <2>3. ~EndRound(v, j) /\ ~LeaveJob(v, j)
    BY <2>1, <2>2 DEF EndRound, LeaveJob
  <2>4. \A k, st : ~Proceed(v, j, k, st)
    BY <2>1, <2>3 DEF Proceed
  <2>5. TakeProfileLocked(v, j)
    BY <1>2, <2>1, <2>3, <2>4 DEF WorkerRuns, TakeWithoutAdapter, TakeAndOpen, PageReady,
       PageFails, StepDone, StepFails, WakeResumed, WakeCancelled
  <2>. QED BY <2>1, <2>3, <2>5 DEF TakeProfileLocked
<1>3. ASSUME NEW v \in Workers, WorkerStops(v) PROVE FALSE
  BY <1>3 DEF WorkerStops, IdleWorkerStops, BusyWorkerStops, LeaveJob, EndRound, Suspend, NextRound
<1>4. CASE Lifespan
  BY <1>4 DEF Lifespan, Start, StopBegins, StopCancels, StopReturns, StopRaises
<1>5. CASE UNCHANGED vars
  BY <1>5 DEF vars
<1>. QED BY <1>1, <1>2, <1>3, <1>4, <1>5 DEF Next

(* The job such a worker took is the head of the queue, no worker has it,  *)
(* and another worker has a job of its profile.                            *)
LEMMA LockedTakeFacts ==
    ASSUME TypeOK, QueueInv, ProfileInv, NEW w \in Workers, NEW j \in Jobs,
           TakeProfileLocked(w, j)
    PROVE  /\ queue # <<>> /\ j = Head(queue) /\ Len(queue) >= 1 /\ queue[1] = j
           /\ \A v \in Workers : job[v] # j
           /\ \E v \in Workers \ {w} : Busy(v) /\ ProfileOf[job[v]] = ProfileOf[j]
<1>1. Dequeue(w, j)
  BY DEF TakeProfileLocked, Take, Dequeue, TypeOK, Busy, RunStates
<1>2. PICK v \in Workers : Busy(v) /\ ProfileOf[job[v]] = ProfileOf[j]
  BY DEF TakeProfileLocked, ProfileInv
<1>3. v # w
  BY <1>1, <1>2 DEF Dequeue, Busy
<1>. QED BY <1>1, <1>2, <1>3, DequeueFacts DEF Dequeue

(* The statuses of queued jobs change only by pause and cancel. *)
LEMMA QueuedAliveInductive ==
    ASSUME TypeOK, SlotInv, QueueInv, QueuedAlive, [Next]_vars
    PROVE  QueuedAlive'
<1>. USE DEF claimVars, runVars, workerVars, QueuedAlive
<1>0. Len(queue) \in Nat /\ \A i \in 1 .. Len(queue) : queue[i] \in Jobs
  BY DEF TypeOK
<1>1. CASE Operator
  <2>1. ASSUME NEW j \in Jobs, CreateJob(j) PROVE QueuedAlive'
    BY <1>0, <2>1 DEF CreateJob, TypeOK
  <2>2. ASSUME NEW j \in Jobs, Cancel(j) \/ Pause(j) PROVE QueuedAlive'
    BY <1>0, <2>2 DEF Cancel, Pause, TypeOK
  <2>. QED BY <1>1, <2>1, <2>2
       DEF Operator, ApiCreateJob, UiQueueJob, Resume, CreateSite, UpdateSite, DeleteSite
<1>2. CASE Claiming
  <2>1. ASSUME NEW j \in Jobs, Claim(j) PROVE QueuedAlive'
    <3>1. /\ Len(queue') = Len(queue) + 1 /\ queue'[Len(queue) + 1] = j
          /\ \A i \in 1 .. Len(queue) : queue'[i] = queue[i]
      BY <2>1, AppendProperties DEF Claim, TypeOK
    <3>2. status'[j] = "RUNNING" /\ \A k \in Jobs \ {j} : status'[k] = status[k]
      BY <2>1 DEF Claim, TypeOK
    <3>3. \A i \in 1 .. Len(queue') : i \in 1 .. Len(queue) \/ i = Len(queue) + 1
      BY <1>0, <3>1
    <3>. QED BY <1>0, <3>1, <3>2, <3>3
  <2>. QED BY <1>2, <2>1 DEF Claiming, PollerClaim, SchedulerTick, TickClaim
<1>3. ASSUME NEW w \in Workers, NEW j \in Jobs, WorkerRuns(w, j) PROVE QueuedAlive'
  <2>1. j \in claimed /\ Underway(j)
    BY <1>3, WorkerHolds DEF SlotInv
  <2>2. PICK t \in Statuses : Moves(j, t)
    BY <1>3, <2>1, WorkerMoves
  <2>3. \A k \in Jobs \ {j} : status'[k] = status[k]
    BY <2>2 DEF Moves, TypeOK
  <2>4. CASE Take(w, j)
    <3>1. Dequeue(w, j)
      BY <2>4 DEF Take, Dequeue, TypeOK, Busy, RunStates
    <3>2. \A i \in 1 .. Len(queue') :
            queue'[i] = queue[i + 1] /\ queue'[i] # j /\ i + 1 \in 1 .. Len(queue)
      BY <3>1, DequeueFacts
    <3>. QED BY <1>0, <2>3, <3>2
  <2>5. CASE job[w] = j /\ UNCHANGED queue
    <3>1. \A i \in 1 .. Len(queue) : queue[i] # j
      BY <2>5 DEF QueueInv
    <3>. QED BY <1>0, <2>3, <2>5, <3>1
  <2>. QED BY <1>3, <2>4, <2>5 DEF WorkerRuns, TakeWithoutAdapter, TakeProfileLocked,
       TakeAndOpen, PageReady, PageFails, StepDone, StepFails, WakeResumed, WakeCancelled, Continues
<1>4. ASSUME NEW w \in Workers, WorkerStops(w) PROVE QueuedAlive'
  BY <1>4 DEF WorkerStops, IdleWorkerStops, BusyWorkerStops
<1>5. CASE Lifespan
  BY <1>5 DEF Lifespan, Start, StopBegins, StopCancels, StopReturns, StopRaises
<1>6. CASE UNCHANGED vars
  BY <1>6 DEF vars
<1>. QED BY <1>1, <1>2, <1>3, <1>4, <1>5, <1>6 DEF Next

LEMMA QueuedAliveInvariant == Spec => []QueuedAlive
<1>1. Init => QueuedAlive
  <2>. SUFFICES ASSUME Init PROVE QueuedAlive
    OBVIOUS
  <2>1. Len(queue) = 0
    BY EmptySeq DEF Init
  <2>. QED BY <2>1 DEF QueuedAlive
<1>2. TypeOK /\ SlotInv /\ QueueInv /\ QueuedAlive /\ [Next]_vars => QueuedAlive'
  BY QueuedAliveInductive
<1>. QED BY <1>1, <1>2, TypeCorrect, SlotInvariant, QueueInvariant, PTL DEF Spec

(* What it takes to lose a worker, whatever the jobs, profiles and         *)
(* workers: a job cancelled in the queue behind another of its profile     *)
(* (_run_job's update to FAILED, which is not the safe one).  No other     *)
(* request, failure or order of steps ends a worker's loop.                *)
THEOREM WorkersLostOnlyByCancelCorrect == Spec => WorkersLostOnlyByCancel
<1>1. TypeOK /\ QueueInv /\ ProfileInv /\ QueuedAlive /\ [Next]_vars => LostByCancel
  <2>. SUFFICES ASSUME TypeOK, QueueInv, ProfileInv, QueuedAlive, [Next]_vars,
                       NEW w \in Workers, pc[w] # "dead", pc'[w] = "dead"
                PROVE  /\ queue # <<>> /\ status[Head(queue)] = "CANCELLED"
                       /\ \E v \in Workers \ {w} :
                             Busy(v) /\ ProfileOf[job[v]] = ProfileOf[Head(queue)]
    BY DEF LostByCancel
  <2>1. PICK j \in Jobs : TakeProfileLocked(w, j) /\ ~CanTransition(status[j], "FAILED")
    BY LossIsTake
  <2>2. /\ queue # <<>> /\ j = Head(queue) /\ Len(queue) >= 1 /\ queue[1] = j
        /\ \E v \in Workers \ {w} : Busy(v) /\ ProfileOf[job[v]] = ProfileOf[j]
    BY <2>1, LockedTakeFacts
  <2>3. status[j] \in {"RUNNING", "WAITING_HUMAN", "CANCELLED"}
    BY <2>2 DEF QueuedAlive, TypeOK
  <2>4. status[j] = "CANCELLED"
    BY <2>1, <2>3 DEF CanTransition, AllowedTransitions
  <2>. QED BY <2>2, <2>4
<1>. QED BY <1>1, TypeCorrect, QueueInvariant, ProfileInvariant, QueuedAliveInvariant, PTL
     DEF Spec, WorkersLostOnlyByCancel

(* What the code's comment promises holds where no two jobs share a        *)
(* profile: no worker ever ends with an exception (_safe_update_status).   *)
THEOREM WorkersSurviveApart ==
    ASSUME ProfilesApart
    PROVE  Spec => []WorkersSurvive
<1>1. Init => WorkersSurvive
  BY DEF Init, WorkersSurvive
<1>2. TypeOK /\ QueueInv /\ ProfileInv /\ WorkersSurvive /\ [Next]_vars => WorkersSurvive'
  <2>. SUFFICES ASSUME TypeOK, QueueInv, ProfileInv, WorkersSurvive, [Next]_vars,
                       NEW w \in Workers, pc'[w] = "dead"
                PROVE  FALSE
    BY DEF WorkersSurvive
  <2>1. PICK j \in Jobs : TakeProfileLocked(w, j)
    BY LossIsTake DEF WorkersSurvive
  <2>2. PICK v \in Workers : Busy(v) /\ ProfileOf[job[v]] = ProfileOf[j] /\ job[v] # j
    BY <2>1, LockedTakeFacts
  <2>3. job[v] \in Jobs
    BY <2>2 DEF TypeOK, Busy
  <2>. QED BY <2>2, <2>3, ProfilesApart DEF ProfilesApart
<1>. QED BY <1>1, <1>2, TypeCorrect, QueueInvariant, ProfileInvariant, PTL DEF Spec

-------------------------------------------------------------------------------
(* What stop leaves behind.                                                *)

AllOff == lifecycle = "stopped" => \A w \in Workers : pc[w] = "off"

(* Once stop has returned, no worker has a job, no profile is locked, no   *)
(* checkpoint is left, and a slot is held only for a job that was claimed  *)
(* and never taken from the queue.                                         *)
StopLeaves ==
    lifecycle = "stopped" =>
        /\ \A w \in Workers : pc[w] = "off" /\ ~Busy(w)
        /\ locked = {}
        /\ claimed = Queued
        /\ \A j \in Jobs : checkpoint[j] = "none"

(* stop leaves nothing of its workers behind, wherever each of them was    *)
(* when it was cancelled: no job, lock, checkpoint or slot.  A tick that   *)
(* claims only after stop has returned puts its job in a queue nobody      *)
(* serves, and disturbs nothing else (stop, _run_job, _worker_loop).       *)
THEOREM StopLeavesNothing == Spec => []StopLeaves
<1>1. Init => AllOff
  BY DEF Init, AllOff
<1>2. AllOff /\ [Next]_vars => AllOff'
  <2>. SUFFICES ASSUME AllOff, [Next]_vars PROVE AllOff'
    OBVIOUS
  <2>. USE DEF claimVars, runVars, workerVars, AllOff
  <2>1. CASE Operator
    BY <2>1 DEF Operator, ApiCreateJob, UiQueueJob, CreateJob, Resume, Cancel, Pause,
       CreateSite, UpdateSite, DeleteSite
  <2>2. CASE Claiming
    BY <2>2 DEF Claiming, PollerClaim, SchedulerTick, TickClaim
  <2>3. ASSUME NEW w \in Workers, NEW j \in Jobs, WorkerRuns(w, j) PROVE AllOff'
    BY <2>3 DEF WorkerRuns, TakeWithoutAdapter, TakeProfileLocked, TakeAndOpen, Take, PageReady,
       PageFails, StepDone, StepFails, WakeResumed, WakeCancelled, Continues, Accepting
  <2>4. ASSUME NEW w \in Workers, WorkerStops(w) PROVE AllOff'
    BY <2>4 DEF WorkerStops, IdleWorkerStops, BusyWorkerStops, Cancelling
  <2>5. CASE Lifespan
    BY <2>5 DEF Lifespan, Start, StopBegins, StopCancels, StopReturns, StopRaises
  <2>6. CASE UNCHANGED vars
    BY <2>6 DEF vars
  <2>. QED BY <2>1, <2>2, <2>3, <2>4, <2>5, <2>6 DEF Next
<1>3. TypeOK /\ AllOff /\ ProfileInv /\ QueueInv /\ CheckpointInv => StopLeaves
  <2>. SUFFICES ASSUME TypeOK, AllOff, ProfileInv, QueueInv, CheckpointInv, lifecycle = "stopped"
                PROVE  /\ \A w \in Workers : pc[w] = "off" /\ ~Busy(w)
                       /\ locked = {}
                       /\ claimed = Queued
                       /\ \A j \in Jobs : checkpoint[j] = "none"
    BY DEF StopLeaves
  <2>1. \A w \in Workers : pc[w] = "off" /\ ~Busy(w)
    BY DEF AllOff, TypeOK, RunStates
  <2>2. locked = {}
    BY <2>1 DEF ProfileInv
  <2>3. claimed = Queued
    <3>1. \A j \in Jobs : j \in claimed <=> \E i \in 1 .. Len(queue) : queue[i] = j
      BY <2>1, NoJobAssumption DEF QueueInv, Busy
    <3>. QED BY <3>1 DEF Queued, TypeOK
  <2>4. \A j \in Jobs : checkpoint[j] = "none"
    BY <2>1 DEF CheckpointInv, AtCheckpoint
  <2>. QED BY <2>1, <2>2, <2>3, <2>4
<1>. QED BY <1>1, <1>2, <1>3, TypeCorrect, ProfileInvariant, QueueInvariant,
     CheckpointInvariant, PTL DEF Spec

===============================================================================
