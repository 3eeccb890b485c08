-------------------------- MODULE SupabaseJobsProofs --------------------------
(***************************************************************************)
(* Theorems about SupabaseJobs, for any number of jobs, workers and        *)
(* requests, and whatever goes wrong.                                      *)
(***************************************************************************)
EXTENDS SupabaseJobs, SequenceTheorems, FiniteSetTheorems, TLAPS

Stages == {"none", "read", "write", "log"}

Resting == {"idle", "dead"}

Places == {"idle", "dead", "assigned", "working", "waiting", "asked"} \cup Updating

(* The part of TypeOK that is about tasks. *)
TaskTypes ==
    /\ at \in [Tasks -> Places]
    /\ stage \in [Tasks -> Stages]
    /\ \A t \in Tasks : stage[t] # "none" <=> at[t] \in Updating
    /\ job \in [Tasks -> Jobs \cup {NoJob}]
    /\ \A t \in Tasks : job[t] = NoJob <=> at[t] \in Resting

CheckpointType == checkpoint \in [Jobs -> {"none", "waiting", "resumed", "cancelled"}]

RowType == row \in [Jobs -> Statuses \cup {Absent}]

(* Where the three kinds of tasks can be. *)
Roles ==
    /\ \A c \in Claimers : at[c] \in {"idle", "dead", "claiming"}
    /\ \A w \in Workers : at[w] \notin {"claiming", "asked"}
    /\ \A o \in Operators : at[o] \in {"idle", "asked", "cancelling", "pausing"}

(* The places of an update. *)
LEMMA UpdatingFacts ==
    Updating = {"claiming", "asking", "resuming", "succeeding", "pausing", "cancelling", "failing"}
BY DEF Updating, Target

(* No update asks for a job to be queued. *)
LEMMA TargetFacts ==
    \A place \in Updating :
        /\ Target[place] \in Statuses
        /\ Target[place] # "QUEUED"
        /\ Target[place] # Absent
        /\ Target[place] = "RUNNING" => place \in {"claiming", "resuming"}
BY UpdatingFacts DEF Target, Statuses, Waiting, Terminal, Absent

(* The kinds of tasks have no task in common. *)
LEMMA TaskFacts ==
    /\ Claimers \subseteq Tasks /\ Workers \subseteq Tasks /\ Operators \subseteq Tasks
    /\ Claimers \cap Workers = {} /\ Claimers \cap Operators = {} /\ Workers \cap Operators = {}
    /\ NoTask \notin Claimers /\ Poller \in Claimers /\ Tick \in Claimers
    /\ NoJob \notin Jobs
BY TasksAssumption, JobsAssumption DEF Claimers, Tasks, NoJob

(* A task that moves leaves every other task as it is. *)
LEMMA SuspendFacts ==
    ASSUME TaskTypes, NEW t \in Tasks, NEW place \in Places, NEW j \in Jobs \cup {NoJob},
           NEW s \in Stages,
           s # "none" <=> place \in Updating,
           j = NoJob <=> place \in Resting,
           Suspend(t, place, j, s)
    PROVE  /\ TaskTypes'
           /\ at'[t] = place /\ job'[t] = j /\ stage'[t] = s
           /\ \A d \in Tasks : d # t => at'[d] = at[d] /\ job'[d] = job[d] /\ stage'[d] = stage[d]
BY DEF TaskTypes, Suspend

-------------------------------------------------------------------------------
(* What a step does to the claims, the queue and the workers.              *)

FreshStatuses == {Absent, "QUEUED"}

KeepsFresh == \A j \in Jobs : row'[j] \in FreshStatuses => row[j] \in FreshStatuses

Others(t) ==
    \A d \in Workers \cup Claimers : d # t => job'[d] = job[d] /\ at'[d] = at[d]

Quiet ==
    /\ UNCHANGED <<queue, claimed, guard, started>>
    /\ \A d \in Workers \cup Claimers : job'[d] = job[d]
    /\ \A c \in Claimers : at'[c] = "claiming" <=> at[c] = "claiming"

ClaimBegins(c) ==
    /\ UNCHANGED <<queue, claimed, started>>
    /\ guard = NoTask /\ guard' = c /\ at'[c] = "claiming"
    /\ job'[c] \in Jobs /\ row[job'[c]] \in FreshStatuses
    /\ Others(c)

ClaimDone(c) ==
    /\ at[c] = "claiming" /\ stage[c] = "log" /\ at'[c] = "idle" /\ guard' = NoTask
    /\ queue' = Append(queue, job[c])
    /\ claimed' = claimed \cup {job[c]}
    /\ UNCHANGED started
    /\ Others(c)

ClaimDropped(c) ==
    /\ at[c] = "claiming" /\ at'[c] # "claiming" /\ guard' = NoTask
    /\ UNCHANGED <<queue, claimed, started>>
    /\ Others(c)

Taken(w) ==
    /\ queue # <<>> /\ queue' = Tail(queue)
    /\ started' = started \cup {Head(queue)}
    /\ job[w] = NoJob /\ job'[w] = Head(queue)
    /\ UNCHANGED <<claimed, guard>>
    /\ Others(w)

Left(w) ==
    /\ job[w] \in Jobs /\ job'[w] = NoJob
    /\ claimed' = claimed \ {job[w]}
    /\ UNCHANGED <<queue, guard, started>>
    /\ Others(w)

TaskStep ==
    \/ Quiet
    \/ \E c \in Claimers : ClaimBegins(c) \/ ClaimDone(c) \/ ClaimDropped(c)
    \/ \E w \in Workers : Taken(w) \/ Left(w)
    \/ Restarted /\ UNCHANGED started /\ faulty' = TRUE

(* A task that ends a call of update_job_status leaves the kinds of tasks  *)
(* and the types as they are, and its step is one of those above.          *)
LEMMA UpdateOverFacts ==
    ASSUME TypeOK, Roles, NEW t \in Tasks, at[t] \in Updating,
           NEW outcome \in {"done", "refused", "failed"}, outcome = "done" => stage[t] = "log",
           UpdateOver(t, outcome)
    PROVE  TaskTypes' /\ Roles' /\ CheckpointType' /\ TaskStep
<1> USE TaskFacts, UpdatingFacts
<1>0. TaskTypes /\ CheckpointType /\ job[t] \in Jobs
  BY DEF TypeOK, TaskTypes, CheckpointType, Places, Stages, Resting
<1>1. CASE t \in Claimers /\ ClaimOver(t, outcome)
  <2>1. PICK place \in {"idle", "dead"} :
            Suspend(t, place, NoJob, "none") /\ (outcome = "done" => place = "idle")
    BY <1>1 DEF ClaimOver
  <2>2. TaskTypes' /\ at'[t] = place
        /\ \A d \in Tasks : d # t => at'[d] = at[d] /\ job'[d] = job[d]
    BY <1>0, <2>1, SuspendFacts DEF Places, Stages, Resting
  <2>3. Roles'
    BY <1>1, <2>2 DEF Roles
  <2>4. CheckpointType'
    BY <1>0, <1>1 DEF ClaimOver, CheckpointType
  <2>5. ClaimDone(t) \/ ClaimDropped(t)
    BY <1>1, <2>1, <2>2 DEF ClaimOver, ClaimDone, ClaimDropped, Others
  <2>. QED BY <1>1, <2>2, <2>3, <2>4, <2>5 DEF TaskStep
<1>2. CASE t \in Operators /\ RequestOver(t)
  <2>1. TaskTypes' /\ at'[t] = "idle"
        /\ \A d \in Tasks : d # t => at'[d] = at[d] /\ job'[d] = job[d]
    BY <1>0, <1>2, SuspendFacts DEF RequestOver, Places, Stages, Resting
  <2>2. Roles' /\ CheckpointType'
    BY <1>0, <1>2, <2>1 DEF Roles, RequestOver, CheckpointType
  <2>3. Quiet
    BY <1>2, <2>1 DEF Quiet, RequestOver
  <2>. QED BY <2>1, <2>2, <2>3 DEF TaskStep
<1>3. ASSUME t \in Workers, NEW place \in Updating \ {"claiming"}, NextUpdate(t, place)
      PROVE  TaskTypes' /\ Roles' /\ CheckpointType' /\ TaskStep
  <2>1. TaskTypes' /\ at'[t] = place /\ job'[t] = job[t]
        /\ \A d \in Tasks : d # t => at'[d] = at[d] /\ job'[d] = job[d]
    BY <1>0, <1>3, SuspendFacts DEF NextUpdate, BeginUpdate, Places, Stages, Resting
  <2>2. Roles' /\ CheckpointType'
    BY <1>0, <1>3, <2>1 DEF Roles, NextUpdate, CheckpointType
  <2>3. Quiet
    BY <1>3, <2>1 DEF Quiet, NextUpdate
  <2>. QED BY <2>1, <2>2, <2>3 DEF TaskStep
<1>4. ASSUME t \in Workers, NEW place \in {"idle", "dead"}, LeaveJob(t, place)
      PROVE  TaskTypes' /\ Roles' /\ CheckpointType' /\ TaskStep
  <2>1. TaskTypes' /\ at'[t] = place /\ job'[t] = NoJob
        /\ \A d \in Tasks : d # t => at'[d] = at[d] /\ job'[d] = job[d]
    BY <1>0, <1>4, SuspendFacts DEF LeaveJob, Places, Stages, Resting
  <2>2. Roles' /\ CheckpointType'
    BY <1>0, <1>4, <2>1 DEF Roles, LeaveJob, CheckpointType
  <2>3. Left(t)
    BY <1>0, <1>4, <2>1 DEF Left, LeaveJob, Others
  <2>. QED BY <1>4, <2>1, <2>2, <2>3 DEF TaskStep
<1>5. CASE t \in Workers /\ AskingOver(t, outcome)
  <2>1. CASE outcome = "done"
    <3>1. /\ Suspend(t, "waiting", job[t], "none")
          /\ checkpoint' = [checkpoint EXCEPT ![job[t]] = "waiting"]
          /\ UNCHANGED <<queue, claimed, guard, started>>
      BY <1>5, <2>1 DEF AskingOver
    <3>2. TaskTypes' /\ at'[t] = "waiting" /\ job'[t] = job[t]
          /\ \A d \in Tasks : d # t => at'[d] = at[d] /\ job'[d] = job[d]
      BY <1>0, <3>1, SuspendFacts DEF Places, Stages, Resting
    <3>3. Roles' /\ CheckpointType'
      BY <1>0, <1>5, <3>1, <3>2 DEF Roles, CheckpointType
    <3>4. Quiet
      BY <1>5, <3>1, <3>2 DEF Quiet
    <3>. QED BY <3>2, <3>3, <3>4 DEF TaskStep
  <2>. QED BY <1>3, <1>5, <2>1 DEF AskingOver
<1>6. CASE t \in Workers /\ ResumingOver(t, outcome)
  BY <1>3, <1>6 DEF ResumingOver
<1>7. CASE t \in Workers /\ EngineOver(t, outcome)
  BY <1>3, <1>4, <1>7 DEF EngineOver
<1>8. CASE t \in Workers /\ FailingOver(t, outcome)
  BY <1>4, <1>8 DEF FailingOver
<1>. QED BY <1>1, <1>2, <1>5, <1>6, <1>7, <1>8 DEF UpdateOver

(* A write never makes a job new again. *)
LEMMA WrittenFacts ==
    ASSUME TypeOK, NEW t \in Tasks, at[t] \in Updating
    PROVE  /\ Written(t) \in [Jobs -> Statuses \cup {Absent}]
           /\ \A j \in Jobs : Written(t)[j] \in FreshStatuses => Written(t)[j] = row[j]
BY TargetFacts DEF TypeOK, Written, FreshStatuses

(* Every step keeps the kinds of tasks and the types, makes no job new     *)
(* again, and does one of the things above.                                *)
LEMMA StepKinds ==
    ASSUME TypeOK, Roles, [Next]_vars
    PROVE  TaskTypes' /\ Roles' /\ CheckpointType' /\ RowType' /\ KeepsFresh /\ TaskStep
<1> USE TaskFacts, UpdatingFacts
<1> DEFINE Sound == TaskTypes' /\ Roles' /\ CheckpointType' /\ RowType' /\ KeepsFresh /\ TaskStep
<1>0. TaskTypes /\ CheckpointType /\ RowType
  BY DEF TypeOK, TaskTypes, CheckpointType, RowType, Places, Stages, Resting
<1>1. ASSUME NEW j \in Jobs, CreateJob(j) PROVE Sound
  <2>1. RowType' /\ KeepsFresh
    BY <1>0, <1>1 DEF CreateJob, RowType, KeepsFresh, FreshStatuses, Statuses
  <2>2. Quiet /\ UNCHANGED <<taskVars, checkpoint>>
    BY <1>1 DEF CreateJob, Quiet, taskVars
  <2>. QED BY <1>0, <2>1, <2>2 DEF TaskStep, taskVars, TaskTypes, Roles, CheckpointType
<1>2. ASSUME NEW j \in Jobs, Resume(j) PROVE Sound
  <2>1. CheckpointType' /\ UNCHANGED <<row, taskVars>>
    BY <1>0, <1>2 DEF Resume, CheckpointType
  <2>2. Quiet
    BY <1>2 DEF Resume, Quiet, taskVars
  <2>. QED BY <1>0, <2>1, <2>2 DEF TaskStep, taskVars, TaskTypes, Roles, RowType, KeepsFresh
<1>3. ASSUME NEW o \in Operators, Asks(o) PROVE Sound
  <2>1. PICK place \in {"asked", "pausing"}, j \in Jobs, s \in {"none", "read"} :
            Suspend(o, place, j, s) /\ (s = "none" <=> place = "asked")
    BY <1>3 DEF Asks, CancelAsked, Pause, BeginUpdate
  <2>2. UNCHANGED <<row, queue, claimed, checkpoint, guard, started>>
    BY <1>3 DEF Asks, CancelAsked, Pause
  <2>3. TaskTypes' /\ at'[o] = place
        /\ \A d \in Tasks : d # o => at'[d] = at[d] /\ job'[d] = job[d]
    BY <1>0, <2>1, SuspendFacts DEF Places, Stages, Resting
  <2>4. Roles' /\ Quiet
    BY <2>2, <2>3 DEF Roles, Quiet
  <2>. QED BY <1>0, <2>2, <2>3, <2>4 DEF TaskStep, CheckpointType, RowType, KeepsFresh
<1>4. ASSUME NEW o \in Operators, CancelCheckpoint(o) PROVE Sound
  <2>1. job[o] \in Jobs
    BY <1>0, <1>4 DEF CancelCheckpoint, TaskTypes, Resting
  <2>2. TaskTypes' /\ at'[o] = "cancelling"
        /\ \A d \in Tasks : d # o => at'[d] = at[d] /\ job'[d] = job[d]
    BY <1>0, <1>4, <2>1, SuspendFacts DEF CancelCheckpoint, BeginUpdate, Places, Stages, Resting
  <2>3. Roles' /\ Quiet
    BY <1>4, <2>2 DEF Roles, Quiet, CancelCheckpoint
  <2>4. CheckpointType' /\ UNCHANGED row
    BY <1>0, <1>4 DEF CancelCheckpoint, CheckpointType
  <2>. QED BY <1>0, <2>2, <2>3, <2>4 DEF TaskStep, RowType, KeepsFresh
<1>5. ASSUME NEW c \in Claimers, NEW j \in Jobs, Query(c, j) PROVE Sound
  <2>1. TaskTypes' /\ at'[c] = "claiming" /\ job'[c] = j
        /\ \A d \in Tasks : d # c => at'[d] = at[d] /\ job'[d] = job[d]
    BY <1>0, <1>5, SuspendFacts DEF Query, BeginUpdate, Places, Stages, Resting
  <2>2. Roles'
    BY <2>1 DEF Roles
  <2>3. ClaimBegins(c)
    BY <1>5, <2>1 DEF Query, OldestQueued, ClaimBegins, FreshStatuses, Others
  <2>4. UNCHANGED <<row, checkpoint>>
    BY <1>5 DEF Query
  <2>. QED BY <1>0, <2>1, <2>2, <2>3, <2>4 DEF TaskStep, RowType, CheckpointType, KeepsFresh
<1>6. ASSUME NEW w \in Workers, Take(w) PROVE Sound
  <2>1. Head(queue) \in Jobs /\ job[w] = NoJob
    BY <1>0, <1>6 DEF Take, TypeOK, TaskTypes, Resting
  <2>2. TaskTypes' /\ at'[w] = "assigned" /\ job'[w] = Head(queue)
        /\ \A d \in Tasks : d # w => at'[d] = at[d] /\ job'[d] = job[d]
    BY <1>0, <1>6, <2>1, SuspendFacts DEF Take, Places, Stages, Resting
  <2>3. Roles'
    BY <2>2 DEF Roles
  <2>4. Taken(w)
    BY <1>6, <2>1, <2>2 DEF Take, Taken, Others
  <2>5. UNCHANGED <<row, checkpoint>>
    BY <1>6 DEF Take
  <2>. QED BY <1>0, <2>2, <2>3, <2>4, <2>5 DEF TaskStep, RowType, CheckpointType, KeepsFresh
<1>7. ASSUME NEW w \in Workers, NEW from \in Places \ Resting,
             NEW to \in Places \ {"claiming", "asked", "idle", "dead"},
             Goes(w, from, to), CheckpointType'
      PROVE  Sound
  <2>1. PICK s \in Stages : Suspend(w, to, job[w], s) /\ (s # "none" <=> to \in Updating)
    BY <1>7 DEF Goes, BeginUpdate, Stages
  <2>2. job[w] \in Jobs
    BY <1>0, <1>7 DEF Goes, TaskTypes, Resting
  <2>3. TaskTypes' /\ at'[w] = to /\ job'[w] = job[w]
        /\ \A d \in Tasks : d # w => at'[d] = at[d] /\ job'[d] = job[d]
    BY <1>0, <1>7, <2>1, <2>2, SuspendFacts DEF Resting
  <2>4. Roles'
    BY <1>7, <2>3 DEF Roles
  <2>5. Quiet /\ UNCHANGED row
    BY <1>7, <2>3 DEF Goes, Quiet
  <2>. QED BY <1>0, <1>7, <2>3, <2>4, <2>5 DEF TaskStep, RowType, KeepsFresh
<1>8. ASSUME NEW w \in Workers, Works(w) PROVE Sound
  <2>1. CheckpointType'
    <3>1. checkpoint' = checkpoint \/ checkpoint' = [checkpoint EXCEPT ![job[w]] = "none"]
      BY <1>8 DEF Works, Assigned, StepsDone, StepFails, PageFails, WakeResumed, WakeCancelled
    <3>. QED BY <1>0, <3>1 DEF CheckpointType
  <2>2. PICK from \in {"assigned", "working", "waiting"},
             to \in {"working", "asking", "succeeding", "pausing", "failing", "resuming",
                     "cancelling"} : Goes(w, from, to)
    BY <1>8 DEF Works, Assigned, StepsDone, StepFails, PageFails, WakeResumed, WakeCancelled
  <2>. QED BY <1>7, <2>1, <2>2 DEF Places, Resting
<1>9. ASSUME NEW w \in Workers, AssignedFails(w) PROVE Sound
  <2>1. job[w] \in Jobs
    BY <1>0, <1>9 DEF AssignedFails, TaskTypes, Resting
  <2>2. TaskTypes' /\ at'[w] = "dead" /\ job'[w] = NoJob
        /\ \A d \in Tasks : d # w => at'[d] = at[d] /\ job'[d] = job[d]
    BY <1>0, <1>9, SuspendFacts DEF AssignedFails, LeaveJob, Places, Stages, Resting
  <2>3. Roles' /\ Left(w)
    BY <1>9, <2>1, <2>2 DEF Roles, AssignedFails, LeaveJob, Left, Others
  <2>4. UNCHANGED <<row, checkpoint>>
    BY <1>9 DEF AssignedFails, LeaveJob
  <2>. QED BY <1>0, <2>2, <2>3, <2>4 DEF TaskStep, RowType, CheckpointType, KeepsFresh
<1>10. ASSUME NEW t \in Tasks, Update(t) \/ CallFails(t) PROVE Sound
  <2>1. at[t] \in Updating
    BY <1>0, <1>10 DEF Update, ReadsLegal, ReadsIllegal, Writes, Logs, CallFails, TaskTypes
  <2>2. RowType' /\ KeepsFresh
    <3>1. row' = row \/ row' = Written(t)
      BY <1>10 DEF Update, ReadsLegal, ReadsIllegal, Writes, Logs, CallFails
    <3>. QED BY <1>0, <2>1, <3>1, WrittenFacts DEF RowType, KeepsFresh
  <2>3. CASE ReadsLegal(t) \/ Writes(t)
    <3>1. PICK s \in {"write", "log"} : stage' = [stage EXCEPT ![t] = s]
      BY <2>3 DEF ReadsLegal, Writes
    <3>2. UNCHANGED <<at, job, queue, claimed, checkpoint, guard, started>>
      BY <2>3 DEF ReadsLegal, Writes
    <3>3. TaskTypes' /\ Roles' /\ CheckpointType'
      BY <1>0, <2>1, <3>1, <3>2 DEF TaskTypes, Roles, CheckpointType, Stages
    <3>4. Quiet
      BY <3>2 DEF Quiet
    <3>. QED BY <2>2, <3>3, <3>4 DEF TaskStep
  <2>4. CASE ReadsIllegal(t) \/ Logs(t) \/ CallFails(t)
    <3>1. PICK outcome \in {"done", "refused", "failed"} :
              UpdateOver(t, outcome) /\ (outcome = "done" => stage[t] = "log")
      BY <2>4 DEF ReadsIllegal, Logs, CallFails
    <3>. QED BY <2>1, <2>2, <3>1, UpdateOverFacts
  <2>. QED BY <1>10, <2>3, <2>4 DEF Update
<1>11. CASE QueryFails
  <2>1. TaskTypes' /\ at'[Poller] = "dead" /\ job'[Poller] = NoJob /\ job[Poller] = NoJob
        /\ \A d \in Tasks : d # Poller => at'[d] = at[d] /\ job'[d] = job[d]
    BY <1>0, <1>11, SuspendFacts DEF QueryFails, Places, Stages, Resting, TaskTypes
  <2>2. Roles' /\ Quiet
    BY <1>11, <2>1 DEF Roles, QueryFails, Quiet
  <2>3. UNCHANGED <<row, checkpoint>>
    BY <1>11 DEF QueryFails
  <2>. QED BY <1>0, <2>1, <2>2, <2>3 DEF TaskStep, RowType, CheckpointType, KeepsFresh
<1>12. CASE Crash /\ faulty' = TRUE
  <2>1. TaskTypes' /\ CheckpointType' /\ Roles'
    BY <1>12 DEF Crash, Restarted, TaskTypes, CheckpointType, Roles, Places, Stages, Resting
  <2>2. RowType'
    BY <1>12 DEF Crash, RowType
  <2>3. ASSUME NEW j \in Jobs, row'[j] \in FreshStatuses PROVE row[j] \in FreshStatuses
    <3>1. \/ row'[j] = row[j]
          \/ \E t \in Tasks : stage[t] = "write" /\ row'[j] = Written(t)[j]
      BY <1>12 DEF Crash
    <3>2. ASSUME NEW t \in Tasks, stage[t] = "write", row'[j] = Written(t)[j]
          PROVE  row[j] \in FreshStatuses
      <4>1. at[t] \in Updating
        BY <1>0, <3>2 DEF TaskTypes
      <4>. QED BY <2>3, <3>2, <4>1, WrittenFacts
    <3>. QED BY <2>3, <3>1, <3>2
  <2>4. TaskStep
    BY <1>12 DEF Crash, TaskStep
  <2>. QED BY <2>1, <2>2, <2>3, <2>4 DEF KeepsFresh
<1>13. CASE UNCHANGED vars
  <2>1. Quiet
    BY <1>13 DEF vars, stateVars, taskVars, Quiet
  <2>. QED BY <1>0, <1>13, <2>1
         DEF vars, stateVars, TaskTypes, Roles, CheckpointType, RowType, KeepsFresh, TaskStep
<1>. QED
  BY <1>1, <1>2, <1>3, <1>4, <1>5, <1>6, <1>8, <1>9, <1>10, <1>11, <1>12, <1>13 DEF Next, GoesWell, GoesWrong

(* A task that waits for the write of an update, or for what follows it,   *)
(* waited for it before.                                                   *)
NoNewCall == \A t \in Tasks :
    stage'[t] \in {"write", "log"} => stage'[t] = stage[t] /\ job'[t] = job[t] /\ at'[t] = at[t]

NoNewLog == \A t \in Tasks :
    stage'[t] = "log" => stage[t] = "log" /\ job'[t] = job[t] /\ at'[t] = at[t]

(* Task t goes elsewhere, and calls no write. *)
Moves(t) == \E place, j : \E s \in {"none", "read"} : Suspend(t, place, j, s)

(* A task that goes elsewhere has not written. *)
LEMMA SuspendLogs ==
    ASSUME TypeOK, NEW t \in Tasks, Moves(t)
    PROVE  NoNewCall /\ stage'[t] \in {"none", "read"}
BY DEF TypeOK, Suspend, NoNewCall, Moves

(* A task whose update is over goes elsewhere. *)
LEMMA OverMoves ==
    ASSUME NEW t \in Tasks, NEW outcome, UpdateOver(t, outcome)
    PROVE  Moves(t)
<1>1. CASE t \in Claimers /\ ClaimOver(t, outcome)
  BY <1>1 DEF ClaimOver, Moves
<1>2. CASE t \in Operators /\ RequestOver(t)
  BY <1>2 DEF RequestOver, Moves
<1>3. CASE AskingOver(t, outcome) \/ ResumingOver(t, outcome)
  BY <1>3 DEF AskingOver, ResumingOver, NextUpdate, BeginUpdate, Moves
<1>4. CASE EngineOver(t, outcome) \/ FailingOver(t, outcome)
  BY <1>4 DEF EngineOver, FailingOver, NextUpdate, BeginUpdate, LeaveJob, Moves
<1>. QED BY <1>1, <1>2, <1>3, <1>4 DEF UpdateOver

(* The write is called only after a legal read, and what follows it only   *)
(* after the write.                                                        *)
LEMMA CallFacts ==
    ASSUME TypeOK, [Next]_vars
    PROVE  NoNewCall \/ \E t \in Tasks : ReadsLegal(t) \/ Writes(t)
<1> USE TaskFacts
<1>1. ASSUME NEW t \in Tasks, Moves(t) PROVE NoNewCall
  BY <1>1, SuspendLogs
<1>2. ASSUME UNCHANGED taskVars PROVE NoNewCall
  BY <1>2 DEF NoNewCall, taskVars
<1>3. ASSUME NEW j \in Jobs, CreateJob(j) \/ Resume(j) PROVE NoNewCall
  <2>1. UNCHANGED taskVars
    BY <1>3 DEF CreateJob, Resume
  <2>. QED BY <1>2, <2>1
<1>4. ASSUME NEW o \in Operators, Asks(o) \/ CancelCheckpoint(o) PROVE NoNewCall
  <2>1. Moves(o)
    BY <1>4 DEF Asks, CancelAsked, Pause, CancelCheckpoint, BeginUpdate, Moves
  <2>. QED BY <1>1, <2>1
<1>5. ASSUME NEW c \in Claimers, NEW j \in Jobs, Query(c, j) PROVE NoNewCall
  <2>1. Moves(c)
    BY <1>5 DEF Query, BeginUpdate, Moves
  <2>. QED BY <1>1, <2>1
<1>6. ASSUME NEW w \in Workers, Take(w) \/ Works(w) \/ AssignedFails(w) PROVE NoNewCall
  <2>1. ASSUME NEW from, NEW to, Goes(w, from, to) PROVE Moves(w)
    BY <2>1 DEF Goes, BeginUpdate, Moves
  <2>2. ASSUME Take(w) PROVE Moves(w)
    BY <2>2 DEF Take, Moves
  <2>3. ASSUME AssignedFails(w) PROVE Moves(w)
    BY <2>3 DEF AssignedFails, LeaveJob, Moves
  <2>4. ASSUME Assigned(w) PROVE Moves(w)
    BY <2>1, <2>4 DEF Assigned
  <2>5. ASSUME StepsDone(w) PROVE Moves(w)
    BY <2>1, <2>5 DEF StepsDone
  <2>6. ASSUME StepFails(w) \/ PageFails(w) PROVE Moves(w)
    BY <2>1, <2>6 DEF StepFails, PageFails
  <2>7. ASSUME WakeResumed(w) \/ WakeCancelled(w) PROVE Moves(w)
    BY <2>1, <2>7 DEF WakeResumed, WakeCancelled
  <2>8. Moves(w)
    BY <1>6, <2>2, <2>3, <2>4, <2>5, <2>6, <2>7 DEF Works
  <2>. QED BY <1>1, <2>8
<1>7. ASSUME NEW t \in Tasks, Update(t) \/ CallFails(t)
      PROVE  NoNewCall \/ ReadsLegal(t) \/ Writes(t)
  <2>1. CASE ReadsIllegal(t) \/ Logs(t) \/ CallFails(t)
    <3>1. Moves(t)
      BY <2>1, OverMoves DEF ReadsIllegal, Logs, CallFails
    <3>. QED BY <1>1, <3>1
  <2>. QED BY <1>7, <2>1 DEF Update
<1>8. CASE QueryFails
  <2>1. Moves(Poller)
    BY <1>8 DEF QueryFails, Moves
  <2>. QED BY <1>1, <2>1
<1>9. CASE Crash
  BY <1>9 DEF Crash, Restarted, NoNewCall
<1>10. CASE UNCHANGED vars
  <2>1. UNCHANGED taskVars
    BY <1>10 DEF vars, stateVars, taskVars
  <2>. QED BY <1>2, <2>1
<1>. QED BY <1>3, <1>4, <1>5, <1>6, <1>7, <1>8, <1>9, <1>10 DEF Next, GoesWell, GoesWrong

(* Only a write leads to the last call of an update. *)
LEMMA LogFacts ==
    ASSUME TypeOK, [Next]_vars
    PROVE  NoNewLog \/ \E t \in Tasks : Writes(t)
<1>1. NoNewCall => NoNewLog
  BY DEF NoNewCall, NoNewLog
<1>2. ASSUME NEW t \in Tasks, ReadsLegal(t) PROVE NoNewLog
  BY <1>2 DEF ReadsLegal, NoNewLog, TypeOK
<1>. QED BY <1>1, <1>2, CallFacts

-------------------------------------------------------------------------------
(* Queues without repetitions.                                             *)

Elements(q) == {q[i] : i \in 1 .. Len(q)}

Distinct(q) == \A i, k \in 1 .. Len(q) : q[i] = q[k] => i = k

(* A new job at the end adds its name and no repetition. *)
LEMMA AppendFacts ==
    ASSUME NEW q \in Seq(Jobs), NEW j \in Jobs, Distinct(q), j \notin Elements(q)
    PROVE  /\ Append(q, j) \in Seq(Jobs)
           /\ Elements(Append(q, j)) = Elements(q) \cup {j}
           /\ Distinct(Append(q, j))
<1> DEFINE r == Append(q, j)
<1>1. /\ r \in Seq(Jobs) /\ Len(q) \in Nat /\ Len(r) = Len(q) + 1
      /\ \A i \in 1 .. Len(q) : r[i] = q[i]
      /\ r[Len(q) + 1] = j
  BY AppendProperties
<1> HIDE DEF r
<1>2. \A i \in 1 .. Len(r) : i \in 1 .. Len(q) \/ i = Len(q) + 1
  BY <1>1
<1>3. Elements(r) = Elements(q) \cup {j}
  BY <1>1, <1>2 DEF Elements
<1>4. Distinct(r)
  BY <1>1, <1>2 DEF Distinct, Elements
<1>. QED BY <1>1, <1>3, <1>4 DEF r

(* Without its head, a queue without repetitions lacks exactly the head. *)
LEMMA TailFacts ==
    ASSUME NEW q \in Seq(Jobs), q # <<>>, Distinct(q)
    PROVE  /\ Tail(q) \in Seq(Jobs)
           /\ Head(q) \in Elements(q)
           /\ Elements(Tail(q)) = Elements(q) \ {Head(q)}
           /\ Distinct(Tail(q))
<1> DEFINE r == Tail(q)
<1>1. /\ r \in Seq(Jobs) /\ Len(q) \in Nat /\ Len(q) >= 1 /\ Len(r) = Len(q) - 1
      /\ Head(q) = q[1] /\ \A i \in 1 .. Len(r) : r[i] = q[i + 1]
  BY HeadTailProperties, EmptySeq
<1> HIDE DEF r
<1>2. ASSUME NEW x \in Elements(r) PROVE x \in Elements(q) \ {Head(q)}
  <2>1. PICK i \in 1 .. Len(r) : x = r[i]
    BY DEF Elements
  <2>2. x = q[i + 1] /\ i + 1 \in 1 .. Len(q) /\ 1 \in 1 .. Len(q) /\ i + 1 # 1
    BY <1>1, <2>1
  <2>. QED BY <1>1, <2>2 DEF Elements, Distinct
<1>3. ASSUME NEW x \in Elements(q), x # Head(q) PROVE x \in Elements(r)
  <2>1. PICK i \in 1 .. Len(q) : x = q[i]
    BY DEF Elements
  <2>2. i - 1 \in 1 .. Len(r) /\ x = r[i - 1]
    BY <1>1, <1>3, <2>1
  <2>. QED BY <2>2 DEF Elements
<1>4. ASSUME NEW i \in 1 .. Len(r), NEW k \in 1 .. Len(r), r[i] = r[k] PROVE i = k
  <2>1. i + 1 \in 1 .. Len(q) /\ k + 1 \in 1 .. Len(q) /\ q[i + 1] = q[k + 1]
    BY <1>1, <1>4
  <2>. QED BY <2>1 DEF Distinct
<1>5. Head(q) \in Elements(q)
  BY <1>1 DEF Elements
<1>. QED BY <1>1, <1>2, <1>3, <1>4, <1>5 DEF r, Distinct

-------------------------------------------------------------------------------
(* The inductive invariant: a new job is neither claimed nor started; who  *)
(* claims holds the guard, and claims a job that never was claimed or      *)
(* started; and a claimed job is in one place.                             *)

MemoryTypes ==
    /\ queue \in Seq(Jobs)
    /\ claimed \subseteq Jobs
    /\ guard \in Claimers \cup {NoTask}
    /\ started \subseteq Jobs

FreshInv == \A j \in Jobs : row[j] \in FreshStatuses => j \notin claimed \cup started

ClaimInv == \A c \in Claimers :
    at[c] = "claiming" => guard = c /\ job[c] \notin claimed \cup started

(* A job whose claim has been written is not new. *)
LogInv == \A t \in Tasks : stage[t] = "log" => row[job[t]] \notin FreshStatuses

Inv == TypeOK /\ Roles /\ LogInv /\ FreshInv /\ ClaimInv /\ ClaimedOnce /\ AtMostOnce

(* A row that was written stays written. *)
LEMMA LogInvInductive ==
    ASSUME TypeOK, Roles, LogInv, [Next]_vars
    PROVE  LogInv'
<1>1. KeepsFresh
  BY StepKinds
<1>2. ASSUME NEW t \in Tasks, stage'[t] = "log", stage[t] = "log", job'[t] = job[t]
      PROVE  row'[job'[t]] \notin FreshStatuses
  <2>1. job[t] \in Jobs
    BY <1>2, UpdatingFacts DEF TypeOK
  <2>. QED BY <1>1, <1>2, <2>1 DEF LogInv, KeepsFresh
<1>3. CASE NoNewLog
  BY <1>2, <1>3 DEF LogInv, NoNewLog
<1>4. ASSUME NEW t \in Tasks, Writes(t) PROVE LogInv'
  <2>1. at[t] \in Updating /\ job[t] \in Jobs
    BY <1>4, UpdatingFacts DEF Writes, TypeOK
  <2>2. row'[job[t]] \notin FreshStatuses
    BY <1>4, <2>1, TargetFacts DEF Writes, Written, TypeOK, FreshStatuses
  <2>3. ASSUME NEW d \in Tasks, d # t, stage'[d] = "log" PROVE stage[d] = "log" /\ job'[d] = job[d]
    BY <1>4, <2>3 DEF Writes, TypeOK
  <2>4. job' = job
    BY <1>4 DEF Writes
  <2>. QED BY <1>2, <2>2, <2>3, <2>4 DEF LogInv
<1>. QED BY <1>3, <1>4, LogFacts

(* One kind of step at a time, the invariant is kept. *)
LEMMA InvInductive == Inv /\ [Next]_vars => Inv'
<1> USE TaskFacts
<1> SUFFICES ASSUME Inv, [Next]_vars PROVE Inv'
  OBVIOUS
<1>1. TaskTypes' /\ Roles' /\ CheckpointType' /\ RowType' /\ KeepsFresh /\ TaskStep
  BY StepKinds DEF Inv
<1>2. TaskTypes /\ MemoryTypes /\ RowType /\ Distinct(queue) /\ Queued = Elements(queue)
  BY DEF Inv, TypeOK, TaskTypes, MemoryTypes, RowType, Places, Stages, Resting, AtMostOnce,
         Distinct, Queued, Elements
<1>3. Queued' = Elements(queue')
  BY DEF Queued, Elements
<1> DEFINE Kept == MemoryTypes' /\ FreshInv' /\ ClaimInv' /\ ClaimedOnce' /\ AtMostOnce'
<1>4. ASSUME Quiet PROVE Kept
  <2>1. MemoryTypes' /\ FreshInv'
    BY <1>1, <1>2, <1>4 DEF Inv, MemoryTypes, FreshInv, KeepsFresh, Quiet
  <2>2. ClaimInv'
    BY <1>4 DEF Inv, ClaimInv, Quiet
  <2>3. ClaimedOnce' /\ AtMostOnce'
    BY <1>4 DEF Inv, ClaimedOnce, AtMostOnce, Quiet, Queued
  <2>. QED BY <2>1, <2>2, <2>3
<1>5. ASSUME NEW c \in Claimers, ClaimBegins(c) PROVE Kept
  <2>1. MemoryTypes' /\ FreshInv'
    BY <1>1, <1>2, <1>5 DEF Inv, MemoryTypes, FreshInv, KeepsFresh, ClaimBegins
  <2>2. job'[c] \notin claimed \cup started
    BY <1>5 DEF Inv, FreshInv, ClaimBegins
  <2>3. ASSUME NEW d \in Claimers, d # c PROVE at'[d] # "claiming"
    BY <1>2, <1>5, <2>3 DEF Inv, ClaimInv, ClaimBegins, Others
  <2>4. ClaimInv'
    BY <1>5, <2>2, <2>3 DEF ClaimInv, ClaimBegins
  <2>5. \A w \in Workers : job'[w] = job[w]
    BY <1>5 DEF ClaimBegins, Others
  <2>6. ClaimedOnce' /\ AtMostOnce'
    BY <1>5, <2>5 DEF Inv, ClaimedOnce, AtMostOnce, ClaimBegins, Queued
  <2>. QED BY <2>1, <2>4, <2>6
<1>6. ASSUME NEW c \in Claimers, ClaimDone(c) PROVE Kept
  <2>1. job[c] \in Jobs /\ job[c] \notin claimed /\ job[c] \notin started
    BY <1>2, <1>6 DEF Inv, ClaimInv, ClaimDone, TaskTypes, Resting
  <2>2. job[c] \notin Elements(queue)
    BY <1>2, <2>1 DEF Inv, ClaimedOnce
  <2>3. Elements(queue') = Elements(queue) \cup {job[c]} /\ Distinct(queue')
        /\ queue' \in Seq(Jobs)
    BY <1>2, <1>6, <2>1, <2>2, AppendFacts DEF ClaimDone, MemoryTypes
  <2>4. \A w \in Workers : job'[w] = job[w]
    BY <1>6 DEF ClaimDone, Others
  <2>5. MemoryTypes'
    BY <1>2, <1>6, <2>1, <2>3 DEF MemoryTypes, ClaimDone
  <2>6. AtMostOnce'
    BY <1>2, <1>3, <1>6, <2>1, <2>3 DEF Inv, AtMostOnce, ClaimDone, Distinct
  <2>7. ClaimedOnce'
    BY <1>2, <1>3, <1>6, <2>1, <2>3, <2>4 DEF Inv, ClaimedOnce, ClaimDone
  <2>8. ClaimInv'
    BY <1>6 DEF Inv, ClaimInv, ClaimDone, Others
  <2>9. FreshInv'
    <3>1. row[job[c]] \notin FreshStatuses
      BY <1>6 DEF Inv, LogInv, ClaimDone
    <3>. QED BY <1>1, <1>6, <2>1, <3>1 DEF Inv, FreshInv, KeepsFresh, ClaimDone
  <2>. QED BY <2>5, <2>6, <2>7, <2>8, <2>9
<1>7. ASSUME NEW c \in Claimers, ClaimDropped(c) PROVE Kept
  <2>1. MemoryTypes' /\ FreshInv'
    BY <1>1, <1>2, <1>7 DEF Inv, MemoryTypes, FreshInv, KeepsFresh, ClaimDropped
  <2>2. ClaimInv'
    BY <1>7 DEF Inv, ClaimInv, ClaimDropped, Others
  <2>3. \A w \in Workers : job'[w] = job[w]
    BY <1>7 DEF ClaimDropped, Others
  <2>4. ClaimedOnce' /\ AtMostOnce'
    BY <1>7, <2>3 DEF Inv, ClaimedOnce, AtMostOnce, ClaimDropped, Queued
  <2>. QED BY <2>1, <2>2, <2>4
<1>8. ASSUME NEW w \in Workers, Taken(w) PROVE Kept
  <2> DEFINE h == Head(queue)
  <2>1. /\ Elements(queue') = Elements(queue) \ {h} /\ Distinct(queue') /\ queue' \in Seq(Jobs)
        /\ h \in Elements(queue)
    BY <1>2, <1>8, TailFacts DEF Taken, MemoryTypes
  <2>2. h \in claimed /\ h \in Jobs /\ \A v \in Workers : job[v] # h
    BY <1>2, <2>1 DEF Inv, ClaimedOnce, MemoryTypes
  <2>3. job'[w] = h /\ job[w] = NoJob /\ \A v \in Workers : v # w => job'[v] = job[v]
    BY <1>8 DEF Taken, Others
  <2>4. MemoryTypes' /\ FreshInv'
    BY <1>1, <1>2, <1>8, <2>1, <2>2 DEF Inv, MemoryTypes, FreshInv, KeepsFresh, Taken
  <2>5. \A c \in Claimers : at'[c] = at[c] /\ job'[c] = job[c]
    BY <1>8 DEF Taken, Others
  <2>6. ClaimInv'
    BY <1>8, <2>2, <2>5 DEF Inv, ClaimInv, Taken
  <2>7. AtMostOnce'
    BY <1>2, <1>3, <1>8, <2>1 DEF Inv, AtMostOnce, Taken, Distinct
  <2> HIDE DEF h
  <2>8. ClaimedOnce'
    <3>1. claimed' = claimed
      BY <1>8 DEF Taken
    <3>2. claimed' = Queued' \cup {job'[v] : v \in {x \in Workers : job'[x] # NoJob}}
      BY <1>2, <1>3, <2>1, <2>2, <2>3, <3>1 DEF Inv, ClaimedOnce
    <3>3. \A v, x \in Workers : v # x /\ job'[v] # NoJob => job'[v] # job'[x]
      BY <2>2, <2>3 DEF Inv, ClaimedOnce
    <3>4. \A v \in Workers : job'[v] \notin Queued'
      BY <1>2, <1>3, <2>1, <2>2, <2>3 DEF Inv, ClaimedOnce
    <3>. QED BY <3>2, <3>3, <3>4 DEF ClaimedOnce
  <2>. QED BY <2>4, <2>6, <2>7, <2>8
<1>9. ASSUME NEW w \in Workers, Left(w) PROVE Kept
  <2>1. job'[w] = NoJob /\ job[w] \in Jobs /\ \A v \in Workers : v # w => job'[v] = job[v]
    BY <1>9 DEF Left, Others
  <2>2. MemoryTypes' /\ FreshInv'
    BY <1>1, <1>2, <1>9 DEF Inv, MemoryTypes, FreshInv, KeepsFresh, Left
  <2>3. ClaimInv'
    BY <1>9 DEF Inv, ClaimInv, Left, Others
  <2>4. AtMostOnce'
    BY <1>9 DEF Inv, AtMostOnce, Left, Queued
  <2>5. ClaimedOnce'
    <3>1. claimed' = claimed \ {job[w]} /\ Queued' = Queued
      BY <1>9 DEF Left, Queued
    <3>2. claimed' = Queued' \cup {job'[v] : v \in {x \in Workers : job'[x] # NoJob}}
      BY <2>1, <3>1 DEF Inv, ClaimedOnce
    <3>3. \A v, x \in Workers : v # x /\ job'[v] # NoJob => job'[v] # job'[x]
      BY <2>1 DEF Inv, ClaimedOnce
    <3>4. \A v \in Workers : job'[v] \notin Queued'
      BY <1>2, <2>1, <3>1 DEF Inv, ClaimedOnce, MemoryTypes, Elements
    <3>. QED BY <3>2, <3>3, <3>4 DEF ClaimedOnce
  <2>. QED BY <2>2, <2>3, <2>4, <2>5
<1>10. ASSUME Restarted, UNCHANGED started PROVE Kept
  <2>1. queue' = <<>> /\ claimed' = {} /\ guard' = NoTask /\ started' = started
        /\ \A t \in Tasks : at'[t] = "idle" /\ job'[t] = NoJob
    BY <1>10 DEF Restarted
  <2>2. Queued' = {}
    BY <2>1 DEF Queued
  <2>3. MemoryTypes' /\ FreshInv' /\ ClaimInv'
    BY <1>1, <1>2, <2>1 DEF Inv, MemoryTypes, FreshInv, ClaimInv, KeepsFresh
  <2>4. ClaimedOnce' /\ AtMostOnce'
    BY <2>1, <2>2 DEF ClaimedOnce, AtMostOnce
  <2>. QED BY <2>3, <2>4
<1>11. Kept
  BY <1>1, <1>4, <1>5, <1>6, <1>7, <1>8, <1>9, <1>10 DEF TaskStep
<1>12. TypeOK'
  <2>2. faulty' \in BOOLEAN
    BY DEF Next, vars, Inv, TypeOK
  <2>. QED
    BY <1>1, <1>11, <2>2
    DEF TypeOK, TaskTypes, RowType, CheckpointType, MemoryTypes, Places, Stages, Resting
<1>13. LogInv'
  BY LogInvInductive DEF Inv
<1>. QED BY <1>1, <1>11, <1>12, <1>13 DEF Inv

(* The invariant holds in every state. *)
LEMMA Invariant == Spec => []Inv
<1>1. Init => Inv
  <2> SUFFICES ASSUME Init PROVE Inv
    OBVIOUS
  <2>1. Queued = {}
    BY DEF Init, Queued
  <2>5. faulty \in BOOLEAN
    BY Zenon DEF Init
  <2>2. TypeOK /\ Roles
    BY <2>5, TaskFacts, UpdatingFacts DEF Init, TypeOK, Roles
  <2>3. LogInv /\ FreshInv /\ ClaimInv
    BY TaskFacts DEF Init, LogInv, FreshInv, ClaimInv
  <2>4. ClaimedOnce /\ AtMostOnce
    BY <2>1, TaskFacts DEF Init, ClaimedOnce, AtMostOnce
  <2>. QED BY <2>2, <2>3, <2>4 DEF Inv
<1>. QED BY <1>1, InvInductive, PTL DEF Spec

(* Type correctness. *)
THEOREM TypeCorrect == Spec => []TypeOK
BY Invariant, PTL DEF Inv

(* No job is ever given to a worker twice: through claims by two tasks,    *)
(* lost updates, failed calls and restarts (claim_next_queued).            *)
THEOREM AtMostOnceCorrect == Spec => []AtMostOnce
BY Invariant, PTL DEF Inv

(* No claimed job is in two places or in none, whatever call has failed    *)
(* (_claim_one, _worker_loop).                                             *)
THEOREM ClaimedOnceCorrect == Spec => []ClaimedOnce
BY Invariant, PTL DEF Inv

-------------------------------------------------------------------------------
(* Until a call fails, no job is left running for ever.                    *)

Held(j) == j \in claimed \/ \E c \in Claimers : job[c] = j /\ stage[c] = "log"

(* RunningIsHeld as long as nothing has failed.                            *)
AllHeld == \A j \in Jobs : row[j] = "RUNNING" => Held(j)

(* A worker about to leave a job has written a status that ends the run.   *)
EndInv == \A w \in Workers :
    stage[w] = "log" /\ at[w] \in {"succeeding", "pausing", "cancelling", "failing"}
        => row[job[w]] # "RUNNING"

(* What a running job may become, by a worker that leaves it. *)
LEMMA EndTargets ==
    ASSUME NEW place \in {"succeeding", "pausing", "cancelling", "failing"}
    PROVE  CanTransition("RUNNING", Target[place]) /\ Target[place] # "RUNNING"
BY DEF CanTransition, AllowedTransitions, Target, Waiting, Terminal

(* A worker that leaves a job leaves it in another status than running. *)
LEMMA LeavesEnded ==
    ASSUME TypeOK, Roles, EndInv, NEW w \in Workers, NEW outcome \in {"done", "refused"},
           outcome = "done" => stage[w] = "log",
           outcome = "refused" => ~Legal(w),
           at[w] \in {"succeeding", "pausing", "cancelling", "failing"}
    PROVE  row[job[w]] # "RUNNING"
BY EndTargets DEF EndInv, Legal

(* Nobody else is busy with the job of a worker. *)
LEMMA OtherJobs ==
    ASSUME Inv, NEW w \in Workers, NEW t \in Tasks, t # w, job[w] \in Jobs,
           t \in Workers \/ at[t] = "claiming"
    PROVE  job[t] # job[w]
<1>1. job[w] \in claimed /\ job[w] # NoJob
  BY TaskFacts DEF Inv, ClaimedOnce
<1>2. CASE t \in Workers
  BY <1>1, <1>2 DEF Inv, ClaimedOnce
<1>3. CASE at[t] = "claiming"
  <2>1. t \in Claimers \/ t \in Workers
    BY <1>3 DEF Inv, Roles, Tasks
  <2>. QED BY <1>1, <1>2, <1>3, <2>1 DEF Inv, ClaimInv
<1>. QED BY <1>2, <1>3

(* EndInv is kept: a write that lets a job run is by its worker, or by a   *)
(* claimer that has another job.                                           *)
LEMMA EndInvInductive ==
    ASSUME Inv, EndInv, [Next]_vars, ~faulty'
    PROVE  EndInv'
<1> USE TaskFacts, UpdatingFacts
<1>1. ASSUME NoNewLog, row' = row PROVE EndInv'
  BY <1>1 DEF EndInv, NoNewLog
<1>2. ASSUME NEW t \in Tasks, Writes(t) PROVE EndInv'
  <2>1. at' = at /\ job' = job /\ at[t] \in Updating /\ job[t] \in Jobs
    BY <1>2 DEF Writes, Inv, TypeOK
  <2>2. SUFFICES ASSUME NEW w \in Workers, stage'[w] = "log",
                        at[w] \in {"succeeding", "pausing", "cancelling", "failing"}
                 PROVE  row'[job[w]] # "RUNNING"
    BY <2>1 DEF EndInv
  <2>3. row' = [row EXCEPT ![job[t]] = Target[at[t]]] /\ job[w] \in Jobs
    BY <1>2, <2>2 DEF Writes, Written, Inv, TypeOK
  <2>4. CASE t = w
    BY <2>2, <2>3, <2>4, EndTargets DEF Inv, TypeOK
  <2>5. CASE t # w
    <3>1. stage[w] = "log"
      BY <1>2, <2>2, <2>5 DEF Writes, Inv, TypeOK
    <3>2. row[job[w]] # "RUNNING"
      BY <2>2, <3>1 DEF EndInv
    <3>3. CASE Target[at[t]] # "RUNNING"
      BY <2>3, <3>2, <3>3 DEF Inv, TypeOK
    <3>4. CASE Target[at[t]] = "RUNNING"
      <4>1. at[t] \in {"claiming", "resuming"}
        BY <2>1, <3>4, TargetFacts
      <4>2. t \in Workers \/ at[t] = "claiming"
        BY <4>1 DEF Inv, Roles, Tasks
      <4>3. job[t] # job[w]
        BY <2>3, <2>5, <4>2, OtherJobs
      <4>. QED BY <2>3, <3>2, <4>3 DEF Inv, TypeOK
    <3>. QED BY <3>3, <3>4
  <2>. QED BY <2>4, <2>5
<1>3. ASSUME NEW j \in Jobs, CreateJob(j) PROVE EndInv'
  <2>1. UNCHANGED taskVars /\ row' = [row EXCEPT ![j] = "QUEUED"]
    BY <1>3 DEF CreateJob
  <2>. QED BY <2>1 DEF EndInv, taskVars, Inv, TypeOK
<1>4. CASE ~(\E t \in Tasks : Writes(t)) /\ ~(\E j \in Jobs : CreateJob(j))
  <2>1. NoNewLog
    BY <1>4, LogFacts DEF Inv
  <2>2. row' = row
    BY <1>4 DEF Next, GoesWell, GoesWrong, Resume, Asks, CancelAsked, Pause, CancelCheckpoint, Query, Take, Works,
         Assigned, StepsDone, StepFails, PageFails, WakeResumed, WakeCancelled, Goes,
         AssignedFails, Update, ReadsLegal, ReadsIllegal, Logs, CallFails, QueryFails, Crash, vars, stateVars
  <2>. QED BY <1>1, <2>1, <2>2
<1>. QED BY <1>2, <1>3, <1>4

(* AllHeld is kept by every step that goes well.                           *)
LEMMA HeldInductive ==
    ASSUME Inv, EndInv, AllHeld, [Next]_vars, ~faulty'
    PROVE  AllHeld'
<1> USE TaskFacts, UpdatingFacts
<1> DEFINE Stays == \A c \in Claimers :
               stage[c] = "log" => stage'[c] = "log" /\ job'[c] = job[c]
<1> DEFINE NotRun == \A j \in Jobs : row'[j] = "RUNNING" => row[j] = "RUNNING"
<1>1. ASSUME Stays, claimed' = claimed, NotRun PROVE AllHeld'
  BY <1>1 DEF AllHeld, Held
<1>2. ASSUME NEW j \in Jobs, CreateJob(j) \/ Resume(j) PROVE AllHeld'
  <2>1. NotRun
    BY <1>2 DEF CreateJob, Resume, Inv, TypeOK
  <2>2. Stays /\ claimed' = claimed
    BY <1>2 DEF CreateJob, Resume, taskVars
  <2>. QED BY <1>1, <2>1, <2>2
<1>3. ASSUME NEW t \in Workers \cup Operators, NEW place, NEW j, NEW s, Suspend(t, place, j, s)
      PROVE  Stays
  BY <1>3 DEF Suspend, Inv, TypeOK
<1>4. ASSUME NEW o \in Operators, Asks(o) \/ CancelCheckpoint(o) PROVE AllHeld'
  <2>1. claimed' = claimed /\ row' = row
    BY <1>4 DEF Asks, CancelAsked, Pause, CancelCheckpoint
  <2>2. \E place, j, s : Suspend(o, place, j, s)
    BY <1>4 DEF Asks, CancelAsked, Pause, CancelCheckpoint, BeginUpdate
  <2>. QED BY <1>1, <1>3, <2>1, <2>2
<1>5. ASSUME NEW c \in Claimers, NEW j \in Jobs, Query(c, j) PROVE AllHeld'
  <2>1. claimed' = claimed /\ row' = row
    BY <1>5 DEF Query
  <2>2. Stays
    BY <1>5 DEF Query, BeginUpdate, Suspend, Inv, TypeOK
  <2>. QED BY <1>1, <2>1, <2>2
<1>6. ASSUME NEW w \in Workers, Take(w) \/ Works(w) PROVE AllHeld'
  <2>1. claimed' = claimed /\ row' = row
    BY <1>6 DEF Take, Works, Assigned, StepsDone, StepFails, PageFails, WakeResumed,
                WakeCancelled, Goes
  <2>2. ASSUME NEW from, NEW to, Goes(w, from, to) PROVE \E place, j, s : Suspend(w, place, j, s)
    BY <2>2 DEF Goes, BeginUpdate
  <2>3. ASSUME Take(w) PROVE \E place, j, s : Suspend(w, place, j, s)
    BY <2>3 DEF Take
  <2>4. ASSUME Works(w) PROVE \E from, to : Goes(w, from, to)
    BY <2>4 DEF Works, Assigned, StepsDone, StepFails, PageFails, WakeResumed, WakeCancelled
  <2>5. \E place, j, s : Suspend(w, place, j, s)
    BY <1>6, <2>2, <2>3, <2>4
  <2>. QED BY <1>1, <1>3, <2>1, <2>5
<1>7. ASSUME NEW t \in Tasks, ReadsLegal(t) \/ Writes(t) PROVE AllHeld'
  <2>1. claimed' = claimed /\ job' = job
    BY <1>7 DEF ReadsLegal, Writes
  <2>2. Stays
    BY <1>7, <2>1 DEF ReadsLegal, Writes, Inv, TypeOK
  <2>3. CASE NotRun
    BY <1>1, <2>1, <2>2, <2>3
  <2>4. ASSUME NEW j \in Jobs, row'[j] = "RUNNING", row[j] # "RUNNING" PROVE Held(j)'
    <3>1. Writes(t) /\ at[t] \in Updating
      BY <1>7, <2>4 DEF ReadsLegal, Writes, Inv, TypeOK
    <3>2. j = job[t] /\ Target[at[t]] = "RUNNING" /\ stage'[t] = "log"
      BY <2>4, <3>1 DEF Writes, Written, Inv, TypeOK
    <3>3. at[t] \in {"claiming", "resuming"}
      BY <3>1, <3>2, TargetFacts
    <3>4. CASE t \in Claimers
      BY <2>1, <3>2, <3>4 DEF Held
    <3>5. CASE t \in Workers
      BY <2>1, <3>2, <3>5 DEF Held, Inv, ClaimedOnce
    <3>6. t \in Claimers \/ t \in Workers
      BY <3>3 DEF Inv, Roles, Tasks
    <3>. QED BY <3>4, <3>5, <3>6
  <2>5. ASSUME NEW j \in Jobs, row[j] = "RUNNING" PROVE Held(j)'
    BY <2>1, <2>2, <2>5 DEF AllHeld, Held
  <2>. QED BY <2>4, <2>5 DEF AllHeld, Held
<1>8. ASSUME NEW t \in Tasks, NEW outcome \in {"done", "refused"},
             outcome = "done" => stage[t] = "log",
             outcome = "refused" => stage[t] = "read" /\ ~Legal(t),
             UpdateOver(t, outcome), row' = row
      PROVE  AllHeld'
  <2>1. CASE t \in Claimers /\ ClaimOver(t, outcome)
    <3>1. \A c \in Claimers : c # t => stage'[c] = stage[c] /\ job'[c] = job[c]
      BY <2>1 DEF ClaimOver, Suspend, Inv, TypeOK
    <3>2. CASE outcome = "done"
      BY <1>8, <2>1, <3>1, <3>2 DEF AllHeld, Held, ClaimOver
    <3>3. CASE outcome = "refused"
      BY <1>8, <2>1, <3>1, <3>3 DEF AllHeld, Held, ClaimOver
    <3>. QED BY <3>2, <3>3
  <2>2. CASE t \in Operators /\ RequestOver(t)
    BY <1>1, <1>3, <1>8, <2>2 DEF RequestOver
  <2>3. ASSUME t \in Workers, NEW place, NextUpdate(t, place) PROVE AllHeld'
    BY <1>1, <1>3, <1>8, <2>3 DEF NextUpdate, BeginUpdate
  <2>4. ASSUME t \in Workers, NEW place, LeaveJob(t, place),
               at[t] \in {"succeeding", "pausing", "cancelling", "failing"}
        PROVE  AllHeld'
    <3>1. row[job[t]] # "RUNNING"
      BY <1>8, <2>4, LeavesEnded DEF Inv
    <3>2. Stays /\ claimed' = claimed \ {job[t]}
      BY <1>3, <2>4 DEF LeaveJob
    <3>. QED BY <1>8, <3>1, <3>2 DEF AllHeld, Held
  <2>5. CASE t \in Workers /\ AskingOver(t, outcome)
    <3>1. claimed' = claimed /\ \E place, j, s : Suspend(t, place, j, s)
      BY <2>5 DEF AskingOver, NextUpdate, BeginUpdate
    <3>. QED BY <1>1, <1>3, <1>8, <2>5, <3>1
  <2>6. CASE t \in Workers /\ ResumingOver(t, outcome)
    BY <2>3, <2>6 DEF ResumingOver
  <2>7. CASE t \in Workers /\ EngineOver(t, outcome)
    BY <1>8, <2>4, <2>7 DEF EngineOver
  <2>8. CASE t \in Workers /\ FailingOver(t, outcome)
    BY <2>4, <2>8 DEF FailingOver
  <2>. QED BY <1>8, <2>1, <2>2, <2>5, <2>6, <2>7, <2>8 DEF UpdateOver
<1>9. ASSUME NEW t \in Tasks, Update(t) PROVE AllHeld'
  BY <1>7, <1>8, <1>9 DEF Update, ReadsIllegal, Logs
<1>11. CASE UNCHANGED vars
  BY <1>1, <1>11 DEF vars, stateVars, taskVars
<1>. QED
  BY <1>2, <1>4, <1>5, <1>6, <1>9, <1>11 DEF Next, GoesWell

(* As long as nothing has failed, every running job is held by             *)
(* something that will decide its outcome (update_job_status).             *)
THEOREM RunningIsHeldCorrect == Spec => []RunningIsHeld
<1> DEFINE WellSoFar == ~faulty => EndInv /\ AllHeld
<1>1. Init => WellSoFar
  <2>1. Init => \A j \in Jobs : row[j] # "RUNNING"
    BY DEF Init, Absent
  <2>2. Init => \A w \in Workers : stage[w] # "log"
    BY TaskFacts DEF Init
  <2>. QED BY <2>1, <2>2 DEF EndInv, AllHeld
<1>2. ASSUME Inv, WellSoFar, [Next]_vars, ~faulty' PROVE (EndInv /\ AllHeld)'
  <2>1. ~faulty
    BY <1>2 DEF Next, vars
  <2>. QED BY <1>2, <2>1, EndInvInductive, HeldInductive
<1>3. Inv /\ WellSoFar /\ [Next]_vars => WellSoFar'
  BY <1>2
<1>4. WellSoFar => RunningIsHeld
  BY DEF AllHeld, Held, RunningIsHeld
<1>. QED BY <1>1, <1>3, <1>4, Invariant, PTL DEF Spec

-------------------------------------------------------------------------------
(* The claim guard.                                                        *)

(* The guard is held exactly while one of the two claimers is in a claim. *)
GuardKept == \A c \in Claimers : guard = c <=> at[c] = "claiming"

(* The guard is free again after every claim, however it ends: no failed   *)
(* call, lost race or restart leaves it held, to shut the other claimer    *)
(* out for good (_claim_one's `async with self._claim_guard`).             *)
THEOREM GuardKeptCorrect == Spec => []GuardKept
<1> USE TaskFacts
<1>1. Init => GuardKept
  BY DEF Init, GuardKept
<1>2. Inv /\ GuardKept /\ [Next]_vars => GuardKept'
  <2> SUFFICES ASSUME Inv, GuardKept, [Next]_vars PROVE GuardKept'
    OBVIOUS
  <2>1. TaskStep
    BY StepKinds DEF Inv
  <2>2. CASE Quiet
    BY <2>2 DEF Quiet, GuardKept
  <2>3. ASSUME NEW c \in Claimers, ClaimBegins(c) PROVE GuardKept'
    BY <2>3 DEF ClaimBegins, Others, GuardKept
  <2>4. ASSUME NEW c \in Claimers, ClaimDone(c) \/ ClaimDropped(c) PROVE GuardKept'
    <3>1. \A d \in Claimers : d # c => at[d] # "claiming"
      BY <2>4 DEF ClaimDone, ClaimDropped, GuardKept
    <3>. QED BY <2>4, <3>1 DEF ClaimDone, ClaimDropped, Others, GuardKept
  <2>5. ASSUME NEW w \in Workers, Taken(w) \/ Left(w) PROVE GuardKept'
    BY <2>5 DEF Taken, Left, Others, GuardKept
  <2>6. CASE Restarted
    BY <2>6 DEF Restarted, GuardKept
  <2>. QED BY <2>1, <2>2, <2>3, <2>4, <2>5, <2>6 DEF TaskStep
<1>. QED BY <1>1, <1>2, Invariant, PTL DEF Spec

-------------------------------------------------------------------------------
(* Terminal statuses.  update_job_status reads the row in one call and     *)
(* writes it in another; what that costs is exactly the writes of two      *)
(* updates of one job on their way at once.                                *)

(* No two updates of a job are between their read and their write. *)
WritesApart ==
    \A t, u \in Tasks : stage[t] = "write" /\ stage[u] = "write" /\ job[t] = job[u] => t = u

(* What an update has read is still so when it writes. *)
WritesLegal == \A t \in Tasks : stage[t] = "write" => Legal(t)

(* Who changes a row. *)
LEMMA RowFacts ==
    ASSUME TypeOK, [Next]_vars
    PROVE  \/ row' = row
           \/ \E j \in Jobs : CreateJob(j)
           \/ \E t \in Tasks : stage[t] = "write" /\ stage'[t] # "write" /\ row' = Written(t)
           \/ Crash
<1>1. ASSUME NEW t \in Tasks, CallFails(t), row' = Written(t), stage[t] = "write"
      PROVE  stage'[t] # "write"
  BY <1>1, OverMoves, SuspendLogs DEF CallFails
<1>2. ASSUME NEW t \in Tasks, Writes(t)
      PROVE  stage[t] = "write" /\ stage'[t] # "write" /\ row' = Written(t)
  BY <1>2 DEF Writes, TypeOK
<1>3. ASSUME NEW t \in Tasks, CallFails(t)
      PROVE  row' = row \/ (stage[t] = "write" /\ row' = Written(t))
  BY <1>3 DEF CallFails
<1>4. CASE ~(\E t \in Tasks : Writes(t) \/ CallFails(t))
  BY <1>4 DEF Next, GoesWell, GoesWrong, Resume, Asks, CancelAsked, Pause, CancelCheckpoint,
     Query, Take, Works, Assigned, StepsDone, StepFails, PageFails, WakeResumed, WakeCancelled,
     Goes, AssignedFails, Update, ReadsLegal, ReadsIllegal, Logs, QueryFails, vars, stateVars
<1>. QED BY <1>1, <1>2, <1>3, <1>4

(* Only a status that the table lets change is one an update changes. *)
LEMMA LegalFacts ==
    ASSUME TypeOK, NEW t \in Tasks, stage[t] = "write", Legal(t)
    PROVE  /\ job[t] \in Jobs /\ at[t] \in Updating
           /\ CanTransition(row[job[t]], Target[at[t]])
           /\ row[job[t]] \in Statuses \ Terminal
<1>1. job[t] \in Jobs /\ at[t] \in Updating
  BY UpdatingFacts DEF TypeOK
<1>2. CanTransition(row[job[t]], Target[at[t]])
  BY DEF Legal
<1>. QED BY <1>1, <1>2 DEF CanTransition, AllowedTransitions, Statuses, Terminal, Waiting

(* As long as the writes are apart, none lands on a row it has not read. *)
LEMMA WritesLegalInductive ==
    ASSUME TypeOK, WritesApart, WritesLegal, [Next]_vars
    PROVE  WritesLegal'
<1>1. CASE Crash
  BY <1>1 DEF Crash, Restarted, WritesLegal
<1>2. ASSUME NEW t \in Tasks, stage'[t] = "write", stage[t] = "write", job'[t] = job[t],
             at'[t] = at[t], ~Crash
      PROVE  Legal(t)'
  <2>1. Legal(t) /\ job[t] \in Jobs /\ row[job[t]] \in Statuses
    BY <1>2, LegalFacts DEF WritesLegal
  <2>2. ASSUME NEW j \in Jobs, CreateJob(j) PROVE row'[job[t]] = row[job[t]]
    BY <2>1, <2>2 DEF CreateJob, TypeOK, Statuses, Absent, Waiting, Terminal
  <2>3. ASSUME NEW u \in Tasks, stage[u] = "write", stage'[u] # "write", row' = Written(u)
        PROVE  row'[job[t]] = row[job[t]]
    <3>1. job[u] # job[t]
      BY <1>2, <2>3 DEF WritesApart
    <3>. QED BY <2>1, <2>3, <3>1 DEF Written, TypeOK
  <2>4. row'[job[t]] = row[job[t]]
    BY <1>2, <2>2, <2>3, RowFacts
  <2>. QED BY <1>2, <2>1, <2>4 DEF Legal
<1>3. CASE NoNewCall /\ ~Crash
  BY <1>2, <1>3 DEF NoNewCall, WritesLegal
<1>4. ASSUME NEW u \in Tasks, ReadsLegal(u) \/ Writes(u), ~Crash PROVE WritesLegal'
  <2>1. job' = job /\ at' = at /\ \A t \in Tasks : t # u => stage'[t] = stage[t]
    BY <1>4 DEF ReadsLegal, Writes, TypeOK
  <2>2. stage'[u] = "write" => Legal(u)'
    BY <1>4 DEF ReadsLegal, Writes, Legal, TypeOK
  <2>. QED BY <1>2, <1>4, <2>1, <2>2 DEF WritesLegal
<1>. QED BY <1>1, <1>3, <1>4, CallFacts

(* Where no two updates of a job are on their way at once, no terminal     *)
(* status is ever left, whatever fails and however often the process       *)
(* restarts: the race of two updates is all that stands between the code   *)
(* and tests/test_job_state.py (update_job_status).                        *)
THEOREM TerminalIsFinalApart == Spec /\ []WritesApart => TerminalIsFinal
<1>1. Init => WritesLegal
  BY DEF Init, WritesLegal
<1>2. TypeOK /\ WritesApart /\ WritesLegal /\ [Next]_vars => WritesLegal'
  BY WritesLegalInductive
<1>3. TypeOK /\ WritesLegal /\ [Next]_vars
        => [\A j \in Jobs : row[j] \in Terminal => row'[j] = row[j]]_row
  <2> SUFFICES ASSUME TypeOK, WritesLegal, [Next]_vars, NEW j \in Jobs, row[j] \in Terminal
               PROVE  row'[j] = row[j]
    OBVIOUS
  <2>1. ASSUME NEW t \in Tasks, stage[t] = "write" PROVE Written(t)[j] = row[j]
    <3>1. job[t] # j
      BY <2>1, LegalFacts DEF WritesLegal
    <3>. QED BY <3>1 DEF Written, TypeOK
  <2>2. ASSUME NEW i \in Jobs, CreateJob(i) PROVE row'[j] = row[j]
    BY <2>2 DEF CreateJob, TypeOK, Terminal, Absent
  <2>3. CASE Crash
    BY <2>1, <2>3 DEF Crash
  <2>. QED BY <2>1, <2>2, <2>3, RowFacts
<1>. QED BY <1>1, <1>2, <1>3, TypeCorrect, PTL DEF Spec, TerminalIsFinal

-------------------------------------------------------------------------------
(* The promise of JobLifecycle, which the runner keeps over the memory     *)
(* repository (JobRunnerProofs), over this one.  A job is held from the    *)
(* write of its claim on.  There are no site limits here: every job is a   *)
(* site of its own.                                                        *)

Claiming(j) == \E c \in Claimers : job[c] = j /\ stage[c] = "log"

Holding == claimed \cup {j \in Jobs : Claiming(j)}

Promise == INSTANCE JobLifecycleProofs
           WITH status <- row, held <- Holding, Sites <- Jobs, SiteOf <- [j \in Jobs |-> j],
                MaxSite <- 1

(* The job of a worker was started. *)
StartedInv == \A w \in Workers : job[w] \in Jobs => job[w] \in started

(* A job that nobody has touched is queued, or was cancelled before.       *)
UntouchedInv == \A j \in Jobs :
    j \notin started \cup Holding => row[j] \in {Absent, "QUEUED", "CANCELLED"}

(* Workers have only jobs they were given. *)
LEMMA StartedInvariant == Spec => []StartedInv
<1>1. Init => StartedInv
  BY TaskFacts DEF Init, StartedInv
<1>2. Inv /\ StartedInv /\ [Next]_vars => StartedInv'
  <2> SUFFICES ASSUME Inv, StartedInv, [Next]_vars PROVE StartedInv'
    OBVIOUS
  <2>1. TaskStep
    BY StepKinds DEF Inv
  <2>. QED BY <2>1, TaskFacts DEF TaskStep, Quiet, ClaimBegins, ClaimDone, ClaimDropped, Taken, Left,
           Restarted, Others, StartedInv
<1>. QED BY <1>1, <1>2, Invariant, PTL DEF Spec

(* Unless a call fails, a claim that was written ends with the job claimed. *)
LEMMA ClaimsKept ==
    ASSUME Inv, [Next]_vars, ~faulty', NEW c \in Claimers, stage[c] = "log"
    PROVE  (stage'[c] = "log" /\ job'[c] = job[c]) \/ job[c] \in claimed'
<1> USE TaskFacts
<1> DEFINE Kept == stage'[c] = "log" /\ job'[c] = job[c]
<1>0. at[c] = "claiming"
  BY UpdatingFacts DEF Inv, TypeOK, Roles
<1>1. ASSUME UNCHANGED taskVars PROVE Kept
  BY <1>1 DEF taskVars
<1>2. ASSUME NEW t \in Tasks, t # c, NEW place, NEW j, NEW s, Suspend(t, place, j, s) PROVE Kept
  BY <1>2 DEF Suspend, Inv, TypeOK
<1>3. ASSUME NEW j \in Jobs, CreateJob(j) \/ Resume(j) PROVE Kept
  BY <1>1, <1>3 DEF CreateJob, Resume
<1>4. ASSUME NEW o \in Operators, Asks(o) \/ CancelCheckpoint(o) PROVE Kept
  <2>1. \E place, j, s : Suspend(o, place, j, s)
    BY <1>4 DEF Asks, CancelAsked, Pause, CancelCheckpoint, BeginUpdate
  <2>. QED BY <1>2, <2>1
<1>5. ASSUME NEW d \in Claimers, NEW j \in Jobs, Query(d, j) PROVE Kept
  BY <1>0, <1>2, <1>5 DEF Query, BeginUpdate
<1>6. ASSUME NEW w \in Workers, Take(w) \/ Works(w) PROVE Kept
  <2>1. ASSUME NEW from, NEW to, Goes(w, from, to) PROVE \E place, j, s : Suspend(w, place, j, s)
    BY <2>1 DEF Goes, BeginUpdate
  <2>2. ASSUME Works(w) PROVE \E from, to : Goes(w, from, to)
    BY <2>2 DEF Works, Assigned, StepsDone, StepFails, PageFails, WakeResumed, WakeCancelled
  <2>3. \E place, j, s : Suspend(w, place, j, s)
    BY <1>6, <2>1, <2>2 DEF Take
  <2>. QED BY <1>2, <2>3
<1>7. ASSUME NEW t \in Tasks, ReadsLegal(t) \/ Writes(t) PROVE Kept
  BY <1>7 DEF ReadsLegal, Writes, Inv, TypeOK
<1>8. ASSUME NEW t \in Tasks, NEW outcome, UpdateOver(t, outcome),
             t = c => outcome = "done"
      PROVE  Kept \/ job[c] \in claimed'
  <2>1. CASE t = c
    <3>1. ClaimOver(c, "done")
      BY <1>0, <1>8, <2>1 DEF UpdateOver
    <3>. QED BY <3>1 DEF ClaimOver
  <2>2. CASE t # c
    BY <1>2, <1>8, <2>2, OverMoves DEF Moves
  <2>. QED BY <2>1, <2>2
<1>9. ASSUME NEW t \in Tasks, ReadsIllegal(t) \/ Logs(t) PROVE Kept \/ job[c] \in claimed'
  <2>1. CASE ReadsIllegal(t)
    <3>1. t # c /\ UpdateOver(t, "refused")
      BY <2>1 DEF ReadsIllegal
    <3>. QED BY <1>8, <3>1
  <2>2. CASE Logs(t)
    BY <1>8, <2>2 DEF Logs
  <2>. QED BY <1>9, <2>1, <2>2
<1>10. CASE UNCHANGED vars
  BY <1>1, <1>10 DEF vars, stateVars
<1>. QED BY <1>3, <1>4, <1>5, <1>6, <1>7, <1>9, <1>10 DEF Next, GoesWell, Update

(* A step that writes no row gives up at most the job of a worker. *)
LEMMA HoldingFacts ==
    ASSUME Inv, [Next]_vars, ~faulty', NoNewLog
    PROVE  \/ Holding' = Holding
           \/ \E w \in Workers : job[w] \in claimed /\ Holding' = Holding \ {job[w]}
<1> USE TaskFacts
<1>1. TaskStep
  BY StepKinds DEF Inv
<1>2. \A j \in Jobs : Claiming(j) => Claiming(j)' \/ j \in claimed'
  BY ClaimsKept DEF Claiming
<1>3. \A j \in Jobs : Claiming(j)' => Claiming(j)
  BY DEF NoNewLog, Claiming
<1>4. claimed \subseteq Jobs
  BY DEF Inv, TypeOK
<1>5. CASE claimed' = claimed
  BY <1>2, <1>3, <1>5 DEF Holding
<1>6. ASSUME NEW c \in Claimers, ClaimDone(c) PROVE Holding' = Holding
  <2>1. Claiming(job[c]) /\ job[c] \in Jobs /\ claimed' = claimed \cup {job[c]}
    BY <1>6, UpdatingFacts DEF ClaimDone, Claiming, Inv, TypeOK
  <2>. QED BY <1>2, <1>3, <1>4, <2>1 DEF Holding
<1>7. ASSUME NEW w \in Workers, Left(w)
      PROVE  job[w] \in claimed /\ Holding' = Holding \ {job[w]}
  <2>1. job[w] \in Jobs /\ job[w] \in claimed /\ claimed' = claimed \ {job[w]}
    BY <1>7 DEF Left, Inv, ClaimedOnce
  <2>2. ~Claiming(job[w])
    <3>1. \A c \in Claimers : stage[c] = "log" => at[c] = "claiming"
      BY UpdatingFacts DEF Inv, TypeOK, Roles
    <3>. QED BY <2>1, <3>1 DEF Claiming, Inv, ClaimInv
  <2>. QED BY <1>2, <1>3, <1>4, <2>1, <2>2 DEF Holding
<1>. QED BY <1>1, <1>5, <1>6, <1>7 DEF TaskStep, Quiet, ClaimBegins, ClaimDropped, Taken

(* The write of an update. *)
LEMMA WriteFacts ==
    ASSUME Inv, WritesLegal, NEW t \in Tasks, Writes(t)
    PROVE  /\ job[t] \in Jobs /\ at[t] \in Updating
           /\ CanTransition(row[job[t]], Target[at[t]])
           /\ row' = [row EXCEPT ![job[t]] = Target[at[t]]]
           /\ Holding' = Holding \cup (IF t \in Claimers THEN {job[t]} ELSE {})
           /\ UNCHANGED <<job, at, claimed, started>>
<1> USE TaskFacts
<1>1. /\ job[t] \in Jobs /\ at[t] \in Updating
      /\ CanTransition(row[job[t]], Target[at[t]])
      /\ row' = [row EXCEPT ![job[t]] = Target[at[t]]]
      /\ UNCHANGED <<job, at, claimed, started>>
  BY LegalFacts DEF Writes, Written, WritesLegal, Inv
<1>2. stage'[t] = "log" /\ \A d \in Tasks : d # t => stage'[d] = stage[d]
  BY DEF Writes, Inv, TypeOK
<1>3. \A j \in Jobs : Claiming(j)' <=> Claiming(j) \/ (t \in Claimers /\ j = job[t])
  BY <1>1, <1>2 DEF Claiming, Writes
<1>. QED BY <1>1, <1>3 DEF Holding

(* Whoever writes a row knows the job: a claimer its queued job, a worker  *)
(* one it holds.                                                           *)
LEMMA WriterFacts ==
    ASSUME Inv, UntouchedInv, WritesLegal, NEW t \in Tasks, Writes(t)
    PROVE  /\ t \in Claimers => /\ at[t] = "claiming" /\ row[job[t]] = "QUEUED"
                                /\ job[t] \notin Holding
           /\ t \in Workers => job[t] \in claimed
           /\ t \in Operators => at[t] \in {"cancelling", "pausing"}
<1> USE TaskFacts
<1>1. job[t] \in Jobs /\ at[t] \in Updating /\ CanTransition(row[job[t]], Target[at[t]])
  BY WriteFacts
<1>2. ASSUME t \in Claimers
      PROVE  at[t] = "claiming" /\ row[job[t]] = "QUEUED" /\ job[t] \notin Holding
  <2>1. at[t] = "claiming" /\ stage[t] = "write"
    BY <1>1, <1>2, UpdatingFacts DEF Inv, Roles, Writes
  <2>2. job[t] \notin claimed \cup started
    BY <1>2, <2>1 DEF Inv, ClaimInv
  <2>3. \A c \in Claimers : stage[c] = "log" => at[c] = "claiming"
    BY UpdatingFacts DEF Inv, TypeOK, Roles
  <2>4. \A c \in Claimers : stage[c] # "log"
    BY <1>2, <2>1, <2>3 DEF Inv, ClaimInv
  <2>5. job[t] \notin Holding
    BY <2>2, <2>4 DEF Holding, Claiming
  <2>6. row[job[t]] \in {Absent, "QUEUED", "CANCELLED"}
    BY <1>1, <2>2, <2>5 DEF UntouchedInv
  <2>. QED BY <1>1, <2>1, <2>5, <2>6
           DEF CanTransition, AllowedTransitions, Absent, Waiting, Terminal
<1>3. t \in Workers => job[t] \in claimed
  BY <1>1 DEF Inv, ClaimedOnce
<1>4. t \in Operators => at[t] \in {"cancelling", "pausing"}
  BY <1>1, UpdatingFacts DEF Inv, Roles
<1>. QED BY <1>2, <1>3, <1>4

(* Nothing but a cancel happens to a job before it is claimed. *)
LEMMA UntouchedInductive ==
    ASSUME Inv, StartedInv, UntouchedInv, WritesLegal, [Next]_vars, ~faulty'
    PROVE  UntouchedInv'
<1> USE TaskFacts
<1>0. started \subseteq started'
  <2>1. TaskStep
    BY StepKinds DEF Inv
  <2>. QED BY <2>1 DEF TaskStep, Quiet, ClaimBegins, ClaimDone, ClaimDropped, Taken, Left
<1>1. ASSUME NoNewLog, NEW j \in Jobs, j \notin (started \cup Holding)'
      PROVE  j \notin started \cup Holding
  <2>1. j \notin started
    BY <1>0, <1>1
  <2>2. ASSUME NEW w \in Workers, job[w] \in claimed PROVE job[w] # j
    BY <2>1, <2>2 DEF StartedInv, Inv, TypeOK
  <2>. QED BY <1>1, <2>1, <2>2, HoldingFacts
<1>2. ASSUME NEW t \in Tasks, Writes(t) PROVE UntouchedInv'
  <2> SUFFICES ASSUME NEW j \in Jobs, j \notin (started \cup Holding)'
               PROVE  row'[j] \in {Absent, "QUEUED", "CANCELLED"}
    BY DEF UntouchedInv
  <2>1. j \notin started \cup Holding /\ (t \in Claimers => j # job[t])
    BY <1>0, <1>2, WriteFacts
  <2>2. row[j] \in {Absent, "QUEUED", "CANCELLED"}
    BY <2>1 DEF UntouchedInv
  <2>3. CASE j # job[t]
    BY <1>2, <2>2, <2>3, WriteFacts DEF Inv, TypeOK
  <2>4. CASE j = job[t]
    <3>1. t \notin Claimers /\ t \notin Workers
      BY <1>2, <2>1, <2>4, WriterFacts DEF Holding
    <3>2. at[t] \in {"cancelling", "pausing"}
      BY <1>2, <3>1, WriterFacts DEF Tasks
    <3>3. CanTransition(row[j], Target[at[t]]) /\ row'[j] = Target[at[t]]
      BY <1>2, <2>4, WriteFacts DEF Inv, TypeOK
    <3>4. at[t] # "pausing"
      BY <2>2, <3>3 DEF Target, CanTransition, AllowedTransitions, Absent, Waiting, Terminal
    <3>. QED BY <3>2, <3>3, <3>4 DEF Target
  <2>. QED BY <2>3, <2>4
<1>3. ASSUME NEW j \in Jobs, CreateJob(j) PROVE UntouchedInv'
  <2>1. Holding' = Holding /\ started' = started
    BY <1>3 DEF CreateJob, Holding, Claiming, taskVars
  <2>. QED BY <1>3, <2>1 DEF CreateJob, UntouchedInv, Inv, TypeOK
<1>4. CASE ~(\E t \in Tasks : Writes(t)) /\ ~(\E j \in Jobs : CreateJob(j))
  <2>1. row' = row
    BY <1>4 DEF Next, GoesWell, GoesWrong, Resume, Asks, CancelAsked, Pause, CancelCheckpoint,
       Query, Take, Works, Assigned, StepsDone, StepFails, PageFails, WakeResumed, WakeCancelled,
       Goes, Update, ReadsLegal, ReadsIllegal, Logs, vars, stateVars
  <2>2. NoNewLog
    BY <1>4, LogFacts DEF Inv
  <2>. QED BY <1>1, <2>1, <2>2 DEF UntouchedInv
<1>. QED BY <1>2, <1>3, <1>4

(* The table the abstract specification instantiates is the same table. *)
LEMMA SameTable ==
    /\ Promise!Statuses = Statuses /\ Promise!Absent = Absent
    /\ \A s, t : Promise!CanTransition(s, t) <=> CanTransition(s, t)
BY DEF Promise!Statuses, Promise!Waiting, Promise!Terminal, Promise!CanTransition, Promise!Absent,
   Promise!AllowedTransitions, CanTransition, AllowedTransitions, Statuses, Waiting, Terminal, Absent

(* Every step that goes well is a step or a stutter of JobLifecycle. *)
LEMMA StepsAbstract ==
    ASSUME Inv, UntouchedInv, WritesLegal, [Next]_vars, ~faulty'
    PROVE  [Promise!LifecycleNext]_(Promise!lifecycleVars)
<1> USE TaskFacts, SameTable DEF Promise!LifecycleNext, Promise!lifecycleVars, Promise!Move
<1>1. ASSUME NEW j \in Jobs, CreateJob(j) PROVE Promise!Submit(j)
  BY <1>1 DEF CreateJob, Promise!Submit, Holding, Claiming, taskVars
<1>2. ASSUME NEW t \in Tasks, Writes(t) PROVE Promise!LifecycleNext
  <2> DEFINE j == job[t]
  <2>1. /\ j \in Jobs /\ CanTransition(row[j], Target[at[t]]) /\ at[t] \in Updating
        /\ row' = [row EXCEPT ![j] = Target[at[t]]]
        /\ Holding' = Holding \cup (IF t \in Claimers THEN {j} ELSE {})
    BY <1>2, WriteFacts
  <2>2. CASE t \in Claimers
    <3>1. row[j] = "QUEUED" /\ Target[at[t]] = "RUNNING" /\ j \notin Holding
      BY <1>2, <2>2, WriterFacts DEF Target
    <3>2. Promise!Cardinality({}) = 0
      BY FS_EmptySet DEF Promise!Cardinality, Cardinality
    <3> DEFINE Same == {k \in Holding : [i \in Jobs |-> i][k] = [i \in Jobs |-> i][j]}
    <3>3. Same = {}
      BY <2>1, <3>1 DEF Holding, Inv, TypeOK
    <3> HIDE DEF Same
    <3>4. Promise!Cardinality(Same) < 1
      BY <3>2, <3>3
    <3>5. Promise!ClaimJob(j)
      BY <2>1, <2>2, <3>1, <3>4 DEF Promise!ClaimJob, Same
    <3>. QED BY <2>1, <3>5
  <2>3. CASE t \in Workers
    <3>1. j \in Holding /\ Holding' = Holding
      BY <1>2, <2>1, <2>3, WriterFacts DEF Holding
    <3>2. Target[at[t]] \in Statuses
      BY <2>1, TargetFacts
    <3>3. Promise!HolderMoves(j)
      BY <2>1, <3>1, <3>2 DEF Promise!HolderMoves, Promise!Reaches
    <3>. QED BY <2>1, <3>3
  <2>4. CASE t \in Operators
    <3>1. at[t] \in {"cancelling", "pausing"} /\ Holding' = Holding
      BY <1>2, <2>1, <2>4, WriterFacts
    <3>2. Target[at[t]] = "CANCELLED" \/ (Target[at[t]] = "WAITING_HUMAN" /\ row[j] = "RUNNING")
      BY <2>1, <3>1 DEF Target, CanTransition, AllowedTransitions, Waiting, Terminal
    <3>3. Promise!OperatorMoves(j)
      BY <2>1, <3>1, <3>2 DEF Promise!OperatorMoves
    <3>. QED BY <2>1, <3>3
  <2>. QED BY <2>2, <2>3, <2>4 DEF Tasks
<1>3. CASE ~(\E t \in Tasks : Writes(t)) /\ ~(\E j \in Jobs : CreateJob(j))
  <2>1. row' = row
    BY <1>3 DEF Next, GoesWell, GoesWrong, Resume, Asks, CancelAsked, Pause, CancelCheckpoint,
       Query, Take, Works, Assigned, StepsDone, StepFails, PageFails, WakeResumed, WakeCancelled,
       Goes, Update, ReadsLegal, ReadsIllegal, Logs, vars, stateVars
  <2>2. NoNewLog
    BY <1>3, LogFacts DEF Inv
  <2>3. ASSUME NEW w \in Workers, job[w] \in claimed, Holding' = Holding \ {job[w]}
        PROVE  Promise!HolderMoves(job[w])
    <3>1. job[w] \in Jobs /\ job[w] \in Holding
      BY <2>3 DEF Holding, Inv, TypeOK
    <3>2. row[job[w]] \in Statuses
      BY <2>3, <3>1 DEF Inv, FreshInv, FreshStatuses, TypeOK
    <3>3. row' = [row EXCEPT ![job[w]] = row[job[w]]]
      BY <2>1 DEF Inv, TypeOK
    <3>. QED BY <2>3, <3>1, <3>2, <3>3 DEF Promise!HolderMoves, Promise!Reaches
  <2>4. CASE Holding' = Holding
    BY <2>1, <2>4
  <2>5. CASE \E w \in Workers : job[w] \in claimed /\ Holding' = Holding \ {job[w]}
    <3>1. PICK w \in Workers : job[w] \in claimed /\ Holding' = Holding \ {job[w]}
      BY <2>5
    <3>2. job[w] \in Jobs
      BY <3>1 DEF Inv, TypeOK
    <3>. QED BY <2>3, <3>1, <3>2
  <2>. QED BY <2>2, <2>4, <2>5, HoldingFacts
<1>. QED BY <1>1, <1>2, <1>3

(* Over Supabase, too, the runner implements JobLifecycle, as long as no   *)
(* two updates of a job are on their way at once, no call fails and the    *)
(* process lives: a job is claimed once and from the queue, and its        *)
(* outcome is decided by whoever holds it or by the operator               *)
(* (update_job_status, claim_next_queued, _claim_one).                     *)
THEOREM LifecycleApart == Spec /\ [](WritesApart /\ ~faulty) => Promise!LifecycleSpec
<1> DEFINE Known == WritesLegal /\ UntouchedInv
<1>1. Init => Promise!LifecycleInit /\ Known
  <2> SUFFICES ASSUME Init PROVE Promise!LifecycleInit /\ Known
    OBVIOUS
  <2>1. Holding = {}
    BY TaskFacts DEF Init, Holding, Claiming
  <2>2. Promise!LifecycleInit
    BY <2>1, SameTable DEF Init, Promise!LifecycleInit
  <2>. QED BY <2>2 DEF Init, WritesLegal, UntouchedInv
<1>2. Inv /\ StartedInv /\ WritesApart /\ Known /\ [Next]_vars /\ ~faulty' => Known'
  BY WritesLegalInductive, UntouchedInductive DEF Inv
<1>3. Inv /\ Known /\ [Next]_vars /\ ~faulty' => [Promise!LifecycleNext]_(Promise!lifecycleVars)
  BY StepsAbstract
<1>. QED BY <1>1, <1>2, <1>3, Invariant, StartedInvariant, PTL DEF Spec, Promise!LifecycleSpec

===============================================================================
