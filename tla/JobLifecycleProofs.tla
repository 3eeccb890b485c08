-------------------------- MODULE JobLifecycleProofs --------------------------
(***************************************************************************)
(* What the promise of JobLifecycle comes to, for any jobs and sites.  It  *)
(* holds of everything that implements JobLifecycle: of the runner over    *)
(* the memory repository (JobRunnerProofs), and of the one over Supabase   *)
(* as long as no two updates of a job overlap (SupabaseJobsProofs).        *)
(***************************************************************************)
EXTENDS JobLifecycle, TLAPS

(* A job that succeeded, failed or was cancelled stays as it is. *)
TerminalKept == \A j \in Jobs : status[j] \in Terminal => status'[j] = status[j]

(* Only a queued job comes to be held, and no job is queued a second time. *)
ClaimedFromQueue == \A j \in Jobs :
    /\ j \in held' \ held => status[j] = "QUEUED"
    /\ status'[j] = "QUEUED" => status[j] \in {Absent, "QUEUED"}
    /\ status'[j] = Absent => status[j] = Absent

(* A job succeeds or fails in the hands of whoever claimed it. *)
OutcomeOfHolder == \A j \in Jobs :
    status'[j] \in {"SUCCEEDED", "FAILED"} /\ status'[j] # status[j] => j \in held

-------------------------------------------------------------------------------

LifecycleTypes ==
    /\ status \in [Jobs -> Statuses \cup {Absent}]
    /\ held \subseteq Jobs
    /\ \A j \in held : status[j] \notin {Absent, "QUEUED"}

(* The transition table: nothing leads out of a terminal status or into    *)
(* the queue.                                                              *)
LEMMA TableFacts ==
    /\ \A s, t : CanTransition(s, t) => s \notin Terminal /\ s \in Statuses /\ t \in Statuses \ {"QUEUED"}
    /\ Absent \notin Statuses
BY DEF CanTransition, AllowedTransitions, Terminal, Waiting, Statuses, Absent

LEMMA ReachFacts ==
    ASSUME NEW s, NEW t, Reaches(s, t), s # t
    PROVE  s \in Statuses \ Terminal /\ t \in Statuses \ {"QUEUED"}
BY TableFacts DEF Reaches

LEMMA TypesAlways == LifecycleSpec => []LifecycleTypes
<1>1. LifecycleInit => LifecycleTypes
  BY DEF LifecycleInit, LifecycleTypes
<1>2. LifecycleTypes /\ [LifecycleNext]_lifecycleVars => LifecycleTypes'
  <2> SUFFICES ASSUME LifecycleTypes, [LifecycleNext]_lifecycleVars PROVE LifecycleTypes'
    OBVIOUS
  <2>1. ASSUME NEW j \in Jobs, Submit(j) PROVE LifecycleTypes'
    BY <2>1 DEF Submit, Move, LifecycleTypes, Statuses
  <2>2. ASSUME NEW j \in Jobs, ClaimJob(j) PROVE LifecycleTypes'
    BY <2>2, TableFacts DEF ClaimJob, Move, LifecycleTypes, Statuses
  <2>3. ASSUME NEW j \in Jobs, OperatorMoves(j) PROVE LifecycleTypes'
    BY <2>3, TableFacts DEF OperatorMoves, Move, LifecycleTypes, Statuses, Waiting, Terminal
  <2>4. ASSUME NEW j \in Jobs, HolderMoves(j) PROVE LifecycleTypes'
    <3>1. PICK t \in Statuses : Reaches(status[j], t) /\ Move(j, t)
      BY <2>4 DEF HolderMoves
    <3>2. t \notin {Absent, "QUEUED"}
      BY <2>4, <3>1, ReachFacts, TableFacts DEF HolderMoves, LifecycleTypes
    <3>3. /\ status' \in [Jobs -> Statuses \cup {Absent}]
          /\ \A i \in Jobs : status'[i] = IF i = j THEN t ELSE status[i]
      BY <3>1 DEF Move, LifecycleTypes
    <3>. QED BY <2>4, <3>2, <3>3 DEF HolderMoves, LifecycleTypes
  <2>5. CASE UNCHANGED lifecycleVars
    BY <2>5 DEF lifecycleVars, LifecycleTypes
  <2>. QED BY <2>1, <2>2, <2>3, <2>4, <2>5 DEF LifecycleNext
<1>. QED BY <1>1, <1>2, PTL DEF LifecycleSpec

(* Every step keeps the promise. *)
LEMMA StepsKeep ==
    ASSUME LifecycleTypes, [LifecycleNext]_lifecycleVars
    PROVE  TerminalKept /\ ClaimedFromQueue /\ OutcomeOfHolder
<1> DEFINE Kept == TerminalKept /\ ClaimedFromQueue /\ OutcomeOfHolder
<1> USE DEF TerminalKept, ClaimedFromQueue, OutcomeOfHolder, LifecycleTypes, Move
<1>1. ASSUME NEW j \in Jobs, Submit(j) PROVE Kept
  BY <1>1 DEF Submit, Terminal, Absent
<1>2. ASSUME NEW j \in Jobs, ClaimJob(j) PROVE Kept
  BY <1>2 DEF ClaimJob, Terminal, Absent
<1>3. ASSUME NEW j \in Jobs, OperatorMoves(j) PROVE Kept
  BY <1>3, TableFacts DEF OperatorMoves, Terminal, Absent
<1>4. ASSUME NEW j \in Jobs, HolderMoves(j) PROVE Kept
  BY <1>4, ReachFacts, TableFacts DEF HolderMoves
<1>5. CASE UNCHANGED lifecycleVars
  BY <1>5 DEF lifecycleVars
<1>. QED BY <1>1, <1>2, <1>3, <1>4, <1>5 DEF LifecycleNext

(* No terminal status is ever left (jobs/state.py). *)
THEOREM TerminalIsFinal == LifecycleSpec => [][TerminalKept]_lifecycleVars
BY TypesAlways, StepsKeep, PTL DEF LifecycleSpec

(* A job is claimed at most once: it comes to be held from the queue, into *)
(* which nothing leads back (claim_next_queued).                           *)
THEOREM ClaimedAtMostOnce == LifecycleSpec => [][ClaimedFromQueue]_lifecycleVars
BY TypesAlways, StepsKeep, PTL DEF LifecycleSpec

(* Nobody but the holder of a job lets it succeed or fail (_run_job).      *)
THEOREM OutcomeIsHolders == LifecycleSpec => [][OutcomeOfHolder]_lifecycleVars
BY TypesAlways, StepsKeep, PTL DEF LifecycleSpec

===============================================================================
