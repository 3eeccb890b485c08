-------------------------------- MODULE Cockpit -------------------------------
(***************************************************************************)
(* The page of the operator (mount_ui in ui/pages.py) and how it keeps its *)
(* tables up to date.  refresh_all reads everything again, one database    *)
(* call after the other, while jobs run, other requests write and the      *)
(* operator clicks.  It is called by every handler that has written, by    *)
(* the refresh button and by a timer; a lock lets one round run at a time, *)
(* and refresh_again makes that round start over for those that came       *)
(* meanwhile.  Some handlers refresh single tables, outside the lock: the  *)
(* group filter, the Events button, and those that met an error.           *)
(*                                                                         *)
(* What a call returns is abstracted to the version of what it reads; of   *)
(* the groups the ids are modelled, since the filter depends on them.  The *)
(* model begins when the page has been loaded and jobs exist.              *)
(***************************************************************************)
EXTENDS Naturals

CONSTANTS
    Callers,      \* tasks that call refresh_all: the timer, a handler
    Partials,     \* tasks that refresh single tables
    PlanOf,       \* the tables each of them refreshes
    Groups,       \* ids of profile groups
    Jobs,         \* the jobs that can be selected
    NoJob,        \* no job is asked for
    All,          \* the filter that shows every profile (Ungrouped names no group either)
    Changing,     \* what the rest of the system changes (a bound)
    MaxVersion,   \* how often each of it changes (a bound)
    MaxFailures,  \* how many calls fail (a bound)
    MaxClicks     \* how often the operator changes the view (a bound)

Tables == {"profiles", "sessions", "sites", "jobs", "events", "proxies"}
Sources == {"profiles", "assignments", "sessions", "groups", "sites", "jobs", "events"}

(* The tables that only rounds refresh.                                    *)
RoundTables == {"sites", "jobs"}

(* The order of the refresh functions: what follows each, and what comes   *)
(* first.                                                                  *)
RoundPlan ==
    [idle |-> "profiles", profiles |-> "sessions", sessions |-> "sites", sites |-> "jobs",
     jobs |-> "events", events |-> "proxies", proxies |-> "idle"]
FilterPlan == [idle |-> "profiles", profiles |-> "idle"]
EventsPlan == [idle |-> "events", events |-> "idle"]
SessionErrorPlan == [idle |-> "sessions", sessions |-> "profiles", profiles |-> "idle"]
ProxyErrorPlan == [idle |-> "profiles", profiles |-> "proxies", proxies |-> "idle"]

Tasks == Callers \cup Partials

ASSUME CockpitAssumption ==
    /\ Callers \cap Partials = {}
    /\ PlanOf \in [Partials -> {FilterPlan, EventsPlan, SessionErrorPlan, ProxyErrorPlan}]
    /\ All \notin Groups /\ NoJob \notin Jobs
    /\ Changing \subseteq Sources \ {"groups"}
    /\ MaxVersion \in Nat /\ MaxFailures \in Nat /\ MaxClicks \in Nat

VARIABLES
    version,    \* of each source
    group,      \* of each group: "new", "kept" or "deleted"
    at,         \* the table each task refreshes
    call,       \* what it reads next for it, "answered" when it has read all
    got,        \* the versions it has read
    seen,       \* the groups it has read
    asked,      \* the job whose events it reads
    again,      \* refresh_again
    failed,     \* history: the last round ended with an exception
    requested,  \* history: the versions when refresh_all was last called
    shown,      \* the versions in each table
    filter,     \* the value of group_filter
    options,    \* the groups it offers
    rowsFor,    \* the filter the profile table was made with
    due,        \* the filter has changed, and its refresh has not started
    selected,   \* the value of job_select
    eventsOf,   \* the job whose events are shown
    failures,   \* calls that have failed
    clicks      \* changes of the view

database == <<version, group>>
tasks == <<at, call, got, seen, asked>>
view == <<shown, filter, options, rowsFor, due, selected, eventsOf>>
counters == <<failures, clicks>>
vars == <<database, tasks, again, failed, requested, view, counters>>

Kept == {g \in Groups : group[g] = "kept"}

Nothing == [s \in Sources |-> 0]

TypeOK ==
    /\ version \in [Sources -> Nat]
    /\ group \in [Groups -> {"new", "kept", "deleted"}]
    /\ at \in [Tasks -> Tables \cup {"idle"}]
    /\ call \in [Tasks -> Sources \cup {"none", "answered"}]
    /\ \A t \in Tasks : call[t] = "none" <=> at[t] = "idle"
    /\ \A p \in Partials : at[p] \in DOMAIN PlanOf[p]
    /\ got \in [Tasks -> [Sources -> Nat]]
    /\ seen \in [Tasks -> SUBSET Groups]
    /\ asked \in [Tasks -> Jobs \cup {NoJob}]
    /\ \A t \in Tasks : asked[t] = NoJob <=> at[t] # "events"
    /\ again \in BOOLEAN /\ failed \in BOOLEAN /\ due \in BOOLEAN
    /\ requested \in [RoundTables -> Nat]
    /\ shown \in [Tables -> [Sources -> Nat]]
    /\ filter \in Groups \cup {All} /\ rowsFor \in Groups \cup {All}
    /\ options \subseteq Groups
    /\ selected \in Jobs /\ eventsOf \in Jobs
    /\ failures \in Nat /\ clicks \in Nat

Init ==
    /\ version = Nothing
    /\ group = [g \in Groups |-> "new"]
    /\ at = [t \in Tasks |-> "idle"]
    /\ call = [t \in Tasks |-> "none"]
    /\ got = [t \in Tasks |-> Nothing]
    /\ seen = [t \in Tasks |-> {}]
    /\ selected \in Jobs
    /\ eventsOf = selected
    /\ asked = [t \in Tasks |-> NoJob]
    /\ again = FALSE /\ failed = FALSE /\ due = FALSE
    /\ requested = [t \in RoundTables |-> 0]
    /\ shown = [t \in Tables |-> Nothing]
    /\ filter = All /\ rowsFor = All
    /\ options = {}
    /\ failures = 0 /\ clicks = 0

-------------------------------------------------------------------------------
(* The rest of the system: requests of the API, workers, other pages, and  *)
(* the writes of this page's own handlers, which call refresh_all next.    *)

Bump(s) ==
    /\ version' = [version EXCEPT ![s] = @ + 1]
    /\ UNCHANGED <<tasks, again, failed, requested, view, counters>>

Changes(s) ==
    /\ s \in Changing /\ version[s] < MaxVersion
    /\ Bump(s)
    /\ UNCHANGED group

CreateGroup(g) ==
    /\ group[g] = "new"
    /\ group' = [group EXCEPT ![g] = "kept"]
    /\ Bump("groups")

DeleteGroup(g) ==
    /\ group[g] = "kept"
    /\ group' = [group EXCEPT ![g] = "deleted"]
    /\ Bump("groups")

-------------------------------------------------------------------------------
(* The refresh functions.                                                  *)

FirstCall(table) ==
    CASE table = "idle" -> "none" [] table = "proxies" -> "assignments" [] OTHER -> table

(* refresh_browser_profiles makes four calls, the others one.              *)
NextCall(table, source) ==
    IF table # "profiles" THEN "answered"
    ELSE [profiles |-> "assignments", assignments |-> "sessions", sessions |-> "groups",
          groups |-> "answered"][source]

(* Task t begins with the table, or ends; what it had read is forgotten.   *)
Begin(t, table) ==
    /\ at' = [at EXCEPT ![t] = table]
    /\ call' = [call EXCEPT ![t] = FirstCall(table)]
    /\ got' = [got EXCEPT ![t] = Nothing]
    /\ seen' = [seen EXCEPT ![t] = {}]
    /\ asked' = [asked EXCEPT ![t] = IF table = "events" THEN selected ELSE NoJob]

(* The call reads the database; its answer waits for the event loop.       *)
Read(t) ==
    /\ call[t] \in Sources
    /\ got' = [got EXCEPT ![t][call[t]] = version[call[t]]]
    /\ seen' = [seen EXCEPT ![t] = IF call[t] = "groups" THEN Kept ELSE @]
    /\ call' = [call EXCEPT ![t] = NextCall(at[t], @)]
    /\ UNCHANGED <<database, at, asked, again, failed, requested, view, counters>>

(* Mutant: the on_change of a filter that is taken back is not called.      *)
ShowsProfilesSilently(t) ==
    /\ rowsFor' = filter
    /\ options' = seen[t]
    /\ filter' = IF filter \in seen[t] \cup {All} THEN filter ELSE All
    /\ UNCHANGED <<due, eventsOf>>

(* Mutant: the filter keeps a group that is not offered any more.          *)
ShowsProfilesOnly(t) ==
    /\ rowsFor' = filter
    /\ options' = seen[t]
    /\ UNCHANGED <<filter, due, eventsOf>>

(* Rows are chosen by the filter as it is now.  Then the filter is taken   *)
(* back if its group is not among those read, which calls its on_change.   *)
ShowsProfiles(t) ==
    /\ rowsFor' = filter
    /\ options' = seen[t]
    /\ IF filter \in seen[t] \cup {All}
       THEN UNCHANGED <<filter, due>>
       ELSE filter' = All /\ due' = TRUE
    /\ UNCHANGED eventsOf

Shows(t) ==
    /\ call[t] = "answered"
    /\ shown' = [shown EXCEPT ![at[t]] = got[t]]
    /\ IF at[t] = "profiles" THEN ShowsProfiles(t)
       ELSE /\ eventsOf' = IF at[t] = "events" THEN asked[t] ELSE eventsOf
            /\ UNCHANGED <<filter, options, rowsFor, due>>
    /\ UNCHANGED <<database, requested, selected, counters>>

Plan(t) == IF t \in Callers THEN RoundPlan ELSE PlanOf[t]

(* Mutant: whatever began a refresh goes through the rest of the round.    *)
GoesOnAll(t) ==
    /\ Shows(t)
    /\ RoundPlan[at[t]] # "idle" \/ t \in Partials
    /\ Begin(t, RoundPlan[at[t]])
    /\ UNCHANGED <<again, failed>>

(* The answers are shown and the task goes on to its next table.           *)
GoesOn(t) ==
    /\ Shows(t)
    /\ Plan(t)[at[t]] # "idle" \/ t \in Partials
    /\ Begin(t, Plan(t)[at[t]])
    /\ UNCHANGED <<again, failed>>

-------------------------------------------------------------------------------
(* refresh_all.                                                            *)

Locked == \E c \in Callers : at[c] # "idle"

(* Mutant: refresh_all starts a round of its own if its task has none.     *)
RefreshAllUnlocked(c) ==
    /\ at[c] = "idle"
    /\ requested' = [t \in RoundTables |-> version[t]]
    /\ again' = FALSE
    /\ Begin(c, RoundPlan["idle"])
    /\ UNCHANGED <<database, failed, view, counters>>

RefreshAll(c) ==
    /\ at[c] = "idle"
    /\ requested' = [t \in RoundTables |-> version[t]]
    /\ again' = Locked
    /\ IF Locked THEN UNCHANGED tasks ELSE Begin(c, RoundPlan["idle"])
    /\ UNCHANGED <<database, failed, view, counters>>

(* Mutant: refresh_again is cleared at the end of a pass, then tested.     *)
RoundEndsCleared(c) ==
    /\ Shows(c)
    /\ RoundPlan[at[c]] = "idle"
    /\ again' = FALSE
    /\ failed' = FALSE
    /\ Begin(c, "idle")

(* The last table is shown.  If somebody has asked meanwhile, all of it is *)
(* done again.                                                             *)
RoundEnds(c) ==
    /\ Shows(c)
    /\ RoundPlan[at[c]] = "idle"
    /\ again' = FALSE
    /\ failed' = FALSE
    /\ Begin(c, IF again THEN RoundPlan["idle"] ELSE "idle")

-------------------------------------------------------------------------------
(* The operator, and handlers that refresh single tables.                  *)

Clicks == clicks < MaxClicks /\ clicks' = clicks + 1

ChooseFilter(f) ==
    /\ Clicks
    /\ f \in options \cup {All} /\ f # filter
    /\ filter' = f
    /\ due' = TRUE
    /\ UNCHANGED <<database, tasks, again, failed, requested, shown, options, rowsFor, selected,
                   eventsOf, failures>>

(* The on_change of the filter starts as a task.                           *)
FilterChanged(p) ==
    /\ due /\ PlanOf[p] = FilterPlan /\ at[p] = "idle"
    /\ due' = FALSE
    /\ Begin(p, "profiles")
    /\ UNCHANGED <<database, again, failed, requested, shown, filter, options, rowsFor, selected,
                   eventsOf, counters>>

ChooseJob(j) ==
    /\ Clicks
    /\ j # selected
    /\ selected' = j
    /\ UNCHANGED <<database, tasks, again, failed, requested, shown, filter, options, rowsFor, due,
                   eventsOf, failures>>

(* The Events button, or a handler that has met an error.                  *)
RefreshesSome(p) ==
    /\ Clicks
    /\ PlanOf[p] # FilterPlan /\ at[p] = "idle"
    /\ Begin(p, PlanOf[p]["idle"])
    /\ UNCHANGED <<database, again, failed, requested, view, failures>>

-------------------------------------------------------------------------------
(* Mutant: the lock is not released.                                       *)
CallFailsLocked(t) ==
    /\ failures < MaxFailures /\ failures' = failures + 1
    /\ call[t] \in Sources
    /\ failed' = (t \in Callers \/ failed)
    /\ IF t \in Callers THEN call' = [call EXCEPT ![t] = "none"] /\ UNCHANGED <<at, got, seen, asked>>
       ELSE Begin(t, "idle")
    /\ UNCHANGED <<database, again, requested, view, clicks>>

(* A call raises: its task ends, and the lock is released.  refresh_again  *)
(* stays as it is.                                                         *)
CallFails(t) ==
    /\ failures < MaxFailures /\ failures' = failures + 1
    /\ call[t] \in Sources
    /\ failed' = (t \in Callers \/ failed)
    /\ Begin(t, "idle")
    /\ UNCHANGED <<database, again, requested, view, clicks>>

-------------------------------------------------------------------------------

Refreshes(t) == Read(t) \/ GoesOn(t) \/ (t \in Callers /\ RoundEnds(t))

Next ==
    \/ \E s \in Sources : Changes(s)
    \/ \E g \in Groups : CreateGroup(g) \/ DeleteGroup(g)
    \/ \E t \in Tasks : Refreshes(t) \/ CallFails(t)
    \/ \E c \in Callers : RefreshAll(c)
    \/ \E f \in Groups \cup {All} : ChooseFilter(f)
    \/ \E j \in Jobs : ChooseJob(j)
    \/ \E p \in Partials : FilterChanged(p) \/ RefreshesSome(p)

Spec == Init /\ [][Next]_vars

(* Calls are answered, tasks that were created start, and the timer calls  *)
(* refresh_all every three seconds, whatever its last call has raised.     *)
Fairness ==
    /\ \A t \in Tasks : WF_vars(Refreshes(t))
    /\ WF_vars(\E p \in Partials : FilterChanged(p))
    /\ WF_vars(~Locked /\ \E c \in Callers : RefreshAll(c))

LiveSpec == Spec /\ Fairness

-------------------------------------------------------------------------------
(* Properties.                                                             *)

(* No call of refresh_all is lost: when no round runs, and the last one    *)
(* did not fail, the tables show at least what the last caller had written *)
(* (refresh_again).                                                        *)
RefreshNotLost ==
    ~Locked /\ ~failed => \A t \in RoundTables : shown[t][t] >= requested[t]

(* A table that only rounds refresh never goes back to older rows, however *)
(* many calls of refresh_all overlap (refresh_lock).                       *)
NeverGoesBack == [][\A t \in RoundTables : shown'[t][t] >= shown[t][t]]_vars

Reads(table) ==
    CASE table = "profiles" -> {"profiles", "assignments", "sessions", "groups"}
      [] table = "proxies" -> {"assignments"}
      [] OTHER -> {table}

ProfilesAwaited == \E t \in Tasks : at[t] = "profiles"

(* No change of the filter is lost, neither the operator's nor that of a   *)
(* refresh that takes it back: unless a call has failed, rows of another   *)
(* filter are shown only while a refresh of the profiles is due or under   *)
(* way, and they do not stay until the timer comes (group_filter's         *)
(* on_change, refresh_browser_profiles).                                   *)
FilterNotLost == rowsFor = filter \/ due \/ ProfilesAwaited \/ failures > 0

(* When nothing changes any more, every table comes to show what is there, *)
(* and the events those of the selected job, in spite of refreshes that    *)
(* overtook each other and of rounds that failed (ui.timer, refresh_all).  *)
ViewSettles ==
    <>[](/\ \A t \in Tables : \A s \in Reads(t) : shown[t][s] = version[s]
         /\ eventsOf = selected)

(* The filter and the rows come to agree, on a group that exists or on     *)
(* every profile: a group that is deleted does not leave an empty table    *)
(* behind (refresh_browser_profiles).                                      *)
FilterSettles == <>[](rowsFor = filter /\ filter \in Kept \cup {All})

===============================================================================
