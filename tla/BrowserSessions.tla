---------------------------- MODULE BrowserSessions ---------------------------
(***************************************************************************)
(* The browser session manager and the profile store: opening, reusing and *)
(* closing the browser of a profile, and closing all of them when the      *)
(* application stops (browser/profiles.py, and lifespan and _page_provider *)
(* in api/__init__.py).                                                    *)
(*                                                                         *)
(* Callers are the tasks that ask for something: API and UI handlers and   *)
(* the workers' page provider.  Everything runs on one asyncio loop; an    *)
(* action is the code a task runs between two suspension points.  The      *)
(* lookup of the profile is one, because the Supabase repository suspends  *)
(* there, with the guard held.                                             *)
(***************************************************************************)
EXTENDS FiniteSets

CONSTANTS
    Profiles,   \* profile identities
    Callers,    \* tasks that open and close sessions
    Shutdown,   \* the lifespan task, in close_all
    NoOne       \* who holds the guard when it is free

ASSUME CallersAssumption == Shutdown \notin Callers /\ NoOne \notin Callers

Closers == Callers \cup {Shutdown}

VARIABLES
    stored,   \* the profiles that have a record
    active,   \* the keys of _active
    launch,   \* the task of _opening, if any: its progress
    locked,   \* the profiles whose lock is held
    guard,    \* who holds _open_guard
    at,       \* where each caller is
    want,     \* the profiles each caller's request is about (one, or none)
    phase,    \* progress of lifespan's close_all
    todo      \* the profiles close_all has still to close

sessionVars == <<active, launch, locked>>
callerVars == <<at, want>>
shutdownVars == <<phase, todo>>
vars == <<stored, active, launch, locked, guard, at, want, phase, todo>>

TypeOK ==
    /\ stored \subseteq Profiles
    /\ active \subseteq Profiles
    /\ launch \in [Profiles -> {"none", "scheduled", "launching", "opened", "failed"}]
    /\ locked \subseteq Profiles
    /\ guard \in Callers \cup {NoOne}
    /\ at \in [Closers -> {"idle", "lookup", "waiting", "opened", "refused", "closing"}]
    /\ want \in [Closers -> SUBSET Profiles]
    /\ \A c \in Closers : at[c] = "idle" <=> want[c] = {}
    /\ \A c \in Callers : guard = c <=> at[c] = "lookup"
    /\ phase \in {"serving", "closing", "stopped", "aborted"}
    /\ todo \subseteq Profiles

Init ==
    /\ stored = {}
    /\ active = {}
    /\ launch = [p \in Profiles |-> "none"]
    /\ locked = {}
    /\ guard = NoOne
    /\ at = [c \in Closers |-> "idle"]
    /\ want = [c \in Closers |-> {}]
    /\ phase = "serving"
    /\ todo = {}

(* Callers may come until runner.stop has ended the workers.               *)
Accepting == phase \in {"serving", "closing"}

Goto(c, place, p) ==
    /\ at' = [at EXCEPT ![c] = place]
    /\ want' = [want EXCEPT ![c] = {p}]

Leave(c) ==
    /\ at' = [at EXCEPT ![c] = "idle"]
    /\ want' = [want EXCEPT ![c] = {}]

-------------------------------------------------------------------------------
(* The profile store.                                                      *)

(* create_profile and clone_profile: a record with a storage directory.    *)
CreateProfile(p) ==
    /\ Accepting
    /\ p \notin stored
    /\ stored' = stored \cup {p}
    /\ UNCHANGED <<sessionVars, guard, callerVars, shutdownVars>>

(* No check for a session of the profile. *)
DeleteProfile(p) ==
    /\ Accepting
    /\ stored' = stored \ {p}
    /\ UNCHANGED <<sessionVars, guard, callerVars, shutdownVars>>

-------------------------------------------------------------------------------
(* open_profile.                                                           *)

(* A session is there already: the page provider looks without the guard.  *)
Reuse(c, p) ==
    /\ Accepting
    /\ at[c] = "idle"
    /\ p \in active
    /\ Goto(c, "opened", p)
    /\ UNCHANGED <<stored, sessionVars, guard, shutdownVars>>

(* Mutant: a launch that is over is awaited like one that goes on.         *)
JoinFinished(c, p) ==
    /\ Accepting
    /\ at[c] = "idle" /\ guard = NoOne
    /\ p \notin active /\ launch[p] # "none"
    /\ Goto(c, "waiting", p)
    /\ UNCHANGED <<stored, sessionVars, guard, shutdownVars>>

(* A launch is on its way: wait for the same task.  One that is over and   *)
(* whose callback has not run yet answers at once.                         *)
Join(c, p) ==
    /\ Accepting
    /\ at[c] = "idle" /\ guard = NoOne
    /\ p \notin active /\ launch[p] # "none"
    /\ Goto(c, CASE launch[p] = "opened" -> "opened"
                 [] launch[p] = "failed" -> "refused"
                 [] OTHER -> "waiting", p)
    /\ UNCHANGED <<stored, sessionVars, guard, shutdownVars>>

LookUp(c, p) ==
    /\ Accepting
    /\ at[c] = "idle" /\ guard = NoOne
    /\ p \notin active /\ launch[p] = "none"
    /\ guard' = c
    /\ Goto(c, "lookup", p)
    /\ UNCHANGED <<stored, sessionVars, shutdownVars>>

(* The record is found: a launch task is created.                          *)
LookUpFinds(c, p) ==
    /\ guard = c /\ want[c] = {p}
    /\ p \in stored
    /\ launch' = [launch EXCEPT ![p] = "scheduled"]
    /\ guard' = NoOne
    /\ Goto(c, "waiting", p)
    /\ UNCHANGED <<stored, active, locked, shutdownVars>>

(* Mutant: the exception leaves the guard held.                            *)
LookUpMissesGuarded(c, p) ==
    /\ guard = c /\ want[c] = {p}
    /\ p \notin stored
    /\ Goto(c, "refused", p)
    /\ UNCHANGED <<stored, sessionVars, guard, shutdownVars>>

LookUpMisses(c, p) ==
    /\ guard = c /\ want[c] = {p}
    /\ p \notin stored
    /\ guard' = NoOne
    /\ Goto(c, "refused", p)
    /\ UNCHANGED <<stored, sessionVars, shutdownVars>>

(* The launch task of p is over: everyone who waits for it is answered.    *)
Answer(p, answer) ==
    at' = [c \in Closers |-> IF at[c] = "waiting" /\ want[c] = {p} THEN answer ELSE at[c]]

(* Mutant: the browser is launched whoever holds the lock.                 *)
LaunchUnlocked(p) ==
    /\ launch[p] = "scheduled"
    /\ locked' = locked \cup {p}
    /\ launch' = [launch EXCEPT ![p] = "launching"]
    /\ UNCHANGED <<stored, active, guard, callerVars, shutdownVars>>

(* The launch task starts.  The lock of the profile is taken, unless its   *)
(* last browser is still closing.                                          *)
LaunchStarts(p) ==
    /\ launch[p] = "scheduled"
    /\ p \notin locked
    /\ locked' = locked \cup {p}
    /\ launch' = [launch EXCEPT ![p] = "launching"]
    /\ UNCHANGED <<stored, active, guard, callerVars, shutdownVars>>

LaunchRefused(p) ==
    /\ launch[p] = "scheduled"
    /\ p \in locked
    /\ launch' = [launch EXCEPT ![p] = "failed"]
    /\ Answer(p, "refused")
    /\ UNCHANGED <<stored, active, locked, guard, want, shutdownVars>>

LaunchDone(p) ==
    /\ launch[p] = "launching"
    /\ active' = active \cup {p}
    /\ launch' = [launch EXCEPT ![p] = "opened"]
    /\ Answer(p, "opened")
    /\ UNCHANGED <<stored, locked, guard, want, shutdownVars>>

(* Mutant: a failed launch keeps the lock.                                 *)
LaunchFailsLocked(p) ==
    /\ launch[p] = "launching"
    /\ launch' = [launch EXCEPT ![p] = "failed"]
    /\ Answer(p, "refused")
    /\ UNCHANGED <<stored, active, locked, guard, want, shutdownVars>>

LaunchFails(p) ==
    /\ launch[p] = "launching"
    /\ locked' = locked \ {p}
    /\ launch' = [launch EXCEPT ![p] = "failed"]
    /\ Answer(p, "refused")
    /\ UNCHANGED <<stored, active, guard, want, shutdownVars>>

(* The callback of the finished task removes it from _opening.             *)
Cleanup(p) ==
    /\ launch[p] \in {"opened", "failed"}
    /\ launch' = [launch EXCEPT ![p] = "none"]
    /\ UNCHANGED <<stored, active, locked, guard, callerVars, shutdownVars>>

Return(c) ==
    /\ at[c] \in {"opened", "refused"}
    /\ Leave(c)
    /\ UNCHANGED <<stored, sessionVars, guard, shutdownVars>>

-------------------------------------------------------------------------------
(* close_profile and close_all.                                            *)

(* Mutant: the lock is released before the context is closed.              *)
DetachUnlocks(c, p) ==
    /\ at[c] = "idle"
    /\ p \in active
    /\ active' = active \ {p}
    /\ locked' = locked \ {p}
    /\ Goto(c, "closing", p)
    /\ UNCHANGED <<stored, launch, guard>>

(* The session is taken off the table before its context is closed.        *)
Detach(c, p) ==
    /\ at[c] = "idle"
    /\ p \in active
    /\ active' = active \ {p}
    /\ Goto(c, "closing", p)
    /\ UNCHANGED <<stored, launch, locked, guard>>

Close(c, p) ==
    /\ Accepting
    /\ Detach(c, p)
    /\ UNCHANGED shutdownVars

(* context.close() is over, with an exception or without: the finally      *)
(* clause releases the lock.                                               *)
Closed(c, p) ==
    /\ at[c] = "closing" /\ want[c] = {p}
    /\ locked' = locked \ {p}
    /\ Leave(c)
    /\ UNCHANGED <<stored, active, launch, guard>>

CloseEnds(c, p) == Closed(c, p) /\ UNCHANGED shutdownVars

(* The exception of a close leaves close_all, and with it the finally      *)
(* clause of lifespan.                                                     *)
CloseAllRaises(p) ==
    /\ Closed(Shutdown, p)
    /\ phase' = "aborted"
    /\ UNCHANGED todo

ShutdownBegins ==
    /\ phase = "serving"
    /\ phase' = "closing"
    /\ todo' = active
    /\ UNCHANGED <<stored, sessionVars, guard, callerVars>>

CloseAllNext(p) ==
    /\ phase = "closing"
    /\ p \in todo
    /\ Detach(Shutdown, p)
    /\ todo' = todo \ {p}
    /\ UNCHANGED phase

(* Mutant: the missing session is tolerated, and tried again.              *)
CloseAllRetries(p) ==
    /\ phase = "closing"
    /\ at[Shutdown] = "idle"
    /\ p \in todo \ active
    /\ UNCHANGED vars

(* Somebody else has closed p meanwhile: close_profile raises KeyError.    *)
CloseAllMisses(p) ==
    /\ phase = "closing"
    /\ at[Shutdown] = "idle"
    /\ p \in todo \ active
    /\ phase' = "aborted"
    /\ UNCHANGED <<stored, sessionVars, guard, callerVars, todo>>

CloseAllEnds ==
    /\ phase = "closing"
    /\ at[Shutdown] = "idle" /\ todo = {}
    /\ phase' = "stopped"
    /\ UNCHANGED <<stored, sessionVars, guard, callerVars, todo>>

-------------------------------------------------------------------------------

Store == \E p \in Profiles : CreateProfile(p) \/ DeleteProfile(p)

Asks(c, p) == Reuse(c, p) \/ Join(c, p) \/ LookUp(c, p) \/ Close(c, p)

GoesOn(c, p) == LookUpFinds(c, p) \/ LookUpMisses(c, p)

Launching(p) ==
    LaunchStarts(p) \/ LaunchRefused(p) \/ LaunchDone(p) \/ LaunchFails(p)

CloseAll ==
    \/ \E p \in Profiles : CloseAllNext(p) \/ CloseAllMisses(p)
    \/ CloseAllEnds

Next ==
    \/ Store
    \/ \E c \in Callers, p \in Profiles : Asks(c, p) \/ GoesOn(c, p)
    \/ \E p \in Profiles : Launching(p) \/ Cleanup(p)
    \/ \E c \in Callers : Return(c)
    \/ \E c \in Closers, p \in Profiles : CloseEnds(c, p)
    \/ \E p \in Profiles : CloseAllRaises(p)
    \/ ShutdownBegins
    \/ CloseAll

Spec == Init /\ [][Next]_vars

(* The loop runs every task that can go on; lookups, launches and closes   *)
(* end.  Nobody has to ask for anything, and shutdown need not begin.      *)
Fairness ==
    /\ \A c \in Callers : WF_vars(\E p \in Profiles : GoesOn(c, p))
    /\ \A p \in Profiles : WF_vars(Launching(p)) /\ WF_vars(Cleanup(p))
    /\ \A c \in Closers : WF_vars(\E p \in Profiles : CloseEnds(c, p))
    /\ WF_vars(CloseAll)

LiveSpec == Spec /\ Fairness

-------------------------------------------------------------------------------
(* Properties.                                                             *)

Closing(p) == \E c \in Closers : at[c] = "closing" /\ want[c] = {p}

Browser(p) ==
    IF launch[p] = "launching" THEN "starting"
    ELSE IF p \in active THEN "running"
    ELSE IF Closing(p) THEN "closing"
    ELSE "none"

(* "keeps one active CloakBrowser context per profile" (automation-plan,   *)
(* Browser Profile Manager): a profile's browser is starting, running or   *)
(* closing, never two of these, and two tasks never close the same one.    *)
OneBrowser ==
    \A p \in Profiles :
        /\ ~(launch[p] = "launching" /\ (p \in active \/ Closing(p)))
        /\ ~(p \in active /\ Closing(p))
        /\ \A c, d \in Closers :
              at[c] = "closing" /\ at[d] = "closing" /\ want[c] = want[d] => c = d

(* The lock of a profile is held exactly while it has a browser, however   *)
(* the launch or the close ended: no profile is locked out for good.       *)
LockedByBrowser == \A p \in Profiles : p \in locked <=> Browser(p) # "none"

(* The session manager implements the promise of BrowserLifecycle: no new  *)
(* browser before the last one is gone.                                    *)
Lifecycle == INSTANCE BrowserLifecycle WITH browser <- [p \in Profiles |-> Browser(p)]

BrowserSpec == Lifecycle!BrowserSpec

(* Everyone who asks for a session is answered, also those who join a      *)
(* launch that is over, fails, or is refused.                              *)
OpensAnswered ==
    \A c \in Callers :
        at[c] \in {"lookup", "waiting"} ~> at[c] \in {"opened", "refused"}

(* close_all comes to an end, although others open and close sessions.     *)
ShutdownSettles == (phase = "closing") ~> (phase \in {"stopped", "aborted"})

===============================================================================
