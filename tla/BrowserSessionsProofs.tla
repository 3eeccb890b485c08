------------------------- MODULE BrowserSessionsProofs ------------------------
(***************************************************************************)
(* Theorems about BrowserSessions, for any profiles and any number of      *)
(* callers.                                                                *)
(***************************************************************************)
EXTENDS BrowserSessions, TLAPS

(* An answer to the waiting callers leaves every other caller where it is. *)
LEMMA AnswerFacts ==
    ASSUME TypeOK, NEW p \in Profiles, NEW answer \in {"opened", "refused"}, Answer(p, answer)
    PROVE  /\ at' \in [Closers -> {"idle", "lookup", "waiting", "opened", "refused", "closing"}]
           /\ \A c \in Closers : at'[c] = "idle" <=> at[c] = "idle"
           /\ \A c \in Closers : at'[c] = "lookup" <=> at[c] = "lookup"
           /\ \A c \in Closers : at'[c] = "closing" <=> at[c] = "closing"
BY DEF TypeOK, Answer

(* A caller that leaves or goes somewhere moves no other caller. *)
LEMMA GotoFacts ==
    ASSUME TypeOK, NEW c \in Closers, NEW p \in Profiles,
           NEW place \in {"lookup", "waiting", "opened", "refused", "closing"},
           Goto(c, place, p)
    PROVE  /\ at' \in [Closers -> {"idle", "lookup", "waiting", "opened", "refused", "closing"}]
           /\ want' \in [Closers -> SUBSET Profiles]
           /\ at'[c] = place /\ want'[c] = {p} /\ want'[c] # {}
           /\ \A d \in Closers : d # c => at'[d] = at[d] /\ want'[d] = want[d]
BY DEF TypeOK, Goto

(* A caller that goes elsewhere than to a lookup leaves the guard alone. *)
LEMMA GotoKeepsGuard ==
    ASSUME TypeOK, NEW c \in Callers, NEW p \in Profiles,
           NEW place \in {"waiting", "opened", "refused", "closing"},
           Goto(c, place, p), guard' = guard, at[c] # "lookup"
    PROVE  /\ at' \in [Closers -> {"idle", "lookup", "waiting", "opened", "refused", "closing"}]
           /\ want' \in [Closers -> SUBSET Profiles]
           /\ guard' \in Callers \cup {NoOne}
           /\ \A d \in Closers : at'[d] = "idle" <=> want'[d] = {}
           /\ \A d \in Callers : guard' = d <=> at'[d] = "lookup"
BY GotoFacts, CallersAssumption DEF TypeOK, Closers

(* Leaving makes a caller idle and moves no other caller. *)
LEMMA LeaveFacts ==
    ASSUME TypeOK, NEW c \in Closers, Leave(c)
    PROVE  /\ at' \in [Closers -> {"idle", "lookup", "waiting", "opened", "refused", "closing"}]
           /\ want' \in [Closers -> SUBSET Profiles]
           /\ at'[c] = "idle" /\ want'[c] = {}
           /\ \A d \in Closers : d # c => at'[d] = at[d] /\ want'[d] = want[d]
BY DEF TypeOK, Leave

(* Callers are closers, and nobody is a caller. *)
LEMMA CallerFacts ==
    /\ Callers \subseteq Closers
    /\ Shutdown \in Closers
    /\ Shutdown \notin Callers
    /\ NoOne \notin Callers
BY CallersAssumption DEF Closers

(* Every step keeps the types, and the guard with the caller that looks a  *)
(* profile up.                                                             *)
LEMMA TypeInductive == TypeOK /\ [Next]_vars => TypeOK'
<1> USE CallerFacts
<1> SUFFICES ASSUME TypeOK, [Next]_vars PROVE TypeOK'
  OBVIOUS
<1>1. CASE Store
  BY <1>1 DEF Store, CreateProfile, DeleteProfile, TypeOK, sessionVars, callerVars, shutdownVars
<1>2. ASSUME NEW c \in Callers, NEW p \in Profiles, Asks(c, p) PROVE TypeOK'
  <2>1. CASE Reuse(c, p)
    BY <2>1, GotoFacts DEF Reuse, TypeOK, sessionVars, shutdownVars
  <2>2. CASE Join(c, p)
    <3>1. PICK place \in {"opened", "refused", "waiting"} : Goto(c, place, p)
      BY <2>2 DEF Join
    <3>2. guard' = guard /\ guard # c /\ at[c] # "lookup"
      BY <2>2 DEF Join
    <3>. QED BY <2>2, <3>1, <3>2, GotoKeepsGuard DEF Join, TypeOK, sessionVars, shutdownVars
  <2>3. CASE LookUp(c, p)
    <3>1. Goto(c, "lookup", p) /\ guard' = c /\ guard = NoOne
      BY <2>3 DEF LookUp
    <3>2. \A d \in Callers : guard' = d <=> at'[d] = "lookup"
      BY <3>1, GotoFacts DEF TypeOK
    <3>. QED BY <2>3, <3>1, <3>2, GotoFacts DEF LookUp, TypeOK, sessionVars, shutdownVars
  <2>4. CASE Close(c, p)
    BY <2>4, GotoFacts DEF Close, Detach, TypeOK, shutdownVars
  <2>. QED BY <1>2, <2>1, <2>2, <2>3, <2>4 DEF Asks
<1>3. ASSUME NEW c \in Callers, NEW p \in Profiles, GoesOn(c, p) PROVE TypeOK'
  <2>1. CASE LookUpFinds(c, p)
    <3>1. Goto(c, "waiting", p) /\ guard' = NoOne /\ guard = c
      BY <2>1 DEF LookUpFinds
    <3>2. \A d \in Callers : guard' = d <=> at'[d] = "lookup"
      BY <3>1, GotoFacts DEF TypeOK
    <3>. QED BY <2>1, <3>1, <3>2, GotoFacts DEF LookUpFinds, TypeOK, shutdownVars
  <2>2. CASE LookUpMisses(c, p)
    BY <2>2, GotoFacts DEF LookUpMisses, TypeOK, sessionVars, shutdownVars
  <2>. QED BY <1>3, <2>1, <2>2 DEF GoesOn
<1>4. ASSUME NEW p \in Profiles, Launching(p) PROVE TypeOK'
  <2>1. CASE LaunchStarts(p)
    BY <2>1 DEF LaunchStarts, TypeOK, callerVars, shutdownVars
  <2>2. CASE LaunchRefused(p)
    BY <2>2, AnswerFacts DEF LaunchRefused, TypeOK, shutdownVars
  <2>3. CASE LaunchDone(p)
    BY <2>3, AnswerFacts DEF LaunchDone, TypeOK, shutdownVars
  <2>4. CASE LaunchFails(p)
    BY <2>4, AnswerFacts DEF LaunchFails, TypeOK, shutdownVars
  <2>. QED BY <1>4, <2>1, <2>2, <2>3, <2>4 DEF Launching
<1>5. ASSUME NEW p \in Profiles, Cleanup(p) PROVE TypeOK'
  BY <1>5 DEF Cleanup, TypeOK, callerVars, shutdownVars
<1>6. ASSUME NEW c \in Callers, Return(c) PROVE TypeOK'
  BY <1>6, LeaveFacts DEF Return, TypeOK, sessionVars, shutdownVars
<1>7. ASSUME NEW c \in Closers, NEW p \in Profiles, CloseEnds(c, p) PROVE TypeOK'
  BY <1>7, LeaveFacts DEF CloseEnds, Closed, TypeOK, shutdownVars
<1>8. ASSUME NEW p \in Profiles, CloseAllRaises(p) PROVE TypeOK'
  BY <1>8, LeaveFacts DEF CloseAllRaises, Closed, TypeOK
<1>9. CASE ShutdownBegins
  BY <1>9 DEF ShutdownBegins, TypeOK, sessionVars, callerVars
<1>10. CASE CloseAll
  <2>1. ASSUME NEW p \in Profiles, CloseAllNext(p) PROVE TypeOK'
    BY <2>1, GotoFacts DEF CloseAllNext, Detach, TypeOK
  <2>2. ASSUME NEW p \in Profiles, CloseAllMisses(p) PROVE TypeOK'
    BY <2>2 DEF CloseAllMisses, TypeOK, sessionVars, callerVars
  <2>3. CASE CloseAllEnds
    BY <2>3 DEF CloseAllEnds, TypeOK, sessionVars, callerVars
  <2>. QED BY <1>10, <2>1, <2>2, <2>3 DEF CloseAll
<1>11. CASE UNCHANGED vars
  BY <1>11 DEF vars, TypeOK
<1>. QED BY <1>1, <1>2, <1>3, <1>4, <1>5, <1>6, <1>7, <1>8, <1>9, <1>10, <1>11 DEF Next

(* Type correctness: sessions, launches, locks and callers stay in their   *)
(* ranges, and the guard is held exactly by the caller that looks a        *)
(* profile up.                                                             *)
THEOREM TypeCorrect == Spec => []TypeOK
<1>1. Init => TypeOK
  BY CallerFacts DEF Init, TypeOK
<1>. QED BY <1>1, TypeInductive, PTL DEF Spec

-------------------------------------------------------------------------------
(* While a caller looks a profile up, nothing launches it: this is what    *)
(* _open_guard is for.                                                     *)

GuardInv == \A c \in Callers, p \in Profiles :
                at[c] = "lookup" /\ want[c] = {p} => launch[p] = "none"

(* A lookup of a profile is of no other. *)
LEMMA SameSingleton == \A p, q : {p} = {q} => p = q
OBVIOUS

(* Every step keeps the profile that is looked up without a launch. *)
LEMMA GuardInductive == TypeOK /\ GuardInv /\ [Next]_vars => GuardInv'
<1> USE CallerFacts
<1> SUFFICES ASSUME TypeOK, GuardInv, [Next]_vars,
                    NEW d \in Callers, NEW q \in Profiles,
                    at'[d] = "lookup", want'[d] = {q}
             PROVE  launch'[q] = "none"
  BY DEF GuardInv
<1>0. ASSUME at[d] = "lookup", want[d] = {q},
             \A p \in Profiles : launch[p] = "none" => launch'[p] = "none"
      PROVE  launch'[q] = "none"
  BY <1>0 DEF GuardInv
<1>1. CASE Store
  BY <1>0, <1>1 DEF Store, CreateProfile, DeleteProfile, sessionVars, callerVars
<1>2. ASSUME NEW c \in Callers, NEW p \in Profiles, Asks(c, p) PROVE launch'[q] = "none"
  <2>1. CASE Reuse(c, p)
    BY <1>0, <2>1, GotoFacts DEF Reuse, sessionVars
  <2>2. CASE Join(c, p)
    <3>1. PICK place \in {"opened", "refused", "waiting"} : Goto(c, place, p)
      BY <2>2 DEF Join
    <3>. QED BY <1>0, <2>2, <3>1, GotoFacts DEF Join, sessionVars
  <2>3. CASE LookUp(c, p)
    <3>1. Goto(c, "lookup", p) /\ launch[p] = "none" /\ launch' = launch
      BY <2>3 DEF LookUp, sessionVars
    <3>. QED BY <1>0, <3>1, GotoFacts, SameSingleton
  <2>4. CASE Close(c, p)
    BY <1>0, <2>4, GotoFacts DEF Close, Detach
  <2>. QED BY <1>2, <2>1, <2>2, <2>3, <2>4 DEF Asks
<1>3. ASSUME NEW c \in Callers, NEW p \in Profiles, GoesOn(c, p) PROVE launch'[q] = "none"
  <2>1. CASE LookUpFinds(c, p)
    <3>1. Goto(c, "waiting", p) /\ guard = c
      BY <2>1 DEF LookUpFinds
    <3>. QED BY <3>1, GotoFacts DEF TypeOK
  <2>2. CASE LookUpMisses(c, p)
    BY <1>0, <2>2, GotoFacts DEF LookUpMisses, sessionVars
  <2>. QED BY <1>3, <2>1, <2>2 DEF GoesOn
<1>4. ASSUME NEW p \in Profiles, Launching(p) PROVE launch'[q] = "none"
  <2>1. CASE LaunchStarts(p)
    BY <1>0, <2>1 DEF LaunchStarts, TypeOK, callerVars
  <2>2. CASE LaunchRefused(p)
    BY <1>0, <2>2, AnswerFacts DEF LaunchRefused, TypeOK
  <2>3. CASE LaunchDone(p)
    BY <1>0, <2>3, AnswerFacts DEF LaunchDone, TypeOK
  <2>4. CASE LaunchFails(p)
    BY <1>0, <2>4, AnswerFacts DEF LaunchFails, TypeOK
  <2>. QED BY <1>4, <2>1, <2>2, <2>3, <2>4 DEF Launching
<1>5. ASSUME NEW p \in Profiles, Cleanup(p) PROVE launch'[q] = "none"
  BY <1>0, <1>5 DEF Cleanup, TypeOK, callerVars
<1>6. ASSUME NEW c \in Callers, Return(c) PROVE launch'[q] = "none"
  BY <1>0, <1>6, LeaveFacts DEF Return, sessionVars
<1>7. ASSUME NEW c \in Closers, NEW p \in Profiles, Closed(c, p) PROVE launch'[q] = "none"
  BY <1>0, <1>7, LeaveFacts DEF Closed
<1>8. CASE ShutdownBegins
  BY <1>0, <1>8 DEF ShutdownBegins, sessionVars, callerVars
<1>9. CASE CloseAll
  <2>1. ASSUME NEW p \in Profiles, CloseAllNext(p) PROVE launch'[q] = "none"
    BY <1>0, <2>1, GotoFacts DEF CloseAllNext, Detach
  <2>2. ASSUME NEW p \in Profiles, CloseAllMisses(p) PROVE launch'[q] = "none"
    BY <1>0, <2>2 DEF CloseAllMisses, sessionVars, callerVars
  <2>3. CASE CloseAllEnds
    BY <1>0, <2>3 DEF CloseAllEnds, sessionVars, callerVars
  <2>. QED BY <1>9, <2>1, <2>2, <2>3 DEF CloseAll
<1>10. CASE UNCHANGED vars
  BY <1>0, <1>10 DEF vars
<1>. QED BY <1>1, <1>2, <1>3, <1>4, <1>5, <1>6, <1>7, <1>8, <1>9, <1>10
         DEF Next, CloseEnds, CloseAllRaises

-------------------------------------------------------------------------------
(* What a step can do to browsers and locks: nothing, or one turn of one   *)
(* profile's browser.                                                      *)

SameClosings ==
    \A c \in Closers :
        /\ at'[c] = "closing" <=> at[c] = "closing"
        /\ at[c] = "closing" => want'[c] = want[c]

Quiet ==
    /\ SameClosings
    /\ active' = active /\ locked' = locked
    /\ \A p \in Profiles : launch'[p] = "launching" <=> launch[p] = "launching"

Starts(p) ==
    /\ SameClosings
    /\ p \notin locked
    /\ active' = active /\ locked' = locked \cup {p}
    /\ launch' = [launch EXCEPT ![p] = "launching"]

Opens(p) ==
    /\ SameClosings
    /\ launch[p] = "launching"
    /\ active' = active \cup {p} /\ locked' = locked
    /\ launch' = [launch EXCEPT ![p] = "opened"]

Fails(p) ==
    /\ SameClosings
    /\ launch[p] = "launching"
    /\ active' = active /\ locked' = locked \ {p}
    /\ launch' = [launch EXCEPT ![p] = "failed"]

Detaches(c, p) ==
    /\ at[c] = "idle" /\ p \in active
    /\ active' = active \ {p} /\ locked' = locked /\ launch' = launch
    /\ Goto(c, "closing", p)

Ends(c, p) ==
    /\ at[c] = "closing" /\ want[c] = {p}
    /\ active' = active /\ locked' = locked \ {p} /\ launch' = launch
    /\ Leave(c)

BrowserStep ==
    \/ Quiet
    \/ \E p \in Profiles : Starts(p) \/ Opens(p) \/ Fails(p)
    \/ \E c \in Closers, p \in Profiles : Detaches(c, p) \/ Ends(c, p)

(* A caller that was not closing and does not begin to changes no closing. *)
LEMMA GotoClosings ==
    ASSUME TypeOK, NEW c \in Closers, NEW p \in Profiles, at[c] # "closing",
           NEW place \in {"lookup", "waiting", "opened", "refused"}, Goto(c, place, p)
    PROVE  SameClosings
BY GotoFacts DEF SameClosings

(* Every step of the session manager is a step of one of these kinds; the  *)
(* lookup that creates a launch task overwrites no other task.             *)
LEMMA StepsTurn == TypeOK /\ GuardInv /\ [Next]_vars => BrowserStep
<1> USE CallerFacts
<1> SUFFICES ASSUME TypeOK, GuardInv, [Next]_vars PROVE BrowserStep
  OBVIOUS
<1>1. CASE Store
  BY <1>1 DEF Store, CreateProfile, DeleteProfile, sessionVars, callerVars,
              BrowserStep, Quiet, SameClosings
<1>2. ASSUME NEW c \in Callers, NEW p \in Profiles, Asks(c, p) PROVE BrowserStep
  <2>1. CASE Reuse(c, p)
    BY <2>1, GotoClosings DEF Reuse, sessionVars, BrowserStep, Quiet
  <2>2. CASE Join(c, p)
    <3>1. PICK place \in {"opened", "refused", "waiting"} : Goto(c, place, p)
      BY <2>2 DEF Join
    <3>. QED BY <2>2, <3>1, GotoClosings DEF Join, sessionVars, BrowserStep, Quiet
  <2>3. CASE LookUp(c, p)
    BY <2>3, GotoClosings DEF LookUp, sessionVars, BrowserStep, Quiet
  <2>4. CASE Close(c, p)
    BY <2>4 DEF Close, Detach, BrowserStep, Detaches
  <2>. QED BY <1>2, <2>1, <2>2, <2>3, <2>4 DEF Asks
<1>3. ASSUME NEW c \in Callers, NEW p \in Profiles, GoesOn(c, p) PROVE BrowserStep
  <2>0. guard = c /\ at[c] = "lookup" /\ want[c] = {p} /\ launch[p] = "none"
    BY <1>3 DEF GoesOn, LookUpFinds, LookUpMisses, TypeOK, GuardInv
  <2>1. CASE LookUpFinds(c, p)
    <3>1. SameClosings
      BY <2>0, <2>1, GotoClosings DEF LookUpFinds
    <3>2. \A q \in Profiles : launch'[q] = "launching" <=> launch[q] = "launching"
      BY <2>0, <2>1 DEF LookUpFinds, TypeOK
    <3>. QED BY <2>1, <3>1, <3>2 DEF LookUpFinds, BrowserStep, Quiet
  <2>2. CASE LookUpMisses(c, p)
    BY <2>0, <2>2, GotoClosings DEF LookUpMisses, sessionVars, BrowserStep, Quiet
  <2>. QED BY <1>3, <2>1, <2>2 DEF GoesOn
<1>4. ASSUME NEW p \in Profiles, Launching(p) PROVE BrowserStep
  <2>1. CASE LaunchStarts(p)
    BY <2>1 DEF LaunchStarts, callerVars, BrowserStep, Starts, SameClosings
  <2>2. CASE LaunchRefused(p)
    <3>1. SameClosings
      BY <2>2, AnswerFacts DEF LaunchRefused, SameClosings
    <3>. QED BY <2>2, <3>1 DEF LaunchRefused, TypeOK, BrowserStep, Quiet
  <2>3. CASE LaunchDone(p)
    <3>1. SameClosings
      BY <2>3, AnswerFacts DEF LaunchDone, SameClosings
    <3>. QED BY <2>3, <3>1 DEF LaunchDone, BrowserStep, Opens
  <2>4. CASE LaunchFails(p)
    <3>1. SameClosings
      BY <2>4, AnswerFacts DEF LaunchFails, SameClosings
    <3>. QED BY <2>4, <3>1 DEF LaunchFails, BrowserStep, Fails
  <2>. QED BY <1>4, <2>1, <2>2, <2>3, <2>4 DEF Launching
<1>5. ASSUME NEW p \in Profiles, Cleanup(p) PROVE BrowserStep
  BY <1>5 DEF Cleanup, TypeOK, callerVars, BrowserStep, Quiet, SameClosings
<1>6. ASSUME NEW c \in Callers, Return(c) PROVE BrowserStep
  <2>1. SameClosings
    BY <1>6, LeaveFacts DEF Return, SameClosings
  <2>. QED BY <1>6, <2>1 DEF Return, sessionVars, BrowserStep, Quiet
<1>7. ASSUME NEW c \in Closers, NEW p \in Profiles, Closed(c, p) PROVE BrowserStep
  BY <1>7 DEF Closed, BrowserStep, Ends
<1>8. CASE ShutdownBegins
  BY <1>8 DEF ShutdownBegins, sessionVars, callerVars, BrowserStep, Quiet, SameClosings
<1>9. CASE CloseAll
  <2>1. ASSUME NEW p \in Profiles, CloseAllNext(p) PROVE BrowserStep
    BY <2>1 DEF CloseAllNext, Detach, BrowserStep, Detaches
  <2>2. ASSUME NEW p \in Profiles, CloseAllMisses(p) PROVE BrowserStep
    BY <2>2 DEF CloseAllMisses, sessionVars, callerVars, BrowserStep, Quiet, SameClosings
  <2>3. CASE CloseAllEnds
    BY <2>3 DEF CloseAllEnds, sessionVars, callerVars, BrowserStep, Quiet, SameClosings
  <2>. QED BY <1>9, <2>1, <2>2, <2>3 DEF CloseAll
<1>10. CASE UNCHANGED vars
  BY <1>10 DEF vars, BrowserStep, Quiet, SameClosings
<1>. QED BY <1>1, <1>2, <1>3, <1>4, <1>5, <1>6, <1>7, <1>8, <1>9, <1>10
         DEF Next, CloseEnds, CloseAllRaises

-------------------------------------------------------------------------------
(* The invariant of locks and browsers: what OneBrowser says, and the lock *)
(* is held exactly while there is a browser.                               *)

Has(p) == launch[p] = "launching" \/ p \in active \/ Closing(p)

BrowserInv == OneBrowser /\ \A p \in Profiles : p \in locked <=> Has(p)

(* A step that leaves the closing callers alone closes the same browsers.  *)
LEMMA ClosingsKept ==
    ASSUME SameClosings
    PROVE  /\ \A p \in Profiles : Closing(p)' <=> Closing(p)
           /\ \A c, d \in Closers : at'[c] = "closing" /\ at'[d] = "closing" /\ want'[c] = want'[d]
                  => at[c] = "closing" /\ at[d] = "closing" /\ want[c] = want[d]
BY DEF SameClosings, Closing

(* A caller that takes a session off the table is the only one that closes *)
(* its browser.                                                            *)
LEMMA DetachCloses ==
    ASSUME TypeOK, BrowserInv, NEW c \in Closers, NEW p \in Profiles, Detaches(c, p)
    PROVE  /\ Closing(p)' /\ ~Closing(p)
           /\ \A q \in Profiles : q # p => (Closing(q)' <=> Closing(q))
           /\ \A d, e \in Closers :
                 at'[d] = "closing" /\ at'[e] = "closing" /\ want'[d] = want'[e] => d = e
           /\ launch[p] # "launching" /\ p \in locked
<1>1. /\ at[c] = "idle" /\ at'[c] = "closing" /\ want'[c] = {p}
      /\ \A d \in Closers : d # c => at'[d] = at[d] /\ want'[d] = want[d]
  BY GotoFacts DEF Detaches
<1>2. Closing(p)' /\ ~Closing(p) /\ launch[p] # "launching" /\ p \in locked
  BY <1>1 DEF Detaches, Closing, BrowserInv, OneBrowser, Has
<1>3. \A q \in Profiles : q # p => (Closing(q)' <=> Closing(q))
  BY <1>1, SameSingleton DEF Closing
<1>4. \A d, e \in Closers :
         at'[d] = "closing" /\ at'[e] = "closing" /\ want'[d] = want'[e] => d = e
  BY <1>1, <1>2 DEF Closing, BrowserInv, OneBrowser
<1>. QED BY <1>2, <1>3, <1>4

(* When a close is over, nobody else closes the browser of that profile.   *)
LEMMA EndCloses ==
    ASSUME TypeOK, BrowserInv, NEW c \in Closers, NEW p \in Profiles, Ends(c, p)
    PROVE  /\ Closing(p) /\ ~Closing(p)'
           /\ \A q \in Profiles : q # p => (Closing(q)' <=> Closing(q))
           /\ \A d, e \in Closers :
                 at'[d] = "closing" /\ at'[e] = "closing" /\ want'[d] = want'[e] => d = e
           /\ p \notin active /\ launch[p] # "launching"
<1>1. /\ at'[c] = "idle" /\ at[c] = "closing" /\ want[c] = {p}
      /\ \A d \in Closers : d # c => at'[d] = at[d] /\ want'[d] = want[d]
  BY LeaveFacts DEF Ends
<1>2. Closing(p)
  BY <1>1 DEF Closing
<1>3. ~Closing(p)'
  <2>1. ASSUME NEW d \in Closers, at'[d] = "closing", want'[d] = {p}
        PROVE  FALSE
    <3>1. d # c /\ at[d] = "closing" /\ want[d] = want[c]
      BY <1>1, <2>1
    <3>. QED BY <1>1, <3>1 DEF BrowserInv, OneBrowser
  <2>. QED BY <2>1 DEF Closing
<1>4. p \notin active /\ launch[p] # "launching"
  BY <1>2 DEF BrowserInv, OneBrowser
<1>5. \A q \in Profiles : q # p => (Closing(q)' <=> Closing(q))
  <2>1. ASSUME NEW q \in Profiles, q # p, NEW d \in Closers, at[d] = "closing", want[d] = {q}
        PROVE  at'[d] = "closing" /\ want'[d] = {q}
    <3>1. d # c
      BY <1>1, <2>1, SameSingleton
    <3>. QED BY <1>1, <2>1, <3>1
  <2>2. ASSUME NEW q \in Profiles, q # p, NEW d \in Closers, at'[d] = "closing", want'[d] = {q}
        PROVE  at[d] = "closing" /\ want[d] = {q}
    BY <1>1, <2>2
  <2>. QED BY <2>1, <2>2 DEF Closing
<1>6. \A d, e \in Closers :
         at'[d] = "closing" /\ at'[e] = "closing" /\ want'[d] = want'[e] => d = e
  BY <1>1 DEF BrowserInv, OneBrowser
<1>. QED BY <1>2, <1>3, <1>4, <1>5, <1>6

(* Every kind of step keeps at most one browser per profile, and its lock. *)
LEMMA BrowserInvInductive == TypeOK /\ BrowserInv /\ BrowserStep => BrowserInv'
<1> SUFFICES ASSUME TypeOK, BrowserInv, BrowserStep PROVE BrowserInv'
  OBVIOUS
<1> USE DEF BrowserInv, OneBrowser, Has
<1>1. CASE Quiet
  BY <1>1, ClosingsKept DEF Quiet, TypeOK
<1>2. ASSUME NEW p \in Profiles, Starts(p) PROVE BrowserInv'
  BY <1>2, ClosingsKept DEF Starts, TypeOK
<1>3. ASSUME NEW p \in Profiles, Opens(p) PROVE BrowserInv'
  BY <1>3, ClosingsKept DEF Opens, TypeOK
<1>4. ASSUME NEW p \in Profiles, Fails(p) PROVE BrowserInv'
  BY <1>4, ClosingsKept DEF Fails, TypeOK
<1>5. ASSUME NEW c \in Closers, NEW p \in Profiles, Detaches(c, p) PROVE BrowserInv'
  <2>1. /\ Closing(p)' /\ ~Closing(p) /\ p \in active /\ launch[p] # "launching" /\ p \in locked
        /\ \A q \in Profiles : q # p => (Closing(q)' <=> Closing(q))
        /\ \A d, e \in Closers :
              at'[d] = "closing" /\ at'[e] = "closing" /\ want'[d] = want'[e] => d = e
    BY <1>5, DetachCloses DEF Detaches
  <2>2. \A q \in Profiles : q # p => (q \in active' <=> q \in active)
    BY <1>5 DEF Detaches
  <2>3. p \notin active' /\ locked' = locked /\ launch' = launch
    BY <1>5 DEF Detaches
  <2>. QED BY <2>1, <2>2, <2>3
<1>6. ASSUME NEW c \in Closers, NEW p \in Profiles, Ends(c, p) PROVE BrowserInv'
  <2>1. /\ Closing(p) /\ ~Closing(p)' /\ p \notin active /\ launch[p] # "launching"
        /\ \A q \in Profiles : q # p => (Closing(q)' <=> Closing(q))
        /\ \A d, e \in Closers :
              at'[d] = "closing" /\ at'[e] = "closing" /\ want'[d] = want'[e] => d = e
    BY <1>6, EndCloses
  <2>. QED BY <1>6, <2>1 DEF Ends
<1>. QED BY <1>1, <1>2, <1>3, <1>4, <1>5, <1>6 DEF BrowserStep

(* Types, guard and browsers together, and every step is of a known kind.  *)
LEMMA SessionInvariant ==
    Spec => [](TypeOK /\ GuardInv /\ BrowserInv) /\ [][BrowserStep]_vars
<1>1. Init => TypeOK /\ GuardInv /\ BrowserInv
  BY CallerFacts DEF Init, TypeOK, GuardInv, BrowserInv, OneBrowser, Has, Closing
<1>2. TypeOK /\ GuardInv /\ BrowserInv /\ [Next]_vars
        => (TypeOK /\ GuardInv /\ BrowserInv)' /\ BrowserStep
  BY TypeInductive, GuardInductive, StepsTurn, BrowserInvInductive
<1>. QED BY <1>1, <1>2, PTL DEF Spec

(* For any profiles and callers, a profile never has two browsers, and no  *)
(* two tasks close the same one.                                           *)
THEOREM OneBrowserCorrect == Spec => []OneBrowser
BY SessionInvariant, PTL DEF BrowserInv

(* For any profiles and callers, a lock is held exactly while its profile  *)
(* has a browser.                                                          *)
THEOREM LockedByBrowserCorrect == Spec => []LockedByBrowser
<1>1. BrowserInv => LockedByBrowser
  BY DEF BrowserInv, Has, LockedByBrowser, Browser
<1>. QED BY <1>1, SessionInvariant, PTL

-------------------------------------------------------------------------------
(* The session manager implements BrowserLifecycle.                        *)

(* If nothing about the browser of a profile changes, its value does not.  *)
LEMMA BrowserKept ==
    ASSUME NEW p \in Profiles,
           launch'[p] = "launching" <=> launch[p] = "launching",
           p \in active' <=> p \in active,
           Closing(p)' <=> Closing(p)
    PROVE  Browser(p)' = Browser(p)
BY DEF Browser

(* One profile's browser takes a turn of the abstract specification. *)
LEMMA BrowserTurns ==
    ASSUME NEW p \in Profiles, NEW from, NEW to,
           Browser(p) = from, Browser(p)' = to,
           \A q \in Profiles : q # p => Browser(q)' = Browser(q)
    PROVE  Lifecycle!Turn(p, from, to)
BY DEF Lifecycle!Turn

(* Every step is a turn of one browser, or a stutter. *)
LEMMA StepsAbstract ==
    TypeOK /\ BrowserInv /\ BrowserStep
        => [Lifecycle!BrowserNext]_([p \in Profiles |-> Browser(p)])
<1> SUFFICES ASSUME TypeOK, BrowserInv, BrowserStep
             PROVE  [Lifecycle!BrowserNext]_([p \in Profiles |-> Browser(p)])
  OBVIOUS
<1> USE DEF BrowserInv, OneBrowser, Has
<1>1. CASE Quiet
  <2>1. \A p \in Profiles : Browser(p)' = Browser(p)
    BY <1>1, ClosingsKept, BrowserKept DEF Quiet
  <2>. QED BY <2>1
<1>2. ASSUME NEW p \in Profiles, Starts(p) PROVE Lifecycle!BrowserNext
  <2>1. Browser(p) = "none" /\ Browser(p)' = "starting"
    BY <1>2 DEF Starts, TypeOK, Browser
  <2>2. \A q \in Profiles : q # p => Browser(q)' = Browser(q)
    BY <1>2, ClosingsKept, BrowserKept DEF Starts, TypeOK
  <2>. QED BY <2>1, <2>2, BrowserTurns DEF Lifecycle!BrowserNext
<1>3. ASSUME NEW p \in Profiles, Opens(p) PROVE Lifecycle!BrowserNext
  <2>1. Browser(p) = "starting" /\ Browser(p)' = "running"
    BY <1>3 DEF Opens, TypeOK, Browser
  <2>2. \A q \in Profiles : q # p => Browser(q)' = Browser(q)
    BY <1>3, ClosingsKept, BrowserKept DEF Opens, TypeOK
  <2>. QED BY <2>1, <2>2, BrowserTurns DEF Lifecycle!BrowserNext
<1>4. ASSUME NEW p \in Profiles, Fails(p) PROVE Lifecycle!BrowserNext
  <2>1. Browser(p) = "starting" /\ Browser(p)' = "none"
    BY <1>4, ClosingsKept DEF Fails, TypeOK, Browser
  <2>2. \A q \in Profiles : q # p => Browser(q)' = Browser(q)
    BY <1>4, ClosingsKept, BrowserKept DEF Fails, TypeOK
  <2>. QED BY <2>1, <2>2, BrowserTurns DEF Lifecycle!BrowserNext
<1>5. ASSUME NEW c \in Closers, NEW p \in Profiles, Detaches(c, p) PROVE Lifecycle!BrowserNext
  <2>1. Closing(p)' /\ \A q \in Profiles : q # p => (Closing(q)' <=> Closing(q))
    BY <1>5, DetachCloses
  <2>2. Browser(p) = "running" /\ Browser(p)' = "closing"
    BY <1>5, <2>1 DEF Detaches, Browser
  <2>3. \A q \in Profiles : q # p => Browser(q)' = Browser(q)
    BY <1>5, <2>1, BrowserKept DEF Detaches
  <2>. QED BY <2>2, <2>3, BrowserTurns DEF Lifecycle!BrowserNext
<1>6. ASSUME NEW c \in Closers, NEW p \in Profiles, Ends(c, p) PROVE Lifecycle!BrowserNext
  <2>1. /\ Closing(p) /\ ~Closing(p)'
        /\ \A q \in Profiles : q # p => (Closing(q)' <=> Closing(q))
    BY <1>6, EndCloses
  <2>2. Browser(p) = "closing" /\ Browser(p)' = "none"
    BY <1>6, <2>1 DEF Ends, Browser
  <2>3. \A q \in Profiles : q # p => Browser(q)' = Browser(q)
    BY <1>6, <2>1, BrowserKept DEF Ends
  <2>. QED BY <2>2, <2>3, BrowserTurns DEF Lifecycle!BrowserNext
<1>. QED BY <1>1, <1>2, <1>3, <1>4, <1>5, <1>6 DEF BrowserStep

(* The session manager implements BrowserLifecycle: a browser starts only  *)
(* when the last browser of its profile is gone.                           *)
THEOREM BrowserLifecycleCorrect == Spec => BrowserSpec
<1>1. Init => Lifecycle!BrowserInit
  BY DEF Init, Lifecycle!BrowserInit, Browser, Closing
<1>2. TypeOK /\ BrowserInv /\ [BrowserStep]_vars
        => [Lifecycle!BrowserNext]_([p \in Profiles |-> Browser(p)])
  <2>1. CASE BrowserStep
    BY <2>1, StepsAbstract
  <2>2. CASE UNCHANGED vars
    BY <2>2 DEF vars, Browser, Closing
  <2>. QED BY <2>1, <2>2
<1>. QED BY <1>1, <1>2, SessionInvariant, PTL DEF Spec, BrowserSpec, Lifecycle!BrowserSpec

-------------------------------------------------------------------------------
(* The safety that OpensAnswered rests on: a caller waits only for a       *)
(* launch task that still runs, and the end of that task answers it.       *)

UnderWay == {"scheduled", "launching"}

Awaited(c) == \E p \in Profiles : want[c] = {p} /\ launch[p] \in UnderWay

WaitersAwaited == \A c \in Callers : at[c] = "waiting" => Awaited(c)

(* A caller that becomes "opened" gets a session of the table, unless it   *)
(* joins a launch that has succeeded and is not cleaned up yet.            *)
OpenedLive ==
    \A c \in Callers, p \in Profiles :
        at[c] # "opened" /\ at'[c] = "opened" /\ want'[c] = {p}
            => p \in active' \/ (launch[p] = "opened" /\ at[c] = "idle")

(* Who waited before, and whose launch task goes on, is still awaited. *)
LEMMA AwaitedKept ==
    ASSUME NEW d \in Callers, Awaited(d), want'[d] = want[d],
           \A p \in Profiles : want[d] = {p} /\ launch[p] \in UnderWay => launch'[p] \in UnderWay
    PROVE  Awaited(d)'
BY DEF Awaited

(* When a launch task ends, who still waits waits for another one. *)
LEMMA AnswerAwaited ==
    ASSUME TypeOK, WaitersAwaited, NEW p \in Profiles, NEW answer \in {"opened", "refused"},
           NEW over, Answer(p, answer), want' = want, launch' = [launch EXCEPT ![p] = over]
    PROVE  WaitersAwaited'
<1> SUFFICES ASSUME NEW d \in Callers, at'[d] = "waiting" PROVE Awaited(d)'
  BY DEF WaitersAwaited
<1>1. at[d] = "waiting" /\ want[d] # {p}
  BY CallerFacts DEF Answer
<1>2. \A q \in Profiles : want[d] = {q} => launch'[q] = launch[q]
  BY <1>1 DEF TypeOK
<1>. QED BY <1>1, <1>2, AwaitedKept DEF WaitersAwaited

(* A step that sends no further caller to wait and ends no launch leaves   *)
(* every waiting caller awaited.                                           *)
LEMMA NoneAwaitedMore ==
    ASSUME WaitersAwaited,
           \A d \in Callers : at'[d] = "waiting" => at[d] = "waiting" /\ want'[d] = want[d],
           \A p \in Profiles : launch[p] \in UnderWay => launch'[p] \in UnderWay
    PROVE  WaitersAwaited'
BY AwaitedKept DEF WaitersAwaited

(* Every step keeps the waiting callers awaited. *)
LEMMA WaitersInductive == TypeOK /\ WaitersAwaited /\ [Next]_vars => WaitersAwaited'
<1> USE CallerFacts
<1> SUFFICES ASSUME TypeOK, WaitersAwaited, [Next]_vars PROVE WaitersAwaited'
  OBVIOUS
<1>1. CASE Store
  BY <1>1, NoneAwaitedMore DEF Store, CreateProfile, DeleteProfile, sessionVars, callerVars
<1>2. ASSUME NEW c \in Callers, NEW p \in Profiles, Asks(c, p) PROVE WaitersAwaited'
  <2>1. CASE Reuse(c, p)
    BY <2>1, GotoFacts, NoneAwaitedMore DEF Reuse, sessionVars
  <2>2. CASE Join(c, p)
    <3>1. PICK place \in {"opened", "refused", "waiting"} :
             Goto(c, place, p) /\ (place = "waiting" => launch[p] \in UnderWay)
      <4>1. launch[p] \in {"scheduled", "launching", "opened", "failed"}
        BY <2>2 DEF Join, TypeOK
      <4>. QED BY <2>2, <4>1 DEF Join, UnderWay
    <3>2. launch' = launch
      BY <2>2 DEF Join, sessionVars
    <3>3. ASSUME NEW d \in Callers, at'[d] = "waiting" PROVE Awaited(d)'
      <4>1. CASE d = c
        BY <3>1, <3>2, <3>3, <4>1, GotoFacts DEF Awaited
      <4>2. CASE d # c
        BY <3>1, <3>2, <3>3, <4>2, GotoFacts, AwaitedKept DEF WaitersAwaited
      <4>. QED BY <4>1, <4>2
    <3>. QED BY <3>3 DEF WaitersAwaited
  <2>3. CASE LookUp(c, p)
    BY <2>3, GotoFacts, NoneAwaitedMore DEF LookUp, sessionVars
  <2>4. CASE Close(c, p)
    BY <2>4, GotoFacts, NoneAwaitedMore DEF Close, Detach
  <2>. QED BY <1>2, <2>1, <2>2, <2>3, <2>4 DEF Asks
<1>3. ASSUME NEW c \in Callers, NEW p \in Profiles, GoesOn(c, p) PROVE WaitersAwaited'
  <2>1. CASE LookUpFinds(c, p)
    <3>1. /\ Goto(c, "waiting", p)
          /\ launch'[p] \in UnderWay
          /\ \A q \in Profiles : launch[q] \in UnderWay => launch'[q] \in UnderWay
      BY <2>1 DEF LookUpFinds, TypeOK, UnderWay
    <3>2. ASSUME NEW d \in Callers, at'[d] = "waiting" PROVE Awaited(d)'
      <4>1. CASE d = c
        BY <3>1, <4>1, GotoFacts DEF Awaited
      <4>2. CASE d # c
        BY <3>1, <3>2, <4>2, GotoFacts, AwaitedKept DEF WaitersAwaited
      <4>. QED BY <4>1, <4>2
    <3>. QED BY <3>2 DEF WaitersAwaited
  <2>2. CASE LookUpMisses(c, p)
    BY <2>2, GotoFacts, NoneAwaitedMore DEF LookUpMisses, sessionVars
  <2>. QED BY <1>3, <2>1, <2>2 DEF GoesOn
<1>4. ASSUME NEW p \in Profiles, Launching(p) PROVE WaitersAwaited'
  <2>1. CASE LaunchStarts(p)
    <3>1. \A q \in Profiles : launch[q] \in UnderWay => launch'[q] \in UnderWay
      BY <2>1 DEF LaunchStarts, TypeOK, UnderWay
    <3>. QED BY <2>1, <3>1, NoneAwaitedMore DEF LaunchStarts, callerVars
  <2>2. CASE LaunchRefused(p)
    BY <2>2, AnswerAwaited DEF LaunchRefused
  <2>3. CASE LaunchDone(p)
    BY <2>3, AnswerAwaited DEF LaunchDone
  <2>4. CASE LaunchFails(p)
    BY <2>4, AnswerAwaited DEF LaunchFails
  <2>. QED BY <1>4, <2>1, <2>2, <2>3, <2>4 DEF Launching
<1>5. ASSUME NEW p \in Profiles, Cleanup(p) PROVE WaitersAwaited'
  <2>1. \A q \in Profiles : launch[q] \in UnderWay => launch'[q] \in UnderWay
    BY <1>5 DEF Cleanup, TypeOK, UnderWay
  <2>. QED BY <1>5, <2>1, NoneAwaitedMore DEF Cleanup, callerVars
<1>6. ASSUME NEW c \in Callers, Return(c) PROVE WaitersAwaited'
  BY <1>6, LeaveFacts, NoneAwaitedMore DEF Return, sessionVars
<1>7. ASSUME NEW c \in Closers, NEW p \in Profiles, Closed(c, p) PROVE WaitersAwaited'
  BY <1>7, LeaveFacts, NoneAwaitedMore DEF Closed
<1>8. CASE ShutdownBegins
  BY <1>8, NoneAwaitedMore DEF ShutdownBegins, sessionVars, callerVars
<1>9. CASE CloseAll
  <2>1. ASSUME NEW p \in Profiles, CloseAllNext(p) PROVE WaitersAwaited'
    BY <2>1, GotoFacts, NoneAwaitedMore DEF CloseAllNext, Detach
  <2>2. ASSUME NEW p \in Profiles, CloseAllMisses(p) PROVE WaitersAwaited'
    BY <2>2, NoneAwaitedMore DEF CloseAllMisses, sessionVars, callerVars
  <2>3. CASE CloseAllEnds
    BY <2>3, NoneAwaitedMore DEF CloseAllEnds, sessionVars, callerVars
  <2>. QED BY <1>9, <2>1, <2>2, <2>3 DEF CloseAll
<1>10. CASE UNCHANGED vars
  BY <1>10, NoneAwaitedMore DEF vars
<1>. QED BY <1>1, <1>2, <1>3, <1>4, <1>5, <1>6, <1>7, <1>8, <1>9, <1>10
         DEF Next, CloseEnds, CloseAllRaises

(* No caller waits for a launch that is over, for one nobody started, or   *)
(* for nothing: whatever the interleaving of opens, joins, refusals and    *)
(* shutdown, who waits in open_profile waits for a task of _opening that   *)
(* still runs and whose end answers it.  This is the safety half of        *)
(* OpensAnswered.                                                          *)
THEOREM WaitersAwaitedCorrect == Spec => []WaitersAwaited
<1>1. Init => WaitersAwaited
  BY CallerFacts DEF Init, WaitersAwaited
<1>. QED BY <1>1, TypeCorrect, WaitersInductive, PTL DEF Spec

(* Only the ends of a launch, a reuse and a join make a caller "opened". *)
LEMMA OpenedStep == TypeOK /\ [Next]_vars => OpenedLive
<1> USE CallerFacts
<1> SUFFICES ASSUME TypeOK, [Next]_vars, NEW d \in Callers, NEW q \in Profiles,
                    at[d] # "opened", at'[d] = "opened", want'[d] = {q}
             PROVE  q \in active' \/ (launch[q] = "opened" /\ at[d] = "idle")
  BY DEF OpenedLive
<1>1. CASE Store
  BY <1>1 DEF Store, CreateProfile, DeleteProfile, callerVars
<1>2. ASSUME NEW c \in Callers, NEW p \in Profiles, Asks(c, p)
      PROVE  q \in active' \/ (launch[q] = "opened" /\ at[d] = "idle")
  <2>1. CASE Reuse(c, p)
    <3>1. Goto(c, "opened", p) /\ p \in active'
      BY <2>1 DEF Reuse, sessionVars
    <3>. QED BY <3>1, GotoFacts, SameSingleton
  <2>2. CASE Join(c, p)
    <3>1. PICK place \in {"opened", "refused", "waiting"} :
             Goto(c, place, p) /\ (place = "opened" => launch[p] = "opened")
      <4>1. launch[p] \in {"scheduled", "launching", "opened", "failed"}
        BY <2>2 DEF Join, TypeOK
      <4>. QED BY <2>2, <4>1 DEF Join
    <3>2. at[c] = "idle"
      BY <2>2 DEF Join
    <3>. QED BY <3>1, <3>2, GotoFacts, SameSingleton
  <2>3. CASE LookUp(c, p)
    BY <2>3, GotoFacts DEF LookUp
  <2>4. CASE Close(c, p)
    BY <2>4, GotoFacts DEF Close, Detach
  <2>. QED BY <1>2, <2>1, <2>2, <2>3, <2>4 DEF Asks
<1>3. ASSUME NEW c \in Callers, NEW p \in Profiles, GoesOn(c, p) PROVE FALSE
  BY <1>3, GotoFacts DEF GoesOn, LookUpFinds, LookUpMisses
<1>4. ASSUME NEW p \in Profiles, Launching(p) PROVE q \in active'
  <2>1. CASE LaunchStarts(p)
    BY <2>1 DEF LaunchStarts, callerVars
  <2>2. CASE LaunchRefused(p)
    BY <2>2 DEF LaunchRefused, Answer
  <2>3. CASE LaunchDone(p)
    <3>1. want[d] = {p} /\ want' = want
      BY <2>3 DEF LaunchDone, Answer
    <3>. QED BY <2>3, <3>1, SameSingleton DEF LaunchDone
  <2>4. CASE LaunchFails(p)
    BY <2>4 DEF LaunchFails, Answer
  <2>. QED BY <1>4, <2>1, <2>2, <2>3, <2>4 DEF Launching
<1>5. ASSUME NEW p \in Profiles, Cleanup(p) PROVE FALSE
  BY <1>5 DEF Cleanup, callerVars
<1>6. ASSUME NEW c \in Callers, Return(c) PROVE FALSE
  BY <1>6, LeaveFacts DEF Return
<1>7. ASSUME NEW c \in Closers, NEW p \in Profiles, Closed(c, p) PROVE FALSE
  BY <1>7, LeaveFacts DEF Closed
<1>8. CASE ShutdownBegins
  BY <1>8 DEF ShutdownBegins, callerVars
<1>9. CASE CloseAll
  <2>1. ASSUME NEW p \in Profiles, CloseAllNext(p) PROVE FALSE
    BY <2>1, GotoFacts DEF CloseAllNext, Detach
  <2>2. ASSUME NEW p \in Profiles, CloseAllMisses(p) PROVE FALSE
    BY <2>2 DEF CloseAllMisses, callerVars
  <2>3. CASE CloseAllEnds
    BY <2>3 DEF CloseAllEnds, callerVars
  <2>. QED BY <1>9, <2>1, <2>2, <2>3 DEF CloseAll
<1>10. CASE UNCHANGED vars
  BY <1>10 DEF vars
<1>. QED BY <1>1, <1>2, <1>3, <1>4, <1>5, <1>6, <1>7, <1>8, <1>9, <1>10
         DEF Next, CloseEnds, CloseAllRaises

(* open_profile says "opened" only with a session of _active, but for one  *)
(* window: who joins a launch that has succeeded, before its callback has  *)
(* removed it from _opening, gets its session even if that is closed       *)
(* already.                                                                *)
THEOREM OpenedLiveCorrect == Spec => [][OpenedLive]_vars
BY TypeCorrect, OpenedStep, PTL DEF Spec

===============================================================================
