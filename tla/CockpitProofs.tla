----------------------------- MODULE CockpitProofs ----------------------------
(***************************************************************************)
(* Proofs about Cockpit: the types, that one round runs at a time, that no *)
(* call of refresh_all is lost, and that the tables only rounds refresh    *)
(* never go back.                                                          *)
(***************************************************************************)
EXTENDS Cockpit, TLAPS

(* Only one task is in a round: the lock.                                  *)
OneRound == \A c, d \in Callers : at[c] # "idle" /\ at[d] # "idle" => c = d

(* The lock protects the tables of rounds: others do not refresh them.     *)
OthersKeepOut == \A p \in Partials : at[p] \notin RoundTables

(* Versions only grow, and nothing is newer than the database.             *)
Bounded ==
    \A t \in RoundTables : requested[t] <= version[t] /\ shown[t][t] <= version[t]

(* What a round has read for a table is not older than what is shown there. *)
NotOlder ==
    \A c \in Callers, t \in RoundTables :
        at[c] = t /\ call[c] = "answered"
            => shown[t][t] <= got[c][t] /\ got[c][t] <= version[t]

(* A task reads what its table needs.                                      *)
CallsFit ==
    \A t \in Tasks :
        /\ at[t] = "profiles"
              => call[t] \in {"profiles", "assignments", "sessions", "groups", "answered"}
        /\ at[t] \in RoundTables => call[t] \in {at[t], "answered"}

(* The part of a round after a table.                                      *)
After == [sites |-> {"jobs", "events", "proxies"}, jobs |-> {"events", "proxies"}]

(* Unless somebody has asked for another pass, this one serves every       *)
(* request: by what it has shown, or by what it has read and will show.    *)
PassServes ==
    ~again => \A c \in Callers, t \in RoundTables :
        /\ at[c] \in After[t] => requested[t] <= shown[t][t]
        /\ at[c] = t /\ call[c] = "answered" => requested[t] <= got[c][t]

Inv ==
    /\ TypeOK
    /\ OneRound
    /\ OthersKeepOut
    /\ CallsFit
    /\ Bounded
    /\ NotOlder
    /\ PassServes
    /\ RefreshNotLost

-------------------------------------------------------------------------------
(* The parts of the state, and lemmas about plans and calls.               *)

TaskTypes ==
    /\ at \in [Tasks -> Tables \cup {"idle"}]
    /\ call \in [Tasks -> Sources \cup {"none", "answered"}]
    /\ \A t \in Tasks : call[t] = "none" <=> at[t] = "idle"
    /\ \A p \in Partials : at[p] \in DOMAIN PlanOf[p]
    /\ got \in [Tasks -> [Sources -> Nat]]
    /\ seen \in [Tasks -> SUBSET Groups]
    /\ asked \in [Tasks -> Jobs \cup {NoJob}]
    /\ \A t \in Tasks : asked[t] = NoJob <=> at[t] # "events"

DatabaseTypes ==
    /\ version \in [Sources -> Nat]
    /\ group \in [Groups -> {"new", "kept", "deleted"}]

ViewTypes ==
    /\ shown \in [Tables -> [Sources -> Nat]]
    /\ filter \in Groups \cup {All} /\ rowsFor \in Groups \cup {All}
    /\ options \subseteq Groups
    /\ due \in BOOLEAN
    /\ selected \in Jobs /\ eventsOf \in Jobs

OtherTypes ==
    /\ again \in BOOLEAN /\ failed \in BOOLEAN
    /\ requested \in [RoundTables -> Nat]
    /\ failures \in Nat /\ clicks \in Nat

(* TypeOK by parts.                                                        *)
LEMMA TypeParts == TypeOK <=> TaskTypes /\ DatabaseTypes /\ ViewTypes /\ OtherTypes
BY DEF TypeOK, TaskTypes, DatabaseTypes, ViewTypes, OtherTypes

(* The first call for a table.                                             *)
LEMMA FirstCallFacts ==
    ASSUME NEW table \in Tables \cup {"idle"}
    PROVE  /\ FirstCall(table) \in Sources \cup {"none"}
           /\ FirstCall(table) = "none" <=> table = "idle"
           /\ table \in RoundTables => FirstCall(table) = table
BY DEF FirstCall, Tables, Sources, RoundTables

(* The call that follows a call; a table of rounds takes one.              *)
LEMMA NextCallFacts ==
    ASSUME NEW table \in Tables, NEW source \in Sources,
           table = "profiles" => source \in {"profiles", "assignments", "sessions", "groups"}
    PROVE  /\ NextCall(table, source) \in Sources \cup {"answered"}
           /\ table \in RoundTables => NextCall(table, source) = "answered"
BY DEF NextCall, Tables, Sources, RoundTables

(* The plans of tasks that are not in a round.                             *)
LEMMA PlanFacts ==
    ASSUME NEW p \in Partials
    PROVE  /\ PlanOf[p] \in {FilterPlan, EventsPlan, SessionErrorPlan, ProxyErrorPlan}
           /\ DOMAIN PlanOf[p] \subseteq (Tables \ RoundTables) \cup {"idle"}
           /\ "idle" \in DOMAIN PlanOf[p]
           /\ \A table \in DOMAIN PlanOf[p] : PlanOf[p][table] \in DOMAIN PlanOf[p]
BY CockpitAssumption
   DEF CockpitAssumption, FilterPlan, EventsPlan, SessionErrorPlan, ProxyErrorPlan, Tables, RoundTables

(* The plan of a round.                                                    *)
LEMMA RoundFacts ==
    /\ RoundPlan \in [Tables \cup {"idle"} -> Tables \cup {"idle"}]
    /\ RoundPlan["idle"] = "profiles"
    /\ \A table \in Tables : RoundPlan[table] = "idle" <=> table = "proxies"
    /\ \A table \in Tables, t \in RoundTables :
          RoundPlan[table] \in After[t] => table = t \/ table \in After[t]
BY DEF RoundPlan, Tables, RoundTables, After


(* What Begin does to the types and the calls.                             *)
LEMMA BeginTypes ==
    ASSUME TaskTypes, CallsFit, selected \in Jobs, NEW t \in Tasks,
           NEW table \in Tables \cup {"idle"}, t \in Partials => table \in DOMAIN PlanOf[t],
           Begin(t, table)
    PROVE  TaskTypes' /\ CallsFit'
<1>1. FirstCall(table) \in Sources \cup {"none"} /\ (FirstCall(table) = "none" <=> table = "idle")
  BY FirstCallFacts
<1>2. Nothing \in [Sources -> Nat]
  BY DEF Nothing
<1>3. /\ at' \in [Tasks -> Tables \cup {"idle"}]
      /\ call' \in [Tasks -> Sources \cup {"none", "answered"}]
      /\ \A u \in Tasks : call'[u] = "none" <=> at'[u] = "idle"
  BY <1>1 DEF TaskTypes, Begin
<1>4. \A p \in Partials : at'[p] \in DOMAIN PlanOf[p]
  BY DEF TaskTypes, Begin, Tasks
<1>5. got' \in [Tasks -> [Sources -> Nat]] /\ seen' \in [Tasks -> SUBSET Groups]
  BY <1>2 DEF TaskTypes, Begin
<1>6. asked' \in [Tasks -> Jobs \cup {NoJob}]
      /\ \A u \in Tasks : asked'[u] = NoJob <=> at'[u] # "events"
  BY CockpitAssumption DEF TaskTypes, Begin, CockpitAssumption
<1>7. CallsFit'
  <2>1. table = "profiles" => FirstCall(table) = "profiles"
    BY DEF FirstCall
  <2>2. table \in RoundTables => FirstCall(table) = table
    BY FirstCallFacts
  <2>. QED BY <2>1, <2>2 DEF CallsFit, Begin, TaskTypes
<1>. QED BY <1>3, <1>4, <1>5, <1>6, <1>7 DEF TaskTypes

(* Every step keeps the types and the calls that fit the tables.           *)
LEMMA TypesInductive ==
    ASSUME TypeOK, CallsFit, [Next]_vars
    PROVE  TypeOK' /\ CallsFit'
<1> DEFINE Good == TaskTypes' /\ DatabaseTypes' /\ ViewTypes' /\ OtherTypes' /\ CallsFit'
<1>0. selected \in Jobs /\ TaskTypes /\ DatabaseTypes /\ ViewTypes /\ OtherTypes
  BY TypeParts DEF ViewTypes
<1>1. ASSUME UNCHANGED tasks PROVE TaskTypes' /\ CallsFit'
  BY <1>0, <1>1 DEF tasks, TaskTypes, CallsFit
<1>2. ASSUME UNCHANGED view PROVE ViewTypes'
  BY <1>0, <1>2 DEF view, ViewTypes
<1>3. ASSUME NEW t \in Tasks, Shows(t)
      PROVE  ViewTypes' /\ DatabaseTypes' /\ requested' = requested /\ UNCHANGED counters
             /\ at[t] \in Tables
  <2>1. at[t] \in Tables
    BY <1>0, <1>3 DEF Shows, TaskTypes
  <2>2. shown' \in [Tables -> [Sources -> Nat]] /\ selected' \in Jobs
    BY <1>0, <1>3, <2>1 DEF Shows, TaskTypes, ViewTypes
  <2>3. ASSUME at[t] = "profiles" PROVE ViewTypes'
    <3>1. options' \subseteq Groups /\ rowsFor' \in Groups \cup {All} /\ eventsOf' \in Jobs
      BY <1>0, <1>3, <2>3 DEF Shows, ShowsProfiles, ViewTypes, TaskTypes
    <3>2. filter' \in Groups \cup {All}
      BY <1>0, <1>3, <2>3 DEF Shows, ShowsProfiles, ViewTypes
    <3>3. due' \in BOOLEAN
      BY <1>0, <1>3, <2>3, Zenon DEF Shows, ShowsProfiles, ViewTypes
    <3>. QED BY <2>2, <3>1, <3>2, <3>3 DEF ViewTypes
  <2>4. ASSUME at[t] # "profiles" PROVE ViewTypes'
    <3>1. eventsOf' \in Jobs
      BY <1>0, <1>3, <2>4 DEF Shows, ViewTypes, TaskTypes
    <3>2. UNCHANGED <<filter, options, rowsFor, due>>
      BY <1>3, <2>4 DEF Shows
    <3>. QED BY <1>0, <2>2, <3>1, <3>2 DEF ViewTypes
  <2>5. ViewTypes'
    BY <2>3, <2>4
  <2>. QED BY <1>0, <1>3, <2>1, <2>5 DEF Shows, DatabaseTypes, database
<1>4. ASSUME NEW s \in Sources, Bump(s), group' \in [Groups -> {"new", "kept", "deleted"}]
      PROVE  Good
  <2>1. DatabaseTypes'
    BY <1>0, <1>4 DEF Bump, DatabaseTypes
  <2>. QED BY <1>0, <1>1, <1>2, <1>4, <2>1 DEF Bump, OtherTypes, counters
<1>5. ASSUME NEW s \in Sources, Changes(s) PROVE Good
  BY <1>0, <1>4, <1>5 DEF Changes, DatabaseTypes
<1>6. ASSUME NEW g \in Groups, CreateGroup(g) \/ DeleteGroup(g) PROVE Good
  BY <1>0, <1>4, <1>6 DEF CreateGroup, DeleteGroup, DatabaseTypes, Sources
<1>7. ASSUME NEW t \in Tasks, Read(t) PROVE Good
  <2>1. at[t] \in Tables /\ call[t] \in Sources
    BY <1>0, <1>7 DEF Read, TaskTypes, Sources
  <2>2. NextCall(at[t], call[t]) \in Sources \cup {"answered"}
        /\ (at[t] \in RoundTables => NextCall(at[t], call[t]) = "answered")
    BY <2>1, NextCallFacts DEF CallsFit, Sources
  <2>3. at[t] = "profiles" => NextCall(at[t], call[t]) \in {"assignments", "sessions", "groups", "answered"}
    BY <2>1 DEF CallsFit, NextCall, Sources
  <2>4. /\ call' \in [Tasks -> Sources \cup {"none", "answered"}]
        /\ \A u \in Tasks : call'[u] = "none" <=> at'[u] = "idle"
    BY <1>0, <1>7, <2>1, <2>2 DEF Read, TaskTypes, Sources, Tables
  <2>5. got' \in [Tasks -> [Sources -> Nat]]
    BY <1>0, <1>7, <2>1 DEF Read, TaskTypes, DatabaseTypes
  <2>6. seen' \in [Tasks -> SUBSET Groups]
    BY <1>0, <1>7 DEF Read, TaskTypes, Kept
  <2>7. TaskTypes'
    BY <1>0, <1>7, <2>4, <2>5, <2>6 DEF Read, TaskTypes
  <2>8. CallsFit'
    BY <1>0, <1>7, <2>2, <2>3 DEF Read, CallsFit, TaskTypes
  <2>. QED BY <1>0, <1>2, <1>7, <2>7, <2>8 DEF Read, DatabaseTypes, database, OtherTypes, counters
<1>8. ASSUME NEW t \in Tasks, NEW table \in Tables \cup {"idle"}, Begin(t, table),
             t \in Partials => table \in DOMAIN PlanOf[t]
      PROVE  TaskTypes' /\ CallsFit'
  BY <1>0, <1>8, BeginTypes
<1>9. ASSUME NEW t \in Tasks, GoesOn(t) PROVE Good
  <2>1. at[t] \in Tables /\ Plan(t)[at[t]] \in Tables \cup {"idle"}
        /\ (t \in Partials => Plan(t)[at[t]] \in DOMAIN PlanOf[t])
    <3>1. at[t] \in Tables
      BY <1>3, <1>9 DEF GoesOn
    <3>2. CASE t \in Callers
      BY <3>1, <3>2, RoundFacts, CockpitAssumption DEF Plan, CockpitAssumption
    <3>3. CASE t \in Partials
      BY <1>0, <3>1, <3>3, PlanFacts, CockpitAssumption DEF Plan, TaskTypes, CockpitAssumption
    <3>. QED BY <3>1, <3>2, <3>3 DEF Tasks
  <2>. QED BY <1>0, <1>3, <1>8, <1>9, <2>1 DEF GoesOn, OtherTypes, counters
<1>10. ASSUME NEW c \in Callers, RoundEnds(c) PROVE Good
  <2>1. c \in Tasks /\ c \notin Partials
    BY CockpitAssumption DEF Tasks, CockpitAssumption
  <2>2. TaskTypes' /\ CallsFit'
    BY <1>8, <1>10, <2>1, RoundFacts DEF RoundEnds, Tables
  <2>. QED BY <1>0, <1>3, <1>10, <2>1, <2>2 DEF RoundEnds, OtherTypes, counters
<1>11. ASSUME NEW t \in Tasks, CallFails(t) PROVE Good
  <2>1. TaskTypes' /\ CallsFit'
    BY <1>8, <1>11, PlanFacts DEF CallFails
  <2>2. OtherTypes'
    BY <1>0, <1>11 DEF CallFails, OtherTypes
  <2>. QED BY <1>0, <1>2, <1>11, <2>1, <2>2 DEF CallFails, DatabaseTypes, database
<1>12. ASSUME NEW c \in Callers, RefreshAll(c) PROVE Good
  <2>1. c \in Tasks /\ c \notin Partials
    BY CockpitAssumption DEF Tasks, CockpitAssumption
  <2>2. TaskTypes' /\ CallsFit'
    BY <1>1, <1>8, <1>12, <2>1, RoundFacts DEF RefreshAll, Tables
  <2>3. OtherTypes'
    BY <1>0, <1>12 DEF RefreshAll, OtherTypes, DatabaseTypes, Locked, counters, RoundTables, Sources
  <2>. QED BY <1>0, <1>2, <1>12, <2>2, <2>3 DEF RefreshAll, DatabaseTypes, database
<1>13. ASSUME NEW f \in Groups \cup {All}, ChooseFilter(f) PROVE Good
  BY <1>0, <1>1, <1>13 DEF ChooseFilter, Clicks, ViewTypes, DatabaseTypes, database, OtherTypes
<1>14. ASSUME NEW j \in Jobs, ChooseJob(j) PROVE Good
  BY <1>0, <1>1, <1>14 DEF ChooseJob, Clicks, ViewTypes, DatabaseTypes, database, OtherTypes
<1>15. ASSUME NEW p \in Partials, FilterChanged(p) PROVE Good
  <2>1. TaskTypes' /\ CallsFit'
    BY <1>8, <1>15 DEF FilterChanged, FilterPlan, Tasks, Tables
  <2>. QED BY <1>0, <1>15, <2>1 DEF FilterChanged, ViewTypes, DatabaseTypes, database, OtherTypes, counters
<1>16. ASSUME NEW p \in Partials, RefreshesSome(p) PROVE Good
  <2>1. TaskTypes' /\ CallsFit'
    BY <1>8, <1>16, PlanFacts DEF RefreshesSome, Tasks
  <2>. QED BY <1>0, <1>2, <1>16, <2>1 DEF RefreshesSome, Clicks, DatabaseTypes, database, OtherTypes
<1>17. ASSUME UNCHANGED vars PROVE Good
  <2>1. UNCHANGED tasks /\ UNCHANGED view /\ UNCHANGED database /\ UNCHANGED counters
        /\ again' = again /\ failed' = failed /\ requested' = requested
    BY <1>17 DEF vars
  <2>2. DatabaseTypes' /\ OtherTypes'
    BY <1>0, <2>1 DEF DatabaseTypes, database, OtherTypes, counters
  <2>. QED BY <1>1, <1>2, <2>1, <2>2
<1> HIDE DEF Good
<1>18. ASSUME Next PROVE Good
  BY <1>18, <1>5, <1>6, <1>7, <1>9, <1>10, <1>11, <1>12, <1>13, <1>14, <1>15, <1>16, Zenon
  DEF Next, Refreshes
<1>. QED BY <1>17, <1>18 DEF Good, TypeOK, TaskTypes, DatabaseTypes, ViewTypes, OtherTypes

-------------------------------------------------------------------------------
(* The rounds.                                                             *)

(* What is left of the invariant.                                          *)
Rounds == OneRound /\ OthersKeepOut /\ Bounded /\ NotOlder /\ PassServes /\ RefreshNotLost

Grows == \A t \in RoundTables : shown'[t][t] >= shown[t][t]

(* A step of the system, the operator or a task that is not in a round.    *)
Aside ==
    /\ \A c \in Callers : at'[c] = at[c] /\ call'[c] = call[c] /\ got'[c] = got[c]
    /\ \A p \in Partials : at'[p] \notin RoundTables
    /\ \A t \in RoundTables : shown'[t] = shown[t] /\ version'[t] >= version[t]
    /\ UNCHANGED <<again, failed, requested>>

(* Callers and partial refreshes are different tasks, and the tables that  *)
(* matter are tables.                                                      *)
LEMMA Kinds ==
    /\ Callers \subseteq Tasks /\ Partials \subseteq Tasks
    /\ \A c \in Callers : c \notin Partials
    /\ RoundTables \subseteq Tables /\ RoundTables \subseteq Sources
    /\ "idle" \notin RoundTables /\ "idle" \notin Tables
BY CockpitAssumption DEF CockpitAssumption, Tasks, RoundTables, Tables, Sources

(* The versions that are compared are numbers.                             *)
LEMMA Numbers ==
    ASSUME TypeOK, NEW t \in RoundTables
    PROVE  /\ version[t] \in Nat /\ requested[t] \in Nat /\ shown[t][t] \in Nat
           /\ \A c \in Callers : got[c][t] \in Nat
BY Kinds DEF TypeOK

(* Steps aside leave the rounds as they are.                               *)
LEMMA AsideKeeps ==
    ASSUME TypeOK, TypeOK', Rounds, Aside
    PROVE  Rounds' /\ Grows
<1>1. \A t \in RoundTables :
          /\ version[t] \in Nat /\ version'[t] \in Nat
          /\ requested[t] \in Nat /\ requested'[t] = requested[t]
          /\ shown[t][t] \in Nat /\ shown'[t][t] = shown[t][t]
  BY Kinds DEF TypeOK, Aside
<1>2. \A c \in Callers, t \in RoundTables : got[c][t] \in Nat
  BY Kinds DEF TypeOK
<1>3. OneRound' /\ OthersKeepOut'
  BY DEF Aside, Rounds, OneRound, OthersKeepOut
<1>4. Bounded' /\ NotOlder'
  BY <1>1, <1>2 DEF Aside, Rounds, Bounded, NotOlder
<1>5. PassServes' /\ RefreshNotLost'
  BY <1>1 DEF Aside, Rounds, PassServes, RefreshNotLost, Locked
<1>. QED BY <1>1, <1>3, <1>4, <1>5 DEF Rounds, Grows

(* A call of a round reads the table.                                      *)
LEMMA ReadKeeps ==
    ASSUME TypeOK, TypeOK', CallsFit, Rounds, NEW c \in Callers, Read(c)
    PROVE  Rounds' /\ Grows
<1>1. /\ at' = at /\ version' = version /\ shown' = shown /\ requested' = requested
      /\ again' = again /\ failed' = failed
      /\ \A d \in Callers : d # c => got'[d] = got[d] /\ call'[d] = call[d]
  BY Kinds DEF Read, TypeOK, view, database
<1>2. \A t \in RoundTables : version[t] \in Nat /\ requested[t] \in Nat /\ shown[t][t] \in Nat
  BY Numbers
<1>3. \A t \in RoundTables : at[c] = t => got'[c][t] = version[t]
  BY Kinds DEF Read, CallsFit, TypeOK, Sources
<1>4. OneRound' /\ OthersKeepOut' /\ Bounded' /\ RefreshNotLost'
  BY <1>1 DEF Rounds, OneRound, OthersKeepOut, Bounded, RefreshNotLost, Locked
<1>5. NotOlder'
  BY <1>1, <1>2, <1>3 DEF Rounds, Bounded, NotOlder
<1>6. PassServes'
  BY <1>1, <1>2, <1>3 DEF Rounds, Bounded, PassServes
<1>. QED BY <1>1, <1>2, <1>4, <1>5, <1>6 DEF Rounds, Grows

(* What Begin does to a round, and to nobody else.                         *)
LEMMA BeginFacts ==
    ASSUME TypeOK, NEW c \in Tasks, NEW table \in Tables \cup {"idle"}, Begin(c, table)
    PROVE  /\ at'[c] = table /\ call'[c] # "answered"
           /\ \A d \in Tasks : d # c => at'[d] = at[d] /\ call'[d] = call[d] /\ got'[d] = got[d]
<1>1. FirstCall(table) # "answered"
  BY DEF FirstCall, Tables
<1>. QED BY <1>1 DEF Begin, TypeOK

(* A round shows a table, and goes on to the next one.                     *)
LEMMA GoesOnKeeps ==
    ASSUME TypeOK, TypeOK', Rounds, NEW c \in Callers, GoesOn(c)
    PROVE  Rounds' /\ Grows
<1> DEFINE next == RoundPlan[at[c]]
<1>1. c \in Tasks /\ at[c] \in Tables /\ call[c] = "answered" /\ next \in Tables
      /\ Begin(c, next) /\ again' = again /\ failed' = failed
      /\ requested' = requested /\ version' = version
  <2>1. c \in Tasks /\ c \notin Partials /\ call[c] = "answered" /\ at[c] \in Tables
    BY Kinds DEF GoesOn, Shows, TypeOK
  <2>2. Plan(c) = RoundPlan
    BY DEF Plan
  <2>3. next \in Tables \cup {"idle"} /\ next # "idle"
    BY <2>1, <2>2, RoundFacts DEF GoesOn
  <2>. QED BY <2>1, <2>2, <2>3 DEF GoesOn, Shows, database
<1>2. /\ at'[c] = next /\ call'[c] # "answered"
      /\ \A d \in Tasks : d # c => at'[d] = at[d] /\ call'[d] = call[d] /\ got'[d] = got[d]
  BY <1>1, BeginFacts
<1>3. \A t \in RoundTables :
          /\ at[c] = t => shown'[t] = got[c]
          /\ at[c] # t => shown'[t] = shown[t]
  BY <1>1, Kinds DEF GoesOn, Shows, TypeOK
<1>4. \A t \in RoundTables :
          version[t] \in Nat /\ requested[t] \in Nat /\ shown[t][t] \in Nat /\ got[c][t] \in Nat
  BY Numbers
<1>5. \A d \in Callers : d # c => at[d] = "idle" /\ at'[d] = "idle"
  BY <1>1, <1>2, Kinds DEF Rounds, OneRound
<1>6. Grows /\ Bounded'
  BY <1>1, <1>3, <1>4 DEF Rounds, Grows, NotOlder, Bounded
<1>7. OneRound' /\ OthersKeepOut'
  BY <1>2, <1>5, Kinds DEF Rounds, OneRound, OthersKeepOut
<1>8. NotOlder'
  BY <1>2, <1>5, Kinds DEF NotOlder
<1>9. PassServes'
  <2> SUFFICES ASSUME ~again', NEW d \in Callers, NEW t \in RoundTables
               PROVE  /\ at'[d] \in After[t] => requested'[t] <= shown'[t][t]
                      /\ at'[d] = t /\ call'[d] = "answered" => requested'[t] <= got'[d][t]
    BY DEF PassServes
  <2>1. CASE d # c
    BY <1>5, <2>1, Kinds DEF After, RoundTables
  <2>2. CASE d = c
    <3>1. at'[c] \in After[t] => at[c] = t \/ at[c] \in After[t]
      BY <1>1, <1>2, RoundFacts
    <3>2. at[c] = t => requested[t] <= got[c][t]
      BY <1>1 DEF Rounds, PassServes
    <3>3. at[c] \in After[t] => requested[t] <= shown[t][t] /\ at[c] # t
      BY <1>1 DEF Rounds, PassServes, After, RoundTables
    <3>. QED BY <1>1, <1>2, <1>3, <2>2, <3>1, <3>2, <3>3
  <2>. QED BY <2>1, <2>2
<1>10. RefreshNotLost'
  BY <1>1, <1>2, Kinds DEF RefreshNotLost, Locked
<1>. QED BY <1>6, <1>7, <1>8, <1>9, <1>10 DEF Rounds

(* A round ends, or begins again: it has served every request unless one   *)
(* came meanwhile.                                                         *)
LEMMA RoundEndsKeeps ==
    ASSUME TypeOK, TypeOK', Rounds, NEW c \in Callers, RoundEnds(c)
    PROVE  Rounds' /\ Grows
<1> DEFINE next == IF again THEN RoundPlan["idle"] ELSE "idle"
<1>1. c \in Tasks /\ at[c] = "proxies" /\ next \in {"profiles", "idle"}
      /\ Begin(c, next) /\ requested' = requested /\ version' = version
  BY Kinds, RoundFacts DEF RoundEnds, Shows, TypeOK, database
<1>2. /\ at'[c] = next /\ call'[c] # "answered"
      /\ \A d \in Tasks : d # c => at'[d] = at[d] /\ call'[d] = call[d] /\ got'[d] = got[d]
  BY <1>1, BeginFacts DEF Tables
<1>3. \A t \in RoundTables : shown'[t] = shown[t]
  BY <1>1 DEF RoundEnds, Shows, TypeOK, RoundTables, Tables
<1>4. \A t \in RoundTables : version[t] \in Nat /\ requested[t] \in Nat /\ shown[t][t] \in Nat
  BY Numbers
<1>5. \A d \in Callers : d # c => at[d] = "idle" /\ at'[d] = "idle"
  BY <1>1, <1>2, Kinds DEF Rounds, OneRound
<1>6. Grows /\ Bounded'
  BY <1>1, <1>3, <1>4 DEF Rounds, Grows, Bounded
<1>7. OneRound' /\ OthersKeepOut'
  BY <1>2, <1>5, Kinds DEF Rounds, OneRound, OthersKeepOut
<1>8. NotOlder' /\ PassServes'
  BY <1>1, <1>2, <1>5, Kinds DEF NotOlder, PassServes, After, RoundTables
<1>9. RefreshNotLost'
  <2>1. again => at'[c] # "idle"
    BY <1>2, RoundFacts
  <2>2. ~again => \A t \in RoundTables : requested[t] <= shown[t][t]
    BY <1>1 DEF Rounds, PassServes, After, RoundTables
  <2>. QED BY <1>1, <1>3, <1>4, <2>1, <2>2 DEF RefreshNotLost, Locked
<1>. QED BY <1>6, <1>7, <1>8, <1>9 DEF Rounds

(* A round that fails frees the lock; nothing is promised then.            *)
LEMMA FailsKeeps ==
    ASSUME TypeOK, TypeOK', Rounds, NEW c \in Callers, CallFails(c)
    PROVE  Rounds' /\ Grows
<1>1. c \in Tasks /\ Begin(c, "idle") /\ at[c] # "idle" /\ failed' = TRUE
      /\ requested' = requested /\ version' = version /\ again' = again /\ shown' = shown
  BY Kinds DEF CallFails, view, database, TypeOK, Sources
<1>2. /\ at'[c] = "idle" /\ call'[c] # "answered"
      /\ \A d \in Tasks : d # c => at'[d] = at[d] /\ call'[d] = call[d] /\ got'[d] = got[d]
  BY <1>1, BeginFacts
<1>3. \A t \in RoundTables : version[t] \in Nat /\ requested[t] \in Nat /\ shown[t][t] \in Nat
  BY Numbers
<1>4. \A d \in Callers : at'[d] = "idle"
  BY <1>1, <1>2, Kinds DEF Rounds, OneRound
<1>5. OneRound' /\ OthersKeepOut' /\ Bounded' /\ RefreshNotLost' /\ Grows
  BY <1>1, <1>2, <1>3, <1>4, Kinds
  DEF Rounds, OneRound, OthersKeepOut, Bounded, RefreshNotLost, Grows
<1>6. NotOlder' /\ PassServes'
  BY <1>4, Kinds DEF NotOlder, PassServes, After, RoundTables
<1>. QED BY <1>5, <1>6 DEF Rounds

(* refresh_all begins a round, or asks the one that runs for another pass. *)
LEMMA RefreshAllKeeps ==
    ASSUME TypeOK, TypeOK', Rounds, NEW c \in Callers, RefreshAll(c)
    PROVE  Rounds' /\ Grows
<1>1. /\ version' = version /\ shown' = shown /\ failed' = failed
      /\ \A t \in RoundTables : requested'[t] = version[t]
  BY DEF RefreshAll, view, database
<1>2. \A t \in RoundTables : version[t] \in Nat /\ shown[t][t] \in Nat
  BY Numbers
<1>3. Grows /\ Bounded'
  BY <1>1, <1>2 DEF Rounds, Grows, Bounded
<1>4. CASE Locked
  <2>1. at' = at /\ call' = call /\ got' = got /\ again'
    BY <1>4 DEF RefreshAll, tasks
  <2>2. Locked'
    BY <1>4, <2>1 DEF Locked
  <2>. QED BY <1>1, <1>3, <2>1, <2>2
           DEF Rounds, OneRound, OthersKeepOut, NotOlder, PassServes, RefreshNotLost
<1>5. CASE ~Locked
  <2>1. Begin(c, "profiles") /\ c \in Tasks /\ "profiles" \in Tables
    BY <1>5, Kinds, RoundFacts DEF RefreshAll, Tables
  <2>2. /\ at'[c] = "profiles"
        /\ \A d \in Tasks : d # c => at'[d] = at[d]
    BY <2>1, BeginFacts
  <2>3. \A d \in Callers : d # c => at'[d] = "idle"
    BY <1>5, <2>2, Kinds DEF Locked
  <2>4. OneRound' /\ OthersKeepOut' /\ RefreshNotLost'
    BY <2>2, <2>3, Kinds DEF Rounds, OneRound, OthersKeepOut, RefreshNotLost, Locked
  <2>5. NotOlder' /\ PassServes'
    BY <2>2, <2>3, Kinds DEF NotOlder, PassServes, After, RoundTables
  <2>. QED BY <1>3, <2>4, <2>5 DEF Rounds
<1>. QED BY <1>4, <1>5


(* Tasks that are not in a round work aside.                               *)
LEMMA PartialsAside ==
    ASSUME TypeOK, TypeOK', NEW p \in Partials,
           Read(p) \/ GoesOn(p) \/ CallFails(p) \/ FilterChanged(p) \/ RefreshesSome(p),
           OthersKeepOut
    PROVE  Aside
<1>1. p \in Tasks /\ at[p] \notin RoundTables /\ \A c \in Callers : c # p /\ c \in Tasks
  BY Kinds DEF OthersKeepOut
<1>2. \A t \in RoundTables : version[t] \in Nat
  BY Numbers
<1>3. ASSUME NEW q \in Partials PROVE at'[q] \notin RoundTables
  <2>1. at'[q] \in DOMAIN PlanOf[q]
    BY DEF TypeOK
  <2>2. DOMAIN PlanOf[q] \subseteq (Tables \ RoundTables) \cup {"idle"}
    BY PlanFacts
  <2>. QED BY <2>1, <2>2, Kinds
<1>4. \A c \in Callers : at'[c] = at[c] /\ call'[c] = call[c] /\ got'[c] = got[c]
  BY <1>1 DEF Read, GoesOn, CallFails, FilterChanged, RefreshesSome, Begin, TypeOK
<1>5. \A t \in RoundTables : shown'[t] = shown[t]
  BY <1>1, Kinds DEF Read, GoesOn, Shows, CallFails, FilterChanged, RefreshesSome, view, TypeOK
<1>6. version' = version /\ UNCHANGED <<again, failed, requested>>
  <2>1. CASE Read(p)
    BY <2>1 DEF Read, database
  <2>2. CASE GoesOn(p)
    BY <2>2 DEF GoesOn, Shows, database
  <2>3. CASE CallFails(p)
    <3>1. failed' = failed
      BY <1>1, <2>3, Kinds, Zenon DEF CallFails, TypeOK
    <3>. QED BY <2>3, <3>1 DEF CallFails, database
  <2>4. CASE FilterChanged(p) \/ RefreshesSome(p)
    BY <2>4 DEF FilterChanged, RefreshesSome, database
  <2>. QED BY <2>1, <2>2, <2>3, <2>4
<1>. QED BY <1>2, <1>3, <1>4, <1>5, <1>6 DEF Aside

(* The system and the operator work aside.                                 *)
LEMMA OthersAside ==
    ASSUME TypeOK, OthersKeepOut,
           \/ \E s \in Sources : Changes(s)
           \/ \E g \in Groups : CreateGroup(g) \/ DeleteGroup(g)
           \/ \E f \in Groups \cup {All} : ChooseFilter(f)
           \/ \E j \in Jobs : ChooseJob(j)
           \/ UNCHANGED vars
    PROVE  Aside
<1>1. \A t \in RoundTables : version[t] \in Nat /\ t \in Sources
  BY Numbers, Kinds
<1>2. ASSUME NEW s \in Sources, Bump(s) PROVE Aside
  BY <1>1, <1>2 DEF Bump, Aside, OthersKeepOut, tasks, view, TypeOK
<1>3. ASSUME UNCHANGED <<tasks, shown, version, again, failed, requested>> PROVE Aside
  BY <1>1, <1>3 DEF Aside, OthersKeepOut, tasks
<1>4. ASSUME UNCHANGED vars PROVE Aside
  BY <1>3, <1>4 DEF vars, view, database
<1>5. ASSUME NEW s \in Sources, Changes(s) PROVE Aside
  BY <1>2, <1>5 DEF Changes
<1>6. ASSUME NEW g \in Groups, CreateGroup(g) \/ DeleteGroup(g) PROVE Aside
  BY <1>2, <1>6 DEF CreateGroup, DeleteGroup, Sources
<1>7. ASSUME NEW f \in Groups \cup {All}, ChooseFilter(f) PROVE Aside
  BY <1>3, <1>7 DEF ChooseFilter, database
<1>8. ASSUME NEW j \in Jobs, ChooseJob(j) PROVE Aside
  BY <1>3, <1>8 DEF ChooseJob, database
<1>. QED BY <1>4, <1>5, <1>6, <1>7, <1>8

(* The invariant is inductive, and no step takes a table of rounds back.   *)
LEMMA InvInductive ==
    ASSUME Inv, [Next]_vars
    PROVE  Inv' /\ Grows
<1>1. TypeOK' /\ CallsFit'
  BY TypesInductive DEF Inv
<1>2. TypeOK /\ CallsFit /\ Rounds /\ OthersKeepOut
  BY DEF Inv, Rounds
<1>3. ASSUME Aside PROVE Rounds' /\ Grows
  BY <1>1, <1>2, <1>3, AsideKeeps
<1>4. ASSUME NEW c \in Callers, Refreshes(c) \/ CallFails(c) \/ RefreshAll(c) PROVE Rounds' /\ Grows
  BY <1>1, <1>2, <1>4, ReadKeeps, GoesOnKeeps, RoundEndsKeeps, FailsKeeps, RefreshAllKeeps DEF Refreshes
<1>5. ASSUME NEW p \in Partials, Refreshes(p) \/ CallFails(p) \/ FilterChanged(p) \/ RefreshesSome(p)
      PROVE  Rounds' /\ Grows
  BY <1>1, <1>2, <1>3, <1>5, PartialsAside, Kinds DEF Refreshes
<1>6. Rounds' /\ Grows
  BY <1>2, <1>3, <1>4, <1>5, OthersAside DEF Next, Tasks
<1>. QED BY <1>1, <1>6 DEF Inv, Rounds

(* The invariant holds in every state.                                     *)
LEMMA Invariant == Spec => []Inv
<1>1. Init => Inv
  <2> SUFFICES ASSUME Init PROVE Inv
    OBVIOUS
  <2>1. /\ \A t \in Tasks : at[t] = "idle" /\ call[t] = "none"
        /\ \A t \in RoundTables : version[t] = 0 /\ requested[t] = 0 /\ shown[t][t] = 0
    BY Kinds DEF Init, Nothing
  <2>2. TypeOK
    <3>1. \A p \in Partials : at[p] \in DOMAIN PlanOf[p]
      BY <2>1, PlanFacts, Kinds
    <3>2. again \in BOOLEAN /\ failed \in BOOLEAN /\ due \in BOOLEAN
      BY Zenon DEF Init
    <3>. QED BY <3>1, <3>2, Kinds DEF Init, TypeOK, Nothing
  <2>3. CallsFit
    BY <2>1, Kinds DEF CallsFit
  <2>4. Rounds
    BY <2>1, Kinds
    DEF Rounds, OneRound, OthersKeepOut, Bounded, NotOlder, PassServes, RefreshNotLost, After, RoundTables
  <2>. QED BY <2>2, <2>3, <2>4 DEF Inv, Rounds
<1>2. Inv /\ [Next]_vars => Inv'
  BY InvInductive
<1>. QED BY <1>1, <1>2, PTL DEF Spec

-------------------------------------------------------------------------------
(* Type correctness; in particular a task keeps to its plan.               *)
THEOREM TypeCorrect == Spec => []TypeOK
BY Invariant, PTL DEF Inv

(* For any tasks and any changes, no call of refresh_all is lost           *)
(* (refresh_again).                                                        *)
THEOREM RefreshNotLostCorrect == Spec => []RefreshNotLost
BY Invariant, PTL DEF Inv

(* For any tasks and any overlap of calls, tables that only rounds refresh *)
(* never go back (refresh_lock).                                           *)
THEOREM NeverGoesBackCorrect == Spec => NeverGoesBack
<1>1. Inv /\ [Next]_vars => [Grows]_vars
  BY InvInductive
<1>. QED BY <1>1, Invariant, PTL DEF Spec, NeverGoesBack, Grows

-------------------------------------------------------------------------------
(* The group filter, and refresh_again.                                    *)

(* The select shows every profile, or one of the groups it offers.         *)
FilterOffered == filter \in options \cup {All}

(* refresh_again is set only while a round runs that will see it, or after *)
(* one that failed.                                                        *)
AgainServed == again => Locked \/ failed

(* A task that shows the profiles makes rows and filter agree, or has the  *)
(* refresh of the filter called; the others leave them alone.              *)
LEMMA ShowsFilter ==
    ASSUME TypeOK, NEW t \in Tasks, Shows(t)
    PROVE  /\ at[t] = "profiles" => FilterOffered' /\ (rowsFor' = filter' \/ due')
           /\ at[t] # "profiles" => UNCHANGED <<filter, options, rowsFor, due>>
<1>1. ASSUME at[t] = "profiles" PROVE FilterOffered' /\ (rowsFor' = filter' \/ due')
  <2>1. rowsFor' = filter /\ options' = seen[t]
    BY <1>1 DEF Shows, ShowsProfiles
  <2>2. CASE filter \in seen[t] \cup {All}
    <3>1. filter' = filter
      BY <1>1, <2>2 DEF Shows, ShowsProfiles
    <3>. QED BY <2>1, <2>2, <3>1 DEF FilterOffered
  <2>3. CASE filter \notin seen[t] \cup {All}
    <3>1. filter' = All /\ due'
      BY <1>1, <2>3, Zenon DEF Shows, ShowsProfiles
    <3>. QED BY <3>1 DEF FilterOffered
  <2>. QED BY <2>2, <2>3
<1>. QED BY <1>1 DEF Shows

(* What only touches other parts of the view keeps filter and rows; a task *)
(* that refreshed the profiles goes on doing so.                           *)
LEMMA FilterKept ==
    ASSUME FilterOffered, FilterNotLost, UNCHANGED <<filter, options, rowsFor, due>>,
           failures' = failures, ProfilesAwaited => ProfilesAwaited'
    PROVE  FilterOffered' /\ FilterNotLost'
BY DEF FilterOffered, FilterNotLost

(* A task that begins elsewhere stops no other one.                        *)
LEMMA OthersAwaited ==
    ASSUME TypeOK, NEW t \in Tasks, NEW table \in Tables \cup {"idle"}, Begin(t, table),
           at[t] # "profiles", ProfilesAwaited
    PROVE  ProfilesAwaited'
BY BeginFacts DEF ProfilesAwaited

(* A task that shows its table and goes on keeps filter and rows, whatever *)
(* table follows.                                                          *)
LEMMA ShowsKeepsFilter ==
    ASSUME TypeOK, FilterOffered, FilterNotLost, NEW t \in Tasks, Shows(t),
           NEW table \in Tables \cup {"idle"}, Begin(t, table)
    PROVE  FilterOffered' /\ FilterNotLost'
<1>1. CASE at[t] = "profiles"
  BY <1>1, ShowsFilter DEF FilterNotLost
<1>2. CASE at[t] # "profiles"
  <2>1. UNCHANGED <<filter, options, rowsFor, due>>
    BY <1>2, ShowsFilter
  <2>2. failures' = failures
    BY DEF Shows, counters
  <2>3. ProfilesAwaited => ProfilesAwaited'
    BY <1>2, OthersAwaited
  <2>. QED BY <2>1, <2>2, <2>3, FilterKept
<1>. QED BY <1>1, <1>2

(* Where a task goes when its table is shown.                              *)
LEMMA PlanTyped ==
    ASSUME TypeOK, NEW t \in Tasks, Shows(t)
    PROVE  Plan(t)[at[t]] \in Tables \cup {"idle"}
<1>1. at[t] \in Tables
  BY DEF Shows, TypeOK
<1>2. CASE t \in Callers
  BY <1>1, <1>2, RoundFacts DEF Plan
<1>3. CASE t \in Partials
  BY <1>1, <1>3, PlanFacts, Kinds DEF Plan, TypeOK
<1>. QED BY <1>2, <1>3 DEF Tasks

(* Every step keeps filter, options and rows together.                     *)
LEMMA FilterInductive ==
    ASSUME TypeOK, FilterOffered, FilterNotLost, [Next]_vars
    PROVE  FilterOffered' /\ FilterNotLost'
<1> DEFINE Good == FilterOffered' /\ FilterNotLost'
<1>1. ASSUME UNCHANGED view, failures' = failures, at' = at PROVE Good
  BY <1>1, FilterKept DEF view, ProfilesAwaited
<1>2. ASSUME NEW s \in Sources, Bump(s) PROVE Good
  BY <1>1, <1>2 DEF Bump, tasks, counters
<1>3. ASSUME NEW t \in Tasks, Read(t) PROVE Good
  BY <1>1, <1>3 DEF Read, counters
<1>4. ASSUME NEW t \in Tasks, GoesOn(t) PROVE Good
  BY <1>4, PlanTyped, ShowsKeepsFilter DEF GoesOn
<1>5. ASSUME NEW c \in Callers, RoundEnds(c) PROVE Good
  BY <1>5, Kinds, RoundFacts, ShowsKeepsFilter DEF RoundEnds, Tables
<1>6. ASSUME NEW t \in Tasks, CallFails(t) PROVE Good
  <2>1. failures' > 0 /\ UNCHANGED view
    BY <1>6 DEF CallFails, TypeOK
  <2>. QED BY <2>1 DEF view, FilterOffered, FilterNotLost
<1>7. ASSUME NEW c \in Callers, RefreshAll(c) PROVE Good
  <2>1. CASE Locked
    BY <1>1, <1>7, <2>1 DEF RefreshAll, tasks, counters
  <2>2. CASE ~Locked
    <3>1. Begin(c, "profiles") /\ c \in Tasks
      BY <1>7, <2>2, RoundFacts, Kinds DEF RefreshAll
    <3>2. ProfilesAwaited'
      BY <3>1, BeginFacts DEF ProfilesAwaited, Tables
    <3>. QED BY <1>7, <3>2, FilterKept DEF RefreshAll, view, counters
  <2>. QED BY <2>1, <2>2
<1>8. ASSUME NEW f \in Groups \cup {All}, ChooseFilter(f) PROVE Good
  BY <1>8 DEF ChooseFilter, FilterOffered, FilterNotLost
<1>9. ASSUME NEW j \in Jobs, ChooseJob(j) PROVE Good
  BY <1>9, FilterKept DEF ChooseJob, tasks, ProfilesAwaited
<1>10. ASSUME NEW p \in Partials, FilterChanged(p) PROVE Good
  <2>1. Begin(p, "profiles") /\ p \in Tasks
    BY <1>10, Kinds DEF FilterChanged
  <2>2. ProfilesAwaited'
    BY <2>1, BeginFacts DEF ProfilesAwaited, Tables
  <2>. QED BY <1>10, <2>2 DEF FilterChanged, FilterOffered, FilterNotLost
<1>11. ASSUME NEW p \in Partials, RefreshesSome(p) PROVE Good
  <2>1. PlanOf[p]["idle"] \in Tables \cup {"idle"} /\ p \in Tasks /\ at[p] # "profiles"
    BY <1>11, PlanFacts, Kinds DEF RefreshesSome, Tables
  <2>. QED BY <1>11, <2>1, OthersAwaited, FilterKept DEF RefreshesSome, view
<1>12. ASSUME UNCHANGED vars PROVE Good
  BY <1>1, <1>12 DEF vars, tasks, counters
<1> HIDE DEF Good
<1>13. ASSUME Next PROVE Good
  <2>1. ASSUME NEW s \in Sources, Changes(s) PROVE Good
    BY <1>2, <2>1 DEF Changes
  <2>2. ASSUME NEW g \in Groups, CreateGroup(g) \/ DeleteGroup(g) PROVE Good
    BY <1>2, <2>2 DEF CreateGroup, DeleteGroup, Sources
  <2>. QED BY <1>13, <2>1, <2>2, <1>3, <1>4, <1>5, <1>6, <1>7, <1>8, <1>9, <1>10, <1>11, Zenon
           DEF Next, Refreshes
<1>. QED BY <1>12, <1>13 DEF Good

(* For any tasks, groups and overlap of refreshes: the filter never names  *)
(* a group that the select does not offer, also when the group is deleted  *)
(* while its refresh is under way (refresh_browser_profiles).              *)
THEOREM FilterOfferedCorrect == Spec => []FilterOffered
<1>1. Init => FilterOffered /\ FilterNotLost
  BY DEF Init, FilterOffered, FilterNotLost
<1>. QED BY <1>1, FilterInductive, TypeCorrect, PTL DEF Spec

(* No change of the filter is lost, neither the operator's nor that of a   *)
(* refresh that takes it back: unless a call has failed, rows of another   *)
(* filter are shown only while a refresh of the profiles is due or under   *)
(* way.  This is the safety half of FilterSettles.                         *)
THEOREM FilterNotLostCorrect == Spec => []FilterNotLost
<1>1. Init => FilterOffered /\ FilterNotLost
  BY DEF Init, FilterOffered, FilterNotLost
<1>. QED BY <1>1, FilterInductive, TypeCorrect, PTL DEF Spec

(* Every step leaves refresh_again to a round that will see it.            *)
LEMMA AgainInductive ==
    ASSUME TypeOK, OneRound, AgainServed, [Next]_vars
    PROVE  AgainServed'
<1>1. ASSUME again' = again, failed' = failed, \A c \in Callers : at'[c] = at[c] PROVE AgainServed'
  BY <1>1 DEF AgainServed, Locked
<1>2. ASSUME NEW s \in Sources, Bump(s) PROVE AgainServed'
  BY <1>1, <1>2 DEF Bump, tasks
<1>3. ASSUME NEW t \in Tasks, Read(t) PROVE AgainServed'
  BY <1>1, <1>3 DEF Read
<1>4. ASSUME NEW t \in Tasks, GoesOn(t) PROVE AgainServed'
  <2>1. CASE t \in Callers
    <3>1. Plan(t)[at[t]] \in Tables \cup {"idle"} /\ Plan(t)[at[t]] # "idle"
      BY <1>4, <2>1, PlanTyped, Kinds DEF GoesOn
    <3>2. at'[t] # "idle"
      BY <1>4, <3>1, BeginFacts DEF GoesOn
    <3>. QED BY <2>1, <3>2 DEF AgainServed, Locked
  <2>2. CASE t \in Partials
    <3>1. \A c \in Callers : at'[c] = at[c]
      BY <1>4, <2>2, PlanTyped, BeginFacts, Kinds DEF GoesOn
    <3>. QED BY <1>1, <1>4, <3>1 DEF GoesOn
  <2>. QED BY <2>1, <2>2 DEF Tasks
<1>5. ASSUME NEW c \in Callers, RoundEnds(c) PROVE AgainServed'
  BY <1>5 DEF RoundEnds, AgainServed
<1>6. ASSUME NEW t \in Tasks, CallFails(t) PROVE AgainServed'
  <2>1. CASE t \in Callers
    BY <1>6, <2>1, Zenon DEF CallFails, AgainServed
  <2>2. CASE t \in Partials
    <3>1. failed' = failed /\ again' = again
      BY <1>6, <2>2, Kinds, Zenon DEF CallFails, TypeOK
    <3>2. \A c \in Callers : at'[c] = at[c]
      BY <1>6, <2>2, BeginFacts, Kinds DEF CallFails
    <3>. QED BY <1>1, <3>1, <3>2
  <2>. QED BY <2>1, <2>2 DEF Tasks
<1>7. ASSUME NEW c \in Callers, RefreshAll(c) PROVE AgainServed'
  <2>1. CASE Locked
    <3>1. Locked'
      BY <1>7, <2>1 DEF RefreshAll, tasks, Locked
    <3>. QED BY <3>1 DEF AgainServed
  <2>2. CASE ~Locked
    BY <1>7, <2>2, Zenon DEF RefreshAll, AgainServed
  <2>. QED BY <2>1, <2>2
<1>8. ASSUME NEW f \in Groups \cup {All}, ChooseFilter(f) PROVE AgainServed'
  BY <1>1, <1>8 DEF ChooseFilter, tasks
<1>9. ASSUME NEW j \in Jobs, ChooseJob(j) PROVE AgainServed'
  BY <1>1, <1>9 DEF ChooseJob, tasks
<1>10. ASSUME NEW p \in Partials, FilterChanged(p) \/ RefreshesSome(p) PROVE AgainServed'
  <2>1. PICK table \in Tables \cup {"idle"} : Begin(p, table)
    BY <1>10, PlanFacts, Kinds DEF FilterChanged, RefreshesSome, Tables
  <2>2. \A c \in Callers : at'[c] = at[c]
    BY <2>1, BeginFacts, Kinds
  <2>. QED BY <1>1, <1>10, <2>2 DEF FilterChanged, RefreshesSome
<1>11. ASSUME UNCHANGED vars PROVE AgainServed'
  BY <1>1, <1>11 DEF vars, tasks
<1>12. ASSUME Next PROVE AgainServed'
  <2>1. ASSUME NEW s \in Sources, Changes(s) PROVE AgainServed'
    BY <1>2, <2>1 DEF Changes
  <2>2. ASSUME NEW g \in Groups, CreateGroup(g) \/ DeleteGroup(g) PROVE AgainServed'
    BY <1>2, <2>2 DEF CreateGroup, DeleteGroup, Sources
  <2>. QED BY <1>12, <2>1, <2>2, <1>3, <1>4, <1>5, <1>6, <1>7, <1>8, <1>9, <1>10, Zenon
           DEF Next, Refreshes
<1>. QED BY <1>11, <1>12

(* For any overlap of calls of refresh_all, refresh_again never stays set  *)
(* with nobody to see it: a round runs that starts over for it, or the     *)
(* last round ended with an exception, and the next call of the timer      *)
(* begins anew.                                                            *)
THEOREM AgainServedCorrect == Spec => []AgainServed
<1>1. Init => AgainServed
  BY Zenon DEF Init, AgainServed
<1>2. Inv /\ AgainServed /\ [Next]_vars => AgainServed'
  BY AgainInductive DEF Inv
<1>. QED BY <1>1, <1>2, Invariant, PTL DEF Spec

===============================================================================
