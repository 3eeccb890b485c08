------------------------------ MODULE ProxyLeases -----------------------------
(***************************************************************************)
(* The proxies of profiles: ensure, refresh and attach (api/__init__.py    *)
(* and ui/pages.py) against the account at the provider, and the           *)
(* assignments that ProfileProxyManager keeps in memory (proxy.py).        *)
(*                                                                         *)
(* A request reads the assignment, calls the provider, and assigns what    *)
(* the answer holds.  Nothing keeps two requests for one profile apart,    *)
(* nor one lease from being attached to two profiles.  The provider is     *)
(* external: it acts at some moment of the call or after it was given up,  *)
(* and the answer takes its time, gets lost or says no.  Of a lease the    *)
(* model keeps its idproxy and which of its credentials they are: every    *)
(* change makes a new version, and the older ones useless.                 *)
(***************************************************************************)
EXTENDS Naturals

CONSTANTS
    Profiles,     \* profile identities
    Clients,      \* tasks that handle requests
    Ids,          \* idproxy
    MaxVersion,   \* bound: changes of one lease
    None

ASSUME VersionAssumption == MaxVersion \in Nat
ASSUME NoneAssumption == None \notin Profiles \cup Ids \cup [id : Ids, version : Nat]

VARIABLES
    assigned,   \* ProfileProxyManager._assignments
    issued,     \* provider: the version of each lease, 0 before it is sold
    late,       \* provider: the leases of which a change was given up by the
                \* client before it was made
    call,       \* which call each client awaits
    profile,    \* the profile it is for
    target,     \* the idproxy it is about: read, or sent by the operator
    answer,     \* the lease in the answer that is on its way
    \* history, for the properties
    unanswered, \* leases that changed without the answer arriving
    contested,  \* leases that two had to do with at once, see Remember
    overtaken,  \* clients whose profile was given a lease after they read
    attached    \* leases that the operator has attached

vars == <<assigned, issued, late, call, profile, target, answer,
          unanswered, contested, overtaken, attached>>

Lease == [id : Ids, version : Nat]

Calls == {"none", "ensure", "purchase", "change", "list"}

TypeOK ==
    /\ assigned \in [Profiles -> Lease \cup {None}]
    /\ issued \in [Ids -> Nat]
    /\ late \subseteq Ids
    /\ call \in [Clients -> Calls]
    /\ profile \in [Clients -> Profiles \cup {None}]
    /\ target \in [Clients -> Ids \cup {None}]
    /\ answer \in [Clients -> Lease \cup {None}]
    /\ \A c \in Clients :
          /\ profile[c] = None <=> call[c] = "none"
          /\ target[c] # None <=> call[c] \in {"change", "list"}
          /\ answer[c] # None => call[c] # "none" /\ issued[answer[c].id] > 0
    /\ unanswered \subseteq Ids /\ contested \subseteq Ids /\ attached \subseteq Ids
    /\ overtaken \subseteq Clients

Init ==
    /\ assigned = [p \in Profiles |-> None]
    /\ issued = [i \in Ids |-> 0]
    /\ late = {}
    /\ call = [c \in Clients |-> "none"]
    /\ profile = [c \in Clients |-> None]
    /\ target = [c \in Clients |-> None]
    /\ answer = [c \in Clients |-> None]
    /\ unanswered = {} /\ contested = {} /\ overtaken = {} /\ attached = {}

-------------------------------------------------------------------------------
(* History.                                                                *)

Has(p, i) == assigned[p] # None /\ assigned[p].id = i

(* The request of c is about lease i. *)
About(c, i) == target[c] = i \/ (answer[c] # None /\ answer[c].id = i)

(* Two profiles have lease i, or two requests are about it, or one for     *)
(* another profile than has it.                                            *)
Crowded(i) ==
    \/ \E p, q \in Profiles : p # q /\ Has(p, i) /\ Has(q, i)
    \/ \E c, d \in Clients : c # d /\ About(c, i) /\ About(d, i)
    \/ \E c \in Clients, p \in Profiles : p # profile[c] /\ About(c, i) /\ Has(p, i)

(* Credentials of lease i that are no longer valid are assigned or on      *)
(* their way.                                                              *)
Outdated(i) ==
    \/ \E p \in Profiles : Has(p, i) /\ assigned[p].version # issued[i]
    \/ \E c \in Clients : answer[c] # None /\ answer[c].id = i /\ answer[c].version # issued[i]

(* A lease is contested while it is crowded, and until the credentials     *)
(* that were outdated then are gone; a request is overtaken when its       *)
(* profile is given a lease by another one.                                *)
Remember ==
    /\ contested' = {i \in Ids : Crowded(i)' \/ (i \in contested /\ Outdated(i)')}
    /\ overtaken' = {c \in Clients :
          /\ call[c] # "none" /\ call'[c] # "none"
          /\ c \in overtaken \/ assigned'[profile[c]] # assigned[profile[c]]}
    /\ attached' = attached \cup {target'[c] : c \in {d \in Clients : call'[d] = "list"}}

-------------------------------------------------------------------------------
(* Requests.                                                               *)

BeginCall(c, p, kind, i) ==
    /\ call[c] = "none"
    /\ call' = [call EXCEPT ![c] = kind]
    /\ profile' = [profile EXCEPT ![c] = p]
    /\ target' = [target EXCEPT ![c] = i]
    /\ UNCHANGED <<assigned, issued, late, answer, unanswered>>
    /\ Remember

(* A profile that has a lease keeps it: ensure answers at once. *)
Ensure(c, p) ==
    /\ assigned[p] = None
    /\ BeginCall(c, p, "ensure", None)

(* Mutant: every refresh buys. *)
RefreshBuys(c, p) == BeginCall(c, p, "purchase", None)

Refresh(c, p) ==
    IF assigned[p] = None THEN BeginCall(c, p, "purchase", None)
                          ELSE BeginCall(c, p, "change", assigned[p].id)

(* The operator enters any idproxy, for any profile. *)
Attach(c, p, i) == BeginCall(c, p, "list", i)

-------------------------------------------------------------------------------
(* The provider.                                                           *)

Awaits(c, kind) == call[c] = kind /\ answer[c] = None

Changed(c) == call[c] = "change" /\ answer[c] # None

(* Its lease i now has version v, and that is the answer to c. *)
Answers(c, i, v) ==
    /\ issued' = [issued EXCEPT ![i] = v]
    /\ answer' = [answer EXCEPT ![c] = [id |-> i, version |-> v]]
    /\ UNCHANGED <<assigned, late, call, profile, target, unanswered>>
    /\ Remember

Sells(c, i) ==
    /\ Awaits(c, "ensure") \/ Awaits(c, "purchase")
    /\ issued[i] = 0
    /\ Answers(c, i, 1)

Changes(c) ==
    /\ Awaits(c, "change")
    /\ issued[target[c]] < MaxVersion
    /\ Answers(c, target[c], issued[target[c]] + 1)

(* Mutant: the list is not asked for by idproxy, and its first lease taken. *)
ListsAny(c) ==
    /\ Awaits(c, "list")
    /\ \E i \in Ids : issued[i] > 0 /\ Answers(c, i, issued[i])

Lists(c) ==
    /\ Awaits(c, "list")
    /\ issued[target[c]] > 0
    /\ Answers(c, target[c], issued[target[c]])

(* A change that was given up is made after all; how many were given up is *)
(* not counted.                                                            *)
ChangesLate(i) ==
    /\ i \in late /\ issued[i] < MaxVersion
    /\ issued' = [issued EXCEPT ![i] = @ + 1]
    /\ unanswered' = unanswered \cup {i}
    /\ UNCHANGED <<assigned, late, call, profile, target, answer>>
    /\ Remember

(* A lease is sold that the program is not told of: on a purchase that was *)
(* given up, or to the operator.                                           *)
SellsUntold(i) ==
    /\ issued[i] = 0
    /\ issued' = [issued EXCEPT ![i] = 1]
    /\ UNCHANGED <<assigned, late, call, profile, target, answer, unanswered>>
    /\ Remember

-------------------------------------------------------------------------------
(* The end of a request.                                                   *)

(* Mutant: the answer is still there for the next request. *)
RequestKeepsAnswer(c) ==
    /\ call' = [call EXCEPT ![c] = "none"]
    /\ profile' = [profile EXCEPT ![c] = None]
    /\ target' = [target EXCEPT ![c] = None]
    /\ UNCHANGED <<issued, answer>>
    /\ Remember

RequestOver(c) ==
    /\ call' = [call EXCEPT ![c] = "none"]
    /\ profile' = [profile EXCEPT ![c] = None]
    /\ target' = [target EXCEPT ![c] = None]
    /\ answer' = [answer EXCEPT ![c] = None]
    /\ UNCHANGED issued
    /\ Remember

(* The answer tells of the last change of its lease. *)
Newest(l) == l.version = issued[l.id]

(* Mutant: a change leaves the assignment as it was. *)
AssignKeeps(c) ==
    /\ answer[c] # None
    /\ assigned' = [assigned EXCEPT ![profile[c]] = IF call[c] = "change" THEN @ ELSE answer[c]]
    /\ unanswered' = IF Newest(answer[c]) THEN unanswered \ {answer[c].id} ELSE unanswered
    /\ UNCHANGED late
    /\ RequestOver(c)

Assign(c) ==
    /\ answer[c] # None
    /\ assigned' = [assigned EXCEPT ![profile[c]] = answer[c]]
    /\ unanswered' = IF Newest(answer[c]) THEN unanswered \ {answer[c].id} ELSE unanswered
    /\ UNCHANGED late
    /\ RequestOver(c)

(* The provider says no, or knows of no such lease: 502 or 404. *)
Refused(c) ==
    /\ call[c] # "none" /\ answer[c] = None
    /\ UNCHANGED <<assigned, late, unanswered>>
    /\ RequestOver(c)

(* The request times out, or the connection breaks, before the provider    *)
(* has acted.                                                              *)
GivesUp(c) ==
    /\ call[c] # "none" /\ answer[c] = None
    /\ late' = late \cup {i \in Ids : call[c] = "change" /\ target[c] = i}
    /\ UNCHANGED <<assigned, unanswered>>
    /\ RequestOver(c)

(* The answer is lost, or is not understood: the request fails, whatever   *)
(* the provider did.                                                       *)
Lost(c) ==
    /\ answer[c] # None
    /\ unanswered' = unanswered \cup {i \in Ids : Changed(c) /\ target[c] = i}
    /\ UNCHANGED <<assigned, late>>
    /\ RequestOver(c)

(* The process is started again, with no assignments; calls to the         *)
(* provider are given up or their answers lost.                            *)
Restart ==
    /\ assigned' = [p \in Profiles |-> None]
    /\ late' = late \cup {i \in Ids : \E c \in Clients : Awaits(c, "change") /\ target[c] = i}
    /\ unanswered' = unanswered \cup {i \in Ids : \E c \in Clients : Changed(c) /\ target[c] = i}
    /\ call' = [c \in Clients |-> "none"]
    /\ profile' = [c \in Clients |-> None]
    /\ target' = [c \in Clients |-> None]
    /\ answer' = [c \in Clients |-> None]
    /\ UNCHANGED issued
    /\ Remember

Request(c, p) == Ensure(c, p) \/ Refresh(c, p) \/ \E i \in Ids : Attach(c, p, i)

Provider(c) == Changes(c) \/ Lists(c) \/ \E i \in Ids : Sells(c, i)

Next ==
    \/ \E c \in Clients, p \in Profiles : Request(c, p)
    \/ \E c \in Clients : Provider(c) \/ Assign(c) \/ Refused(c) \/ GivesUp(c) \/ Lost(c)
    \/ \E i \in Ids : ChangesLate(i) \/ SellsUntold(i)
    \/ Restart

Spec == Init /\ [][Next]_vars

-------------------------------------------------------------------------------
(* Properties.                                                             *)

(* The credentials a profile has are the valid ones, unless a change asked *)
(* for by it is made but not yet assigned, a change was made that nobody   *)
(* was told of, or others had to do with the lease at the same time and    *)
(* left it so (refresh_profile_proxy, attach_existing_profile_proxy).      *)
LeaseCurrent ==
    \A p \in Profiles : assigned[p] # None =>
        \/ assigned[p].version = issued[assigned[p].id]
        \/ assigned[p].id \in unanswered \cup contested
        \/ \E c \in Clients : Changed(c) /\ profile[c] = p /\ target[c] = assigned[p].id

(* A profile keeps its lease, with old or new credentials, until another   *)
(* one is attached or the process restarts; only a request that was        *)
(* overtaken, and acts on an assignment it read before, may replace it     *)
(* (ensure_profile_proxy, refresh_profile_proxy).                          *)
StickyLease ==
    [][\A p \in Profiles :
         assigned[p] # None /\ assigned'[p] # None /\ assigned'[p].id # assigned[p].id
             => \E c \in Clients : profile[c] = p /\ (call[c] = "list" \/ c \in overtaken)]_vars

(* Two profiles have one lease only if the operator has attached it:       *)
(* purchases and changes for many profiles at a time, overtaken ones too,  *)
(* give none of them the lease of another (ProfileProxyManager.assign).    *)
LeasesApart ==
    \A p, q \in Profiles, i \in Ids : p # q /\ Has(p, i) /\ Has(q, i) => i \in attached

-------------------------------------------------------------------------------
(* A statement of the documentation that the code does not meet.           *)

(* Ensure "buys one 1-day 4Gvinaphone HTTP proxy only if the profile has   *)
(* no assigned proxy yet" (docs/automation-plan.md).                       *)
BuysIfNone ==
    [][\A c \in Clients, i \in Ids :
         Sells(c, i) /\ call[c] = "ensure" => assigned[profile[c]] = None]_vars

===============================================================================
