--------------------------- MODULE ProxyLeasesProofs --------------------------
(***************************************************************************)
(* What requests for the proxies of profiles keep, for any profiles,       *)
(* clients and leases, whoever asks for what and whenever the provider     *)
(* acts: credentials are valid unless the provider's word was lost or two  *)
(* had to do with a lease at once, a profile keeps its lease unless a      *)
(* request is overtaken, and only leases the operator attaches are shared. *)
(***************************************************************************)
EXTENDS ProxyLeases, TLAPS

(* Every lease that a profile has, or a change is asked of, has been sold. *)
KnownAreSold ==
    /\ \A p \in Profiles : assigned[p] # None => issued[assigned[p].id] > 0
    /\ \A c \in Clients : call[c] = "change" => issued[target[c]] > 0

(* What two have to do with is contested. *)
CrowdedContested == \A i \in Ids : Crowded(i) => i \in contested

(* The credentials of lease i, assigned and on their way, are valid. *)
Valid(i) ==
    /\ \A c \in Clients : answer[c] # None /\ answer[c].id = i => answer[c].version = issued[i]
    /\ \A p \in Profiles : Has(p, i) =>
          \/ assigned[p].version = issued[i]
          \/ \E c \in Clients : Changed(c) /\ profile[c] = p /\ target[c] = i

LeasesValid == \A i \in Ids : i \notin unanswered \cup contested => Valid(i)

(* A request that was not overtaken is about the lease that its profile    *)
(* has, or has none of.                                                    *)
Purposes == \A c \in Clients \ overtaken :
    /\ call[c] \in {"ensure", "purchase"} => assigned[profile[c]] = None
    /\ call[c] = "change" => Has(profile[c], target[c])

(* An answer is about the lease that was asked for. *)
AnswersTarget == \A c \in Clients :
    call[c] \in {"change", "list"} /\ answer[c] # None => answer[c].id = target[c]

(* Profile p uses lease i: it has it, or a request for it is about i. *)
Uses(p, i) == Has(p, i) \/ \E c \in Clients : profile[c] = p /\ About(c, i)

(* No lease is used by two profiles but those the operator attaches. *)
UsedByOne ==
    /\ \A c \in Clients : call[c] = "list" => target[c] \in attached
    /\ \A p, q \in Profiles, i \in Ids \ attached : Uses(p, i) /\ Uses(q, i) => p = q

-------------------------------------------------------------------------------
(* The classes of steps.                                                   *)

LEMMA LeaseFacts ==
    /\ \A l \in Lease : l.id \in Ids /\ l.version \in Nat
    /\ \A i \in Ids, v \in Nat : [id |-> i, version |-> v] \in Lease
    /\ None \notin Lease /\ None \notin Ids /\ None \notin Profiles
BY NoneAssumption DEF Lease

(* Client c begins a request for p. *)
Begins(c, p, kind, i) ==
    /\ BeginCall(c, p, kind, i)
    /\ kind \in Calls \ {"none"}
    /\ IF kind \in {"change", "list"} THEN i \in Ids ELSE i = None /\ assigned[p] = None
    /\ kind = "change" => Has(p, i)

LEMMA RequestBegins ==
    ASSUME TypeOK, NEW c \in Clients, NEW p \in Profiles, Request(c, p)
    PROVE  \E kind \in Calls, i \in Ids \cup {None} : Begins(c, p, kind, i)
<1> USE LeaseFacts
<1>1. CASE Ensure(c, p)
  <2>1. Begins(c, p, "ensure", None)
    BY <1>1 DEF Ensure, Begins, Calls
  <2>. QED BY <2>1 DEF Calls
<1>2. CASE Refresh(c, p)
  <2>1. CASE assigned[p] = None
    <3>1. Begins(c, p, "purchase", None)
      BY <1>2, <2>1 DEF Refresh, Begins, Calls
    <3>. QED BY <3>1 DEF Calls
  <2>2. CASE assigned[p] # None
    <3>1. assigned[p].id \in Ids
      BY <2>2 DEF TypeOK
    <3>2. Begins(c, p, "change", assigned[p].id)
      BY <1>2, <2>2, <3>1 DEF Refresh, Begins, Calls, Has
    <3>. QED BY <3>1, <3>2 DEF Calls
  <2>. QED BY <2>1, <2>2
<1>3. ASSUME NEW i \in Ids, Attach(c, p, i)
      PROVE  \E kind \in Calls, j \in Ids \cup {None} : Begins(c, p, kind, j)
  <2>1. Begins(c, p, "list", i)
    BY <1>3 DEF Attach, Begins, Calls
  <2>. QED BY <2>1 DEF Calls
<1>. QED BY <1>1, <1>2, <1>3 DEF Request

(* The provider answers: the lease was never sold, or was asked for. *)
Acts(c, i, v) ==
    /\ call[c] # "none" /\ answer[c] = None
    /\ v > 0
    /\ Answers(c, i, v)
    /\ \/ call[c] \in {"ensure", "purchase"} /\ issued[i] = 0
       \/ call[c] = "change" /\ i = target[c]
       \/ call[c] = "list" /\ i = target[c] /\ v = issued[i]

LEMMA ProviderActs ==
    ASSUME TypeOK, NEW c \in Clients, Provider(c)
    PROVE  \E i \in Ids, v \in Nat : Acts(c, i, v)
<1>1. call[c] \in {"change", "list"} => target[c] \in Ids /\ issued[target[c]] \in Nat
  BY LeaseFacts DEF TypeOK
<1>2. CASE Changes(c)
  <2>1. Acts(c, target[c], issued[target[c]] + 1)
    BY <1>1, <1>2 DEF Changes, Awaits, Acts
  <2>. QED BY <1>1, <1>2, <2>1 DEF Changes, Awaits
<1>3. CASE Lists(c)
  <2>1. Acts(c, target[c], issued[target[c]])
    BY <1>1, <1>3 DEF Lists, Awaits, Acts
  <2>. QED BY <1>1, <1>3, <2>1 DEF Lists, Awaits
<1>4. ASSUME NEW i \in Ids, Sells(c, i) PROVE Acts(c, i, 1)
  BY <1>4 DEF Sells, Awaits, Acts
<1>. QED BY <1>2, <1>3, <1>4 DEF Provider

ActsUntold(i) == ChangesLate(i) \/ SellsUntold(i)

Fails(c) == Refused(c) \/ GivesUp(c) \/ Lost(c)

LEMMA Steps ==
    ASSUME TypeOK, [Next]_vars
    PROVE  \/ \E c \in Clients, p \in Profiles, kind \in Calls, i \in Ids \cup {None} :
                 Begins(c, p, kind, i)
           \/ \E c \in Clients, i \in Ids, v \in Nat : Acts(c, i, v)
           \/ \E i \in Ids : ActsUntold(i)
           \/ \E c \in Clients : Assign(c) \/ Fails(c)
           \/ Restart
           \/ UNCHANGED vars
BY RequestBegins, ProviderActs DEF Next, ActsUntold, Fails

-------------------------------------------------------------------------------
(* Types.                                                                  *)

LEMMA TypeInit == Init => TypeOK
BY DEF Init, TypeOK, Calls

(* Every step keeps the history, or changes nothing. *)
LEMMA StepsRemember ==
    ASSUME [Next]_vars
    PROVE  Remember \/ UNCHANGED vars
BY DEF Next, Request, Ensure, Refresh, Attach, BeginCall, Provider, Sells, Changes, Lists, Answers,
       ChangesLate, SellsUntold, Assign, Refused, GivesUp, Lost, RequestOver, Restart

(* The part of the type invariant that is not history. *)
TypeCode ==
    /\ assigned \in [Profiles -> Lease \cup {None}]
    /\ issued \in [Ids -> Nat]
    /\ late \subseteq Ids
    /\ call \in [Clients -> Calls]
    /\ profile \in [Clients -> Profiles \cup {None}]
    /\ target \in [Clients -> Ids \cup {None}]
    /\ answer \in [Clients -> Lease \cup {None}]
    /\ \A c \in Clients :
          /\ profile[c] = None <=> call[c] = "none"
          /\ target[c] # None <=> call[c] \in {"change", "list"}
          /\ answer[c] # None => call[c] # "none" /\ issued[answer[c].id] > 0
    /\ unanswered \subseteq Ids

LEMMA TypeCodeStep ==
    ASSUME TypeOK, [Next]_vars
    PROVE  TypeCode'
<1> USE LeaseFacts
<1>1. ASSUME NEW c \in Clients, NEW p \in Profiles, NEW kind \in Calls, NEW i \in Ids \cup {None},
             Begins(c, p, kind, i)
      PROVE  TypeCode'
  BY <1>1 DEF Begins, BeginCall, TypeOK, TypeCode, Calls
<1>2. ASSUME NEW c \in Clients, NEW i \in Ids, NEW v \in Nat, Acts(c, i, v) PROVE TypeCode'
  <2> DEFINE l == [id |-> i, version |-> v]
  <2>1. l \in Lease /\ l.id = i
    BY DEF Lease
  <2>2. answer' = [answer EXCEPT ![c] = l] /\ issued' = [issued EXCEPT ![i] = v] /\ v > 0
    BY <1>2 DEF Acts, Answers
  <2>3. \A d \in Clients : answer'[d] # None => call'[d] # "none" /\ issued'[answer'[d].id] > 0
    BY <1>2, <2>1, <2>2 DEF Acts, Answers, TypeOK
  <2>. QED BY <1>2, <2>1, <2>2, <2>3 DEF Acts, Answers, TypeOK, TypeCode
<1>3. ASSUME NEW i \in Ids, ActsUntold(i) PROVE TypeCode'
  BY <1>3 DEF ActsUntold, ChangesLate, SellsUntold, TypeOK, TypeCode
<1>4. ASSUME NEW c \in Clients, Assign(c) \/ Fails(c) PROVE TypeCode'
  <2>1. /\ call' = [call EXCEPT ![c] = "none"] /\ profile' = [profile EXCEPT ![c] = None]
        /\ target' = [target EXCEPT ![c] = None] /\ answer' = [answer EXCEPT ![c] = None]
        /\ issued' = issued
    BY <1>4 DEF Assign, Fails, Refused, GivesUp, Lost, RequestOver
  <2>2. assigned' \in [Profiles -> Lease \cup {None}]
    BY <1>4 DEF Assign, Fails, Refused, GivesUp, Lost, TypeOK
  <2>3. late' \subseteq Ids /\ unanswered' \subseteq Ids
    BY <1>4 DEF Assign, Fails, Refused, GivesUp, Lost, TypeOK
  <2>. QED BY <2>1, <2>2, <2>3 DEF TypeOK, TypeCode, Calls
<1>5. CASE Restart
  BY <1>5 DEF Restart, TypeOK, TypeCode, Calls
<1>6. CASE UNCHANGED vars
  BY <1>6 DEF vars, TypeOK, TypeCode
<1>. QED BY <1>1, <1>2, <1>3, <1>4, <1>5, <1>6, Steps

LEMMA TypeStep ==
    ASSUME TypeOK, [Next]_vars
    PROVE  TypeOK'
<1>1. TypeCode'
  BY TypeCodeStep
<1>2. CASE Remember
  <2>1. contested' \subseteq Ids /\ overtaken' \subseteq Clients
    BY <1>2 DEF Remember
  <2>2. \A c \in Clients : call'[c] = "list" => target'[c] \in Ids
    BY <1>1 DEF TypeCode
  <2>3. attached' \subseteq Ids
    BY <1>2, <2>2 DEF Remember, TypeOK
  <2>. QED BY <1>1, <2>1, <2>3 DEF TypeCode, TypeOK
<1>3. CASE UNCHANGED vars
  BY <1>3 DEF vars, TypeOK
<1>. QED BY <1>2, <1>3, StepsRemember

-------------------------------------------------------------------------------
(* What requests and profiles know of.                                     *)

(* What a profile has after a step, it had before or was answered. *)
LEMMA AssignedStep ==
    ASSUME TypeOK, [Next]_vars, NEW p \in Profiles
    PROVE  \/ assigned'[p] = assigned[p]
           \/ assigned'[p] = None
           \/ \E c \in Clients :
                 /\ Assign(c)
                 /\ profile[c] = p /\ answer[c] # None /\ assigned'[p] = answer[c]
BY Steps DEF Begins, BeginCall, Acts, Answers, ActsUntold, ChangesLate, SellsUntold, Assign, Fails,
             Refused, GivesUp, Lost, Restart, vars, TypeOK

(* A request that is neither begun nor ended is about what it was. *)
LEMMA CallStep ==
    ASSUME TypeOK, [Next]_vars, NEW c \in Clients, call[c] # "none", call'[c] # "none"
    PROVE  call'[c] = call[c] /\ profile'[c] = profile[c] /\ target'[c] = target[c]
BY Steps DEF Begins, BeginCall, Acts, Answers, ActsUntold, ChangesLate, SellsUntold, Assign, Fails,
             Refused, GivesUp, Lost, RequestOver, Restart, vars, TypeOK

(* An answer stays, is over, or has just been given. *)
LEMMA AnswerStep ==
    ASSUME TypeOK, [Next]_vars, NEW c \in Clients, answer'[c] # None
    PROVE  \/ answer'[c] = answer[c]
           \/ \E i \in Ids, v \in Nat :
                 Acts(c, i, v) /\ answer'[c].id = i /\ answer'[c].version = v
<1>1. ASSUME NEW d \in Clients, NEW i \in Ids, NEW v \in Nat, Acts(d, i, v)
      PROVE  \/ answer'[c] = answer[c]
             \/ Acts(c, i, v) /\ answer'[c].id = i /\ answer'[c].version = v
  BY <1>1 DEF Acts, Answers, TypeOK
<1>2. ASSUME NEW d \in Clients, Assign(d) \/ Fails(d) PROVE answer'[c] = answer[c]
  BY <1>2 DEF Assign, Fails, Refused, GivesUp, Lost, RequestOver, TypeOK
<1>3. ASSUME \/ \E d \in Clients, p \in Profiles, kind \in Calls, i \in Ids \cup {None} :
                   Begins(d, p, kind, i)
             \/ \E i \in Ids : ActsUntold(i)
             \/ UNCHANGED vars
      PROVE  answer' = answer
  BY <1>3 DEF Begins, BeginCall, ActsUntold, ChangesLate, SellsUntold, vars
<1>4. ~Restart
  BY DEF Restart
<1>. QED BY <1>1, <1>2, <1>3, <1>4, Steps

(* A request that begins. *)
LEMMA CallBegins ==
    ASSUME TypeOK, [Next]_vars, NEW c \in Clients, call[c] = "none", call'[c] # "none"
    PROVE  /\ \E kind \in Calls, i \in Ids \cup {None} : Begins(c, profile'[c], kind, i)
           /\ UNCHANGED <<assigned, issued, answer>> /\ answer[c] = None
           /\ call'[c] \in {"ensure", "purchase"} => assigned[profile'[c]] = None
           /\ call'[c] = "change" => Has(profile'[c], target'[c])
<1>1. ASSUME NEW d \in Clients, NEW p \in Profiles, NEW kind \in Calls, NEW i \in Ids \cup {None},
             Begins(d, p, kind, i)
      PROVE  d = c
  BY <1>1 DEF Begins, BeginCall, TypeOK
<1>2. PICK p \in Profiles, kind \in Calls, i \in Ids \cup {None} : Begins(c, p, kind, i)
  BY <1>1, Steps DEF Acts, Answers, ActsUntold, ChangesLate, SellsUntold, Assign, Fails,
             Refused, GivesUp, Lost, RequestOver, Restart, vars, TypeOK
<1>3. profile'[c] = p /\ call'[c] = kind /\ target'[c] = i
  BY <1>2 DEF Begins, BeginCall, TypeOK
<1>. QED BY <1>2, <1>3 DEF Begins, BeginCall, TypeOK

(* A lease that was sold stays sold. *)
LEMMA IssuedGrows ==
    ASSUME TypeOK, [Next]_vars
    PROVE  \A i \in Ids : issued[i] > 0 => issued'[i] > 0
BY Steps DEF Begins, BeginCall, Acts, Answers, ActsUntold, ChangesLate, SellsUntold, Assign, Fails,
             Refused, GivesUp, Lost, RequestOver, Restart, vars, TypeOK

LEMMA KnownStep ==
    ASSUME TypeOK, KnownAreSold, [Next]_vars
    PROVE  KnownAreSold'
<1> USE LeaseFacts
<1>1. ASSUME NEW p \in Profiles, assigned'[p] # None PROVE issued'[assigned'[p].id] > 0
  BY <1>1, AssignedStep, IssuedGrows DEF KnownAreSold, TypeOK
<1>2. ASSUME NEW c \in Clients, call'[c] = "change" PROVE issued'[target'[c]] > 0
  <2>1. CASE call[c] = "none"
    <3>1. Has(profile'[c], target'[c]) /\ profile'[c] \in Profiles
      BY <1>2, <2>1, CallBegins, TypeStep DEF TypeOK
    <3>. QED BY <3>1, IssuedGrows DEF Has, KnownAreSold, TypeOK
  <2>2. CASE call[c] # "none"
    <3>1. call[c] = "change" /\ target'[c] = target[c] /\ target[c] \in Ids
      BY <1>2, <2>2, CallStep DEF TypeOK
    <3>. QED BY <3>1, IssuedGrows DEF KnownAreSold
  <2>. QED BY <2>1, <2>2
<1>. QED BY <1>1, <1>2 DEF KnownAreSold

LEMMA PurposesStep ==
    ASSUME TypeOK, Purposes, [Next]_vars
    PROVE  Purposes'
<1> SUFFICES ASSUME NEW c \in Clients, c \notin overtaken', call'[c] # "none"
             PROVE  /\ call'[c] \in {"ensure", "purchase"} => assigned'[profile'[c]] = None
                    /\ call'[c] = "change" => Has(profile[c], target[c])'
  BY DEF Purposes
<1>1. CASE call[c] = "none"
  BY <1>1, CallBegins DEF Has
<1>2. CASE call[c] # "none"
  <2>1. call'[c] = call[c] /\ profile'[c] = profile[c] /\ target'[c] = target[c]
    BY <1>2, CallStep
  <2>2. c \notin overtaken /\ assigned'[profile[c]] = assigned[profile[c]]
    BY <1>2, StepsRemember DEF Remember, vars
  <2>. QED BY <2>1, <2>2 DEF Purposes, Has
<1>. QED BY <1>1, <1>2

LEMMA AnswersTargetStep ==
    ASSUME TypeOK, AnswersTarget, [Next]_vars
    PROVE  AnswersTarget'
<1> SUFFICES ASSUME NEW c \in Clients, call'[c] \in {"change", "list"}, answer'[c] # None
             PROVE  answer'[c].id = target'[c]
  BY DEF AnswersTarget
<1>1. call[c] # "none"
  BY CallBegins
<1>2. call'[c] = call[c] /\ target'[c] = target[c]
  BY <1>1, CallStep
<1>3. answer'[c] = answer[c] \/ \E i \in Ids, v \in Nat : Acts(c, i, v) /\ answer'[c].id = i
  BY AnswerStep
<1>. QED BY <1>2, <1>3 DEF Acts, AnswersTarget

-------------------------------------------------------------------------------
(* Valid credentials.                                                      *)

LEMMA CrowdedStep ==
    ASSUME CrowdedContested, [Next]_vars
    PROVE  CrowdedContested'
<1>1. CASE Remember
  BY <1>1 DEF Remember, CrowdedContested
<1>2. CASE UNCHANGED vars
  BY <1>2 DEF vars, CrowdedContested, Crowded, About, Has
<1>. QED BY <1>1, <1>2, StepsRemember

(* A lease with credentials outdated, and not contested, is not crowded. *)
LEMMA Alone ==
    ASSUME CrowdedContested, Remember, NEW i \in Ids, i \notin contested'
    PROVE  ~Outdated(i)' \/ (i \notin contested /\ ~Crowded(i) /\ ~Crowded(i)')
BY DEF CrowdedContested, Remember

(* The provider answers c: nobody else has to do with the lease. *)
LEMMA ActsValid ==
    ASSUME TypeOK, KnownAreSold, NEW c \in Clients, NEW i \in Ids, NEW v \in Nat, Acts(c, i, v),
           NEW k \in Ids, ~Crowded(k)', Valid(k)
    PROVE  Valid(k)'
<1>1. /\ UNCHANGED <<assigned, call, profile, target>> /\ answer[c] = None
      /\ answer'[c] # None /\ answer'[c].id = i /\ answer'[c].version = v
      /\ \A d \in Clients \ {c} : answer'[d] = answer[d]
      /\ issued'[i] = v
      /\ \A j \in Ids \ {i} : issued'[j] = issued[j]
  BY LeaseFacts DEF Acts, Answers, TypeOK
<1>2. CASE k # i
  BY <1>1, <1>2 DEF Valid, Has, Changed
<1>3. CASE k = i
  <2>1. ASSUME NEW d \in Clients, answer'[d] # None, answer'[d].id = i PROVE d = c
    BY <1>1, <1>3, <2>1 DEF Crowded, About
  <2>2. ASSUME NEW p \in Profiles, Has(p, i)
        PROVE  p = profile[c] /\ call[c] \in {"change", "list"}
    <3>1. p = profile[c]
      BY <1>1, <1>3, <2>2 DEF Crowded, About, Has
    <3>2. issued[i] > 0
      BY <2>2 DEF Has, KnownAreSold
    <3>. QED BY <3>1, <3>2 DEF Acts
  <2>3. CASE call[c] = "change"
    BY <1>1, <1>3, <2>1, <2>2, <2>3 DEF Valid, Has, Changed, Acts
  <2>4. CASE call[c] = "list"
    <3>1. issued'[i] = issued[i]
      BY <1>1, <2>4 DEF Acts
    <3>. QED BY <1>1, <1>3, <2>1, <3>1 DEF Valid, Has, Changed
  <2>5. CASE call[c] \notin {"change", "list"}
    BY <1>1, <1>3, <2>1, <2>2, <2>5 DEF Valid, Has
  <2>. QED BY <2>3, <2>4, <2>5
<1>. QED BY <1>2, <1>3

(* The provider acts and tells nobody. *)
LEMMA UntoldValid ==
    ASSUME TypeOK, KnownAreSold, NEW i \in Ids, ActsUntold(i),
           NEW k \in Ids, k \notin unanswered', Valid(k)
    PROVE  Valid(k)'
<1>1. /\ UNCHANGED <<assigned, call, profile, target, answer>>
      /\ \A j \in Ids \ {i} : issued'[j] = issued[j]
      /\ i \in unanswered' \/ issued[i] = 0
  BY DEF ActsUntold, ChangesLate, SellsUntold, TypeOK
<1>2. CASE k # i
  BY <1>1, <1>2 DEF Valid, Has, Changed
<1>3. CASE k = i
  <2>1. issued[k] = 0
    BY <1>1, <1>3
  <2>2. \A c \in Clients : ~(answer[c] # None /\ answer[c].id = k)
    BY <2>1 DEF TypeOK
  <2>3. \A p \in Profiles : ~Has(p, k)
    BY <2>1 DEF Has, KnownAreSold
  <2>. QED BY <1>1, <2>2, <2>3 DEF Valid, Has
<1>. QED BY <1>2, <1>3

(* The answer of c is assigned: it is valid, and no other profile has the  *)
(* lease.                                                                  *)
LEMMA AssignValid ==
    ASSUME TypeOK, LeasesValid, NEW c \in Clients, Assign(c),
           NEW k \in Ids, k \notin unanswered' \cup contested, ~Crowded(k), ~Crowded(k)'
    PROVE  Valid(k)'
<1>1. /\ answer[c] # None /\ profile[c] \in Profiles
      /\ UNCHANGED issued
      /\ assigned'[profile[c]] = answer[c]
      /\ \A p \in Profiles \ {profile[c]} : assigned'[p] = assigned[p]
      /\ answer'[c] = None
      /\ \A d \in Clients \ {c} :
            /\ call'[d] = call[d] /\ answer'[d] = answer[d]
            /\ profile'[d] = profile[d] /\ target'[d] = target[d]
  BY DEF Assign, RequestOver, TypeOK
<1>2. unanswered' = IF Newest(answer[c]) THEN unanswered \ {answer[c].id} ELSE unanswered
  BY DEF Assign
<1>3. CASE k # answer[c].id
  <2>1. Valid(k)
    BY <1>2, <1>3 DEF LeasesValid
  <2>. QED BY <1>1, <1>3, <2>1 DEF Valid, Has, Changed
<1>4. CASE k = answer[c].id
  <2>1. answer[c].version = issued[k]
    <3>1. CASE k \in unanswered
      BY <1>2, <1>4, <3>1 DEF Newest
    <3>2. CASE k \notin unanswered
      BY <1>1, <1>4, <3>2 DEF LeasesValid, Valid
    <3>. QED BY <3>1, <3>2
  <2>2. \A d \in Clients \ {c} : ~(answer[d] # None /\ answer[d].id = k)
    BY <1>1, <1>4 DEF Crowded, About
  <2>3. \A p \in Profiles \ {profile[c]} : ~Has(p, k)'
    BY <1>1, <1>4 DEF Crowded, Has
  <2>. QED BY <1>1, <2>1, <2>2, <2>3 DEF Valid, Has
<1>. QED BY <1>3, <1>4

(* The request of c fails. *)
LEMMA FailsValid ==
    ASSUME TypeOK, NEW c \in Clients, Fails(c), NEW k \in Ids, k \notin unanswered', Valid(k)
    PROVE  Valid(k)'
<1>1. /\ UNCHANGED <<assigned, issued>>
      /\ answer'[c] = None
      /\ \A d \in Clients \ {c} :
            /\ call'[d] = call[d] /\ answer'[d] = answer[d]
            /\ profile'[d] = profile[d] /\ target'[d] = target[d]
      /\ \A i \in Ids : Changed(c) /\ target[c] = i => i \in unanswered'
  BY DEF Fails, Refused, GivesUp, Lost, RequestOver, TypeOK, Changed
<1>. QED BY <1>1 DEF Valid, Has, Changed

LEMMA LeasesValidStep ==
    ASSUME TypeOK, KnownAreSold, CrowdedContested, LeasesValid, [Next]_vars
    PROVE  LeasesValid'
<1>1. CASE UNCHANGED vars
  BY <1>1 DEF vars, LeasesValid, Valid, Has, Changed
<1>2. ASSUME Remember, NEW k \in Ids, k \notin unanswered' \cup contested' PROVE Valid(k)'
  <2>1. CASE ~Outdated(k)'
    BY <2>1 DEF Outdated, Valid
  <2>2. CASE Outdated(k)'
    <3>1. k \notin contested /\ ~Crowded(k) /\ ~Crowded(k)'
      BY <1>2, <2>2, Alone
    <3>2. k \notin unanswered => Valid(k)
      BY <3>1 DEF LeasesValid
    <3>3. ASSUME NEW c \in Clients, NEW p \in Profiles, NEW kind \in Calls,
                 NEW i \in Ids \cup {None}, Begins(c, p, kind, i)
          PROVE  Valid(k)'
      <4>1. /\ UNCHANGED <<assigned, issued, answer, unanswered>> /\ answer[c] = None
            /\ \A d \in Clients \ {c} :
                  call'[d] = call[d] /\ profile'[d] = profile[d] /\ target'[d] = target[d]
        BY <3>3 DEF Begins, BeginCall, TypeOK
      <4>2. Valid(k)
        BY <1>2, <3>2, <4>1
      <4>. QED BY <4>1, <4>2 DEF Valid, Has, Changed
    <3>4. ASSUME NEW c \in Clients, NEW i \in Ids, NEW v \in Nat, Acts(c, i, v) PROVE Valid(k)'
      BY <1>2, <3>1, <3>2, <3>4, ActsValid DEF Acts, Answers
    <3>5. ASSUME NEW i \in Ids, ActsUntold(i) PROVE Valid(k)'
      BY <1>2, <3>2, <3>5, UntoldValid DEF ActsUntold, ChangesLate, SellsUntold
    <3>6. ASSUME NEW c \in Clients, Assign(c) PROVE Valid(k)'
      BY <1>2, <3>1, <3>6, AssignValid
    <3>7. ASSUME NEW c \in Clients, Fails(c) PROVE Valid(k)'
      BY <1>2, <3>2, <3>7, FailsValid DEF Fails, Refused, GivesUp, Lost
    <3>8. CASE Restart
      BY <3>8 DEF Restart, Valid, Has
    <3>. QED BY <1>1, <1>2, <3>3, <3>4, <3>5, <3>6, <3>7, <3>8, Steps DEF LeasesValid
  <2>. QED BY <2>1, <2>2
<1>. QED BY <1>1, <1>2, StepsRemember DEF LeasesValid

-------------------------------------------------------------------------------
(* A lease for each profile.                                               *)

(* Leases in use are sold or attached. *)
LEMMA UsedAreSold ==
    ASSUME TypeOK, KnownAreSold, UsedByOne,
           NEW p \in Profiles, NEW i \in Ids \ attached, Uses(p, i)
    PROVE  issued[i] > 0
<1>1. CASE Has(p, i)
  BY <1>1 DEF Has, KnownAreSold
<1>2. ASSUME NEW c \in Clients, About(c, i) PROVE issued[i] > 0
  <2>1. CASE target[c] = i
    <3>1. call[c] = "change"
      BY <2>1, LeaseFacts DEF TypeOK, UsedByOne
    <3>. QED BY <2>1, <3>1 DEF KnownAreSold
  <2>2. CASE answer[c] # None /\ answer[c].id = i
    BY <2>2 DEF TypeOK
  <2>. QED BY <1>2, <2>1, <2>2 DEF About
<1>. QED BY <1>1, <1>2 DEF Uses

(* A profile comes to use a lease because it is attached, or just sold to  *)
(* its request r.                                                          *)
NewUses(r) == \A p \in Profiles, i \in Ids \ attached' :
    Uses(p, i)' => Uses(p, i) \/ (issued[i] = 0 /\ p = profile[r])

LEMMA ListedStep ==
    ASSUME TypeOK, UsedByOne, [Next]_vars, NEW c \in Clients, call'[c] = "list"
    PROVE  target'[c] \in attached'
BY StepsRemember DEF Remember, vars, UsedByOne

LEMMA UsesStep ==
    ASSUME TypeOK, UsedByOne, [Next]_vars
    PROVE  attached \subseteq attached' /\ \E r : NewUses(r)
<1> USE LeaseFacts
<1>1. attached \subseteq attached'
  BY StepsRemember DEF Remember, vars
<1>2. ASSUME NEW c \in Clients, NEW p \in Profiles, NEW kind \in Calls, NEW i \in Ids \cup {None},
             Begins(c, p, kind, i)
      PROVE  NewUses(c)
  <2>1. /\ UNCHANGED <<assigned, answer>> /\ answer[c] = None
        /\ call'[c] = kind /\ profile'[c] = p /\ target'[c] = i
        /\ \A d \in Clients \ {c} : profile'[d] = profile[d] /\ target'[d] = target[d]
    BY <1>2 DEF Begins, BeginCall, TypeOK
  <2>2. kind = "list" => i \in attached'
    BY <2>1, ListedStep
  <2>3. kind = "change" => Has(p, i)
    BY <1>2 DEF Begins
  <2>4. kind \notin {"change", "list"} => i = None
    BY <1>2 DEF Begins
  <2>. QED BY <2>1, <2>2, <2>3, <2>4 DEF NewUses, Uses, About, Has
<1>3. ASSUME NEW c \in Clients, NEW i \in Ids, NEW v \in Nat, Acts(c, i, v) PROVE NewUses(c)
  <2>1. /\ UNCHANGED <<assigned, profile, target>>
        /\ \A d \in Clients \ {c} : answer'[d] = answer[d]
        /\ answer'[c].id = i
    BY <1>3 DEF Acts, Answers, TypeOK
  <2>2. issued[i] = 0 \/ target[c] = i
    BY <1>3 DEF Acts
  <2>. QED BY <2>1, <2>2 DEF NewUses, Uses, About, Has
<1>4. ASSUME NEW c \in Clients, Assign(c) \/ Fails(c) PROVE NewUses(c)
  <2>1. /\ target'[c] = None /\ answer'[c] = None
        /\ \A d \in Clients \ {c} :
              answer'[d] = answer[d] /\ profile'[d] = profile[d] /\ target'[d] = target[d]
        /\ \A p \in Profiles : \/ assigned'[p] = assigned[p]
                               \/ p = profile[c] /\ answer[c] # None /\ assigned'[p] = answer[c]
    BY <1>4 DEF Assign, Fails, Refused, GivesUp, Lost, RequestOver, TypeOK
  <2>. QED BY <2>1 DEF NewUses, Uses, About, Has
<1>5. ASSUME Restart \/ UNCHANGED vars \/ \E i \in Ids : ActsUntold(i) PROVE NewUses(0)
  <2>1. CASE Restart
    BY <2>1 DEF Restart, NewUses, Uses, About, Has
  <2>2. CASE UNCHANGED <<assigned, profile, target, answer>>
    BY <2>2 DEF NewUses, Uses, About, Has
  <2>. QED BY <1>5, <2>1, <2>2 DEF vars, ActsUntold, ChangesLate, SellsUntold
<1>6. \E r : NewUses(r)
  BY <1>2, <1>3, <1>4, <1>5, Steps
<1>. QED BY <1>1, <1>6

LEMMA UsedStep ==
    ASSUME TypeOK, KnownAreSold, UsedByOne, [Next]_vars
    PROVE  UsedByOne'
<1>1. attached \subseteq attached'
  BY UsesStep
<1>2. PICK r : NewUses(r)
  BY UsesStep
<1>3. ASSUME NEW p \in Profiles, NEW q \in Profiles, NEW i \in Ids \ attached',
             Uses(p, i)', Uses(q, i)'
      PROVE  p = q
  <2>1. CASE issued[i] = 0
    BY <1>1, <1>2, <1>3, <2>1, UsedAreSold DEF NewUses
  <2>2. CASE issued[i] # 0
    BY <1>1, <1>2, <1>3, <2>2 DEF NewUses, UsedByOne
  <2>. QED BY <2>1, <2>2
<1>. QED BY <1>3, ListedStep DEF UsedByOne

-------------------------------------------------------------------------------
(* Theorems.                                                               *)

Inv ==
    /\ TypeOK /\ KnownAreSold /\ CrowdedContested /\ LeasesValid
    /\ Purposes /\ AnswersTarget /\ UsedByOne

LEMMA InvInit == Init => Inv
<1> SUFFICES ASSUME Init PROVE Inv
  OBVIOUS
<1>1. /\ \A i \in Ids, p \in Profiles : ~Has(p, i)
      /\ \A i \in Ids, c \in Clients : ~About(c, i)
  BY LeaseFacts DEF Init, Has, About
<1>2. KnownAreSold /\ Purposes /\ AnswersTarget
  BY DEF Init, KnownAreSold, Purposes, AnswersTarget
<1>3. CrowdedContested /\ UsedByOne
  BY <1>1 DEF CrowdedContested, Crowded, UsedByOne, Uses, Init
<1>4. LeasesValid
  BY <1>1 DEF LeasesValid, Valid, Init
<1>. QED BY <1>2, <1>3, <1>4, TypeInit DEF Inv

LEMMA InvAlways == Spec => []Inv
<1>1. Inv /\ [Next]_vars => Inv'
  BY TypeStep, KnownStep, CrowdedStep, LeasesValidStep, PurposesStep, AnswersTargetStep, UsedStep
  DEF Inv
<1>. QED BY <1>1, InvInit, PTL DEF Spec

(* Requests, calls and assignments keep their types, and an answer belongs *)
(* to a request and to a sold lease (ProfileProxyManager, ProxyVNClient).  *)
THEOREM TypeCorrect == Spec => []TypeOK
BY InvAlways, PTL DEF Inv

(* The credentials a profile has are the valid ones, unless a change asked *)
(* for by it is made but not yet assigned, a change was made that nobody   *)
(* was told of, or others had to do with the lease at the same time and    *)
(* left it so (refresh_profile_proxy, attach_existing_profile_proxy).      *)
THEOREM LeaseCurrentCorrect == Spec => []LeaseCurrent
<1>1. Inv => LeaseCurrent
  BY DEF Inv, TypeOK, LeasesValid, Valid, Has, Lease, LeaseCurrent
<1>. QED BY <1>1, InvAlways, PTL

(* Two profiles have one lease only if the operator has attached it, in    *)
(* spite of overtaken requests, lost answers and late changes              *)
(* (ProfileProxyManager.assign).                                           *)
THEOREM LeasesApartCorrect == Spec => []LeasesApart
<1>1. Inv => LeasesApart
  BY DEF Inv, UsedByOne, Uses, LeasesApart
<1>. QED BY <1>1, InvAlways, PTL

(* A profile keeps its lease until another one is attached or the process  *)
(* restarts; only an overtaken request may replace it otherwise            *)
(* (ensure_profile_proxy, refresh_profile_proxy).                          *)
THEOREM StickyLeaseCorrect == Spec => StickyLease
<1> DEFINE Sticks ==
      \A p \in Profiles :
         assigned[p] # None /\ assigned'[p] # None /\ assigned'[p].id # assigned[p].id
             => \E c \in Clients : profile[c] = p /\ (call[c] = "list" \/ c \in overtaken)
<1>1. ASSUME Inv, [Next]_vars PROVE Sticks
  <2> SUFFICES ASSUME NEW p \in Profiles, assigned[p] # None, assigned'[p] # None,
                      assigned'[p].id # assigned[p].id
               PROVE  \E c \in Clients : profile[c] = p /\ (call[c] = "list" \/ c \in overtaken)
    OBVIOUS
  <2>1. PICK c \in Clients : profile[c] = p /\ answer[c] # None /\ assigned'[p] = answer[c]
    BY <1>1, AssignedStep DEF Inv
  <2>2. call[c] \in Calls \ {"none"}
    BY <1>1, <2>1 DEF Inv, TypeOK
  <2>3. CASE c \notin overtaken
    BY <1>1, <2>1, <2>2, <2>3 DEF Inv, Purposes, AnswersTarget, Has, Calls
  <2>. QED BY <2>1, <2>3
<1>2. Spec => [][Sticks]_vars
  BY <1>1, InvAlways, PTL DEF Spec
<1>. QED BY <1>2 DEF StickyLease

(* Ensure buys only for a profile that has no lease, or for which another  *)
(* request has been assigned one since the check: what the documentation   *)
(* says of ensure is broken by overtaking alone, and by no refused, lost   *)
(* or late call and no restart (ensure_profile_proxy).                     *)
THEOREM EnsureBuysIfNone ==
    Spec => [][\A c \in Clients, i \in Ids :
                  Sells(c, i) /\ call[c] = "ensure" /\ c \notin overtaken
                      => assigned[profile[c]] = None]_vars
<1> DEFINE Buys == \A c \in Clients, i \in Ids :
               Sells(c, i) /\ call[c] = "ensure" /\ c \notin overtaken
                   => assigned[profile[c]] = None
<1>1. Inv => Buys
  BY DEF Inv, Purposes
<1>2. Spec => [][Buys]_vars
  BY <1>1, InvAlways, PTL DEF Spec
<1>. QED BY <1>2

===============================================================================
