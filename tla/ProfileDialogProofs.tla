-------------------------- MODULE ProfileDialogProofs --------------------------
(***************************************************************************)
(* For any profiles, tasks of the page and requests, no profile gets what  *)
(* belongs to another one.                                                 *)
(***************************************************************************)
EXTENDS ProfileDialog, TLAPS

(* A profile that was there at the start has a seed meant for it; one made *)
(* since may have that of a form for a new profile.                        *)
SeedOf(p) == IF p \in Stored THEN {p, Nothing} ELSE {p, New, Nothing}

(* The fields of a form or a row are those of p.                           *)
Own(p, fields) ==
    /\ fields["seed"] \in SeedOf(p)
    /\ p \in Stored => /\ fields["name"] \in {p, Nothing}
                       /\ fields["viewport"] \in {p, Nothing} \/ crossed

RowsOwn ==
    \A p \in Profiles : Live(p) =>
       /\ Own(p, rows[p])
       /\ p \in Stored => rows[p]["extension_paths"] \in {p, Nothing} /\ rows[p]["runtime"] \in {p, Nothing}

SavesOwn == \A t \in Tasks : SaveWaits(t) => Own(task[t].about, task[t].fields)

(* While an opening waits, the form was just reset, or it is crossed.      *)
StillEmpty == (\E t \in Tasks : OpeningWaits(t)) => form["viewport"] = Nothing \/ crossed

Owned == RowsOwn /\ Own(editing, form) /\ SavesOwn /\ StillEmpty

Inv == TypeOK /\ Owned

--------------------------------------------------------------------------------
(* What the operators return.                                              *)

LEMMA OwnRowsTyped ==
    ASSUME NEW p \in Profiles, NEW r \in OwnRows(p)
    PROVE  /\ r \in Row /\ r \in [Fields -> {p, Nothing}]
           /\ r["name"] = p
BY ProfileDialogAssumption
   DEF OwnRows, OwnRow, Row, Values, Marks, Fields, FormFields

LEMMA RowTyped == ASSUME TypeOK, NEW p \in Profiles, Live(p) PROVE rows[p] \in Row
BY DEF TypeOK, Live

LEMMA RowLive == ASSUME NEW p \in Profiles, rows[p] \in Row PROVE Live(p)
BY MarkersAssumption DEF Live

LEMMA OpeningTyped ==
    ASSUME TypeOK, NEW t \in Tasks, OpeningWaits(t)
    PROVE  task[t].about \in Profiles
BY DEF TypeOK, OpeningWaits, Task

LEMMA SaveTyped ==
    ASSUME TypeOK, NEW t \in Tasks, SaveWaits(t)
    PROVE  /\ task[t].about \in Marks
           /\ task[t].fields \in Forms /\ task[t].fields["name"] # Nothing
BY DEF TypeOK, SaveWaits, Task

LEMMA WrittenTyped ==
    ASSUME NEW old \in [Fields -> Values], NEW fields \in Forms, fields["name"] # Nothing
    PROVE  Written(old, fields) \in Row
<1>1. Nothing \in Values
  BY DEF Values
<1>2. Written(old, fields) \in [Fields -> Values]
  BY <1>1 DEF Written, Forms
<1>3. Written(old, fields)["name"] = fields["name"]
  BY DEF Written, Fields, FormFields
<1>. QED BY <1>2, <1>3 DEF Row

LEMMA WaitsTyped ==
    ASSUME TypeOK, NEW t \in Tasks, NEW w \in Task \cup {Idle}, Waits(t, w)
    PROVE  task' \in [Tasks -> Task \cup {Idle}]
BY DEF TypeOK, Waits

LEMMA EmptyForm == ASSUME Reset PROVE form' \in Forms /\ editing' \in Marks
BY DEF Reset, Forms, Values, Marks

--------------------------------------------------------------------------------
(* Types.                                                                  *)

LEMMA TypeInit == Init => TypeOK
<1>. SUFFICES ASSUME Init PROVE TypeOK
  OBVIOUS
<1>1. rows \in [Profiles -> Row \cup {Unborn, Gone}]
  <2>1. PICK set \in [Stored -> Choices] :
           rows = [p \in Profiles |-> IF p \in Stored THEN OwnRow(p, set[p]) ELSE Unborn]
    BY DEF Init
  <2>2. \A p \in Stored : OwnRow(p, set[p]) \in Row
    BY OwnRowsTyped DEF OwnRows, Profiles
  <2>. QED BY <2>1, <2>2
<1>2. form \in Forms /\ editing \in Marks
  BY DEF Init, Forms, Values, Marks
<1>3. task \in [Tasks -> Task \cup {Idle}]
  BY DEF Init
<1>4. inputs \in 0 .. MaxInputs
  BY ProfileDialogAssumption DEF Init
<1>. QED BY <1>1, <1>2, <1>3, <1>4 DEF Init, TypeOK

LEMMA InputTyped == ASSUME TypeOK, Input PROVE inputs' \in 0 .. MaxInputs
BY ProfileDialogAssumption DEF TypeOK, Input

LEMMA TypeStep == TypeOK /\ [Next]_vars => TypeOK'
<1>. SUFFICES ASSUME TypeOK, [Next]_vars PROVE TypeOK'
  OBVIOUS
<1>1. ASSUME NEW t \in Tasks, Page(t) PROVE TypeOK'
  <2>0. Idle \in Task \cup {Idle}
    OBVIOUS
  <2>1. ASSUME NEW p \in Profiles, ClickEdit(t, p) PROVE TypeOK'
    <3>1. [kind |-> "open", about |-> p, fields |-> Idle] \in Task
      BY DEF Task
    <3>2. task' \in [Tasks -> Task \cup {Idle}]
      BY <2>1, <3>1, WaitsTyped DEF ClickEdit
    <3>. QED BY <2>1, <3>2, EmptyForm DEF ClickEdit, TypeOK
  <2>2. CASE Fill(t)
    <3>1. task[t].about \in Profiles /\ Live(task[t].about)
      BY <2>2, OpeningTyped DEF Fill
    <3>2. rows[task[t].about] \in [Fields -> Values]
      BY <3>1, RowTyped DEF Row
    <3>3. form' \in Forms
      BY <2>2, <3>2 DEF Fill, Forms, TypeOK, Fields
    <3>4. task' \in [Tasks -> Task \cup {Idle}]
      BY <2>0, <2>2, WaitsTyped DEF Fill
    <3>. QED BY <2>2, <3>1, <3>3, <3>4 DEF Fill, TypeOK, Marks
  <2>3. CASE OpeningEnds(t) \/ SaveFails(t)
    <3>1. task' \in [Tasks -> Task \cup {Idle}]
      BY <2>0, <2>3, WaitsTyped DEF OpeningEnds, SaveFails
    <3>. QED BY <2>3, <3>1 DEF OpeningEnds, SaveFails, TypeOK, dialog
  <2>4. CASE Save(t)
    <3>1. [kind |-> "save", about |-> editing, fields |-> form] \in Task
      BY <2>4 DEF Save, Task, TypeOK
    <3>2. task' \in [Tasks -> Task \cup {Idle}]
      BY <2>4, <3>1, WaitsTyped DEF Save
    <3>. QED BY <2>4, <3>2 DEF Save, TypeOK, dialog
  <2>5. ASSUME NEW p \in Profiles, NEW old \in [Fields -> Values], SaveWaits(t), SaveEnds(t),
               rows' = [rows EXCEPT ![p] = Written(old, task[t].fields)]
        PROVE  TypeOK'
    <3>1. Written(old, task[t].fields) \in Row
      BY <2>5, SaveTyped, WrittenTyped
    <3>2. task' \in [Tasks -> Task \cup {Idle}]
      BY <2>0, <2>5, WaitsTyped DEF SaveEnds
    <3>. QED BY <2>5, <3>1, <3>2 DEF SaveEnds, TypeOK
  <2>6. CASE UpdateProfile(t)
    <3>1. task[t].about \in Profiles /\ Live(task[t].about)
      BY <2>6, SaveTyped DEF UpdateProfile, Marks
    <3>2. rows[task[t].about] \in [Fields -> Values]
      BY <3>1, RowTyped DEF Row
    <3>. QED BY <2>5, <2>6, <3>1, <3>2 DEF UpdateProfile
  <2>7. ASSUME NEW u \in Fresh, CreateProfile(t, u) PROVE TypeOK'
    <3>1. [f \in Fields |-> Nothing] \in [Fields -> Values] /\ u \in Profiles
      BY DEF Values, Profiles
    <3>. QED BY <2>5, <2>7, <3>1 DEF CreateProfile
  <2>. QED BY <1>1, <2>1, <2>2, <2>3, <2>4, <2>6, <2>7 DEF Page
<1>2. CASE ClickNew
  BY <1>2, EmptyForm DEF ClickNew, TypeOK
<1>3. CASE Cancel
  BY <1>3 DEF Cancel, TypeOK
<1>4. ASSUME NEW f \in FormFields, Type(f) PROVE TypeOK'
  <2>1. form' \in Forms
    BY <1>4 DEF Type, TypeOK, Forms, Values
  <2>. QED BY <1>4, <2>1, InputTyped DEF Type, TypeOK
<1>5. ASSUME NEW p \in Profiles, Client(p) PROVE TypeOK'
  <2>1. ASSUME NEW q \in Profiles, NEW r \in Row \cup {Gone}, Request, rows' = [rows EXCEPT ![q] = r]
        PROVE  TypeOK'
    BY <2>1, InputTyped DEF Request, TypeOK, dialog
  <2>2. ASSUME NEW sent \in Sendable, NEW r \in OwnRows(p), Patch(p, sent, r) PROVE TypeOK'
    <3>1. r \in Row /\ rows[p] \in Row
      BY <2>2, OwnRowsTyped, RowTyped DEF Patch
    <3>2. [f \in Fields |-> IF f \in sent THEN r[f] ELSE rows[p][f]] \in Row
      BY <3>1 DEF Row, Fields, FormFields
    <3>. QED BY <2>1, <2>2, <3>2 DEF Patch
  <2>3. ASSUME NEW u \in Fresh, Clone(p, u) PROVE TypeOK'
    <3>1. rows[p] \in Row
      BY <2>3, RowTyped DEF Clone
    <3>2. [rows[p] EXCEPT !["seed"] = Nothing] \in Row
      BY <3>1 DEF Row, Fields, FormFields, Values
    <3>. QED BY <2>1, <2>3, <3>2 DEF Clone, Profiles
  <2>4. CASE Delete(p)
    BY <2>1, <2>4 DEF Delete
  <2>. QED BY <1>5, <2>2, <2>3, <2>4 DEF Client
<1>6. CASE UNCHANGED vars
  BY <1>6 DEF vars, dialog, TypeOK
<1>. QED BY <1>1, <1>2, <1>3, <1>4, <1>5, <1>6 DEF Next


--------------------------------------------------------------------------------
(* No profile holds what belongs to another one.                           *)

LEMMA OwnedInit == Init => Owned
<1>. SUFFICES ASSUME Init PROVE Owned
  OBVIOUS
<1>1. RowsOwn
  <2>1. PICK set \in [Stored -> Choices] :
           rows = [p \in Profiles |-> IF p \in Stored THEN OwnRow(p, set[p]) ELSE Unborn]
    BY DEF Init
  <2>2. ASSUME NEW p \in Stored PROVE rows[p] \in [Fields -> {p, Nothing}]
    <3>1. rows[p] \in OwnRows(p) /\ p \in Profiles
      BY <2>1 DEF OwnRows, Profiles
    <3>. QED BY <3>1, OwnRowsTyped
  <2>3. ASSUME NEW p \in Profiles, Live(p) PROVE p \in Stored
    BY <2>1, <2>3 DEF Live
  <2>. QED BY <2>2, <2>3 DEF RowsOwn, Own, SeedOf, Fields, FormFields, Fingerprint
<1>2. Own(editing, form)
  BY ProfileDialogAssumption DEF Init, Own, SeedOf, FormFields, Profiles
<1>3. SavesOwn /\ StillEmpty
  BY DEF Init, SavesOwn, StillEmpty, SaveWaits, OpeningWaits
<1>. QED BY <1>1, <1>2, <1>3 DEF Owned

LEMMA CrossedStays == ASSUME TypeOK, [Next]_vars, crossed PROVE crossed'
BY DEF Next, Page, Client, ClickEdit, Fill, OpeningEnds, Save, UpdateProfile, CreateProfile, SaveEnds,
       SaveFails, ClickNew, Cancel, Type, Patch, Clone, Delete, Request, vars

(* Nothing is own to every profile.                                        *)
LEMMA EmptyOwn ==
    ASSUME Reset
    PROVE  Own(editing, form)' /\ form'["viewport"] = Nothing
BY ProfileDialogAssumption DEF Reset, Own, SeedOf, FormFields, Profiles

(* What stays as it is stays own.                                          *)
LEMMA OwnStays ==
    ASSUME TypeOK, [Next]_vars, NEW p, NEW fields, Own(p, fields)
    PROVE  Own(p, fields)'
BY CrossedStays DEF Own

LEMMA RowsStay ==
    ASSUME TypeOK, [Next]_vars, RowsOwn, UNCHANGED rows
    PROVE  RowsOwn'
BY OwnStays DEF RowsOwn, Live

LEMMA FormStays ==
    ASSUME TypeOK, [Next]_vars, Own(editing, form), UNCHANGED <<form, editing>>
    PROVE  Own(editing, form)'
BY CrossedStays DEF Own

(* A task that ends leaves those of the others.                            *)
LEMMA TaskEnds ==
    ASSUME TypeOK, [Next]_vars, SavesOwn, StillEmpty, NEW t \in Tasks, Waits(t, Idle)
    PROVE  SavesOwn' /\ (UNCHANGED form => StillEmpty')
<1>1. \A u \in Tasks : task'[u] # Idle => task'[u] = task[u] /\ task[u] # Idle
  BY DEF Waits, TypeOK
<1>2. SavesOwn'
  BY <1>1, CrossedStays DEF SavesOwn, SaveWaits, Own
<1>3. UNCHANGED form => StillEmpty'
  BY <1>1, CrossedStays DEF StillEmpty, OpeningWaits
<1>. QED BY <1>2, <1>3

LEMMA TasksStay ==
    ASSUME TypeOK, [Next]_vars, SavesOwn, UNCHANGED task
    PROVE  SavesOwn'
BY CrossedStays DEF SavesOwn, SaveWaits, Own

(* A row is own when it is written from an own form or by a client.        *)
LEMMA RowWritten ==
    ASSUME TypeOK, [Next]_vars, RowsOwn, NEW p \in Profiles, NEW r,
           rows' = [rows EXCEPT ![p] = r],
           Own(p, r),
           p \in Stored => r["extension_paths"] \in {p, Nothing} /\ r["runtime"] \in {p, Nothing}
    PROVE  RowsOwn'
<1>. SUFFICES ASSUME NEW q \in Profiles, Live(q)'
             PROVE  /\ Own(q, rows[q])'
                    /\ q \in Stored => /\ rows'[q]["extension_paths"] \in {q, Nothing}
                                       /\ rows'[q]["runtime"] \in {q, Nothing}
  BY DEF RowsOwn
<1>1. CASE q = p
  <2>1. rows'[q] = r
    BY <1>1 DEF TypeOK
  <2>2. Own(p, r)'
    BY OwnStays
  <2>. QED BY <1>1, <2>1, <2>2 DEF Own
<1>2. CASE q # p
  <2>1. rows'[q] = rows[q] /\ Live(q)
    BY <1>2 DEF TypeOK, Live
  <2>2. Own(q, rows[q])
    BY <2>1 DEF RowsOwn
  <2>. QED BY <2>1, <2>2, CrossedStays DEF RowsOwn, Own
<1>. QED BY <1>1, <1>2

LEMMA PageStep ==
    ASSUME Inv, [Next]_vars, NEW t \in Tasks, Page(t)
    PROVE  Owned'
<1>. USE DEF Inv, Owned
<1>1. ASSUME NEW p \in Profiles, ClickEdit(t, p) PROVE Owned'
  <2>1. Own(editing, form)' /\ form'["viewport"] = Nothing
    BY <1>1, EmptyOwn DEF ClickEdit
  <2>2. RowsOwn'
    BY <1>1, RowsStay DEF ClickEdit
  <2>3. \A u \in Tasks : SaveWaits(u)' => SaveWaits(u) /\ task'[u] = task[u]
    BY <1>1 DEF ClickEdit, Waits, SaveWaits, TypeOK
  <2>4. SavesOwn'
    BY <2>3, CrossedStays DEF SavesOwn, Own
  <2>. QED BY <2>1, <2>2, <2>4 DEF StillEmpty
<1>2. CASE Fill(t)
  <2>. DEFINE p == task[t].about
  <2>1. p \in Profiles /\ Live(p) /\ OpeningWaits(t)
    BY <1>2, OpeningTyped DEF Fill
  <2>2. RowsOwn' /\ SavesOwn'
    BY <1>2, RowsStay, TaskEnds DEF Fill
  <2>3. form["viewport"] = Nothing \/ crossed
    BY <2>1 DEF RowsOwn, StillEmpty
  <2>4. /\ form'["seed"] = rows[p]["seed"] /\ form'["name"] = rows[p]["name"]
        /\ form'["viewport"] \in {rows[p]["viewport"], form["viewport"]}
        /\ editing' = p
    BY <1>2 DEF Fill, FormFields
  <2>5. Own(p, rows[p])
    BY <2>1 DEF RowsOwn
  <2>6. Own(editing, form)'
    BY <2>3, <2>4, <2>5, CrossedStays DEF Own
  <2>7. (\E u \in Tasks : OpeningWaits(u)') => crossed'
    BY <1>2 DEF Fill, Waits, OpeningWaits, TypeOK
  <2>. QED BY <2>2, <2>6, <2>7 DEF StillEmpty
<1>3. CASE OpeningEnds(t) \/ SaveFails(t)
  BY <1>3, RowsStay, FormStays, TaskEnds DEF OpeningEnds, SaveFails, dialog
<1>4. CASE Save(t)
  <2>1. RowsOwn' /\ Own(editing, form)'
    BY <1>4, RowsStay, FormStays DEF Save, dialog
  <2>2. \A u \in Tasks : SaveWaits(u)' => \/ SaveWaits(u) /\ task'[u] = task[u]
                                          \/ task'[u].about = editing /\ task'[u].fields = form
    BY <1>4 DEF Save, Waits, SaveWaits, TypeOK
  <2>3. SavesOwn'
    BY <2>2, CrossedStays DEF SavesOwn, Own
  <2>4. \A u \in Tasks : OpeningWaits(u)' => OpeningWaits(u)
    BY <1>4 DEF Save, Waits, OpeningWaits, TypeOK
  <2>5. StillEmpty'
    BY <1>4, <2>4, CrossedStays DEF StillEmpty, Save, dialog
  <2>. QED BY <2>1, <2>3, <2>5
<1>5. ASSUME SaveEnds(t), RowsOwn' PROVE Owned'
  BY <1>5, FormStays, TaskEnds DEF SaveEnds
<1>6. CASE UpdateProfile(t)
  <2>. DEFINE p == task[t].about
              r == Written(rows[p], task[t].fields)
  <2>1. p \in Profiles /\ Live(p) /\ Own(p, task[t].fields)
    BY <1>6, SaveTyped DEF UpdateProfile, Marks, SavesOwn
  <2>2. /\ r["seed"] = task[t].fields["seed"] /\ r["name"] = task[t].fields["name"]
        /\ r["viewport"] = task[t].fields["viewport"]
        /\ r["extension_paths"] = Nothing /\ r["runtime"] = rows[p]["runtime"]
    BY DEF Written, Fields, FormFields, Fingerprint
  <2>3. Own(p, r)
    BY <2>1, <2>2 DEF Own
  <2>4. p \in Stored => r["extension_paths"] \in {p, Nothing} /\ r["runtime"] \in {p, Nothing}
    BY <2>1, <2>2 DEF RowsOwn
  <2>5. rows' = [rows EXCEPT ![p] = r]
    BY <1>6 DEF UpdateProfile
  <2>. HIDE DEF p, r
  <2>6. RowsOwn'
    BY <2>1, <2>3, <2>4, <2>5, RowWritten
  <2>. QED BY <1>5, <1>6, <2>6 DEF UpdateProfile
<1>7. ASSUME NEW u \in Fresh, CreateProfile(t, u) PROVE Owned'
  <2>. DEFINE r == Written([f \in Fields |-> Nothing], task[t].fields)
  <2>1. Own(New, task[t].fields) /\ u \in Profiles /\ u \notin Stored
    BY <1>7, ProfileDialogAssumption DEF CreateProfile, SavesOwn, Profiles
  <2>2. r["seed"] = task[t].fields["seed"]
    BY DEF Written, Fields, FormFields
  <2>3. Own(u, r)
    BY <2>1, <2>2, ProfileDialogAssumption DEF Own, SeedOf, Profiles
  <2>4. rows' = [rows EXCEPT ![u] = r]
    BY <1>7 DEF CreateProfile
  <2>. HIDE DEF r
  <2>5. RowsOwn'
    BY <2>1, <2>3, <2>4, RowWritten
  <2>. QED BY <1>5, <1>7, <2>5 DEF CreateProfile
<1>. QED BY <1>1, <1>2, <1>3, <1>4, <1>6, <1>7 DEF Page

LEMMA ClientStep ==
    ASSUME Inv, [Next]_vars, NEW p \in Profiles, Client(p)
    PROVE  Owned'
<1>. USE DEF Inv, Owned
<1>1. ASSUME Request, RowsOwn' PROVE Owned'
  <2>1. UNCHANGED <<form, editing, task, crossed>>
    BY <1>1 DEF Request, dialog
  <2>2. Own(editing, form)' /\ SavesOwn'
    BY <2>1, FormStays, TasksStay
  <2>3. StillEmpty'
    BY <2>1 DEF StillEmpty, OpeningWaits
  <2>. QED BY <1>1, <2>2, <2>3
<1>2. ASSUME NEW sent \in Sendable, NEW r \in OwnRows(p), Patch(p, sent, r) PROVE Owned'
  <2>. DEFINE w == [f \in Fields |-> IF f \in sent THEN r[f] ELSE rows[p][f]]
  <2>1. Live(p) /\ Own(p, rows[p])
    BY <1>2 DEF Patch, RowsOwn
  <2>2. \A f \in Fields : w[f] \in {p, Nothing} \/ w[f] = rows[p][f]
    BY OwnRowsTyped
  <2>3. Own(p, w)
    BY <2>1, <2>2 DEF Own, SeedOf, Fields, FormFields
  <2>4. p \in Stored => w["extension_paths"] \in {p, Nothing} /\ w["runtime"] \in {p, Nothing}
    BY <2>1, <2>2 DEF RowsOwn, Fields, Fingerprint
  <2>5. rows' = [rows EXCEPT ![p] = w]
    BY <1>2 DEF Patch
  <2>. HIDE DEF w
  <2>6. RowsOwn'
    BY <2>3, <2>4, <2>5, RowWritten
  <2>. QED BY <1>1, <1>2, <2>6 DEF Patch
<1>3. ASSUME NEW u \in Fresh, Clone(p, u) PROVE Owned'
  <2>. DEFINE w == [rows[p] EXCEPT !["seed"] = Nothing]
  <2>1. u \in Profiles /\ u \notin Stored
    BY ProfileDialogAssumption DEF Profiles
  <2>2. w["seed"] = Nothing
    BY <1>3, RowTyped DEF Clone, Row, Fields, FormFields
  <2>3. Own(u, w)
    BY <2>1, <2>2 DEF Own, SeedOf
  <2>4. rows' = [rows EXCEPT ![u] = w]
    BY <1>3 DEF Clone
  <2>. HIDE DEF w
  <2>5. RowsOwn'
    BY <2>1, <2>3, <2>4, RowWritten
  <2>. QED BY <1>1, <1>3, <2>5 DEF Clone
<1>4. CASE Delete(p)
  <2>1. \A q \in Profiles : Live(q)' => Live(q) /\ rows'[q] = rows[q]
    BY <1>4 DEF Delete, Live, TypeOK
  <2>2. RowsOwn'
    BY <2>1, CrossedStays DEF RowsOwn, Own
  <2>. QED BY <1>1, <1>4, <2>2 DEF Delete
<1>. QED BY <1>2, <1>3, <1>4 DEF Client

LEMMA OwnedStep == Inv /\ [Next]_vars => Owned'
<1>. SUFFICES ASSUME Inv, [Next]_vars PROVE Owned'
  OBVIOUS
<1>. USE DEF Inv, Owned
<1>1. CASE ClickNew
  BY <1>1, EmptyOwn, RowsStay, TasksStay DEF ClickNew, StillEmpty
<1>2. CASE Cancel
  <2>1. StillEmpty'
    BY <1>2 DEF Cancel, StillEmpty, OpeningWaits
  <2>. QED BY <1>2, <2>1, RowsStay, FormStays, TasksStay DEF Cancel
<1>3. ASSUME NEW f \in FormFields, Type(f) PROVE Owned'
  <2>1. PICK v \in {editing, Nothing} : form' = [form EXCEPT ![f] = v]
    BY <1>3 DEF Type
  <2>2. Own(editing, form)'
    BY <1>3, <2>1, CrossedStays DEF Type, Own, SeedOf, TypeOK, Forms, FormFields, Marks
  <2>3. StillEmpty'
    BY <1>3 DEF Type, StillEmpty, OpeningWaits
  <2>. QED BY <1>3, <2>2, <2>3, RowsStay, TasksStay DEF Type
<1>4. CASE UNCHANGED vars
  <2>1. StillEmpty'
    BY <1>4 DEF vars, dialog, StillEmpty, OpeningWaits
  <2>. QED BY <1>4, <2>1, RowsStay, FormStays, TasksStay DEF vars, dialog
<1>. QED BY <1>1, <1>2, <1>3, <1>4, PageStep, ClientStep DEF Next

LEMMA InvAlways == Spec => []Inv
<1>1. Init => Inv
  BY TypeInit, OwnedInit DEF Inv
<1>2. Inv /\ [Next]_vars => Inv'
  BY TypeStep, OwnedStep DEF Inv
<1>. QED BY <1>1, <1>2, PTL DEF Spec

--------------------------------------------------------------------------------

(* Rows, the form and what the tasks of the page wait for keep their       *)
(* types; in particular no row ever lacks a name.                          *)
THEOREM TypeCorrect == Spec => []TypeOK
BY InvAlways, PTL DEF Inv

(* A profile holds its own fields only, however openings, saves and        *)
(* requests interleave; its viewport may be another's once a form was      *)
(* touched while an opening waited.  A profile made since the start has no *)
(* seed that was meant for another one, however it was made.               *)
THEOREM NoMixingCorrect == Spec => []NoMixing
<1>1. Inv => NoMixing
  <2>. SUFFICES ASSUME Inv PROVE NoMixing
    OBVIOUS
  <2>. USE DEF Inv, Owned, RowsOwn, Own, SeedOf, Profiles
  <2>1. ASSUME NEW p \in Stored, Live(p), NEW f \in Fields
        PROVE  rows[p][f] \in {p, Nothing} \/ (f = "viewport" /\ crossed)
    BY <2>1 DEF Fields, FormFields, Fingerprint
  <2>2. ASSUME NEW u \in Fresh, Live(u) PROVE rows[u]["seed"] \in {u, New, Nothing}
    BY <2>2
  <2>. QED BY <2>1, <2>2 DEF NoMixing
<1>. QED BY <1>1, InvAlways, PTL

(* The seed of the command line is that of the row, or the one CloakBrowser *)
(* draws.                                                                  *)
LEMMA SeedOfLine ==
    ASSUME NEW row, NEW s \in Settings
    PROVE  LET line == CommandLine(LaunchContext(row, s))
           IN  /\ "seed" \in DOMAIN line
               /\ line["seed"] = IF row.seed # Nothing THEN row.seed ELSE "drawn"
<1>. DEFINE own == FingerprintArgs(row)
            cloak == CloakbrowserArgs(s)
            o == LaunchContext(row, s)
            first == [x \in DOMAIN DefaultArgs \ o.ignored |-> DefaultArgs[x]]
            stealth == IF o.stealth_args THEN DefaultStealthArgs ELSE Switches({}, Nothing)
<1>1. o.args = Then(cloak, own) /\ (o.stealth_args <=> ~ s.filter_no_sandbox)
  BY DEF LaunchContext
<1>2. CommandLine(o) = Then(Then(first, stealth), Then(cloak, own))
  BY <1>1 DEF CommandLine
<1>3. row.seed # Nothing => "seed" \in DOMAIN own /\ own["seed"] = row.seed
  BY DEF FingerprintArgs, Switches
<1>4. row.seed = Nothing => "seed" \notin DOMAIN own
  BY DEF FingerprintArgs, Switches
<1>5. s.filter_no_sandbox => "seed" \in DOMAIN cloak /\ cloak["seed"] = "drawn"
  BY DEF CloakbrowserArgs, Then, Switches, StealthArgsWithoutNoSandbox, DefaultStealthArgs,
         HeadedWindowArgs
<1>6. ~ s.filter_no_sandbox => /\ "seed" \notin DOMAIN cloak
                              /\ "seed" \in DOMAIN stealth /\ stealth["seed"] = "drawn"
  BY <1>1 DEF CloakbrowserArgs, Then, Switches, DefaultStealthArgs, HeadedWindowArgs
<1>. HIDE DEF own, cloak, o, first, stealth
<1>7. row.seed # Nothing => /\ "seed" \in DOMAIN CommandLine(o)
                            /\ CommandLine(o)["seed"] = row.seed
  BY <1>2, <1>3 DEF Then
<1>8. row.seed = Nothing => /\ "seed" \in DOMAIN CommandLine(o)
                            /\ CommandLine(o)["seed"] = "drawn"
  BY <1>2, <1>4, <1>5, <1>6 DEF Then
<1>. QED BY <1>7, <1>8 DEF o

(* Where the filter is set, no part of the command line turns the sandbox  *)
(* off.                                                                    *)
LEMMA SandboxOfLine ==
    ASSUME NEW row, NEW s \in Settings, s.filter_no_sandbox
    PROVE  "no_sandbox" \notin DOMAIN CommandLine(LaunchContext(row, s))
<1>. DEFINE o == LaunchContext(row, s)
<1>1. /\ o.args = Then(CloakbrowserArgs(s), FingerprintArgs(row))
      /\ ~ o.stealth_args /\ o.ignored = {"no_sandbox"}
  BY DEF LaunchContext, IgnoreDefaultArgs
<1>2. "no_sandbox" \notin DOMAIN CloakbrowserArgs(s)
  BY DEF CloakbrowserArgs, Then, Switches, StealthArgsWithoutNoSandbox, DefaultStealthArgs,
         HeadedWindowArgs
<1>3. "no_sandbox" \notin DOMAIN FingerprintArgs(row)
  BY DEF FingerprintArgs, Switches
<1>. HIDE DEF o
<1>4. "no_sandbox" \notin DOMAIN o.args
  BY <1>1, <1>2, <1>3 DEF Then
<1>. QED BY <1>1, <1>4 DEF CommandLine, Then, Switches, o

(* Whatever a row and the settings are, CloakBrowser's command line has    *)
(* the seed of the row and the page its viewport, and the filter removes   *)
(* every switch that turns the sandbox off and no other.                   *)
THEOREM LaunchAsConfiguredCorrect == Spec => []LaunchAsConfigured
<1>1. LaunchAsConfigured
  <2>. SUFFICES ASSUME NEW p \in Profiles, NEW s \in Settings, IsCloakbrowser(rows[p])
               PROVE  LET o == LaunchContext(rows[p], s)
                          line == CommandLine(o)
                      IN  /\ "seed" \in DOMAIN line
                          /\ line["seed"] = IF rows[p].seed # Nothing THEN rows[p].seed ELSE "drawn"
                          /\ rows[p].viewport # Nothing => o.viewport = rows[p].viewport
                          /\ rows[p].viewport = Nothing /\ s.fit_screen =>
                                (o.viewport = "window" <=> ~ s.headless)
                          /\ s.filter_no_sandbox => "no_sandbox" \notin DOMAIN line
    BY DEF LaunchAsConfigured, RuntimeFor
  <2>1. LaunchContext(rows[p], s).viewport =
           IF rows[p].viewport # Nothing THEN rows[p].viewport
           ELSE IF ShouldFitScreen(s) THEN "window" ELSE "default"
    BY DEF LaunchContext, Viewport
  <2>2. rows[p].viewport = Nothing /\ s.fit_screen =>
           (LaunchContext(rows[p], s).viewport = "window" <=> ~ s.headless)
    BY <2>1 DEF ShouldFitScreen
  <2>. QED BY <2>1, <2>2, SeedOfLine, SandboxOfLine
<1>. QED BY <1>1, PTL

(* The seeds that were meant for other profiles are the marks of those.    *)
IdentityIsOwn ==
    \A p \in Profiles, s \in Settings :
       Live(p) /\ IsCloakbrowser(rows[p]) /\ Opens(rows[p], s) =>
          CommandLine(RuntimeFor(rows[p], s))["seed"]
             \in IF p \in Stored THEN {p, "drawn"} ELSE {p, New, "drawn"}

(* No CloakBrowser is ever started with a seed that was meant for another  *)
(* profile, whatever was edited, cloned and saved at the same time and     *)
(* whatever the settings: with one meant for its own profile, for a new    *)
(* profile where it was one, or with one that is drawn (clone_profile,     *)
(* submit_profile_dialog, launch_context).                                 *)
THEOREM IdentityIsOwnCorrect == Spec => []IdentityIsOwn
<1>1. Inv => IdentityIsOwn
  <2>. SUFFICES ASSUME Inv, NEW p \in Profiles, NEW s \in Settings, Live(p), IsCloakbrowser(rows[p])
               PROVE  CommandLine(RuntimeFor(rows[p], s))["seed"]
                         \in IF p \in Stored THEN {p, "drawn"} ELSE {p, New, "drawn"}
    BY DEF IdentityIsOwn
  <2>1. RuntimeFor(rows[p], s) = LaunchContext(rows[p], s)
    BY DEF RuntimeFor
  <2>2. rows[p].seed \in SeedOf(p)
    BY DEF Inv, Owned, RowsOwn, Own
  <2>. QED BY <2>1, <2>2, SeedOfLine DEF SeedOf
<1>. QED BY <1>1, InvAlways, PTL

(* Only a request that sends a runtime changes that of a profile.          *)
THEOREM RuntimeKeptCorrect == Spec => RuntimeKept
<1>. DEFINE Kept == \A p \in Profiles : Live(p) /\ Live(p)' /\ rows'[p].runtime # rows[p].runtime
                       => \E r \in OwnRows(p) : Patch(p, {"runtime"}, r)
<1>1. ASSUME TypeOK, [Next]_vars PROVE [Kept]_vars
  <2>. SUFFICES ASSUME NEW p \in Profiles, Live(p), Live(p)', rows'[p]["runtime"] # rows[p]["runtime"]
               PROVE  \E r \in OwnRows(p) : Patch(p, {"runtime"}, r)
    OBVIOUS
  <2>1. ASSUME NEW t \in Tasks, UpdateProfile(t) PROVE FALSE
    <3>1. \A q \in Profiles : Written(rows[q], task[t].fields)["runtime"] = rows[q]["runtime"]
      BY DEF Written, Fields, FormFields, Fingerprint
    <3>. QED BY <1>1, <2>1, <3>1 DEF UpdateProfile, TypeOK
  <2>2. ASSUME NEW t \in Tasks, NEW u \in Fresh, CreateProfile(t, u) PROVE FALSE
    BY <1>1, <2>2 DEF CreateProfile, Live, TypeOK
  <2>3. ASSUME NEW q \in Profiles, NEW sent \in Sendable, NEW r \in OwnRows(q), Patch(q, sent, r)
        PROVE  \E w \in OwnRows(p) : Patch(p, {"runtime"}, w)
    <3>1. q = p /\ "runtime" \in sent
      BY <1>1, <2>3 DEF Patch, TypeOK, Fields
    <3>2. sent = {"runtime"}
      BY <3>1 DEF Sendable, Fingerprint
    <3>. QED BY <2>3, <3>1, <3>2
  <2>4. ASSUME NEW q \in Profiles, (\E u \in Fresh : Clone(q, u)) \/ Delete(q) PROVE FALSE
    BY <1>1, <2>4 DEF Clone, Delete, Live, TypeOK
  <2>5. ASSUME UNCHANGED rows PROVE FALSE
    BY <2>5
  <2>6. ASSUME NEW t \in Tasks, Page(t)
        PROVE  UNCHANGED rows \/ UpdateProfile(t) \/ \E u \in Fresh : CreateProfile(t, u)
    BY <2>6 DEF Page, ClickEdit, Fill, OpeningEnds, Save, SaveFails
  <2>7. \/ UNCHANGED rows \/ \E t \in Tasks : Page(t)
        \/ \E q \in Profiles : Client(q)
    BY <1>1 DEF Next, ClickNew, Cancel, Type, vars
  <2>. QED BY <2>1, <2>2, <2>3, <2>4, <2>5, <2>6, <2>7 DEF Client
<1>. HIDE DEF Kept
<1>2. Spec => [][Kept]_vars
  BY <1>1, InvAlways, PTL DEF Spec, Inv
<1>. QED BY <1>2 DEF RuntimeKept, Kept

================================================================================
