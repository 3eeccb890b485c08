----------------------------- MODULE ProfileDialog -----------------------------
(***************************************************************************)
(* The dialog for profiles of a browser page (ui/pages.py) over the rows   *)
(* of repositories/supabase.py, next to the clients of the HTTP API, and   *)
(* what the browsers of these profiles are started with.                   *)
(*                                                                         *)
(* The page has one form and one variable with the profile it is about.    *)
(* Every click starts a task of its own, so that several openings and      *)
(* saves may wait for the database while the form is shown and changed.    *)
(* An action is one task between two calls of the database, or a client's  *)
(* request.                                                                *)
(*                                                                         *)
(* Of the value of a field only its origin is modelled: it is Nothing, or  *)
(* the mark of the profile it was meant for.  What the operator types is   *)
(* meant for the profile that the form is about, what a client sends for   *)
(* the profile it names.  Marks say nothing of what the values are: two    *)
(* that differ may stand for one name or one seed.  "name" stands for      *)
(* name, group, tags, notes, SIM, site and start address, and a viewport   *)
(* is its width and height together.                                       *)
(***************************************************************************)
EXTENDS LaunchOptions, Naturals

CONSTANTS
    Stored,     \* the profiles there are at the start
    Fresh,      \* ids that the store draws
    Choices,    \* the sets of fields that a profile has at the start or gets from a client
    Tasks,      \* tasks of the page that wait at the same time
    MaxInputs,  \* requests of API clients and fields typed (a bound)
    New,        \* the profile that a form for a new profile is about
    Unborn,     \* the row of an id not drawn yet
    Gone,       \* the row of a deleted profile
    Idle        \* a task that waits for nothing

Profiles == Stored \cup Fresh

Marks == Profiles \cup {New}

Values == Marks \cup {Nothing}

FormFields == {"name", "seed", "viewport"}

Fingerprint == {"seed", "viewport", "extension_paths"}

Fields == FormFields \cup Fingerprint \cup {"runtime"}

ASSUME ProfileDialogAssumption ==
    /\ Stored \cap Fresh = {} /\ New \notin Profiles
    /\ Nothing \notin Marks
    /\ Choices \subseteq SUBSET Fields
    /\ MaxInputs \in Nat

Forms == [FormFields -> Values]

Row == {r \in [Fields -> Values] : r.name # Nothing}

Task == [kind : {"open"}, about : Profiles, fields : {Idle}]
           \cup [kind : {"save"}, about : Marks, fields : {f \in Forms : f.name # Nothing}]

ASSUME MarkersAssumption == Unborn \notin Row /\ Gone \notin Row /\ Unborn # Gone /\ Idle \notin Task

VARIABLES
    rows,     \* automation_profiles
    form,     \* pdlg: the fields of the form
    editing,  \* editing_profile: the profile it is about
    shown,    \* whether the dialog is open
    task,     \* what each task of the page waits for
    inputs,   \* requests of API clients and fields typed so far
    crossed   \* history: the form was filled or typed in while an opening waited

dialog == <<form, editing, shown>>
vars == <<rows, dialog, task, inputs, crossed>>

TypeOK ==
    /\ rows \in [Profiles -> Row \cup {Unborn, Gone}]
    /\ form \in Forms /\ editing \in Marks /\ shown \in BOOLEAN
    /\ task \in [Tasks -> Task \cup {Idle}]
    /\ inputs \in 0 .. MaxInputs /\ crossed \in BOOLEAN

Live(p) == rows[p] \notin {Unborn, Gone}

(* A row in which the fields S are set, and the name, all meant for p.     *)
OwnRow(p, S) == [f \in Fields |-> IF f \in S \cup {"name"} THEN p ELSE Nothing]

OwnRows(p) == {OwnRow(p, S) : S \in Choices}

Init ==
    /\ \E set \in [Stored -> Choices] :
          rows = [p \in Profiles |-> IF p \in Stored THEN OwnRow(p, set[p]) ELSE Unborn]
    /\ form = [f \in FormFields |-> Nothing] /\ editing = New /\ shown = FALSE
    /\ task = [t \in Tasks |-> Idle]
    /\ inputs = 0 /\ crossed = FALSE

OpeningWaits(t) == task[t] # Idle /\ task[t].kind = "open"

SaveWaits(t) == task[t] # Idle /\ task[t].kind = "save"

Waits(t, w) == task' = [task EXCEPT ![t] = w]

Input == inputs < MaxInputs /\ inputs' = inputs + 1

(* _reset_profile_dialog; the form is about no profile.                    *)
Reset ==
    /\ form' = [f \in FormFields |-> Nothing]
    /\ editing' = New

--------------------------------------------------------------------------------
(* Opening the dialog.                                                     *)

(* Mutant: the form keeps the fields of the last profile.                  *)
ClickEditUnreset(t, p) ==
    /\ task[t] = Idle
    /\ rows[p] # Unborn
    /\ editing' = New
    /\ Waits(t, [kind |-> "open", about |-> p, fields |-> Idle])
    /\ UNCHANGED <<rows, form, shown, inputs, crossed>>

(* The table may show a profile that was deleted; the click may be on its  *)
(* way while the dialog opens.                                             *)
ClickEdit(t, p) ==
    /\ task[t] = Idle
    /\ rows[p] # Unborn
    /\ Reset
    /\ Waits(t, [kind |-> "open", about |-> p, fields |-> Idle])
    /\ UNCHANGED <<rows, shown, inputs, crossed>>

(* The fields of a profile fill the form, all but a viewport it lacks.     *)
Fill(t) ==
    /\ OpeningWaits(t)
    /\ LET p == task[t].about
       IN  /\ Live(p)
           /\ form' = [f \in FormFields |->
                          IF f = "viewport" /\ rows[p][f] = Nothing THEN form[f] ELSE rows[p][f]]
           /\ editing' = p
    /\ shown' = TRUE
    /\ Waits(t, Idle)
    /\ crossed' = (crossed \/ \E u \in Tasks \ {t} : OpeningWaits(u))
    /\ UNCHANGED <<rows, inputs>>

(* There is no such profile, or the call fails.                            *)
OpeningEnds(t) ==
    /\ OpeningWaits(t)
    /\ Waits(t, Idle)
    /\ UNCHANGED <<rows, dialog, inputs, crossed>>

ClickNew ==
    /\ Reset
    /\ shown' = TRUE
    /\ UNCHANGED <<rows, task, inputs, crossed>>

(* The operator types any value into a field, for the profile that the     *)
(* form is about, or clears it.                                            *)
Type(f) ==
    /\ shown
    /\ Input
    /\ \E v \in {editing, Nothing} : form' = [form EXCEPT ![f] = v]
    /\ crossed' = (crossed \/ \E t \in Tasks : OpeningWaits(t))
    /\ UNCHANGED <<rows, editing, shown, task>>

Cancel ==
    /\ shown
    /\ shown' = FALSE
    /\ UNCHANGED <<rows, form, editing, task, inputs, crossed>>

--------------------------------------------------------------------------------
(* Saving.                                                                 *)

(* Mutant: the name is not asked for.                                      *)
SaveUnnamed(t) ==
    /\ task[t] = Idle /\ shown
    /\ Waits(t, [kind |-> "save", about |-> editing, fields |-> form])
    /\ UNCHANGED <<rows, dialog, inputs, crossed>>

(* The fields and the profile are read before the call.                    *)
Save(t) ==
    /\ task[t] = Idle /\ shown
    /\ form["name"] # Nothing
    /\ Waits(t, [kind |-> "save", about |-> editing, fields |-> form])
    /\ UNCHANGED <<rows, dialog, inputs, crossed>>

(* Mutant: a field that the form does not show gets its default.           *)
WrittenDefaults(old, fields) ==
    [f \in Fields |-> IF f \in FormFields THEN fields[f] ELSE Nothing]

(* A fingerprint is written as a whole, without what the form has not.     *)
Written(old, fields) ==
    [f \in Fields |-> IF f \in FormFields THEN fields[f]
                      ELSE IF f \in Fingerprint THEN Nothing ELSE old[f]]

(* The call has been answered: whatever dialog is open is closed.  An      *)
(* answer that is lost leaves it as it is.                                 *)
SaveEnds(t) ==
    /\ shown' \in {FALSE, shown}
    /\ Waits(t, Idle)
    /\ UNCHANGED <<form, editing, inputs, crossed>>

UpdateProfile(t) ==
    /\ SaveWaits(t)
    /\ LET p == task[t].about
       IN  /\ p # New
           /\ Live(p)
           /\ rows' = [rows EXCEPT ![p] = Written(rows[p], task[t].fields)]
    /\ SaveEnds(t)

CreateProfile(t, u) ==
    /\ SaveWaits(t)
    /\ task[t].about = New
    /\ rows[u] = Unborn
    /\ rows' = [rows EXCEPT ![u] = Written([f \in Fields |-> Nothing], task[t].fields)]
    /\ SaveEnds(t)

(* There is no such profile any more, or the call fails; the dialog stays. *)
SaveFails(t) ==
    /\ SaveWaits(t)
    /\ Waits(t, Idle)
    /\ UNCHANGED <<rows, dialog, inputs, crossed>>

--------------------------------------------------------------------------------
(* Clients of the HTTP API.                                                *)

Request ==
    /\ Input
    /\ UNCHANGED <<dialog, task, crossed>>

(* The fields that are sent, with any values, are written.                 *)
Patch(p, sent, r) ==
    /\ Request
    /\ Live(p)
    /\ rows' = [rows EXCEPT ![p] = [f \in Fields |-> IF f \in sent THEN r[f] ELSE rows[p][f]]]

(* Mutant: the copy has the seed as well.                                  *)
CloneWhole(p, u) ==
    /\ Request
    /\ Live(p) /\ rows[u] = Unborn
    /\ rows' = [rows EXCEPT ![u] = rows[p]]

Clone(p, u) ==
    /\ Request
    /\ Live(p) /\ rows[u] = Unborn
    /\ rows' = [rows EXCEPT ![u] = [rows[p] EXCEPT !["seed"] = Nothing]]

Delete(p) ==
    /\ Request
    /\ Live(p)
    /\ rows' = [rows EXCEPT ![p] = Gone]

--------------------------------------------------------------------------------

Sendable == {{"name"}, {"runtime"}, Fingerprint}

Page(t) ==
    \/ \E p \in Profiles : ClickEdit(t, p)
    \/ Fill(t) \/ OpeningEnds(t)
    \/ Save(t) \/ UpdateProfile(t) \/ SaveFails(t)
    \/ \E u \in Fresh : CreateProfile(t, u)

Client(p) ==
    \/ \E sent \in Sendable, r \in OwnRows(p) : Patch(p, sent, r)
    \/ \E u \in Fresh : Clone(p, u)
    \/ Delete(p)

Next ==
    \/ \E t \in Tasks : Page(t)
    \/ ClickNew \/ Cancel \/ \E f \in FormFields : Type(f)
    \/ \E p \in Profiles : Client(p)

Spec == Init /\ [][Next]_vars

--------------------------------------------------------------------------------

(* Editing a profile never writes into it what belongs to another one,     *)
(* whichever openings and saves wait at the same time and in whatever      *)
(* order they are answered (open_profile_dialog, submit_profile_dialog).   *)
(* Left out is the viewport once the form was filled or typed in while an  *)
(* opening waited: a profile without a viewport does not clear the field.  *)
(* A profile that was created or cloned since never has a seed that was    *)
(* meant for another one: a clone has none, and what was edited, before or *)
(* after, brings none into it (clone_profile).                             *)
NoMixing ==
    /\ \A p \in Stored : Live(p) =>
          \A f \in Fields : rows[p][f] \in {p, Nothing} \/ (f = "viewport" /\ crossed)
    /\ \A u \in Fresh : Live(u) => rows[u].seed \in {u, New, Nothing}

(* Whatever edits left of a profile, and whatever the settings, the        *)
(* command line of its CloakBrowser has the seed of the profile, or a      *)
(* drawn one if there is none, and the page its viewport: no default comes *)
(* after them (launch_context).  Without a viewport the page fills a       *)
(* window that fits the screen.  Where the filter is set no --no-sandbox   *)
(* is left, neither CloakBrowser's nor Playwright's, and the other flags   *)
(* of the fingerprint are kept (README, CLOAKBROWSER_FILTER_NO_SANDBOX).   *)
LaunchAsConfigured ==
    \A p \in Profiles, s \in Settings :
       Live(p) /\ IsCloakbrowser(rows[p]) /\ Opens(rows[p], s) =>
       LET o == RuntimeFor(rows[p], s)
           line == CommandLine(o)
       IN  /\ "seed" \in DOMAIN line
           /\ line["seed"] = IF rows[p].seed # Nothing THEN rows[p].seed ELSE "drawn"
           /\ rows[p].viewport # Nothing => o.viewport = rows[p].viewport
           /\ rows[p].viewport = Nothing /\ s.fit_screen => (o.viewport = "window" <=> ~ s.headless)
           /\ s.filter_no_sandbox => "no_sandbox" \notin DOMAIN line

(* A save never changes the runtime of a profile, which the form does not  *)
(* show: what a client made of it while the dialog was open stays          *)
(* (update_profile writes the fields that were set).                       *)
RuntimeKept ==
    [][\A p \in Profiles : Live(p) /\ Live(p)' /\ rows'[p].runtime # rows[p].runtime
          => \E r \in OwnRows(p) : Patch(p, {"runtime"}, r)]_vars

================================================================================
