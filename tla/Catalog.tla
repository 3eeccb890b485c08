-------------------------------- MODULE Catalog -------------------------------
(***************************************************************************)
(* The catalogue of profiles, groups and sites: BrowserProfileStore        *)
(* (browser/profiles.py) with the rows of repositories/supabase.py, whose  *)
(* foreign keys are those of supabase/schema.sql.  A profile is a row and  *)
(* a storage directory; creating, cloning and deleting one is several      *)
(* calls of the database with steps on the disk between them.              *)
(*                                                                         *)
(* An action is one call, or what a task does with its answer.  Requests   *)
(* of one call are one action.  The database may refuse a call for reasons *)
(* that are not modelled (unique keys, missing columns).  Of a row only    *)
(* the references to other tables are modelled.  In memory the calls of a  *)
(* request follow each other with nothing in between, and no key is        *)
(* checked.                                                                *)
(***************************************************************************)
CONSTANTS
    Names,      \* the profile ids that clients choose
    Uuids,      \* those that the store draws
    Groups,     \* the ids of groups, drawn as well
    Sites,      \* site keys
    CodeSites,  \* those with an adapter module
    Inserted,   \* the sites whose rows schema.sql inserts
    Wanted,     \* the rows that requests ask for (a bound)
    Clients,    \* requests that are served at the same time
    Dirs,       \* directories under the storage root
    DirOf,      \* _path_safe_profile_id: the directory of each profile id
    NoRow,      \* the row of a profile that does not exist
    None        \* no group, no site, nothing asked

Profiles == Names \cup Uuids

Row == [group : Groups \cup {None}, site : Sites \cup {None}]

ASSUME CatalogAssumption ==
    /\ CodeSites \subseteq Sites /\ Inserted \subseteq Sites /\ Wanted \subseteq Row
    /\ DirOf \in [Profiles -> Dirs]
    /\ NoRow \notin Row
    /\ Names \cap Uuids = {} /\ Groups \cap Profiles = {}
    /\ Sites \cap Profiles = {}
    /\ None \notin Profiles \cup Sites

VARIABLES
    rows,     \* automation_profiles
    groups,   \* automation_profile_groups
    sites,    \* automation_sites
    used,     \* automation_jobs: the profiles that jobs refer to
    dirs,     \* the directories that exist
    drawn,    \* the uuids that were given out
    at,       \* the call each request waits for
    about,    \* the profile or site it is about
    want,     \* the row it is to insert or to write
    removes,  \* whether it removes the storage directory
    raced,    \* history: profiles created during a removal of their storage
    late      \* history: deletions of a site that was created after their lookup

tasks == <<at, about, want, removes>>
history == <<raced, late>>
vars == <<rows, groups, sites, used, dirs, drawn, tasks, history>>

Creates == {"lookup", "make", "insert"}
Deletes == {"delete", "erase", "remove"}
SiteDeletes == {"site", "erase_site"}

TypeOK ==
    /\ rows \in [Profiles -> Row \cup {NoRow}]
    /\ groups \subseteq Groups /\ sites \subseteq Sites
    /\ used \subseteq Profiles /\ dirs \subseteq Dirs
    /\ drawn \subseteq Uuids \cup Groups
    /\ at \in [Clients -> {"idle", "clone", "edit"} \cup Creates \cup Deletes \cup SiteDeletes]
    /\ about \in [Clients -> Profiles \cup Sites \cup {None}]
    /\ want \in [Clients -> Row \cup {NoRow}]
    /\ removes \in [Clients -> BOOLEAN]
    /\ \A c \in Clients :
          /\ at[c] = "idle" <=> about[c] = None
          /\ about[c] \in Sites <=> at[c] \in SiteDeletes
          /\ want[c] # NoRow <=> at[c] \in Creates \cup {"edit"}
          /\ removes[c] => at[c] \in Deletes
          /\ at[c] = "remove" => removes[c]
    /\ raced \subseteq Profiles /\ late \subseteq Clients

Init ==
    /\ rows = [p \in Profiles |-> NoRow]
    /\ groups = {} /\ sites = Inserted /\ used = {}
    /\ dirs = {} /\ drawn = {} /\ raced = {} /\ late = {}
    /\ at = [c \in Clients |-> "idle"]
    /\ about = [c \in Clients |-> None]
    /\ want = [c \in Clients |-> NoRow]
    /\ removes = [c \in Clients |-> FALSE]

tables == <<rows, groups, sites, used>>

(* Request c waits for a call about x.                                     *)
Waits(c, place, x, r, remove) ==
    /\ at' = [at EXCEPT ![c] = place]
    /\ about' = [about EXCEPT ![c] = x]
    /\ want' = [want EXCEPT ![c] = r]
    /\ removes' = [removes EXCEPT ![c] = remove]

(* Mutant: the next request of the task removes storage as this one did.   *)
OverKeepsRemoves(c) == Waits(c, "idle", None, NoRow, removes[c])

Over(c) == Waits(c, "idle", None, NoRow, FALSE)

Goes(c, from, to) ==
    /\ at[c] = from
    /\ at' = [at EXCEPT ![c] = to]
    /\ UNCHANGED <<about, want, removes>>

Creating(c, p) == at[c] \in Creates /\ about[c] = p

Removing(c, p) == removes[c] /\ about[c] = p

Known == Names \cup (Uuids \cap drawn)

(* The foreign keys of a profile.                                          *)
Resolves(r) == r.group \in groups \cup {None} /\ r.site \in sites \cup {None}

-------------------------------------------------------------------------------
(* Creation and cloning.                                                   *)

(* An id that the client chose, or a new one.                              *)
AskCreate(c, p, r) ==
    /\ at[c] = "idle"
    /\ p \in Names \/ p \notin drawn
    /\ drawn' = drawn \cup ({p} \cap Uuids)
    /\ Waits(c, "lookup", p, r, FALSE)
    /\ raced' = raced \cup {q \in {p} : \E d \in Clients : Removing(d, q)}
    /\ UNCHANGED <<tables, dirs, late>>

(* The id is free, or the answer is 409.                                   *)
Lookup(c) ==
    /\ at[c] = "lookup"
    /\ IF rows[about[c]] = NoRow THEN Goes(c, "lookup", "make") ELSE Over(c)
    /\ UNCHANGED <<tables, dirs, drawn, history>>

AskClone(c, p) ==
    /\ at[c] = "idle"
    /\ Waits(c, "clone", p, NoRow, FALSE)
    /\ UNCHANGED <<tables, dirs, drawn, history>>

(* A clone is a new profile, with the references of the old one.           *)
Clone(c, u) ==
    /\ at[c] = "clone"
    /\ rows[about[c]] # NoRow
    /\ u \notin drawn
    /\ drawn' = drawn \cup {u}
    /\ Waits(c, "make", u, rows[about[c]], FALSE)
    /\ UNCHANGED <<tables, dirs, history>>

(* _ensure_storage_dir.                                                    *)
Make(c) ==
    /\ Goes(c, "make", "insert")
    /\ dirs' = dirs \cup {DirOf[about[c]]}
    /\ UNCHANGED <<tables, drawn, history>>

Insert(c) ==
    /\ at[c] = "insert"
    /\ rows[about[c]] = NoRow /\ Resolves(want[c])
    /\ rows' = [rows EXCEPT ![about[c]] = want[c]]
    /\ Over(c)
    /\ UNCHANGED <<groups, sites, used, dirs, drawn, history>>

-------------------------------------------------------------------------------
(* Deletion and changes.                                                   *)

AskDelete(c, p, remove) ==
    /\ at[c] = "idle"
    /\ Waits(c, "delete", p, NoRow, remove)
    /\ raced' = raced \cup {q \in {p} : remove /\ \E d \in Clients : Creating(d, q)}
    /\ UNCHANGED <<tables, dirs, drawn, late>>

(* The storage is that of the row, and stays if there is none.             *)
LookupStorage(c) ==
    /\ at[c] = "delete"
    /\ Waits(c, "erase", about[c], NoRow, removes[c] /\ rows[about[c]] # NoRow)
    /\ UNCHANGED <<tables, dirs, drawn, history>>

(* Mutant: the storage goes although the database refused to delete the row. *)
EraseAnyway(c) ==
    /\ at[c] = "erase"
    /\ rows' = [rows EXCEPT ![about[c]] = IF about[c] \in used THEN @ ELSE NoRow]
    /\ IF removes[c] THEN Goes(c, "erase", "remove") ELSE Over(c)
    /\ UNCHANGED <<groups, sites, used, dirs, drawn, history>>

(* Only a profile that no job refers to can be deleted.                    *)
Erase(c) ==
    /\ at[c] = "erase"
    /\ about[c] \notin used
    /\ rows' = [rows EXCEPT ![about[c]] = NoRow]
    /\ IF removes[c] THEN Goes(c, "erase", "remove") ELSE Over(c)
    /\ UNCHANGED <<groups, sites, used, dirs, drawn, history>>

(* The row is gone, and the answer is lost.                                *)
EraseLost(c) ==
    /\ at[c] = "erase"
    /\ about[c] \notin used
    /\ rows' = [rows EXCEPT ![about[c]] = NoRow]
    /\ Over(c)
    /\ UNCHANGED <<groups, sites, used, dirs, drawn, history>>

(* shutil.rmtree.                                                          *)
Remove(c) ==
    /\ at[c] = "remove"
    /\ dirs' = dirs \ {DirOf[about[c]]}
    /\ Over(c)
    /\ UNCHANGED <<tables, drawn, history>>

(* The dialog shows the fields of a profile; r is what the operator makes  *)
(* of them.                                                                *)
OpenDialog(c, p, r) ==
    /\ at[c] = "idle"
    /\ rows[p] # NoRow
    /\ Waits(c, "edit", p, r, FALSE)
    /\ UNCHANGED <<tables, dirs, drawn, history>>

(* Mutant: the row is written whether it is still there or not.            *)
SubmitAnyway(c) ==
    /\ at[c] = "edit"
    /\ Resolves(want[c])
    /\ rows' = [rows EXCEPT ![about[c]] = want[c]]
    /\ Over(c)
    /\ UNCHANGED <<groups, sites, used, dirs, drawn, history>>

(* All fields are written, whoever changed them meanwhile.                 *)
SubmitDialog(c) ==
    /\ at[c] = "edit"
    /\ rows[about[c]] # NoRow /\ Resolves(want[c])
    /\ rows' = [rows EXCEPT ![about[c]] = want[c]]
    /\ Over(c)
    /\ UNCHANGED <<groups, sites, used, dirs, drawn, history>>

(* A PATCH request changes the row of a profile.                           *)
Update(p, r) ==
    /\ rows[p] # NoRow /\ Resolves(r)
    /\ rows' = [rows EXCEPT ![p] = r]
    /\ UNCHANGED <<groups, sites, used, dirs, drawn, tasks, history>>

(* A job is queued for a profile.                                          *)
CreateJob(p) ==
    /\ rows[p] # NoRow
    /\ used' = used \cup {p}
    /\ UNCHANGED <<rows, groups, sites, dirs, drawn, tasks, history>>

-------------------------------------------------------------------------------
(* Groups and sites.                                                       *)

CreateGroup(g) ==
    /\ g \notin drawn
    /\ groups' = groups \cup {g} /\ drawn' = drawn \cup {g}
    /\ UNCHANGED <<rows, sites, used, dirs, tasks, history>>

DeleteGroup(g) ==
    /\ \A p \in Profiles : rows[p] # NoRow => rows[p].group # g
    /\ groups' = groups \ {g}
    /\ UNCHANGED <<rows, sites, used, dirs, drawn, tasks, history>>

CreateSite(s) ==
    /\ s \notin sites
    /\ sites' = sites \cup {s}
    /\ late' = late \cup {c \in Clients : at[c] = "erase_site" /\ about[c] = s}
    /\ UNCHANGED <<rows, groups, used, dirs, drawn, tasks, raced>>

AskDeleteSite(c, s) ==
    /\ at[c] = "idle"
    /\ Waits(c, "site", s, NoRow, FALSE)
    /\ UNCHANGED <<tables, dirs, drawn, history>>

(* Mutant: what has an adapter is not looked at.                           *)
LookupAnySite(c) ==
    /\ Goes(c, "site", "erase_site")
    /\ UNCHANGED <<tables, dirs, drawn, history>>

(* The row of a site with an adapter module is refused with 409; a key     *)
(* that no row has goes on to the deletion.                                *)
LookupSite(c) ==
    /\ at[c] = "site"
    /\ IF about[c] \in sites /\ about[c] \in CodeSites THEN Over(c) ELSE Goes(c, "site", "erase_site")
    /\ UNCHANGED <<tables, dirs, drawn, history>>

EraseSite(c) ==
    /\ at[c] = "erase_site"
    /\ \A p \in Profiles : rows[p] # NoRow => rows[p].site # about[c]
    /\ sites' = sites \ {about[c]}
    /\ Over(c)
    /\ late' = late \ {c}
    /\ UNCHANGED <<rows, groups, used, dirs, drawn, raced>>

-------------------------------------------------------------------------------

(* A call fails, or finds no such profile: the request ends with an error. *)
Fails(c) ==
    /\ at[c] \notin {"idle", "make", "remove"}
    /\ Over(c)
    /\ late' = late \ {c}
    /\ UNCHANGED <<tables, dirs, drawn, raced>>

(* The process starts again; the rows and the directories are still there. *)
Restart ==
    /\ at' = [c \in Clients |-> "idle"]
    /\ about' = [c \in Clients |-> None]
    /\ want' = [c \in Clients |-> NoRow]
    /\ removes' = [c \in Clients |-> FALSE]
    /\ late' = {}
    /\ UNCHANGED <<tables, dirs, drawn, raced>>

Asks(c) ==
    \/ \E p \in Profiles, r \in Wanted : AskCreate(c, p, r) \/ OpenDialog(c, p, r)
    \/ \E p \in Known : AskClone(c, p) \/ AskDelete(c, p, TRUE) \/ AskDelete(c, p, FALSE)
    \/ \E s \in Sites : AskDeleteSite(c, s)

Continues(c) ==
    \/ Lookup(c) \/ Make(c) \/ Insert(c) \/ \E u \in Uuids : Clone(c, u)
    \/ SubmitDialog(c)
    \/ LookupStorage(c) \/ Erase(c) \/ EraseLost(c) \/ Remove(c)
    \/ LookupSite(c) \/ EraseSite(c)
    \/ Fails(c)

Changes ==
    \/ \E p \in Profiles : CreateJob(p) \/ \E r \in Wanted : Update(p, r)
    \/ \E g \in Groups : CreateGroup(g) \/ DeleteGroup(g)
    \/ \E s \in Sites : CreateSite(s)

Next == (\E c \in Clients : Asks(c) \/ Continues(c)) \/ Changes \/ Restart

Spec == Init /\ [][Next]_vars

-------------------------------------------------------------------------------

(* Every profile has its storage directory, whatever fails and wherever    *)
(* the process is interrupted: the directory is made before the row and    *)
(* removed after it (create_profile, delete_profile).  Left out are        *)
(* profiles whose creation and whose removal were served at the same time. *)
RowHasStorage ==
    \A p \in Profiles : rows[p] # NoRow => DirOf[p] \in dirs \/ p \in raced

(* Only a creation or a clone brings a profile about: an edit that is      *)
(* submitted after its profile was deleted does not bring it back          *)
(* (update_profile).                                                       *)
NoResurrection ==
    [][\A p \in Profiles : rows[p] = NoRow /\ rows'[p] # NoRow
          => \E c \in Clients : at[c] = "insert" /\ about[c] = p]_vars

(* The row of a site with an adapter module is deleted in one case only:   *)
(* the site had no row when the deletion looked for it, which schema.sql   *)
(* leaves open for all adapters but one, and was created before the        *)
(* deletion came to the table (delete_site, whose check is a call of its   *)
(* own).                                                                   *)
CodeSitesKept ==
    [][\A s \in CodeSites : s \in sites /\ s \notin sites'
          => \E c \in late : at[c] = "erase_site" /\ about[c] = s]_vars

===============================================================================
