----------------------------- MODULE CatalogProofs ----------------------------
(***************************************************************************)
(* The catalogue is consistent for any profiles, groups, sites and         *)
(* requests; a profile has its storage if its directory is its own.        *)
(***************************************************************************)
EXTENDS Catalog, TLAPS

DirsApart == \A p, q \in Profiles : p # q => DirOf[p] # DirOf[q]

(* The profiles whose directory no other id is mapped to.                  *)
Alone == {p \in Profiles : \A q \in Profiles : q # p => DirOf[p] # DirOf[q]}

(* A removal is about a known id, hence never about one that is drawn.     *)
RemovesKnown == \A c \in Clients : removes[c] => about[c] \in Known

(* Of a profile that shares no directory and is not in raced, no removal   *)
(* meets a creation; the directory is there before the row is inserted,    *)
(* and the row is gone when the directory is removed.                      *)
StorageFirst ==
    \A p \in Alone \ raced :
        /\ \A c, d \in Clients : ~(Removing(c, p) /\ Creating(d, p))
        /\ rows[p] # NoRow => DirOf[p] \in dirs
        /\ \A c \in Clients :
              /\ at[c] = "insert" /\ about[c] = p => DirOf[p] \in dirs
              /\ at[c] = "remove" /\ about[c] = p => rows[p] = NoRow

(* A deletion that has come to the row of a site with an adapter module    *)
(* found no row when it looked for it.                                     *)
SitesChecked ==
    \A c \in Clients :
        at[c] = "erase_site" /\ about[c] \in CodeSites \cap sites => c \in late

-------------------------------------------------------------------------------

LEMMA TypeInit == Init => TypeOK
BY CatalogAssumption DEF Init, TypeOK, Row, Profiles, Creates, Deletes, SiteDeletes

Places == {"idle", "clone", "edit"} \cup Creates \cup Deletes \cup SiteDeletes

(* What TypeOK says of the requests.                                       *)
TaskTypes ==
    /\ at \in [Clients -> Places]
    /\ about \in [Clients -> Profiles \cup Sites \cup {None}]
    /\ want \in [Clients -> Row \cup {NoRow}]
    /\ removes \in [Clients -> BOOLEAN]

TaskFits(place, x, r, b) ==
    /\ place = "idle" <=> x = None
    /\ x \in Sites <=> place \in SiteDeletes
    /\ r # NoRow <=> place \in Creates \cup {"edit"}
    /\ b => place \in Deletes
    /\ place = "remove" => b

TablesTypes ==
    /\ rows \in [Profiles -> Row \cup {NoRow}]
    /\ groups \subseteq Groups /\ sites \subseteq Sites
    /\ used \subseteq Profiles /\ dirs \subseteq Dirs
    /\ drawn \subseteq Uuids \cup Groups
    /\ raced \subseteq Profiles /\ late \subseteq Clients

LEMMA TypeParts ==
    TypeOK <=> /\ TaskTypes /\ TablesTypes
               /\ \A c \in Clients : TaskFits(at[c], about[c], want[c], removes[c])
BY DEF TypeOK, TaskTypes, TablesTypes, TaskFits, Places

LEMMA TypePartsNext ==
    TypeOK' <=> /\ TaskTypes' /\ TablesTypes'
                /\ \A c \in Clients : TaskFits(at'[c], about'[c], want'[c], removes'[c])
BY DEF TypeOK, TaskTypes, TablesTypes, TaskFits, Places

(* A request goes on to a place that fits.                                 *)
LEMMA WaitsFits ==
    ASSUME TypeOK, NEW c \in Clients, NEW place \in Places,
           NEW x \in Profiles \cup Sites \cup {None}, NEW r \in Row \cup {NoRow}, NEW b \in BOOLEAN,
           Waits(c, place, x, r, b), TaskFits(place, x, r, b), TablesTypes'
    PROVE  TypeOK'
<1>1. TaskTypes'
  BY TypeParts DEF Waits, TaskTypes
<1>2. \A d \in Clients : TaskFits(at'[d], about'[d], want'[d], removes'[d])
  BY TypeParts DEF Waits, TaskTypes
<1>. QED BY <1>1, <1>2, TypePartsNext

LEMMA OverFits ==
    ASSUME TypeOK, NEW c \in Clients, Over(c), TablesTypes'
    PROVE  TypeOK'
<1>1. TaskFits("idle", None, NoRow, FALSE)
  BY CatalogAssumption DEF TaskFits, Creates, Deletes, SiteDeletes
<1>2. "idle" \in Places
  BY DEF Places
<1>. QED BY <1>1, <1>2, WaitsFits DEF Over

LEMMA GoesFits ==
    ASSUME TypeOK, NEW c \in Clients, NEW from \in Places, NEW to \in Places, Goes(c, from, to),
           TaskFits(from, about[c], want[c], removes[c]) => TaskFits(to, about[c], want[c], removes[c]),
           TablesTypes'
    PROVE  TypeOK'
<1>1. TaskTypes'
  BY TypeParts DEF Goes, TaskTypes
<1>2. \A d \in Clients : TaskFits(at'[d], about'[d], want'[d], removes'[d])
  BY TypeParts DEF Goes, TaskTypes
<1>. QED BY <1>1, <1>2, TypePartsNext

LEMMA TypeStep == TypeOK /\ [Next]_vars => TypeOK'
<1>. SUFFICES ASSUME TypeOK, [Next]_vars PROVE TypeOK'
  OBVIOUS
<1>. USE CatalogAssumption DEF Profiles, history
<1>0. TaskTypes /\ TablesTypes /\ \A c \in Clients : TaskFits(at[c], about[c], want[c], removes[c])
  BY TypeParts
<1>1. ASSUME NEW c \in Clients, NEW p \in Profiles, NEW r \in Wanted,
             AskCreate(c, p, r) \/ OpenDialog(c, p, r)
      PROVE  TypeOK'
  <2>1. TablesTypes'
    BY <1>0, <1>1 DEF AskCreate, OpenDialog, TablesTypes, tables
  <2>2. /\ r \in Row
        /\ TaskFits("lookup", p, r, FALSE) /\ "lookup" \in Places
        /\ TaskFits("edit", p, r, FALSE) /\ "edit" \in Places
    BY DEF TaskFits, Places, Creates, Deletes, SiteDeletes
  <2>3. CASE AskCreate(c, p, r)
    BY <2>1, <2>2, <2>3, WaitsFits DEF AskCreate
  <2>4. CASE OpenDialog(c, p, r)
    BY <2>1, <2>2, <2>4, WaitsFits DEF OpenDialog
  <2>. QED BY <1>1, <2>3, <2>4
<1>2. ASSUME NEW c \in Clients, NEW p \in Known, NEW b \in BOOLEAN,
             AskClone(c, p) \/ AskDelete(c, p, b)
      PROVE  TypeOK'
  <2>0. p \in Profiles
    BY DEF Known
  <2>1. TablesTypes'
    BY <1>0, <1>2, <2>0 DEF AskClone, AskDelete, TablesTypes, tables
  <2>2. /\ TaskFits("clone", p, NoRow, FALSE) /\ "clone" \in Places
        /\ TaskFits("delete", p, NoRow, b) /\ "delete" \in Places
    BY <2>0 DEF TaskFits, Places, Creates, Deletes, SiteDeletes
  <2>3. CASE AskClone(c, p)
    BY <2>0, <2>1, <2>2, <2>3, WaitsFits DEF AskClone
  <2>4. CASE AskDelete(c, p, b)
    BY <2>0, <2>1, <2>2, <2>4, WaitsFits DEF AskDelete
  <2>. QED BY <1>2, <2>3, <2>4
<1>3. ASSUME NEW c \in Clients, NEW s \in Sites, AskDeleteSite(c, s) PROVE TypeOK'
  <2>1. TablesTypes'
    BY <1>0, <1>3 DEF AskDeleteSite, TablesTypes, tables
  <2>2. TaskFits("site", s, NoRow, FALSE) /\ "site" \in Places
    BY DEF TaskFits, Places, Creates, Deletes, SiteDeletes
  <2>. QED BY <1>3, <2>1, <2>2, WaitsFits DEF AskDeleteSite
<1>4. ASSUME NEW c \in Clients, Fails(c) PROVE TypeOK'
  BY <1>0, <1>4, OverFits DEF Fails, TablesTypes, tables
<1>5. ASSUME NEW c \in Clients, Lookup(c) PROVE TypeOK'
  <2>1. TablesTypes'
    BY <1>0, <1>5 DEF Lookup, TablesTypes, tables
  <2>2. CASE Over(c)
    BY <2>1, <2>2, OverFits
  <2>3. CASE Goes(c, "lookup", "make")
    <3>1. "lookup" \in Places /\ "make" \in Places
      BY DEF Places, Creates
    <3>2. TaskFits("lookup", about[c], want[c], removes[c])
              => TaskFits("make", about[c], want[c], removes[c])
      BY DEF TaskFits, Creates, Deletes, SiteDeletes
    <3>. QED BY <2>1, <2>3, <3>1, <3>2, GoesFits
  <2>. QED BY <1>5, <2>2, <2>3 DEF Lookup
<1>6. ASSUME NEW c \in Clients, NEW v \in Uuids, Clone(c, v) PROVE TypeOK'
  <2>1. TablesTypes'
    BY <1>0, <1>6 DEF Clone, TablesTypes, tables
  <2>2. about[c] \in Profiles /\ rows[about[c]] \in Row
    BY <1>0, <1>6 DEF Clone, TaskTypes, TablesTypes, TaskFits, SiteDeletes
  <2>3. TaskFits("make", v, rows[about[c]], FALSE) /\ "make" \in Places
    BY <2>2 DEF TaskFits, Places, Creates, Deletes, SiteDeletes
  <2>. QED BY <1>6, <2>1, <2>2, <2>3, WaitsFits DEF Clone
<1>7. ASSUME NEW c \in Clients, Make(c) PROVE TypeOK'
  <2>1. about[c] \in Profiles
    BY <1>0, <1>7 DEF Make, Goes, TaskTypes, TaskFits, SiteDeletes
  <2>2. TablesTypes'
    BY <1>0, <1>7, <2>1 DEF Make, TablesTypes, tables
  <2>3. "make" \in Places /\ "insert" \in Places
    BY DEF Places, Creates
  <2>4. TaskFits("make", about[c], want[c], removes[c])
            => TaskFits("insert", about[c], want[c], removes[c])
    BY DEF TaskFits, Creates, Deletes, SiteDeletes
  <2>. QED BY <1>7, <2>2, <2>3, <2>4, GoesFits DEF Make
<1>8. ASSUME NEW c \in Clients, Insert(c) \/ SubmitDialog(c) PROVE TypeOK'
  <2>1. want[c] \in Row
    BY <1>0, <1>8 DEF Insert, SubmitDialog, TaskTypes, TaskFits, Creates
  <2>2. TablesTypes'
    BY <1>0, <1>8, <2>1 DEF Insert, SubmitDialog, TablesTypes
  <2>. QED BY <1>8, <2>2, OverFits DEF Insert, SubmitDialog
<1>9. ASSUME NEW c \in Clients, LookupStorage(c) PROVE TypeOK'
  <2>1. TablesTypes'
    BY <1>0, <1>9 DEF LookupStorage, TablesTypes, tables
  <2>2. about[c] \in Profiles
    BY <1>0, <1>9 DEF LookupStorage, TaskTypes, TaskFits, SiteDeletes
  <2>. DEFINE b == removes[c] /\ rows[about[c]] # NoRow
  <2>3. TaskFits("erase", about[c], NoRow, b) /\ "erase" \in Places /\ b \in BOOLEAN
    BY <2>2 DEF TaskFits, Places, Creates, Deletes, SiteDeletes
  <2>4. Waits(c, "erase", about[c], NoRow, b)
    BY <1>9 DEF LookupStorage
  <2>. HIDE DEF b
  <2>. QED BY <2>1, <2>2, <2>3, <2>4, WaitsFits
<1>10. ASSUME NEW c \in Clients, Erase(c) \/ EraseLost(c) PROVE TypeOK'
  <2>1. TablesTypes'
    BY <1>0, <1>10 DEF Erase, EraseLost, TablesTypes
  <2>2. CASE Over(c)
    BY <2>1, <2>2, OverFits
  <2>3. CASE removes[c] /\ Goes(c, "erase", "remove")
    <3>1. "erase" \in Places /\ "remove" \in Places
      BY DEF Places, Deletes
    <3>2. TaskFits("erase", about[c], want[c], removes[c])
              => TaskFits("remove", about[c], want[c], removes[c])
      BY <2>3 DEF TaskFits, Creates, Deletes, SiteDeletes
    <3>. QED BY <2>1, <2>3, <3>1, <3>2, GoesFits
  <2>. QED BY <1>10, <2>2, <2>3 DEF Erase, EraseLost
<1>11. ASSUME NEW c \in Clients, Remove(c) PROVE TypeOK'
  <2>1. TablesTypes'
    BY <1>0, <1>11 DEF Remove, TablesTypes, tables
  <2>. QED BY <1>11, <2>1, OverFits DEF Remove
<1>12. ASSUME NEW c \in Clients, LookupSite(c) PROVE TypeOK'
  <2>1. TablesTypes'
    BY <1>0, <1>12 DEF LookupSite, TablesTypes, tables
  <2>2. CASE Over(c)
    BY <2>1, <2>2, OverFits
  <2>3. CASE Goes(c, "site", "erase_site")
    <3>1. "site" \in Places /\ "erase_site" \in Places
      BY DEF Places, SiteDeletes
    <3>2. TaskFits("site", about[c], want[c], removes[c])
              => TaskFits("erase_site", about[c], want[c], removes[c])
      BY DEF TaskFits, Creates, Deletes, SiteDeletes
    <3>. QED BY <2>1, <2>3, <3>1, <3>2, GoesFits
  <2>. QED BY <1>12, <2>2, <2>3 DEF LookupSite
<1>13. ASSUME NEW c \in Clients, EraseSite(c) PROVE TypeOK'
  <2>1. TablesTypes'
    BY <1>0, <1>13 DEF EraseSite, TablesTypes
  <2>. QED BY <1>13, <2>1, OverFits DEF EraseSite
<1>14. CASE Changes
  BY <1>14 DEF Changes, CreateJob, Update, CreateGroup, DeleteGroup, CreateSite, tasks, TypeOK
<1>15. CASE Restart
  BY <1>15 DEF Restart, tables, TypeOK, Creates, Deletes, SiteDeletes
<1>16. CASE UNCHANGED vars
  BY <1>16 DEF vars, tasks, TypeOK
<1>. QED
  BY <1>1, <1>2, <1>3, <1>4, <1>5, <1>6, <1>7, <1>8, <1>9, <1>10, <1>11, <1>12, <1>13, <1>14,
     <1>15, <1>16
     DEF Next, Asks, Continues

-------------------------------------------------------------------------------

(* The storage that is removed is that of an id that was asked for.        *)
LEMMA RemovesKnownStep == TypeOK /\ RemovesKnown /\ [Next]_vars => RemovesKnown'
<1>. SUFFICES ASSUME TypeOK, RemovesKnown, [Next]_vars, NEW d \in Clients, removes'[d]
              PROVE  about'[d] \in Known'
  BY DEF RemovesKnown
<1>. USE DEF RemovesKnown, Known, TypeOK, history
<1>1. drawn \subseteq drawn'
  BY DEF Next, Asks, Continues, AskCreate, OpenDialog, AskClone, AskDelete, AskDeleteSite, Clone, Lookup, Make,
         Insert, SubmitDialog, LookupStorage, Erase, EraseLost, Remove, LookupSite, EraseSite, Fails, Changes,
         Restart, CreateJob, Update, CreateGroup, DeleteGroup, CreateSite, vars
<1>2. CASE \E c \in Clients, p \in Known, b \in BOOLEAN : AskDelete(c, p, b)
  BY <1>1, <1>2 DEF AskDelete, Waits
<1>3. CASE removes[d] /\ about'[d] = about[d]
  BY <1>1, <1>3
<1>4. \/ removes[d] /\ about'[d] = about[d]
      \/ \E c \in Clients, p \in Known, b \in BOOLEAN : AskDelete(c, p, b)
  <2>1. ASSUME NEW c \in Clients, Asks(c),
               ~ \E p \in Known, b \in BOOLEAN : AskDelete(c, p, b)
        PROVE  removes[d] /\ about'[d] = about[d]
    <3>1. \/ \E p \in Profiles, r \in Wanted : AskCreate(c, p, r) \/ OpenDialog(c, p, r)
          \/ \E p \in Known : AskClone(c, p)
          \/ \E s \in Sites : AskDeleteSite(c, s)
      BY <2>1 DEF Asks
    <3>2. /\ removes' = [removes EXCEPT ![c] = FALSE]
          /\ \E x : about' = [about EXCEPT ![c] = x]
      BY <3>1 DEF AskCreate, OpenDialog, AskClone, AskDeleteSite, Waits
    <3>. QED BY <3>2
  <2>2. ASSUME NEW c \in Clients, Continues(c)
        PROVE  removes[d] /\ about'[d] = about[d]
    <3>1. CASE LookupStorage(c)
      BY <3>1 DEF LookupStorage, Waits
    <3>2. CASE ~LookupStorage(c)
      <4>1. \/ UNCHANGED <<about, removes>>
            \/ /\ removes' = [removes EXCEPT ![c] = FALSE]
               /\ \E x : about' = [about EXCEPT ![c] = x]
        BY <2>2, <3>2 DEF Continues, Clone, Lookup, Make, Insert, SubmitDialog, Erase, EraseLost, Remove,
           LookupSite, EraseSite, Fails, Waits, Over, Goes
      <4>. QED BY <4>1
    <3>. QED BY <3>1, <3>2
  <2>3. CASE Changes \/ Restart \/ UNCHANGED vars
    BY <2>3 DEF Changes, Restart, CreateJob, Update, CreateGroup, DeleteGroup, CreateSite, vars, tasks
  <2>. QED BY <2>1, <2>2, <2>3 DEF Next
<1>. QED BY <1>2, <1>3, <1>4

(* A row that is created is one the deletions under way have not seen.     *)
LEMMA SitesStep == TypeOK /\ SitesChecked /\ [Next]_vars => SitesChecked'
<1>. SUFFICES ASSUME TypeOK, SitesChecked, [Next]_vars,
                     NEW d \in Clients, at'[d] = "erase_site", about'[d] \in CodeSites \cap sites'
              PROVE  d \in late'
  BY DEF SitesChecked
<1>. USE DEF SitesChecked, TypeOK, history
<1>1. ASSUME NEW s \in Sites, CreateSite(s) PROVE d \in late'
  BY <1>1 DEF CreateSite, tasks
<1>2. ASSUME NEW c \in Clients, LookupSite(c) PROVE d \in late'
  BY <1>2 DEF LookupSite, Goes, Over, Waits, tables
<1>3. ASSUME NEW c \in Clients, EraseSite(c) \/ Fails(c) PROVE d \in late'
  <2>1. c # d /\ sites' \subseteq sites /\ late' = late \ {c}
    BY <1>3 DEF EraseSite, Fails, Over, Waits, tables
  <2>2. at'[d] = at[d] /\ about'[d] = about[d]
    BY <1>3, <2>1 DEF EraseSite, Fails, Over, Waits
  <2>. QED BY <2>1, <2>2
<1>4. CASE Restart
  BY <1>4 DEF Restart
<1>5. CASE /\ sites' = sites /\ late' = late
           /\ \A c \in Clients : at'[c] = "erase_site" => at[c] = "erase_site" /\ about'[c] = about[c]
  BY <1>5
<1>6. \/ /\ sites' = sites /\ late' = late
         /\ \A c \in Clients : at'[c] = "erase_site" => at[c] = "erase_site" /\ about'[c] = about[c]
      \/ \E s \in Sites : CreateSite(s)
      \/ \E c \in Clients : LookupSite(c) \/ EraseSite(c) \/ Fails(c)
      \/ Restart
  BY DEF Next, Asks, Continues, AskCreate, OpenDialog, AskClone, AskDelete, AskDeleteSite, Clone, Lookup, Make,
         Insert, SubmitDialog, LookupStorage, Erase, EraseLost, Remove, Changes,
         CreateJob, Update, CreateGroup, DeleteGroup, vars, tasks, tables,
         Waits, Over, Goes
<1>. QED BY <1>1, <1>2, <1>3, <1>4, <1>5, <1>6

-------------------------------------------------------------------------------

LEMMA StorageStep ==
    ASSUME TypeOK, RemovesKnown, StorageFirst, [Next]_vars
    PROVE  StorageFirst'
<1>. SUFFICES ASSUME NEW p \in Profiles, p \in Alone, p \notin raced'
              PROVE  /\ \A c, d \in Clients : ~(Removing(c, p) /\ Creating(d, p))'
                     /\ rows'[p] # NoRow => DirOf[p] \in dirs'
                     /\ \A c \in Clients :
                           /\ at'[c] = "insert" /\ about'[c] = p => DirOf[p] \in dirs'
                           /\ at'[c] = "remove" /\ about'[c] = p => rows'[p] = NoRow
  BY DEF StorageFirst, Alone
<1>. DEFINE G == /\ \A c, d \in Clients : ~(Removing(c, p) /\ Creating(d, p))'
                 /\ rows'[p] # NoRow => DirOf[p] \in dirs'
                 /\ \A c \in Clients :
                       /\ at'[c] = "insert" /\ about'[c] = p => DirOf[p] \in dirs'
                       /\ at'[c] = "remove" /\ about'[c] = p => rows'[p] = NoRow
<1>. USE CatalogAssumption DEF Profiles, TypeOK, history
<1>1. p \notin raced
  BY DEF Next, Asks, Continues, AskCreate, OpenDialog, AskClone, AskDelete, AskDeleteSite, Clone, Lookup, Make,
         Insert, SubmitDialog, LookupStorage, Erase, EraseLost, Remove, LookupSite, EraseSite, Fails, Changes,
         Restart, CreateJob, Update, CreateGroup, DeleteGroup, CreateSite, vars
<1>2. /\ \A c, d \in Clients : ~(Removing(c, p) /\ Creating(d, p))
      /\ rows[p] # NoRow => DirOf[p] \in dirs
      /\ \A c \in Clients :
            /\ at[c] = "insert" /\ about[c] = p => DirOf[p] \in dirs
            /\ at[c] = "remove" /\ about[c] = p => rows[p] = NoRow
  BY <1>1 DEF StorageFirst
<1>3. ASSUME NEW c \in Clients, NEW q \in Profiles, NEW r \in Wanted, AskCreate(c, q, r) PROVE G
  <2>1. UNCHANGED <<rows, dirs>> /\ at' = [at EXCEPT ![c] = "lookup"]
        /\ about' = [about EXCEPT ![c] = q] /\ removes' = [removes EXCEPT ![c] = FALSE]
    BY <1>3 DEF AskCreate, Waits, tables
  <2>2. q = p => \A d \in Clients : ~Removing(d, p)
    BY <1>3 DEF AskCreate
  <2>. QED BY <1>2, <2>1, <2>2 DEF Removing, Creating, Creates
<1>4. ASSUME NEW c \in Clients, NEW q \in Known, NEW b \in BOOLEAN, AskDelete(c, q, b) PROVE G
  <2>1. UNCHANGED <<rows, dirs>> /\ at' = [at EXCEPT ![c] = "delete"]
        /\ about' = [about EXCEPT ![c] = q] /\ removes' = [removes EXCEPT ![c] = b]
    BY <1>4 DEF AskDelete, Waits, tables
  <2>2. q = p /\ b => \A d \in Clients : ~Creating(d, p)
    BY <1>4 DEF AskDelete
  <2>. QED BY <1>2, <2>1, <2>2 DEF Removing, Creating, Creates
<1>5. ASSUME NEW c \in Clients, NEW v \in Uuids, Clone(c, v) PROVE G
  <2>1. UNCHANGED <<rows, dirs>> /\ at' = [at EXCEPT ![c] = "make"]
        /\ about' = [about EXCEPT ![c] = v] /\ removes' = [removes EXCEPT ![c] = FALSE]
    BY <1>5 DEF Clone, Waits, tables
  <2>2. \A d \in Clients : ~Removing(d, v)
    BY <1>5 DEF Clone, Removing, RemovesKnown, Known
  <2>. QED BY <1>2, <2>1, <2>2 DEF Removing, Creating, Creates
<1>6. ASSUME NEW c \in Clients, Make(c) PROVE G
  BY <1>2, <1>6 DEF Make, Goes, Removing, Creating, Creates, tables
<1>7. ASSUME NEW c \in Clients, Insert(c) PROVE G
  <2>1. UNCHANGED dirs /\ rows' = [rows EXCEPT ![about[c]] = want[c]] /\ at[c] = "insert"
        /\ at' = [at EXCEPT ![c] = "idle"]
        /\ about' = [about EXCEPT ![c] = None] /\ removes' = [removes EXCEPT ![c] = FALSE]
    BY <1>7 DEF Insert, Over, Waits
  <2>2. about[c] = p => \A d \in Clients : at[d] = "remove" => about[d] # p
    BY <1>2, <2>1 DEF Removing, Creating, Creates
  <2>. QED BY <1>2, <2>1, <2>2 DEF Removing, Creating, Creates
<1>8. ASSUME NEW c \in Clients, SubmitDialog(c) PROVE G
  <2>1. UNCHANGED dirs /\ rows' = [rows EXCEPT ![about[c]] = want[c]] /\ rows[about[c]] # NoRow
        /\ at' = [at EXCEPT ![c] = "idle"]
        /\ about' = [about EXCEPT ![c] = None] /\ removes' = [removes EXCEPT ![c] = FALSE]
    BY <1>8 DEF SubmitDialog, Over, Waits
  <2>. QED BY <1>2, <2>1 DEF Removing, Creating, Creates
<1>9. ASSUME NEW c \in Clients, LookupStorage(c) PROVE G
  BY <1>2, <1>9 DEF LookupStorage, Waits, Removing, Creating, Creates, tables
<1>10. ASSUME NEW c \in Clients, Erase(c) \/ EraseLost(c) PROVE G
  <2>1. UNCHANGED dirs /\ rows' = [rows EXCEPT ![about[c]] = NoRow]
    BY <1>10 DEF Erase, EraseLost
  <2>2. \/ /\ at' = [at EXCEPT ![c] = "remove"]
           /\ UNCHANGED <<about, removes>>
        \/ /\ at' = [at EXCEPT ![c] = "idle"]
           /\ about' = [about EXCEPT ![c] = None] /\ removes' = [removes EXCEPT ![c] = FALSE]
    BY <1>10 DEF Erase, EraseLost, Goes, Over, Waits
  <2>. QED BY <1>2, <2>1, <2>2 DEF Removing, Creating, Creates
<1>11. ASSUME NEW c \in Clients, Remove(c) PROVE G
  <2>1. UNCHANGED rows /\ dirs' = dirs \ {DirOf[about[c]]} /\ at[c] = "remove" /\ removes[c]
        /\ about[c] \in Profiles
        /\ at' = [at EXCEPT ![c] = "idle"]
        /\ about' = [about EXCEPT ![c] = None] /\ removes' = [removes EXCEPT ![c] = FALSE]
    BY <1>11 DEF Remove, Over, Waits, tables, SiteDeletes
  <2>2. CASE about[c] = p
    BY <1>2, <2>1, <2>2 DEF Removing, Creating, Creates
  <2>3. CASE about[c] # p
    <3>1. DirOf[p] \in dirs => DirOf[p] \in dirs'
      BY <2>1, <2>3 DEF Alone
    <3>. QED BY <1>2, <2>1, <3>1 DEF Removing, Creating, Creates
  <2>. QED BY <2>2, <2>3
<1>12. ASSUME Changes PROVE G
  <2>1. UNCHANGED <<dirs, at, about, removes>>
    BY <1>12 DEF Changes, CreateJob, Update, CreateGroup, DeleteGroup, CreateSite, tasks
  <2>2. rows'[p] = NoRow <=> rows[p] = NoRow
    BY <1>12 DEF Changes, CreateJob, Update, CreateGroup, DeleteGroup, CreateSite
  <2>. QED BY <1>2, <2>1, <2>2 DEF Removing, Creating
<1>13. ASSUME NEW c \in Clients, Lookup(c) PROVE G
  BY <1>2, <1>13 DEF Lookup, Goes, Over, Waits, tables, Removing, Creating, Creates
<1>14. ASSUME NEW c \in Clients, NEW place \in {"idle", "clone", "edit", "site", "erase_site"},
              UNCHANGED <<rows, dirs>>, at' = [at EXCEPT ![c] = place],
              \/ UNCHANGED <<about, removes>>
              \/ /\ removes' = [removes EXCEPT ![c] = FALSE]
                 /\ \E x : about' = [about EXCEPT ![c] = x]
       PROVE  G
  BY <1>2, <1>14 DEF Removing, Creating, Creates
<1>15. ASSUME NEW c \in Clients,
              \/ \E q \in Known : AskClone(c, q)
              \/ \E q \in Profiles, r \in Wanted : OpenDialog(c, q, r)
              \/ \E s \in Sites : AskDeleteSite(c, s)
              \/ LookupSite(c) \/ EraseSite(c) \/ Fails(c)
       PROVE  G
  <2>1. \E place \in {"idle", "clone", "edit", "site", "erase_site"} :
           /\ UNCHANGED <<rows, dirs>> /\ at' = [at EXCEPT ![c] = place]
           /\ \/ UNCHANGED <<about, removes>>
              \/ /\ removes' = [removes EXCEPT ![c] = FALSE]
                 /\ \E x : about' = [about EXCEPT ![c] = x]
    BY <1>15 DEF AskClone, OpenDialog, AskDeleteSite, LookupSite, EraseSite, Fails, tables, Waits, Over, Goes
  <2>. QED BY <1>14, <2>1
<1>16. ASSUME Restart PROVE G
  BY <1>2, <1>16 DEF Restart, tables, Removing, Creating, Creates
<1>17. ASSUME UNCHANGED vars PROVE G
  BY <1>2, <1>17 DEF vars, tasks, Removing, Creating
<1>. HIDE DEF G, TypeOK, Profiles
<1>18. G
  <2>1. ASSUME NEW c \in Clients, Asks(c) PROVE G
    <3>1. CASE \E q \in Profiles, r \in Wanted : AskCreate(c, q, r)
      BY <1>3, <3>1
    <3>2. ASSUME NEW q \in Known, AskDelete(c, q, TRUE) \/ AskDelete(c, q, FALSE) PROVE G
      BY <1>4, <3>2
    <3>3. CASE \/ \E q \in Known : AskClone(c, q)
               \/ \E t \in Sites : AskDeleteSite(c, t)
               \/ \E q \in Profiles, r \in Wanted : OpenDialog(c, q, r)
      BY <1>15, <3>3
    <3>. QED BY <2>1, <3>1, <3>2, <3>3 DEF Asks
  <2>2. ASSUME NEW c \in Clients, Continues(c) PROVE G
    BY <1>5, <1>6, <1>7, <1>8, <1>9, <1>10, <1>11, <1>13, <1>15, <2>2 DEF Continues
  <2>3. CASE Next
    BY <1>12, <1>16, <2>1, <2>2, <2>3 DEF Next
  <2>. QED BY <1>17, <2>3
<1>. QED BY <1>18 DEF G

-------------------------------------------------------------------------------

Inv == TypeOK /\ RemovesKnown /\ SitesChecked

LEMMA InvAlways == Spec => []Inv
<1>1. Init => Inv
  BY TypeInit, CatalogAssumption
     DEF Init, Inv, RemovesKnown, SitesChecked
<1>2. Inv /\ [Next]_vars => Inv'
  BY TypeStep, RemovesKnownStep, SitesStep DEF Inv
<1>. QED BY <1>1, <1>2, PTL DEF Spec

(* For any profiles, groups, sites and requests: rows, references and      *)
(* requests keep their types, and storage is removed by deletions only.    *)
THEOREM TypeCorrect == Spec => []TypeOK
BY InvAlways, PTL DEF Inv

(* Whatever rows the schema inserts and whoever creates sites: a deletion  *)
(* takes the row of a site with an adapter module only if the row was not  *)
(* there when it looked (delete_site).  Nothing else deletes a site.       *)
THEOREM CodeSitesKeptCorrect == Spec => CodeSitesKept
<1>. DEFINE Kept == \A s \in CodeSites : s \in sites /\ s \notin sites'
                       => \E c \in late : at[c] = "erase_site" /\ about[c] = s
<1>1. ASSUME Inv, [Next]_vars PROVE [Kept]_vars
  <2>. USE DEF Inv, TypeOK, SitesChecked
  <2>1. ASSUME NEW c \in Clients, EraseSite(c) PROVE Kept
    BY <1>1, <2>1 DEF EraseSite
  <2>2. ASSUME sites \subseteq sites' PROVE Kept
    BY <2>2
  <2>. HIDE DEF Kept
  <2>3. sites \subseteq sites' \/ \E c \in Clients : EraseSite(c)
    BY <1>1 DEF Next, Asks, Continues, AskCreate, OpenDialog, AskClone, AskDelete, AskDeleteSite, Clone,
       Lookup, Make, Insert, SubmitDialog, LookupStorage, Erase, EraseLost, Remove, LookupSite, Fails,
       Changes, CreateJob, Update, CreateGroup, DeleteGroup, CreateSite, Restart, vars, tables
  <2>. QED BY <2>1, <2>2, <2>3
<1>2. Spec => [][Kept]_vars
  BY <1>1, InvAlways, PTL DEF Spec
<1>. QED BY <1>2 DEF CodeSitesKept

(* Only the insertion of a creation or a clone makes a row: an edit writes *)
(* a row that is there.                                                    *)
THEOREM NoResurrectionCorrect == Spec => NoResurrection
<1>. DEFINE Made == \A p \in Profiles : rows[p] = NoRow /\ rows'[p] # NoRow
                       => \E c \in Clients : at[c] = "insert" /\ about[c] = p
<1>1. ASSUME Inv, [Next]_vars PROVE [Made]_vars
  <2>. USE DEF Inv, TypeOK
  <2>1. ASSUME NEW c \in Clients, Insert(c) PROVE Made
    BY <1>1, <2>1 DEF Insert
  <2>2. ASSUME NEW c \in Clients, SubmitDialog(c) \/ Erase(c) \/ EraseLost(c) PROVE Made
    BY <1>1, <2>2 DEF SubmitDialog, Erase, EraseLost
  <2>3. ASSUME Changes PROVE Made
    BY <1>1, <2>3 DEF Changes, CreateJob, Update, CreateGroup, DeleteGroup, CreateSite
  <2>4. ASSUME UNCHANGED rows PROVE Made
    BY <2>4
  <2>. HIDE DEF Made
  <2>5. \/ UNCHANGED rows \/ Changes
        \/ \E c \in Clients : Insert(c) \/ SubmitDialog(c) \/ Erase(c) \/ EraseLost(c)
    BY <1>1 DEF Next, Asks, Continues, AskCreate, OpenDialog, AskClone, AskDelete, AskDeleteSite, Clone,
       Lookup, Make, LookupStorage, Remove, LookupSite, EraseSite, Fails, Restart, vars, tables
  <2>. QED BY <2>1, <2>2, <2>3, <2>4, <2>5
<1>2. Spec => [][Made]_vars
  BY <1>1, InvAlways, PTL DEF Spec
<1>. QED BY <1>2 DEF NoResurrection

OwnStorageKept == \A p \in Alone : rows[p] # NoRow => DirOf[p] \in dirs \/ p \in raced

(* For any mapping of ids to directories, every profile that was not       *)
(* created and removed at the same time has its storage directory, unless  *)
(* its id shares the directory with another one, as "a:b" and "a_b" do:    *)
(* nothing else can take it, no failure, restart or deletion of others     *)
(* (_path_safe_profile_id, delete_profile).                                *)
THEOREM OwnStorageKeptCorrect == Spec => []OwnStorageKept
<1>1. Init => StorageFirst
  BY CatalogAssumption DEF Init, StorageFirst, Alone, Removing, Creating, Creates
<1>2. Inv /\ StorageFirst /\ [Next]_vars => StorageFirst'
  BY StorageStep DEF Inv
<1>3. StorageFirst => OwnStorageKept
  BY DEF StorageFirst, OwnStorageKept
<1>. QED BY <1>1, <1>2, <1>3, InvAlways, PTL DEF Spec

(* Every profile has its storage directory, if no two ids are mapped to    *)
(* one directory, for any number of requests, failures and restarts.       *)
THEOREM RowHasStorageCorrect ==
    ASSUME DirsApart
    PROVE  Spec => []RowHasStorage
<1>1. OwnStorageKept => RowHasStorage
  BY DEF OwnStorageKept, DirsApart, Alone, RowHasStorage
<1>. QED BY <1>1, OwnStorageKeptCorrect, PTL

===============================================================================
