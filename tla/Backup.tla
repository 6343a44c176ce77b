--------------------------------- MODULE Backup ---------------------------------
(***************************************************************************)
(* BackupService: the export reads the tables one after the other, each in *)
(* its own transaction, while the routes edit them; the restore matches    *)
(* rows by their names, in one transaction; the import of a zone is the    *)
(* restore of a file without zones.                                        *)
(*                                                                         *)
(* Abstracted: the reads of one section, one per row, are one step; the    *)
(* restore, one transaction, is one step; two records of a name with the   *)
(* same value are one.                                                     *)
(***************************************************************************)
EXTENDS Catalog, Sequences

VARIABLES
    reading,     \* the section the export reads next, "idle" or "ready"
    backup,   \* the backup; the section of each name is a table without ids
    saved,  \* the tables the export began with; NoName: edited before it ended
    lost,   \* the installation was set up anew after the export
    outcome  \* how the last restore or import ended

backupVars == <<tables, db, edits, reading, backup, saved, lost, outcome>>

Sections == <<"roles", "groups", "providers", "views", "zones", "repos", "settings",
              "permissions", "users", "idps", "attachments", "records", "variables", "ready">>

NoFile == [kind |-> "none"]

EmptyFile ==
    [kind |-> "system", settings |-> <<>>, roles |-> <<>>, groups |-> <<>>, users |-> <<>>,
     idps |-> <<>>, providers |-> <<>>, repos |-> <<>>, views |-> <<>>, zones |-> {},
     records |-> {}, vars |-> {}]

BackupInit ==
    /\ CatalogInit
    /\ reading = "idle" /\ backup = NoFile /\ saved = NoName /\ lost = FALSE /\ outcome = "none"

-----------------------------------------------------------------------------
(* The export *)

\* The name a row refers to, if the list read before knew it: NoName is "".
NameIn(name, table) == IF name \in DOMAIN table THEN name ELSE NoName

ReadRoles(f) == [f EXCEPT !.roles = [o \in DOMAIN db.roles |-> NoName]]

ReadGroups(f) == [f EXCEPT !.groups = [g \in DOMAIN db.groups |-> NameIn(db.groups[g], f.roles)]]

ReadProviders(f) == [f EXCEPT !.providers = db.providers]

ReadViews(f) == [f EXCEPT !.views = [v \in DOMAIN db.views |-> {}]]

\* The zone of a file
Listed(z) == [id |-> z, name |-> db.zones[z].name, view |-> db.zones[z].view,
              repo |-> db.zones[z].repo]

\* The repository is looked up when the repositories are known.
ReadZones(f) ==
    [f EXCEPT !.zones = {[Listed(z) EXCEPT !.view = NameIn(@, f.views)] : z \in DOMAIN db.zones}]

ReadRepos(f) ==
    [f EXCEPT !.repos = db.repos,
              !.zones = {[z EXCEPT !.repo = NameIn(@, db.repos)] : z \in @}]

ReadSettings(f) == [f EXCEPT !.settings = db.settings]

\* getPermissions of the roles of the list; a role deleted since has none.
ReadPermissions(f) ==
    [f EXCEPT !.roles = [o \in DOMAIN @ |-> IF o \in DOMAIN db.roles THEN db.roles[o] ELSE NoName]]

ReadUsers(f) == [f EXCEPT !.users = db.users]

ReadIdps(f) == [f EXCEPT !.idps = [i \in DOMAIN db.idps |-> NameIn(db.idps[i], f.groups)]]

\* findWithProviders; a provider the list did not have is left out.
ReadAttachments(f) ==
    [f EXCEPT !.views = [v \in DOMAIN @ |->
       IF v \in DOMAIN db.views THEN db.views[v] \cap DOMAIN f.providers ELSE {}]]

\* listByZoneId, without the records marked for deletion
Exported == db.live

\* The file names the zone of a record, not its view.
ReadRecords(f) ==
    [f EXCEPT !.records = UNION {{[zone |-> z.name, name |-> r[2], value |-> r[3], id |-> z.id] :
                                    r \in {r \in Exported : r[1] = z.id}} : z \in f.zones}]

\* A variable of a zone the list did not have is left without zone_name.
VariablesOf(keys, zones) ==
    {[name |-> k[1], value |-> db.vars[k], scope |-> IF k[2] = NoName THEN "global" ELSE "zone",
      zone |-> {z.name : z \in {y \in zones : y.id = k[2]}}] : k \in keys}

ReadVariables(f) == [f EXCEPT !.vars = VariablesOf(DOMAIN db.vars, f.zones)]

ReadSection(s, f) ==
    CASE s = "roles"       -> ReadRoles(f)
      [] s = "groups"      -> ReadGroups(f)
      [] s = "providers"   -> ReadProviders(f)
      [] s = "views"       -> ReadViews(f)
      [] s = "zones"       -> ReadZones(f)
      [] s = "repos"       -> ReadRepos(f)
      [] s = "settings"    -> ReadSettings(f)
      [] s = "permissions" -> ReadPermissions(f)
      [] s = "users"       -> ReadUsers(f)
      [] s = "idps"        -> ReadIdps(f)
      [] s = "attachments" -> ReadAttachments(f)
      [] s = "records"     -> ReadRecords(f)
      [] s = "variables"   -> ReadVariables(f)

\* exportSystem: by the route, by the push to the repository or by the task.
BeginExport ==
    /\ reading \in {"idle", "ready"}
    /\ reading' = Sections[1] /\ backup' = EmptyFile /\ saved' = db /\ outcome' = "none"
    /\ UNCHANGED <<catalogVars, lost>>

ExportSection ==
    /\ \E i \in 1..(Len(Sections) - 1) :
         /\ reading = Sections[i] /\ reading' = Sections[i + 1]
         /\ backup' = ReadSection(reading, backup)
    /\ UNCHANGED <<catalogVars, saved, lost, outcome>>

\* exportZone: the variables are those of the zone and the global ones.
ExportZone ==
    /\ reading = "idle"
    /\ \E z \in DOMAIN db.zones :
         LET row == Listed(z) IN
         backup' = [EmptyFile EXCEPT
           !.kind = "zone",
           !.records = {[zone |-> row.name, name |-> r[2], value |-> r[3], id |-> z] :
                          r \in {r \in Exported : r[1] = z}},
           !.vars = VariablesOf({k \in DOMAIN db.vars : k[2] \in {NoName, z}}, {row})]
    /\ reading' = "ready" /\ saved' = db /\ outcome' = "none"
    /\ UNCHANGED <<catalogVars, lost>>

-----------------------------------------------------------------------------
(* The restore: the tables after each section, names of the file resolved *)

\* UPDATE by name, or INSERT: the rows the file names, and the others as they are.
Upserted(items, table) ==
    [n \in DOMAIN items \cup DOMAIN table |-> IF n \in DOMAIN items THEN items[n] ELSE table[n]]

RestoreSettings(d, f) == [d EXCEPT !.settings = Upserted(f.settings, @)]

\* A role the list had and getPermissions no longer has no permissions.
RestoreRoles(d, f) == [d EXCEPT !.roles = Upserted(f.roles, @)]

\* The role of the file, or of the database; an unknown one is refused there.
RoleOf(o, d, f) == IF o \in DOMAIN f.roles \cup DOMAIN d.roles THEN o ELSE NoName

RestoreGroups(d, f) ==
    [d EXCEPT !.groups = Upserted([g \in DOMAIN f.groups |-> RoleOf(f.groups[g], d, f)], @)]

\* The memberships become those of the file, in the groups of the file.
Memberships(u, f) == f.users[u] \cap DOMAIN f.groups

RestoreUsers(d, f) ==
    [d EXCEPT !.users = Upserted([u \in DOMAIN f.users |-> Memberships(u, f)], @)]

\* An UPDATE leaves the credentials alone, an INSERT has none.
RestoreHosts(d, f) ==
    [d EXCEPT !.providers = Upserted(f.providers, @), !.repos = Upserted(f.repos, @)]

RestoreIdps(d, f) ==
    [d EXCEPT !.idps = Upserted([i \in DOMAIN f.idps |->
       IF f.idps[i] \in DOMAIN f.groups \cup DOMAIN d.groups THEN f.idps[i] ELSE NoName], @)]

\* The attachments become those of the file, to the providers of the file.
RestoreViews(d, f) ==
    [d EXCEPT !.views = Upserted([v \in DOMAIN f.views |-> f.views[v] \cap DOMAIN f.providers], @)]

\* Mutant of SameZone: whatever its view
SameZoneName(row, z) == row.name = z.name

\* The row of the zones the zone z of the file is: that of its name and view
SameZone(row, z) == row.name = z.name /\ row.view = z.view

IdOf(d, z) == CHOOSE i \in DOMAIN d.zones : SameZone(d.zones[i], z)

IsNew(d, z) == \A i \in DOMAIN d.zones : ~ SameZone(d.zones[i], z)

\* Where each zone of the file goes: to its row, or to the next free one.
Targets(d, f) ==
    LET new == {z \in f.zones : IsNew(d, z)} IN
    [z \in f.zones |-> IF z \in new THEN d.last + Cardinality({y \in new : y.id =< z.id})
                       ELSE IdOf(d, z)]

RestoreZones(d, f, to) ==
    [d EXCEPT
       !.last = @ + Cardinality({z \in f.zones : IsNew(d, z)}),
       !.zones = Upserted([i \in {to[z] : z \in f.zones} |->
                   LET z == CHOOSE y \in f.zones : to[y] = i IN
                   [name |-> z.name, view |-> z.view,
                    repo |-> IF z.repo \in DOMAIN f.repos THEN z.repo ELSE NoName]], @)]

\* mRestoreZoneIds: of zones of one name the last of the file, which is in the
\* order of the ids.
ZonesNamed(f, n) == {z \in f.zones : z.name = n}

Landing(f, to) ==
    [n \in {z.name : z \in f.zones} |->
       to[CHOOSE z \in ZonesNamed(f, n) : \A y \in ZonesNamed(f, n) : y.id =< z.id]]

\* The rows of one zone, name and type after the records of the file: the first
\* row found is updated each time, or one is inserted and then updated.
Overwritten(rows, new) ==
    IF rows = {} THEN {{v} : v \in new}
    ELSE UNION {{(rows \ s) \cup {g[v] : v \in s} :
                   g \in {g \in [s -> new] : \A v, w \in s : g[v] = g[w] => v = w}} :
                s \in (SUBSET rows) \ {{}}}

\* The live records the restore may leave
RestoreRecords(d, f, landing) ==
    LET spot(r) == <<landing[r.zone], r.name>>
        rows == {r \in f.records : r.zone \in DOMAIN landing}
        keys == {spot(r) : r \in rows}
        had(k) == {r[3] : r \in {s \in d.live : <<s[1], s[2]>> = k}}
        new(k) == {r.value : r \in {s \in rows : spot(s) = k}}
        ways == {w \in [keys -> SUBSET Values] : \A k \in keys : w[k] \in Overwritten(had(k), new(k))}
        rest == {r \in d.live : <<r[1], r[2]>> \notin keys}
    IN {rest \cup UNION {{<<k[1], k[2], v>> : v \in w[k]} : k \in keys} : w \in ways}

\* A variable whose zone is not restored is looked for among the global ones.
Slot(x, landing) ==
    <<x.name, IF x.zone \subseteq DOMAIN landing /\ x.zone # {}
              THEN landing[CHOOSE n \in x.zone : TRUE] ELSE NoName>>

\* The global variables come first in the file: one of a zone overwrites.
RestoreVars(d, f, landing) ==
    LET slots == {Slot(x, landing) : x \in f.vars}
        for(k) == {x \in f.vars : Slot(x, landing) = k}
        last(k) == IF \E x \in for(k) : x.scope = "zone"
                   THEN {x \in for(k) : x.scope = "zone"} ELSE for(k)
        ways == {w \in [slots -> Values] : \A k \in slots : \E x \in last(k) : w[k] = x.value}
    IN {Upserted(w, d.vars) : w \in ways}

\* What a transaction must not leave: a reference to nothing, a variable of a zone
\* among the global ones.
Refused(d, f, landing) ==
    \/ \E g \in DOMAIN f.groups : RoleOf(f.groups[g], d, f) = NoName
    \/ \E z \in f.zones : z.view \notin DOMAIN f.views \cup DOMAIN d.views
    \/ \E x \in f.vars :
         /\ x.scope = "zone" /\ Slot(x, landing)[2] = NoName
         /\ <<x.name, NoName>> \notin DOMAIN d.vars
         /\ \A y \in f.vars : y.name = x.name => y.scope = "zone"

\* applyRestore's tables but for the records and the variables
Restored(d, f, to) ==
    RestoreZones(RestoreViews(RestoreIdps(RestoreHosts(RestoreUsers(RestoreGroups(
      RestoreRoles(RestoreSettings(d, f), f), f), f), f), f), f), f, to)

\* POST restore with apply, of a file or of the repository; POST import of a zone
ApplyRestore ==
    /\ reading = "ready"
    /\ LET to == Targets(db, backup)
           landing == Landing(backup, to)
       IN IF Refused(db, backup, landing)
          THEN outcome' = "failed" /\ UNCHANGED db
          ELSE /\ \E rows \in RestoreRecords(db, backup, landing),
                    vars \in RestoreVars(db, backup, landing) :
                   db' = [Restored(db, backup, to) EXCEPT !.live = rows, !.vars = vars]
               /\ outcome' = "applied"
    /\ UNCHANGED <<tables, edits, reading, backup, saved, lost>>

-----------------------------------------------------------------------------
(* The preview: what would be created, section by section *)

\* Mutant of KnownRecord: a record is looked for by its name alone.
KnownAnywhere(d, r) == \E s \in d.live : s[2] = r.name

\* The key of the preview: the name of the zone, whatever its view
KnownRecord(d, r) == \E s \in d.live : d.zones[s[1]].name = r.zone /\ s[2] = r.name

KnownVar(d, x) ==
    \E k \in DOMAIN d.vars :
      /\ k[1] = x.name
      /\ IF k[2] = NoName THEN x.scope = "global" ELSE x.zone = {d.zones[k[2]].name}

NewIn(items, table) == DOMAIN items \ DOMAIN table

PreviewRestore(d, f) ==
    [accounts |-> <<NewIn(f.roles, d.roles), NewIn(f.groups, d.groups), NewIn(f.users, d.users),
                    NewIn(f.idps, d.idps)>>,
     hosts    |-> <<NewIn(f.settings, d.settings), NewIn(f.repos, d.repos),
                    NewIn(f.providers, d.providers), NewIn(f.views, d.views)>>,
     zones    |-> {z.name : z \in f.zones} \ {d.zones[i].name : i \in DOMAIN d.zones},
     records  |-> {r \in f.records : ~ KnownRecord(d, r)},
     vars     |-> {x \in f.vars : ~ KnownVar(d, x)}]

\* What the restore inserts
Inserted(d, f) ==
    LET to == Targets(d, f)
        landing == Landing(f, to)
    IN [accounts |-> <<NewIn(f.roles, d.roles), NewIn(f.groups, d.groups), NewIn(f.users, d.users),
                       NewIn(f.idps, d.idps)>>,
        hosts    |-> <<NewIn(f.settings, d.settings), NewIn(f.repos, d.repos),
                       NewIn(f.providers, d.providers), NewIn(f.views, d.views)>>,
        zones    |-> {z.name : z \in {y \in f.zones : IsNew(d, y)}},
        records  |-> {r \in f.records : /\ r.zone \in DOMAIN landing
                                        /\ \A s \in d.live : <<s[1], s[2]>> # <<landing[r.zone], r.name>>},
        vars     |-> {x \in f.vars : Slot(x, landing) \notin DOMAIN d.vars}]

-----------------------------------------------------------------------------
(* The environment *)

EditTables ==
    /\ CatalogEdit
    /\ saved' = IF reading \in {"idle", "ready"} THEN saved ELSE NoName
    /\ outcome' = "none"
    /\ UNCHANGED <<reading, backup, lost>>

\* The machine is lost; a new installation is set up to restore the file into.
SetUpAnew ==
    /\ reading = "ready" /\ ~ lost
    /\ lost' = TRUE /\ db' = NewInstallation /\ outcome' = "none"
    /\ UNCHANGED <<tables, edits, reading, backup, saved>>

BackupNext ==
    \/ BeginExport \/ ExportSection \/ ExportZone
    \/ ApplyRestore \/ EditTables \/ SetUpAnew

BackupSpec == BackupInit /\ [][BackupNext]_backupVars

-----------------------------------------------------------------------------
(* Properties *)

\* The tables hold what the schema allows, whatever edits and restores there were:
\* no reference to a row that is not there.
BackupTypeOK ==
    /\ CatalogTypeOK
    /\ reading \in {"idle"} \cup {Sections[i] : i \in 1..Len(Sections)}
    /\ lost \in BOOLEAN
    /\ outcome \in {"none", "applied", "failed"}

Applies == reading = "ready" /\ reading' = "ready" /\ UNCHANGED <<edits, lost>>

ZoneRow(d, i) == <<d.zones[i].name, d.zones[i].view>>
RecordsOf(d)  == {<<ZoneRow(d, r[1]), r[2], r[3]>> : r \in d.live}
VarsOf(d)     == {<<k[1], IF k[2] = NoName THEN NoName ELSE ZoneRow(d, k[2]), d.vars[k]>> : k \in DOMAIN d.vars}
ZonesOf(d)    == {d.zones[i] : i \in DOMAIN d.zones}

\* One zone of a name, one record of a name and type in it
Plain(d) ==
    /\ \A i, j \in DOMAIN d.zones : d.zones[i].name = d.zones[j].name => i = j
    /\ \A r, s \in d.live : r[1] = s[1] /\ r[2] = s[2] => r = s

Includes(t, s) == \A n \in DOMAIN s : n \in DOMAIN t /\ t[n] = s[n]

\* exportSystem, applyRestore: a file written while nobody edited restores, on the
\* same system after any edits or on a new one, every row the tables had; on the new
\* one there are no other zones, records and variables.
RestoreBrings ==
    [][ Applies /\ saved # NoName /\ backup.kind = "system" /\ Plain(saved) =>
          /\ outcome' = "applied"
          /\ \A t \in {"settings", "roles", "groups", "users", "idps", "providers",
                        "repos", "views"} : Includes(db'[t], saved[t])
          /\ ZonesOf(saved) \subseteq ZonesOf(db')
          /\ RecordsOf(saved) \subseteq RecordsOf(db')
          /\ VarsOf(saved) \subseteq VarsOf(db')
          /\ db = NewInstallation => /\ ZonesOf(db') = ZonesOf(saved)
                                     /\ RecordsOf(db') = RecordsOf(saved)
                                     /\ VarsOf(db') = VarsOf(saved)
      ]_backupVars

\* applyRestore matches rows by name and view: what the file does not name is left as
\* it is, and no row that was there loses its credentials or gets any.
NothingElseTouched ==
    [][ Applies /\ saved # NoName /\ backup.kind = "system" =>
          LET named == {<<z.name, z.view>> : z \in backup.zones}
              zones == {i \in DOMAIN db.zones : ZoneRow(db, i) \notin named}
          IN /\ \A t \in {"settings", "roles", "groups", "users", "idps", "providers",
                           "repos", "views"} :
                  Includes(db'[t], Less(db[t], DOMAIN saved[t]))
             /\ \A i \in zones : db'.zones[i] = db.zones[i]
             /\ {r \in db'.live : r[1] \in zones} = {r \in db.live : r[1] \in zones}
             /\ db'.marked = db.marked
             /\ db'.secrets = db.secrets
      ]_backupVars

\* What a restore does: all that is in the file, and nothing but that.
RestoreKeepsToFile == RestoreBrings /\ NothingElseTouched

\* previewRestore announces the rows applyRestore inserts, as long as no zone of the
\* file is there in another view.
PreviewTells ==
    ( /\ reading = "ready" /\ saved # NoName /\ backup.kind = "system" /\ Plain(saved) /\ Plain(db)
      /\ \A i \in DOMAIN db.zones, z \in backup.zones :
            db.zones[i].name = z.name => db.zones[i].view = z.view )
    => PreviewRestore(db, backup) = Inserted(db, backup)

\* The tables keep their references through every edit and restore, and what a preview
\* says of a restore is what the restore would do.
BackupInv == BackupTypeOK /\ PreviewTells
=============================================================================
