-------------------------------- MODULE Catalog --------------------------------
(***************************************************************************)
(* The configuration tables, and the operations of the routes that change  *)
(* one row of them.  A name stands for the row that bears it (the names of a   *)
(* table are unique), except for zones, which move between names and       *)
(* views; the columns of a row are one value.                              *)
(***************************************************************************)
EXTENDS Integers, FiniteSets

CONSTANTS
    NoName,
    SettingKeys, RoleNames, GroupNames, UserNames, IdpNames, ProviderNames, RepoNames, ViewNames,
    ZoneNames, RecordNames, VarNames, Values,
    MaxEdits  \* bound on the edits of a behaviour

ASSUME CatalogAssumption ==
    /\ MaxEdits \in Nat /\ 1 \in Values /\ 2 \in Values /\ NoName \notin Nat \cup RoleNames
    /\ \A names \in {RoleNames, GroupNames, UserNames, IdpNames, ProviderNames, RepoNames,
                     ViewNames, ZoneNames, RecordNames, VarNames} : names # {}

VARIABLES
    tables,  \* the tables this instance edits
    db,      \* the tables
    edits    \* how many edits there were

catalogVars == <<tables, db, edits>>

-----------------------------------------------------------------------------
\* A table: a function from the names it holds.
Table(names, rows) == UNION {[s -> rows] : s \in SUBSET names}

Only(name, row)       == [n \in {name} |-> row]
Put(table, name, row) == [n \in DOMAIN table \cup {name} |-> IF n = name THEN row ELSE table[n]]

Less(table, names) == [n \in DOMAIN table \ names |-> table[n]]

\* What has credentials of its own
Bearers == ({"user"} \X UserNames) \cup ({"provider"} \X ProviderNames)
             \cup ({"repo"} \X RepoNames) \cup ({"idp"} \X IdpNames)

CatalogTypeOK ==
    /\ tables \in {"accounts", "hosts", "zones"}
    /\ edits \in 0..MaxEdits
    /\ db.settings \in Table(SettingKeys, Values)
    /\ db.roles \in Table(RoleNames, Values \cup {NoName})  \* NoName: no permissions
    /\ db.groups \in Table(GroupNames, DOMAIN db.roles)
    /\ db.users \in Table(UserNames, SUBSET DOMAIN db.groups)
    /\ db.idps \in Table(IdpNames, DOMAIN db.groups \cup {NoName})
    /\ db.providers \in Table(ProviderNames, Values)
    /\ db.repos \in Table(RepoNames, Values)
    /\ db.views \in Table(ViewNames, SUBSET DOMAIN db.providers)
    /\ db.zones \in Table(1..db.last, [name : ZoneNames, view : DOMAIN db.views,
                                       repo : DOMAIN db.repos \cup {NoName}])
    /\ db.live \cup db.marked \subseteq (DOMAIN db.zones) \X RecordNames \X Values
    /\ \A k \in DOMAIN db.vars :
         /\ k[1] \in VarNames /\ db.vars[k] \in Values
         /\ k[2] \in DOMAIN db.zones \cup {NoName}
    /\ db.secrets \subseteq Bearers

-----------------------------------------------------------------------------
\* The rows the schema and the setup bring: the system roles, nothing else here.
NewInstallation ==
    LET o == CHOOSE o \in RoleNames : TRUE IN
    [settings |-> [k \in SettingKeys |-> 2], roles |-> Only(o, 1), groups |-> <<>>, users |-> <<>>,
     idps |-> <<>>, providers |-> <<>>, repos |-> <<>>, views |-> <<>>, zones |-> <<>>,
     last |-> 0, live |-> {}, marked |-> {}, vars |-> <<>>, secrets |-> {}]

\* An installation in use: one row of everything
InstalledBefore ==
    LET any(S) == CHOOSE x \in S : TRUE
        o == any(RoleNames)  g == any(GroupNames)  u == any(UserNames)  i == any(IdpNames)
        p == any(ProviderNames)  q == any(RepoNames)  v == any(ViewNames)  x == any(VarNames)
    IN [settings |-> [k \in SettingKeys |-> 1], roles |-> Only(o, 1), groups |-> Only(g, o),
        users |-> Only(u, {g}), idps |-> Only(i, g), providers |-> Only(p, 1),
        repos |-> Only(q, 1), views |-> Only(v, {p}),
        zones |-> Only(1, [name |-> any(ZoneNames), view |-> v, repo |-> q]),
        last |-> 1, live |-> {<<1, any(RecordNames), 1>>}, marked |-> {},
        vars |-> Put(Only(<<x, NoName>>, 1), <<x, 1>>, 2),
        secrets |-> {<<"user", u>>, <<"provider", p>>, <<"repo", q>>, <<"idp", i>>}]

CatalogInit ==
    /\ tables \in {"accounts", "hosts", "zones"}
    /\ db = InstalledBefore
    /\ edits = 0

-----------------------------------------------------------------------------
Edited(d) ==
    /\ d # db /\ db' = d
    /\ edits < MaxEdits /\ edits' = edits + 1
    /\ UNCHANGED tables

SetRow(t, name, row) == [db EXCEPT ![t] = Put(@, name, row)]

\* A row with credentials is created with them, and deleted with them.
WithSecret(d, kind, name)    == [d EXCEPT !.secrets = @ \cup {<<kind, name>>}]
WithoutSecret(d, kind, name) == [d EXCEPT !.secrets = @ \ {<<kind, name>>}]

-----------------------------------------------------------------------------
(* Settings and accounts *)

PutKey == \E k \in SettingKeys, v \in Values : Edited(SetRow("settings", k, v))

\* POST roles, and PUT permissions of a role there is
PutRoleRow == \E o \in RoleNames, v \in Values : Edited(SetRow("roles", o, v))

DropRole ==
    \E o \in DOMAIN db.roles :
      /\ \A g \in DOMAIN db.groups : db.groups[g] # o
      /\ Edited([db EXCEPT !.roles = Less(@, {o})])

PutGroup == \E g \in GroupNames, o \in DOMAIN db.roles : Edited(SetRow("groups", g, o))

\* The provider's default group and the memberships go with the group.
DropGroup ==
    \E g \in DOMAIN db.groups :
      /\ \A u \in DOMAIN db.users : db.users[u] # {g}
      /\ Edited([db EXCEPT
           !.groups = Less(@, {g}),
           !.users = [u \in DOMAIN @ |-> @[u] \ {g}],
           !.idps = [i \in DOMAIN @ |-> IF @[i] = g THEN NoName ELSE @[i]]])

PutUser ==
    \E u \in UserNames, s \in SUBSET DOMAIN db.groups :
      /\ s # {}
      /\ Edited(WithSecret(SetRow("users", u, s), "user", u))

PutIdpRow ==
    \E i \in IdpNames, g \in DOMAIN db.groups \cup {NoName} :
      Edited(WithSecret(SetRow("idps", i, g), "idp", i))

DropIdpRow ==
    \E i \in DOMAIN db.idps :
      Edited(WithoutSecret([db EXCEPT !.idps = Less(@, {i})], "idp", i))

AccountEdit == PutRoleRow \/ DropRole \/ PutGroup \/ DropGroup \/ PutUser \/ PutIdpRow \/ DropIdpRow

-----------------------------------------------------------------------------
(* Providers, repositories, views *)

CreateProvider ==
    \E p \in ProviderNames \ DOMAIN db.providers, v \in Values :
      Edited(WithSecret(SetRow("providers", p, v), "provider", p))

\* The token is written only when the request has one.
UpdateProvider ==
    \E p \in DOMAIN db.providers, v \in Values :
      LET d == SetRow("providers", p, v) IN
      Edited(d) \/ Edited(WithSecret(d, "provider", p))

DropProvider ==
    \E p \in DOMAIN db.providers :
      Edited(WithoutSecret([db EXCEPT
        !.providers = Less(@, {p}),
        !.views = [v \in DOMAIN @ |-> @[v] \ {p}]], "provider", p))

CreateRepo ==
    \E q \in RepoNames \ DOMAIN db.repos, v \in Values :
      Edited(WithSecret(SetRow("repos", q, v), "repo", q))

UpdateRepo ==
    \E q \in DOMAIN db.repos, v \in Values :
      LET d == SetRow("repos", q, v) IN
      Edited(d) \/ Edited(WithSecret(d, "repo", q))

DropRepo ==
    \E q \in DOMAIN db.repos :
      Edited(WithoutSecret([db EXCEPT
        !.repos = Less(@, {q}),
        !.zones = [z \in DOMAIN @ |-> IF @[z].repo = q THEN [@[z] EXCEPT !.repo = NoName] ELSE @[z]]],
        "repo", q))

CreateView == \E v \in ViewNames \ DOMAIN db.views : Edited(SetRow("views", v, {}))

AttachProvider ==
    \E v \in DOMAIN db.views, p \in DOMAIN db.providers :
      Edited([db EXCEPT !.views[v] = @ \cup {p}])

DetachProvider ==
    \E v \in DOMAIN db.views, p \in DOMAIN db.providers :
      Edited([db EXCEPT !.views[v] = @ \ {p}])

\* A view with zones stays: VIEW_HAS_ZONES.
DropView ==
    \E v \in DOMAIN db.views :
      /\ \A z \in DOMAIN db.zones : db.zones[z].view # v
      /\ Edited([db EXCEPT !.views = Less(@, {v})])

HostEdit ==
    \/ PutKey \/ CreateProvider \/ UpdateProvider \/ DropProvider
    \/ CreateRepo \/ UpdateRepo \/ DropRepo
    \/ AttachProvider \/ DetachProvider

-----------------------------------------------------------------------------
(* Zones, records, variables *)

\* UNIQUE (name, view_id)
FreeZone(name, view) == \A z \in DOMAIN db.zones : db.zones[z].name # name \/ db.zones[z].view # view

NewZone(name, view, repo) ==
    [db EXCEPT !.last = @ + 1,
               !.zones = Put(@, db.last + 1, [name |-> name, view |-> view, repo |-> repo])]

CreateZone ==
    \E n \in ZoneNames, v \in DOMAIN db.views, q \in DOMAIN db.repos \cup {NoName} :
      FreeZone(n, v) /\ Edited(NewZone(n, v, q))

\* PUT zone may give the zone another name, view or repository.
UpdateZone ==
    \E z \in DOMAIN db.zones, n \in ZoneNames, v \in DOMAIN db.views,
       q \in DOMAIN db.repos \cup {NoName} :
      /\ FreeZone(n, v) \/ (db.zones[z].name = n /\ db.zones[z].view = v)
      /\ Edited(SetRow("zones", z, [name |-> n, view |-> v, repo |-> q]))

DropZone ==
    \E z \in DOMAIN db.zones :
      Edited([db EXCEPT
        !.zones = Less(@, {z}),
        !.live = {r \in @ : r[1] # z}, !.marked = {r \in @ : r[1] # z},
        !.vars = Less(@, VarNames \X {z})])

\* The copy has the records that are not marked, no repository and no variables.
CloneZone ==
    \E z \in DOMAIN db.zones, n \in ZoneNames, v \in DOMAIN db.views :
      /\ FreeZone(n, v)
      /\ Edited([NewZone(n, v, NoName) EXCEPT
           !.live = @ \cup {<<db.last + 1, r[2], r[3]>> : r \in {s \in @ : s[1] = z}}])

CreateRecord ==
    \E r \in (DOMAIN db.zones) \X RecordNames \X Values : Edited([db EXCEPT !.live = @ \cup {r}])

UpdateRecord ==
    \E r \in db.live, v \in Values :
      Edited([db EXCEPT !.live = (@ \ {r}) \cup {<<r[1], r[2], v>>}])

DropRecord == \E r \in db.live : Edited([db EXCEPT !.live = @ \ {r}, !.marked = @ \cup {r}])

\* create and update: a name is taken once among the global ones and once in a zone.
PutVariable ==
    \E x \in VarNames, z \in DOMAIN db.zones \cup {NoName}, v \in Values :
      Edited(SetRow("vars", <<x, z>>, v))

DropVariable == \E k \in DOMAIN db.vars : Edited([db EXCEPT !.vars = Less(@, {k})])

ZoneEdit ==
    \/ CreateView \/ DropView
    \/ CreateZone \/ UpdateZone \/ DropZone \/ CloneZone
    \/ CreateRecord \/ UpdateRecord \/ DropRecord \/ PutVariable \/ DropVariable

-----------------------------------------------------------------------------
CatalogEdit ==
    \/ tables = "accounts" /\ AccountEdit
    \/ tables = "hosts" /\ HostEdit
    \/ tables = "zones" /\ ZoneEdit
=============================================================================
