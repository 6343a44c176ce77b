------------------------------ MODULE Backup_proofs ------------------------------
(***************************************************************************)
(* What is proved of Backup: the tables keep their references through      *)
(* every edit, export and restore, a preview announces what the restore    *)
(* inserts, and a file nobody edited the tables under brings back what     *)
(* they had and touches nothing else.                                      *)
(***************************************************************************)
EXTENDS Backup, FiniteSetTheorems, WellFoundedInduction, TLAPS

-----------------------------------------------------------------------------
(* The tables *)

\* A function from some of the names to the rows: what Table has, without the union.
IsTable(t, names, rows) ==
    /\ t = [n \in DOMAIN t |-> t[n]]
    /\ DOMAIN t \subseteq names
    /\ \A n \in DOMAIN t : t[n] \in rows

\* The tables are a record of these.
Shaped(d) ==
    d = [settings |-> d.settings, roles |-> d.roles, groups |-> d.groups, users |-> d.users,
         idps |-> d.idps, providers |-> d.providers, repos |-> d.repos, views |-> d.views,
         zones |-> d.zones, last |-> d.last, live |-> d.live, marked |-> d.marked,
         vars |-> d.vars, secrets |-> d.secrets]

\* The accounts: settings, roles, groups, users and providers of identity
AccountsOK(d) ==
    /\ IsTable(d.settings, SettingKeys, Values)
    /\ IsTable(d.roles, RoleNames, Values \cup {NoName})
    /\ IsTable(d.groups, GroupNames, DOMAIN d.roles)
    /\ IsTable(d.users, UserNames, SUBSET DOMAIN d.groups)
    /\ IsTable(d.idps, IdpNames, DOMAIN d.groups \cup {NoName})

\* Providers, repositories and views
HostsOK(d) ==
    /\ IsTable(d.providers, ProviderNames, Values)
    /\ IsTable(d.repos, RepoNames, Values)
    /\ IsTable(d.views, ViewNames, SUBSET DOMAIN d.providers)

\* The rows of zones that refer to these views and repositories
ZoneOf(views, repos) == [name : ZoneNames, view : views, repo : repos]

\* Zones, records and variables
ZonesOK(d) ==
    /\ d.last \in Nat
    /\ IsTable(d.zones, 1..d.last, ZoneOf(DOMAIN d.views, DOMAIN d.repos \cup {NoName}))
    /\ d.live \subseteq (DOMAIN d.zones) \X RecordNames \X Values
    /\ d.marked \subseteq (DOMAIN d.zones) \X RecordNames \X Values
    /\ IsTable(d.vars, VarNames \X (DOMAIN d.zones \cup {NoName}), Values)

\* The tables are what the schema allows; stated of any of them, also those saved.
TablesOK(d) ==
    Shaped(d) /\ AccountsOK(d) /\ HostsOK(d) /\ ZonesOK(d) /\ d.secrets \subseteq Bearers

\* Table, without the union
LEMMA TableIs ==
    ASSUME NEW t, NEW names, NEW rows
    PROVE  t \in Table(names, rows) <=> IsTable(t, names, rows)
<1>1. ASSUME t \in Table(names, rows)
      PROVE  IsTable(t, names, rows)
  <2>1. PICK s \in SUBSET names : t \in [s -> rows]
      BY <1>1 DEF Table
  <2> QED BY <2>1 DEF IsTable
<1>2. ASSUME IsTable(t, names, rows)
      PROVE  t \in Table(names, rows)
  <2>1. DOMAIN t \in SUBSET names
      BY <1>2 DEF IsTable
  <2>2. t \in [DOMAIN t -> rows]
      BY <1>2 DEF IsTable
  <2> QED BY <2>1, <2>2 DEF Table
<1> QED BY <1>1, <1>2

\* A row that may be there may be put.
LEMMA PutIs ==
    ASSUME NEW t, NEW names, NEW rows, IsTable(t, names, rows), NEW n \in names, NEW row \in rows
    PROVE  IsTable(Put(t, n, row), names, rows) /\ DOMAIN Put(t, n, row) = DOMAIN t \cup {n}
BY DEF IsTable, Put

\* A table without some names is one.
LEMMA LessIs ==
    ASSUME NEW t, NEW names, NEW rows, IsTable(t, names, rows), NEW s
    PROVE  IsTable(Less(t, s), names, rows) /\ DOMAIN Less(t, s) = DOMAIN t \ s
BY DEF IsTable, Less

\* An upsert of rows that may be there leaves a table.
LEMMA UpsertedIs ==
    ASSUME NEW t, NEW items, NEW names, NEW rows, IsTable(t, names, rows), IsTable(items, names, rows)
    PROVE  /\ IsTable(Upserted(items, t), names, rows)
           /\ DOMAIN Upserted(items, t) = DOMAIN items \cup DOMAIN t
BY DEF IsTable, Upserted

\* What a table refers to may grow.
LEMMA WiderTable ==
    ASSUME NEW t, NEW names, NEW rows, IsTable(t, names, rows), NEW more, rows \subseteq more
    PROVE  IsTable(t, names, more)
BY DEF IsTable

\* The type invariant of the tables, field by field
LEMMA TablesType ==
    ASSUME TablesOK(db), tables \in {"accounts", "hosts", "zones"}, edits \in 0..MaxEdits
    PROVE  CatalogTypeOK
<1>1. \A k \in DOMAIN db.vars : /\ k[1] \in VarNames /\ db.vars[k] \in Values
                                /\ k[2] \in DOMAIN db.zones \cup {NoName}
    BY DEF TablesOK, ZonesOK, IsTable
<1>2. db.zones \in Table(1..db.last, [name : ZoneNames, view : DOMAIN db.views,
                                       repo : DOMAIN db.repos \cup {NoName}])
    BY TableIs DEF TablesOK, ZonesOK, ZoneOf
<1>3. db.live \cup db.marked \subseteq (DOMAIN db.zones) \X RecordNames \X Values
    BY DEF TablesOK, ZonesOK
<1>4. /\ db.settings \in Table(SettingKeys, Values)
      /\ db.roles \in Table(RoleNames, Values \cup {NoName})
      /\ db.groups \in Table(GroupNames, DOMAIN db.roles)
      /\ db.users \in Table(UserNames, SUBSET DOMAIN db.groups)
      /\ db.idps \in Table(IdpNames, DOMAIN db.groups \cup {NoName})
    BY TableIs DEF TablesOK, AccountsOK
<1>5. /\ db.providers \in Table(ProviderNames, Values)
      /\ db.repos \in Table(RepoNames, Values)
      /\ db.views \in Table(ViewNames, SUBSET DOMAIN db.providers)
    BY TableIs DEF TablesOK, HostsOK
<1> QED BY <1>1, <1>2, <1>3, <1>4, <1>5 DEF CatalogTypeOK, TablesOK

-----------------------------------------------------------------------------
(* The edits *)

\* All but the named fields are as before.
SameAccounts(d, e) ==
    /\ d.settings = e.settings /\ d.roles = e.roles /\ d.groups = e.groups
    /\ d.users = e.users /\ d.idps = e.idps

SameHosts(d, e) == d.providers = e.providers /\ d.repos = e.repos /\ d.views = e.views

SameZones(d, e) ==
    /\ d.zones = e.zones /\ d.last = e.last
    /\ d.live = e.live /\ d.marked = e.marked /\ d.vars = e.vars

\* What is said of some tables holds of others that are the same there.
LEMMA SameTables ==
    ASSUME NEW d, NEW e, TablesOK(e)
    PROVE  /\ SameAccounts(d, e) => AccountsOK(d)
           /\ SameHosts(d, e) => HostsOK(d)
           /\ SameZones(d, e) /\ SameHosts(d, e) => ZonesOK(d)
<1>1. SameAccounts(d, e) => AccountsOK(d)
    BY DEF SameAccounts, AccountsOK, TablesOK
<1>2. SameHosts(d, e) => HostsOK(d)
    BY DEF SameHosts, HostsOK, TablesOK
<1>3. SameZones(d, e) /\ SameHosts(d, e) => ZonesOK(d)
    BY DEF SameZones, SameHosts, ZonesOK, TablesOK
<1> QED BY <1>1, <1>2, <1>3

\* A setting is put.
LEMMA PutKeyOK ==
    ASSUME TablesOK(db), NEW k \in SettingKeys, NEW v \in Values,
           NEW d, d = SetRow("settings", k, v)
    PROVE  TablesOK(d)
<1>1. /\ Shaped(d) /\ d.settings = Put(db.settings, k, v)
      /\ d.roles = db.roles /\ d.groups = db.groups /\ d.users = db.users /\ d.idps = db.idps
      /\ SameHosts(d, db) /\ SameZones(d, db) /\ d.secrets = db.secrets
    BY DEF SetRow, TablesOK, Shaped, SameHosts, SameZones
<1>2. IsTable(d.settings, SettingKeys, Values)
    BY <1>1 DEF TablesOK, AccountsOK, IsTable, Put
<1> QED BY <1>1, <1>2, SameTables DEF TablesOK, AccountsOK

\* A role is put: whoever refers to roles still finds them.
LEMMA RoleOK ==
    ASSUME TablesOK(db), NEW o \in RoleNames, NEW v \in Values,
           NEW d, d = SetRow("roles", o, v)
    PROVE  TablesOK(d)
<1>1. /\ Shaped(d) /\ d.roles = Put(db.roles, o, v)
      /\ d.settings = db.settings /\ d.groups = db.groups /\ d.users = db.users /\ d.idps = db.idps
      /\ SameHosts(d, db) /\ SameZones(d, db) /\ d.secrets = db.secrets
    BY DEF SetRow, TablesOK, Shaped, SameHosts, SameZones
<1>2. /\ IsTable(d.roles, RoleNames, Values \cup {NoName})
      /\ DOMAIN db.roles \subseteq DOMAIN d.roles
    BY <1>1 DEF TablesOK, AccountsOK, IsTable, Put
<1>3. IsTable(d.groups, GroupNames, DOMAIN d.roles)
    BY <1>1, <1>2 DEF TablesOK, AccountsOK, IsTable
<1> QED BY <1>1, <1>2, <1>3, SameTables DEF TablesOK, AccountsOK

\* A role nobody refers to is deleted.
LEMMA DropRoleOK ==
    ASSUME TablesOK(db), NEW o \in DOMAIN db.roles,
           \A g \in DOMAIN db.groups : db.groups[g] # o,
           NEW d, d = [db EXCEPT !.roles = Less(@, {o})]
    PROVE  TablesOK(d)
<1>1. /\ Shaped(d) /\ d.roles = Less(db.roles, {o})
      /\ d.settings = db.settings /\ d.groups = db.groups /\ d.users = db.users /\ d.idps = db.idps
      /\ SameHosts(d, db) /\ SameZones(d, db) /\ d.secrets = db.secrets
    BY DEF TablesOK, Shaped, SameHosts, SameZones
<1>2. /\ IsTable(d.roles, RoleNames, Values \cup {NoName})
      /\ DOMAIN d.roles = DOMAIN db.roles \ {o}
    BY <1>1 DEF TablesOK, AccountsOK, IsTable, Less
<1>3. IsTable(d.groups, GroupNames, DOMAIN d.roles)
    BY <1>1, <1>2 DEF TablesOK, AccountsOK, IsTable
<1> QED BY <1>1, <1>2, <1>3, SameTables DEF TablesOK, AccountsOK

\* A group is put.
LEMMA GroupOK ==
    ASSUME TablesOK(db), NEW g \in GroupNames, NEW o \in DOMAIN db.roles,
           NEW d, d = SetRow("groups", g, o)
    PROVE  TablesOK(d)
<1>1. /\ Shaped(d) /\ d.groups = Put(db.groups, g, o)
      /\ d.settings = db.settings /\ d.roles = db.roles /\ d.users = db.users /\ d.idps = db.idps
      /\ SameHosts(d, db) /\ SameZones(d, db) /\ d.secrets = db.secrets
    BY DEF SetRow, TablesOK, Shaped, SameHosts, SameZones
<1>2. /\ IsTable(d.groups, GroupNames, DOMAIN d.roles)
      /\ DOMAIN db.groups \subseteq DOMAIN d.groups
    BY <1>1 DEF TablesOK, AccountsOK, IsTable, Put
<1>3. /\ IsTable(d.users, UserNames, SUBSET DOMAIN d.groups)
      /\ IsTable(d.idps, IdpNames, DOMAIN d.groups \cup {NoName})
    BY <1>1, <1>2 DEF TablesOK, AccountsOK, IsTable
<1> QED BY <1>1, <1>2, <1>3, SameTables DEF TablesOK, AccountsOK

\* A group is deleted: the memberships and the default groups go with it.
LEMMA DropGroupOK ==
    ASSUME TablesOK(db), NEW g \in DOMAIN db.groups,
           NEW d, d = [db EXCEPT
             !.groups = Less(@, {g}),
             !.users = [u \in DOMAIN @ |-> @[u] \ {g}],
             !.idps = [i \in DOMAIN @ |-> IF @[i] = g THEN NoName ELSE @[i]]]
    PROVE  TablesOK(d)
<1>1. /\ Shaped(d) /\ d.groups = Less(db.groups, {g})
      /\ d.users = [u \in DOMAIN db.users |-> db.users[u] \ {g}]
      /\ d.idps = [i \in DOMAIN db.idps |-> IF db.idps[i] = g THEN NoName ELSE db.idps[i]]
      /\ d.settings = db.settings /\ d.roles = db.roles
      /\ SameHosts(d, db) /\ SameZones(d, db) /\ d.secrets = db.secrets
    BY DEF TablesOK, Shaped, SameHosts, SameZones
<1>2. /\ IsTable(d.groups, GroupNames, DOMAIN d.roles)
      /\ DOMAIN d.groups = DOMAIN db.groups \ {g}
    BY <1>1 DEF TablesOK, AccountsOK, IsTable, Less
<1>3. IsTable(d.users, UserNames, SUBSET DOMAIN d.groups)
  <2>1. DOMAIN d.users = DOMAIN db.users /\ \A u \in DOMAIN d.users : d.users[u] = db.users[u] \ {g}
      BY <1>1
  <2>2. \A u \in DOMAIN db.users : db.users[u] \subseteq DOMAIN db.groups
      BY DEF TablesOK, AccountsOK, IsTable
  <2>3. \A u \in DOMAIN d.users : d.users[u] \in SUBSET DOMAIN d.groups
      BY <1>2, <2>1, <2>2
  <2>4. d.users = [u \in DOMAIN d.users |-> d.users[u]] /\ DOMAIN d.users \subseteq UserNames
      BY <1>1 DEF TablesOK, AccountsOK, IsTable
  <2> QED BY <2>3, <2>4 DEF IsTable
<1>4. IsTable(d.idps, IdpNames, DOMAIN d.groups \cup {NoName})
    BY <1>1, <1>2 DEF TablesOK, AccountsOK, IsTable
<1> QED BY <1>1, <1>2, <1>3, <1>4, SameTables DEF TablesOK, AccountsOK

\* A user is put, with credentials.
LEMMA UserOK ==
    ASSUME TablesOK(db), NEW u \in UserNames, NEW s \in SUBSET DOMAIN db.groups,
           NEW d, d = WithSecret(SetRow("users", u, s), "user", u)
    PROVE  TablesOK(d)
<1>1. /\ Shaped(d) /\ d.users = Put(db.users, u, s) /\ d.secrets = db.secrets \cup {<<"user", u>>}
      /\ d.settings = db.settings /\ d.roles = db.roles /\ d.groups = db.groups /\ d.idps = db.idps
      /\ SameHosts(d, db) /\ SameZones(d, db)
    BY DEF SetRow, WithSecret, TablesOK, Shaped, SameHosts, SameZones
<1>2. IsTable(d.users, UserNames, SUBSET DOMAIN d.groups)
    BY <1>1 DEF TablesOK, AccountsOK, IsTable, Put
<1>3. d.secrets \subseteq Bearers
    BY <1>1 DEF TablesOK, Bearers
<1> QED BY <1>1, <1>2, <1>3, SameTables DEF TablesOK, AccountsOK

\* A provider of identity is put, with credentials.
LEMMA IdpOK ==
    ASSUME TablesOK(db), NEW i \in IdpNames, NEW g \in DOMAIN db.groups \cup {NoName},
           NEW d, d = WithSecret(SetRow("idps", i, g), "idp", i)
    PROVE  TablesOK(d)
<1>1. /\ Shaped(d) /\ d.idps = Put(db.idps, i, g) /\ d.secrets = db.secrets \cup {<<"idp", i>>}
      /\ d.settings = db.settings /\ d.roles = db.roles /\ d.groups = db.groups /\ d.users = db.users
      /\ SameHosts(d, db) /\ SameZones(d, db)
    BY DEF SetRow, WithSecret, TablesOK, Shaped, SameHosts, SameZones
<1>2. IsTable(d.idps, IdpNames, DOMAIN d.groups \cup {NoName})
    BY <1>1 DEF TablesOK, AccountsOK, IsTable, Put
<1>3. d.secrets \subseteq Bearers
    BY <1>1 DEF TablesOK, Bearers
<1> QED BY <1>1, <1>2, <1>3, SameTables DEF TablesOK, AccountsOK

\* A provider of identity is deleted.
LEMMA DropIdpOK ==
    ASSUME TablesOK(db), NEW i \in DOMAIN db.idps,
           NEW d, d = WithoutSecret([db EXCEPT !.idps = Less(@, {i})], "idp", i)
    PROVE  TablesOK(d)
<1>1. /\ Shaped(d) /\ d.idps = Less(db.idps, {i}) /\ d.secrets = db.secrets \ {<<"idp", i>>}
      /\ d.settings = db.settings /\ d.roles = db.roles /\ d.groups = db.groups /\ d.users = db.users
      /\ SameHosts(d, db) /\ SameZones(d, db)
    BY DEF WithoutSecret, TablesOK, Shaped, SameHosts, SameZones
<1>2. IsTable(db.idps, IdpNames, DOMAIN d.groups \cup {NoName})
    BY <1>1 DEF TablesOK, AccountsOK
<1>3. IsTable(Less(db.idps, {i}), IdpNames, DOMAIN d.groups \cup {NoName})
    BY <1>2, LessIs
<1> QED BY <1>1, <1>3, SameTables DEF TablesOK, AccountsOK

\* Every edit of the accounts keeps the tables.
LEMMA AccountEditOK ==
    ASSUME TablesOK(db), AccountEdit
    PROVE  TablesOK(db')
<1>1. CASE PutRoleRow
    BY <1>1, RoleOK DEF PutRoleRow, Edited
<1>2. CASE DropRole
    BY <1>2, DropRoleOK DEF DropRole, Edited
<1>3. CASE PutGroup
    BY <1>3, GroupOK DEF PutGroup, Edited
<1>4. CASE DropGroup
  <2>1. PICK g \in DOMAIN db.groups : db' = [db EXCEPT
           !.groups = Less(@, {g}),
           !.users = [u \in DOMAIN @ |-> @[u] \ {g}],
           !.idps = [i \in DOMAIN @ |-> IF @[i] = g THEN NoName ELSE @[i]]]
      BY <1>4 DEF DropGroup, Edited
  <2> QED BY <2>1, DropGroupOK
<1>5. CASE PutUser
    BY <1>5, UserOK DEF PutUser, Edited
<1>6. CASE PutIdpRow
    BY <1>6, IdpOK DEF PutIdpRow, Edited
<1>7. CASE DropIdpRow
    BY <1>7, DropIdpOK DEF DropIdpRow, Edited
<1> QED BY <1>1, <1>2, <1>3, <1>4, <1>5, <1>6, <1>7 DEF AccountEdit

-----------------------------------------------------------------------------
(* The edits of providers, repositories and views *)

\* A provider is put, with credentials or with those it has.
LEMMA ProviderOK ==
    ASSUME TablesOK(db), NEW p \in ProviderNames, NEW v \in Values,
           NEW e, e = SetRow("providers", p, v)
    PROVE  TablesOK(e) /\ TablesOK(WithSecret(e, "provider", p))
<1>1. ASSUME NEW d, Shaped(d), d.providers = Put(db.providers, p, v), SameAccounts(d, db),
             d.repos = db.repos, d.views = db.views, SameZones(d, db), d.secrets \subseteq Bearers
      PROVE  TablesOK(d)
  <2>1. IsTable(d.providers, ProviderNames, Values) /\ DOMAIN db.providers \subseteq DOMAIN d.providers
      BY <1>1 DEF TablesOK, HostsOK, IsTable, Put
  <2>2. IsTable(db.views, ViewNames, SUBSET DOMAIN db.providers)
      BY DEF TablesOK, HostsOK
  <2>3. IsTable(db.views, ViewNames, SUBSET DOMAIN d.providers)
      BY <2>1, <2>2 DEF IsTable
  <2>4. HostsOK(d)
      BY <1>1, <2>1, <2>3 DEF TablesOK, HostsOK
  <2>5. ZonesOK(d)
      BY <1>1 DEF TablesOK, ZonesOK, SameZones
  <2> QED BY <1>1, <2>4, <2>5, SameTables DEF TablesOK
<1>2. /\ Shaped(e) /\ e.providers = Put(db.providers, p, v) /\ SameAccounts(e, db)
      /\ e.repos = db.repos /\ e.views = db.views /\ SameZones(e, db) /\ e.secrets = db.secrets
    BY DEF SetRow, TablesOK, Shaped, SameAccounts, SameZones
<1>3. TablesOK(e)
    BY <1>1, <1>2 DEF TablesOK
<1>4. ASSUME NEW d, d = WithSecret(e, "provider", p)
      PROVE  TablesOK(d)
  <2>1. /\ Shaped(d) /\ d.providers = Put(db.providers, p, v) /\ SameAccounts(d, db)
        /\ d.repos = db.repos /\ d.views = db.views /\ SameZones(d, db)
        /\ d.secrets = db.secrets \cup {<<"provider", p>>}
      BY <1>2, <1>4 DEF WithSecret, Shaped, SameAccounts, SameZones
  <2>2. d.secrets \subseteq Bearers
      BY <2>1 DEF TablesOK, Bearers
  <2> QED BY <1>1, <2>1, <2>2
<1> QED BY <1>3, <1>4

\* A provider is deleted: it leaves its views.
LEMMA DropProviderOK ==
    ASSUME TablesOK(db), NEW p \in DOMAIN db.providers,
           NEW d, d = WithoutSecret([db EXCEPT
             !.providers = Less(@, {p}),
             !.views = [v \in DOMAIN @ |-> @[v] \ {p}]], "provider", p)
    PROVE  TablesOK(d)
<1>1. /\ Shaped(d) /\ d.providers = Less(db.providers, {p}) /\ SameAccounts(d, db)
      /\ d.views = [v \in DOMAIN db.views |-> db.views[v] \ {p}]
      /\ d.repos = db.repos /\ SameZones(d, db) /\ d.secrets \subseteq db.secrets
    BY DEF WithoutSecret, TablesOK, Shaped, SameAccounts, SameZones
<1>2. /\ IsTable(db.providers, ProviderNames, Values)
      /\ IsTable(db.views, ViewNames, SUBSET DOMAIN db.providers)
    BY DEF TablesOK, HostsOK
<1>3. /\ IsTable(Less(db.providers, {p}), ProviderNames, Values)
      /\ DOMAIN Less(db.providers, {p}) = DOMAIN db.providers \ {p}
    BY <1>2, LessIs
<1>4. IsTable(d.views, ViewNames, SUBSET DOMAIN d.providers)
  <2> DEFINE w == [v \in DOMAIN db.views |-> db.views[v] \ {p}]
  <2>1. \A v \in DOMAIN db.views : db.views[v] \subseteq DOMAIN db.providers
      BY <1>2 DEF IsTable
  <2>2. \A v \in DOMAIN w : w[v] \in SUBSET (DOMAIN db.providers \ {p})
      BY <2>1
  <2>3. w = [v \in DOMAIN w |-> w[v]] /\ DOMAIN w \subseteq ViewNames
      BY <1>2 DEF IsTable
  <2>4. IsTable(w, ViewNames, SUBSET (DOMAIN db.providers \ {p}))
    <3> HIDE DEF w
    <3> QED BY <2>2, <2>3 DEF IsTable
  <2> QED BY <1>1, <1>3, <2>4
<1>5. HostsOK(d)
    BY <1>1, <1>3, <1>4 DEF TablesOK, HostsOK
<1>6. ZonesOK(d)
  <2>1. DOMAIN d.views = DOMAIN db.views
      BY <1>1
  <2> QED BY <1>1, <2>1 DEF TablesOK, ZonesOK, SameZones
<1> QED BY <1>1, <1>5, <1>6, SameTables DEF TablesOK

\* A repository is put, with credentials or with those it has.
LEMMA RepoOK ==
    ASSUME TablesOK(db), NEW q \in RepoNames, NEW v \in Values,
           NEW e, e = SetRow("repos", q, v)
    PROVE  TablesOK(e) /\ TablesOK(WithSecret(e, "repo", q))
<1>1. ASSUME NEW d, Shaped(d), d.repos = Put(db.repos, q, v), SameAccounts(d, db),
             d.providers = db.providers, d.views = db.views, SameZones(d, db),
             d.secrets \subseteq Bearers
      PROVE  TablesOK(d)
  <2>1. IsTable(d.repos, RepoNames, Values) /\ DOMAIN db.repos \subseteq DOMAIN d.repos
      BY <1>1 DEF TablesOK, HostsOK, IsTable, Put
  <2>2. HostsOK(d)
      BY <1>1, <2>1 DEF TablesOK, HostsOK
  <2>3. IsTable(db.zones, 1..db.last, ZoneOf(DOMAIN db.views, DOMAIN db.repos \cup {NoName}))
      BY DEF TablesOK, ZonesOK
  <2>4. ZoneOf(DOMAIN db.views, DOMAIN db.repos \cup {NoName})
          \subseteq ZoneOf(DOMAIN db.views, DOMAIN d.repos \cup {NoName})
      BY <2>1 DEF ZoneOf
  <2>5. IsTable(db.zones, 1..db.last, ZoneOf(DOMAIN db.views, DOMAIN d.repos \cup {NoName}))
      BY <2>3, <2>4, WiderTable
  <2>6. ZonesOK(d)
      BY <1>1, <2>5 DEF TablesOK, ZonesOK, SameZones
  <2> QED BY <1>1, <2>2, <2>6, SameTables DEF TablesOK
<1>2. /\ Shaped(e) /\ e.repos = Put(db.repos, q, v) /\ SameAccounts(e, db)
      /\ e.providers = db.providers /\ e.views = db.views /\ SameZones(e, db)
      /\ e.secrets = db.secrets
    BY DEF SetRow, TablesOK, Shaped, SameAccounts, SameZones
<1>3. TablesOK(e)
    BY <1>1, <1>2 DEF TablesOK
<1>4. ASSUME NEW d, d = WithSecret(e, "repo", q)
      PROVE  TablesOK(d)
  <2>1. /\ Shaped(d) /\ d.repos = Put(db.repos, q, v) /\ SameAccounts(d, db)
        /\ d.providers = db.providers /\ d.views = db.views /\ SameZones(d, db)
        /\ d.secrets = db.secrets \cup {<<"repo", q>>}
      BY <1>2, <1>4 DEF WithSecret, Shaped, SameAccounts, SameZones
  <2>2. d.secrets \subseteq Bearers
      BY <2>1 DEF TablesOK, Bearers
  <2> QED BY <1>1, <2>1, <2>2
<1> QED BY <1>3, <1>4

\* A repository is deleted: the zones that had it have none.
LEMMA DropRepoOK ==
    ASSUME TablesOK(db), NEW q \in DOMAIN db.repos,
           NEW d, d = WithoutSecret([db EXCEPT
             !.repos = Less(@, {q}),
             !.zones = [z \in DOMAIN @ |->
                          IF @[z].repo = q THEN [@[z] EXCEPT !.repo = NoName] ELSE @[z]]],
             "repo", q)
    PROVE  TablesOK(d)
<1> DEFINE w == [z \in DOMAIN db.zones |->
                   IF db.zones[z].repo = q THEN [db.zones[z] EXCEPT !.repo = NoName] ELSE db.zones[z]]
           rows(repos) == ZoneOf(DOMAIN db.views, repos \cup {NoName})
<1>1. /\ Shaped(d) /\ d.repos = Less(db.repos, {q}) /\ SameAccounts(d, db)
      /\ d.zones = w /\ d.providers = db.providers /\ d.views = db.views
      /\ d.last = db.last /\ d.live = db.live /\ d.marked = db.marked /\ d.vars = db.vars
      /\ d.secrets \subseteq db.secrets
    BY DEF WithoutSecret, TablesOK, Shaped, SameAccounts
<1>2. /\ IsTable(db.repos, RepoNames, Values)
      /\ IsTable(db.zones, 1..db.last, rows(DOMAIN db.repos))
    BY DEF TablesOK, HostsOK, ZonesOK
<1>3. /\ IsTable(Less(db.repos, {q}), RepoNames, Values)
      /\ DOMAIN Less(db.repos, {q}) = DOMAIN db.repos \ {q}
    BY <1>2, LessIs
<1>4. IsTable(w, 1..db.last, rows(DOMAIN db.repos \ {q}))
  <2>1. ASSUME NEW z \in DOMAIN db.zones
        PROVE  w[z] \in rows(DOMAIN db.repos \ {q})
    <3>1. db.zones[z] \in [name : ZoneNames, view : DOMAIN db.views, repo : DOMAIN db.repos \cup {NoName}]
        BY <1>2 DEF IsTable, ZoneOf
    <3> QED BY <3>1 DEF ZoneOf
  <2>2. w = [z \in DOMAIN w |-> w[z]] /\ DOMAIN w \subseteq 1..db.last /\ DOMAIN w = DOMAIN db.zones
      BY <1>2 DEF IsTable
  <2> HIDE DEF w
  <2> QED BY <2>1, <2>2 DEF IsTable
<1>5. HostsOK(d)
    BY <1>1, <1>3 DEF TablesOK, HostsOK
<1>6. DOMAIN d.zones = DOMAIN db.zones
    BY <1>1
<1>7. ZonesOK(d)
  <2> HIDE DEF w
  <2> QED BY <1>1, <1>3, <1>4, <1>6 DEF TablesOK, ZonesOK
<1> HIDE DEF w
<1> QED BY <1>1, <1>5, <1>7, SameTables DEF TablesOK

\* What the zones need of the views is that theirs are there.
LEMMA ViewsOK ==
    ASSUME TablesOK(db), NEW d, Shaped(d), SameAccounts(d, db),
           d.providers = db.providers, d.repos = db.repos, SameZones(d, db), d.secrets = db.secrets,
           IsTable(d.views, ViewNames, SUBSET DOMAIN db.providers),
           \A z \in DOMAIN db.zones : db.zones[z].view \in DOMAIN d.views
    PROVE  TablesOK(d)
<1>1. HostsOK(d)
    BY DEF TablesOK, HostsOK
<1>2. IsTable(db.zones, 1..db.last, ZoneOf(DOMAIN db.views, DOMAIN db.repos \cup {NoName}))
    BY DEF TablesOK, ZonesOK
<1>3. IsTable(db.zones, 1..db.last, ZoneOf(DOMAIN d.views, DOMAIN d.repos \cup {NoName}))
  <2>1. ASSUME NEW z \in DOMAIN db.zones
        PROVE  db.zones[z] \in ZoneOf(DOMAIN d.views, DOMAIN d.repos \cup {NoName})
    <3>1. db.zones[z] \in [name : ZoneNames, view : DOMAIN db.views, repo : DOMAIN db.repos \cup {NoName}]
        BY <1>2 DEF IsTable, ZoneOf
    <3> QED BY <3>1 DEF ZoneOf
  <2> QED BY <1>2, <2>1 DEF IsTable
<1>4. ZonesOK(d)
    BY <1>3 DEF TablesOK, ZonesOK, SameZones
<1> QED BY <1>1, <1>4, SameTables DEF TablesOK

\* The fields of the zones' rows
LEMMA ZoneFields ==
    ASSUME NEW d, ZonesOK(d), NEW z \in DOMAIN d.zones
    PROVE  /\ z \in 1..d.last
           /\ d.zones[z] \in [name : ZoneNames, view : DOMAIN d.views, repo : DOMAIN d.repos \cup {NoName}]
           /\ d.zones[z].name \in ZoneNames /\ d.zones[z].view \in DOMAIN d.views
           /\ d.zones[z].repo \in DOMAIN d.repos \cup {NoName}
<1>1. d.zones[z] \in [name : ZoneNames, view : DOMAIN d.views, repo : DOMAIN d.repos \cup {NoName}]
    BY DEF ZonesOK, IsTable, ZoneOf
<1>2. z \in 1..d.last
    BY DEF ZonesOK, IsTable
<1> QED BY <1>1, <1>2

\* A view is put.
LEMMA CreateViewOK ==
    ASSUME TablesOK(db), NEW v \in ViewNames, NEW d, d = SetRow("views", v, {})
    PROVE  TablesOK(d)
<1>1. /\ Shaped(d) /\ d.views = Put(db.views, v, {}) /\ SameAccounts(d, db)
      /\ d.providers = db.providers /\ d.repos = db.repos /\ SameZones(d, db) /\ d.secrets = db.secrets
    BY DEF SetRow, TablesOK, Shaped, SameAccounts, SameZones
<1>2. IsTable(db.views, ViewNames, SUBSET DOMAIN db.providers) /\ {} \in SUBSET DOMAIN db.providers
    BY DEF TablesOK, HostsOK
<1>3. /\ IsTable(Put(db.views, v, {}), ViewNames, SUBSET DOMAIN db.providers)
      /\ DOMAIN Put(db.views, v, {}) = DOMAIN db.views \cup {v}
    BY <1>2, PutIs
<1>4. \A z \in DOMAIN db.zones : db.zones[z].view \in DOMAIN db.views
    BY ZoneFields DEF TablesOK
<1> QED BY <1>1, <1>3, <1>4, ViewsOK

\* A provider is attached to a view or detached.
LEMMA AttachmentOK ==
    ASSUME TablesOK(db), NEW v \in DOMAIN db.views, NEW s \in SUBSET DOMAIN db.providers,
           NEW d, d = [db EXCEPT !.views[v] = s]
    PROVE  TablesOK(d)
<1>1. /\ Shaped(d) /\ d.views = [db.views EXCEPT ![v] = s] /\ SameAccounts(d, db)
      /\ d.providers = db.providers /\ d.repos = db.repos /\ SameZones(d, db) /\ d.secrets = db.secrets
    BY DEF TablesOK, Shaped, SameAccounts, SameZones
<1>2. IsTable(db.views, ViewNames, SUBSET DOMAIN db.providers)
    BY DEF TablesOK, HostsOK
<1>3. IsTable([db.views EXCEPT ![v] = s], ViewNames, SUBSET DOMAIN db.providers)
    BY <1>2 DEF IsTable
<1>4. \A z \in DOMAIN db.zones : db.zones[z].view \in DOMAIN d.views
    BY <1>1, ZoneFields DEF TablesOK
<1> QED BY <1>1, <1>3, <1>4, ViewsOK

\* A view without zones is deleted.
LEMMA DropViewOK ==
    ASSUME TablesOK(db), NEW v \in DOMAIN db.views,
           \A z \in DOMAIN db.zones : db.zones[z].view # v,
           NEW d, d = [db EXCEPT !.views = Less(@, {v})]
    PROVE  TablesOK(d)
<1>1. /\ Shaped(d) /\ d.views = Less(db.views, {v}) /\ SameAccounts(d, db)
      /\ d.providers = db.providers /\ d.repos = db.repos /\ SameZones(d, db) /\ d.secrets = db.secrets
    BY DEF TablesOK, Shaped, SameAccounts, SameZones
<1>2. IsTable(db.views, ViewNames, SUBSET DOMAIN db.providers)
    BY DEF TablesOK, HostsOK
<1>3. /\ IsTable(Less(db.views, {v}), ViewNames, SUBSET DOMAIN db.providers)
      /\ DOMAIN Less(db.views, {v}) = DOMAIN db.views \ {v}
    BY <1>2, LessIs
<1>4. \A z \in DOMAIN db.zones : db.zones[z].view \in DOMAIN db.views \ {v}
    BY ZoneFields DEF TablesOK
<1> QED BY <1>1, <1>3, <1>4, ViewsOK

\* Every edit of settings, providers and repositories keeps the tables.
LEMMA HostEditOK ==
    ASSUME TablesOK(db), HostEdit
    PROVE  TablesOK(db')
<1>1. CASE PutKey
    BY <1>1, PutKeyOK DEF PutKey, Edited
<1>2. CASE CreateProvider
    BY <1>2, ProviderOK DEF CreateProvider, Edited
<1>3. CASE UpdateProvider
  <2>1. DOMAIN db.providers \subseteq ProviderNames
      BY DEF TablesOK, HostsOK, IsTable
  <2> QED BY <1>3, <2>1, ProviderOK DEF UpdateProvider, Edited
<1>4. CASE DropProvider
  <2>1. PICK p \in DOMAIN db.providers : db' = WithoutSecret([db EXCEPT
             !.providers = Less(@, {p}),
             !.views = [v \in DOMAIN @ |-> @[v] \ {p}]], "provider", p)
      BY <1>4 DEF DropProvider, Edited
  <2> QED BY <2>1, DropProviderOK
<1>5. CASE CreateRepo
    BY <1>5, RepoOK DEF CreateRepo, Edited
<1>6. CASE UpdateRepo
  <2>1. DOMAIN db.repos \subseteq RepoNames
      BY DEF TablesOK, HostsOK, IsTable
  <2> QED BY <1>6, <2>1, RepoOK DEF UpdateRepo, Edited
<1>7. CASE DropRepo
  <2>1. PICK q \in DOMAIN db.repos : db' = WithoutSecret([db EXCEPT
             !.repos = Less(@, {q}),
             !.zones = [z \in DOMAIN @ |->
                          IF @[z].repo = q THEN [@[z] EXCEPT !.repo = NoName] ELSE @[z]]],
             "repo", q)
      BY <1>7 DEF DropRepo, Edited
  <2> QED BY <2>1, DropRepoOK
<1>8. CASE AttachProvider
  <2>1. PICK v \in DOMAIN db.views, p \in DOMAIN db.providers :
          db' = [db EXCEPT !.views[v] = db.views[v] \cup {p}]
      BY <1>8 DEF AttachProvider, Edited
  <2>2. db.views[v] \cup {p} \in SUBSET DOMAIN db.providers
      BY DEF TablesOK, HostsOK, IsTable
  <2> QED BY <2>1, <2>2, AttachmentOK
<1>9. CASE DetachProvider
  <2>1. PICK v \in DOMAIN db.views, p \in DOMAIN db.providers :
          db' = [db EXCEPT !.views[v] = db.views[v] \ {p}]
      BY <1>9 DEF DetachProvider, Edited
  <2>2. db.views[v] \ {p} \in SUBSET DOMAIN db.providers
      BY DEF TablesOK, HostsOK, IsTable
  <2> QED BY <2>1, <2>2, AttachmentOK
<1> QED BY <1>1, <1>2, <1>3, <1>4, <1>5, <1>6, <1>7, <1>8, <1>9 DEF HostEdit

-----------------------------------------------------------------------------
(* The edits of zones, records and variables *)

\* Zones may be added and changed, none is missing.
LEMMA ZonesOnlyOK ==
    ASSUME TablesOK(db), NEW d, Shaped(d), SameAccounts(d, db), SameHosts(d, db),
           d.secrets = db.secrets, d.marked = db.marked, d.vars = db.vars,
           d.last \in Nat, DOMAIN db.zones \subseteq DOMAIN d.zones,
           IsTable(d.zones, 1..d.last, ZoneOf(DOMAIN db.views, DOMAIN db.repos \cup {NoName})),
           d.live \subseteq (DOMAIN d.zones) \X RecordNames \X Values
    PROVE  TablesOK(d)
<1>1. d.marked \subseteq (DOMAIN d.zones) \X RecordNames \X Values
    BY DEF TablesOK, ZonesOK
<1>2. IsTable(d.vars, VarNames \X (DOMAIN d.zones \cup {NoName}), Values)
  <2>1. IsTable(db.vars, VarNames \X (DOMAIN db.zones \cup {NoName}), Values)
      BY DEF TablesOK, ZonesOK
  <2> QED BY <2>1 DEF IsTable
<1>3. ZonesOK(d)
    BY <1>1, <1>2 DEF ZonesOK, SameHosts
<1> QED BY <1>3, SameTables DEF TablesOK

\* A new zone has the next id; nothing is in it.
LEMMA NewZoneIs ==
    ASSUME TablesOK(db), NEW n \in ZoneNames, NEW v \in DOMAIN db.views,
           NEW q \in DOMAIN db.repos \cup {NoName}, NEW d, d = NewZone(n, v, q)
    PROVE  /\ Shaped(d) /\ SameAccounts(d, db) /\ SameHosts(d, db)
           /\ d.secrets = db.secrets /\ d.marked = db.marked /\ d.vars = db.vars
           /\ d.live = db.live /\ d.last = db.last + 1 /\ d.last \in Nat
           /\ DOMAIN d.zones = DOMAIN db.zones \cup {db.last + 1}
           /\ IsTable(d.zones, 1..d.last, ZoneOf(DOMAIN db.views, DOMAIN db.repos \cup {NoName}))
<1> DEFINE rows == ZoneOf(DOMAIN db.views, DOMAIN db.repos \cup {NoName})
           row == [name |-> n, view |-> v, repo |-> q]
<1>1. /\ Shaped(d) /\ SameAccounts(d, db) /\ SameHosts(d, db)
      /\ d.secrets = db.secrets /\ d.marked = db.marked /\ d.vars = db.vars
      /\ d.live = db.live /\ d.last = db.last + 1 /\ d.zones = Put(db.zones, db.last + 1, row)
    BY DEF NewZone, TablesOK, Shaped, SameAccounts, SameHosts
<1>2. db.last \in Nat /\ IsTable(db.zones, 1..db.last, rows)
    BY DEF TablesOK, ZonesOK
<1>3. row \in rows
    BY DEF ZoneOf
<1> HIDE DEF rows, row
<1> DEFINE i == db.last + 1
           ids == 1..i
<1>4. IsTable(db.zones, ids, rows) /\ i \in ids
    BY <1>2 DEF IsTable
<1> HIDE DEF i, ids
<1>5. IsTable(Put(db.zones, i, row), ids, rows)
    BY <1>3, <1>4, PutIs
<1>6. DOMAIN Put(db.zones, i, row) = DOMAIN db.zones \cup {i}
    BY DEF Put
<1> USE DEF i, ids
<1> QED BY <1>1, <1>2, <1>5, <1>6 DEF rows

\* A zone is created.
LEMMA CreateZoneOK ==
    ASSUME TablesOK(db), NEW n \in ZoneNames, NEW v \in DOMAIN db.views,
           NEW q \in DOMAIN db.repos \cup {NoName}, NEW d, d = NewZone(n, v, q)
    PROVE  TablesOK(d)
<1>1. d.live \subseteq (DOMAIN d.zones) \X RecordNames \X Values
    BY NewZoneIs DEF TablesOK, ZonesOK
<1> QED BY <1>1, NewZoneIs, ZonesOnlyOK

\* A zone is cloned, with its records.
LEMMA CloneZoneOK ==
    ASSUME TablesOK(db), NEW z \in DOMAIN db.zones, NEW n \in ZoneNames, NEW v \in DOMAIN db.views,
           NEW d, d = [NewZone(n, v, NoName) EXCEPT
             !.live = @ \cup {<<db.last + 1, r[2], r[3]>> : r \in {s \in @ : s[1] = z}}]
    PROVE  TablesOK(d)
<1> DEFINE e == NewZone(n, v, NoName)
           copies == {<<db.last + 1, r[2], r[3]>> : r \in {s \in db.live : s[1] = z}}
<1>1. /\ Shaped(e) /\ SameAccounts(e, db) /\ SameHosts(e, db)
      /\ e.secrets = db.secrets /\ e.marked = db.marked /\ e.vars = db.vars
      /\ e.live = db.live /\ e.last \in Nat
      /\ DOMAIN e.zones = DOMAIN db.zones \cup {db.last + 1}
      /\ IsTable(e.zones, 1..e.last, ZoneOf(DOMAIN db.views, DOMAIN db.repos \cup {NoName}))
    BY NewZoneIs
<1> HIDE DEF e
<1>2. /\ Shaped(d) /\ SameAccounts(d, db) /\ SameHosts(d, db)
      /\ d.secrets = db.secrets /\ d.marked = db.marked /\ d.vars = db.vars
      /\ d.live = db.live \cup copies /\ d.last = e.last /\ d.zones = e.zones
    BY <1>1 DEF e, Shaped, SameAccounts, SameHosts
<1>3. d.live \subseteq (DOMAIN d.zones) \X RecordNames \X Values
  <2>1. db.live \subseteq (DOMAIN db.zones) \X RecordNames \X Values
      BY DEF TablesOK, ZonesOK
  <2>2. copies \subseteq {db.last + 1} \X RecordNames \X Values
      BY <2>1
  <2> HIDE DEF copies
  <2> QED BY <1>1, <1>2, <2>1, <2>2
<1> QED BY <1>1, <1>2, <1>3, ZonesOnlyOK

\* A zone gets another name, view or repository.
LEMMA UpdateZoneOK ==
    ASSUME TablesOK(db), NEW z \in DOMAIN db.zones, NEW n \in ZoneNames, NEW v \in DOMAIN db.views,
           NEW q \in DOMAIN db.repos \cup {NoName},
           NEW d, d = SetRow("zones", z, [name |-> n, view |-> v, repo |-> q])
    PROVE  TablesOK(d)
<1> DEFINE rows == ZoneOf(DOMAIN db.views, DOMAIN db.repos \cup {NoName})
           row == [name |-> n, view |-> v, repo |-> q]
<1>1. /\ Shaped(d) /\ SameAccounts(d, db) /\ SameHosts(d, db)
      /\ d.secrets = db.secrets /\ d.marked = db.marked /\ d.vars = db.vars
      /\ d.live = db.live /\ d.last = db.last /\ d.zones = Put(db.zones, z, row)
    BY DEF SetRow, TablesOK, Shaped, SameAccounts, SameHosts
<1>2. db.last \in Nat /\ IsTable(db.zones, 1..db.last, rows) /\ z \in 1..db.last
    BY DEF TablesOK, ZonesOK, IsTable
<1>3. row \in rows
    BY DEF ZoneOf
<1> DEFINE ids == 1..db.last
<1> HIDE DEF rows, row, ids
<1>4. /\ IsTable(Put(db.zones, z, row), ids, rows)
      /\ DOMAIN Put(db.zones, z, row) = DOMAIN db.zones \cup {z}
  <2>1. IsTable(db.zones, ids, rows) /\ z \in ids
      BY <1>2 DEF ids
  <2>2. IsTable(Put(db.zones, z, row), ids, rows)
      BY <1>3, <2>1, PutIs
  <2>3. DOMAIN Put(db.zones, z, row) = DOMAIN db.zones \cup {z}
      BY DEF Put
  <2> QED BY <2>2, <2>3
<1>5. d.live \subseteq (DOMAIN d.zones) \X RecordNames \X Values
    BY <1>1, <1>4 DEF TablesOK, ZonesOK
<1>6. d.last \in Nat /\ DOMAIN db.zones \subseteq DOMAIN d.zones
    BY <1>1, <1>2, <1>4
<1>7. IsTable(d.zones, 1..d.last, ZoneOf(DOMAIN db.views, DOMAIN db.repos \cup {NoName}))
    BY <1>1, <1>4 DEF rows, ids
<1> QED BY <1>1, <1>5, <1>6, <1>7, ZonesOnlyOK

\* Rows of the zones there are
LEMMA RecordsOnlyOK ==
    ASSUME TablesOK(db), NEW d, Shaped(d), SameAccounts(d, db), SameHosts(d, db),
           d.secrets = db.secrets, d.zones = db.zones, d.last = db.last, d.vars = db.vars,
           d.live \cup d.marked \subseteq (DOMAIN db.zones) \X RecordNames \X Values
    PROVE  TablesOK(d)
<1>1. ZonesOK(d)
    BY DEF TablesOK, ZonesOK, SameHosts
<1> QED BY <1>1, SameTables DEF TablesOK

\* A record is put, changed or marked.
LEMMA RecordEditOK ==
    ASSUME TablesOK(db), NEW l, NEW m, l \cup m \subseteq (DOMAIN db.zones) \X RecordNames \X Values,
           NEW d, d = [db EXCEPT !.live = l, !.marked = m]
    PROVE  TablesOK(d)
<1>1. /\ Shaped(d) /\ SameAccounts(d, db) /\ SameHosts(d, db)
      /\ d.secrets = db.secrets /\ d.zones = db.zones /\ d.last = db.last /\ d.vars = db.vars
      /\ d.live = l /\ d.marked = m
    BY DEF TablesOK, Shaped, SameAccounts, SameHosts
<1> QED BY <1>1, RecordsOnlyOK

\* Only the variables change.
LEMMA VarsOnlyOK ==
    ASSUME TablesOK(db), NEW t, IsTable(t, VarNames \X (DOMAIN db.zones \cup {NoName}), Values),
           NEW d, d = [db EXCEPT !.vars = t]
    PROVE  TablesOK(d)
<1>1. /\ Shaped(d) /\ SameAccounts(d, db) /\ SameHosts(d, db)
      /\ d.secrets = db.secrets /\ d.zones = db.zones /\ d.last = db.last
      /\ d.live = db.live /\ d.marked = db.marked /\ d.vars = t
    BY DEF TablesOK, Shaped, SameAccounts, SameHosts
<1>2. ZonesOK(d)
    BY <1>1 DEF TablesOK, ZonesOK, SameHosts
<1> QED BY <1>1, <1>2, SameTables DEF TablesOK

\* A zone is deleted: its records and variables go with it.
LEMMA DropZoneOK ==
    ASSUME TablesOK(db), NEW z \in DOMAIN db.zones,
           NEW d, d = [db EXCEPT
             !.zones = Less(@, {z}),
             !.live = {r \in @ : r[1] # z}, !.marked = {r \in @ : r[1] # z},
             !.vars = Less(@, VarNames \X {z})]
    PROVE  TablesOK(d)
<1> DEFINE rows == ZoneOf(DOMAIN db.views, DOMAIN db.repos \cup {NoName})
           left == DOMAIN db.zones \ {z}
<1>1. /\ Shaped(d) /\ SameAccounts(d, db) /\ SameHosts(d, db)
      /\ d.secrets = db.secrets /\ d.zones = Less(db.zones, {z}) /\ d.last = db.last
      /\ d.live = {r \in db.live : r[1] # z} /\ d.marked = {r \in db.marked : r[1] # z}
      /\ d.vars = Less(db.vars, VarNames \X {z})
    BY DEF TablesOK, Shaped, SameAccounts, SameHosts
<1>2. /\ db.last \in Nat /\ IsTable(db.zones, 1..db.last, rows)
      /\ db.live \subseteq (DOMAIN db.zones) \X RecordNames \X Values
      /\ db.marked \subseteq (DOMAIN db.zones) \X RecordNames \X Values
      /\ IsTable(db.vars, VarNames \X (DOMAIN db.zones \cup {NoName}), Values)
    BY DEF TablesOK, ZonesOK
<1> HIDE DEF rows
<1>3. IsTable(Less(db.zones, {z}), 1..db.last, rows) /\ DOMAIN Less(db.zones, {z}) = left
    BY <1>2, LessIs
<1>4. /\ d.live \subseteq left \X RecordNames \X Values
      /\ d.marked \subseteq left \X RecordNames \X Values
    BY <1>1, <1>2
<1>5. IsTable(Less(db.vars, VarNames \X {z}), VarNames \X (left \cup {NoName}), Values)
    BY <1>2 DEF IsTable, Less
<1>6. ZonesOK(d)
    BY <1>1, <1>2, <1>3, <1>4, <1>5 DEF ZonesOK, SameHosts, rows
<1> QED BY <1>1, <1>6, SameTables DEF TablesOK

\* Every edit of views, zones, records and variables keeps the tables.
LEMMA ZoneEditOK ==
    ASSUME TablesOK(db), ZoneEdit
    PROVE  TablesOK(db')
<1>0. /\ db.live \subseteq (DOMAIN db.zones) \X RecordNames \X Values
      /\ db.marked \subseteq (DOMAIN db.zones) \X RecordNames \X Values
      /\ IsTable(db.vars, VarNames \X (DOMAIN db.zones \cup {NoName}), Values)
      /\ Shaped(db)
    BY DEF TablesOK, ZonesOK
<1>1. CASE CreateView
    BY <1>1, CreateViewOK DEF CreateView, Edited
<1>2. CASE DropView
    BY <1>2, DropViewOK DEF DropView, Edited
<1>3. CASE CreateZone
    BY <1>3, CreateZoneOK DEF CreateZone, Edited
<1>4. CASE UpdateZone
    BY <1>4, UpdateZoneOK DEF UpdateZone, Edited
<1>5. CASE DropZone
  <2>1. PICK z \in DOMAIN db.zones : db' = [db EXCEPT
             !.zones = Less(@, {z}),
             !.live = {r \in @ : r[1] # z}, !.marked = {r \in @ : r[1] # z},
             !.vars = Less(@, VarNames \X {z})]
      BY <1>5 DEF DropZone, Edited
  <2> QED BY <2>1, DropZoneOK
<1>6. CASE CloneZone
  <2>1. PICK z \in DOMAIN db.zones, n \in ZoneNames, v \in DOMAIN db.views :
          db' = [NewZone(n, v, NoName) EXCEPT
             !.live = @ \cup {<<db.last + 1, r[2], r[3]>> : r \in {s \in @ : s[1] = z}}]
      BY <1>6 DEF CloneZone, Edited
  <2> QED BY <2>1, CloneZoneOK
<1>7. CASE CreateRecord
  <2>1. PICK r \in (DOMAIN db.zones) \X RecordNames \X Values :
          db' = [db EXCEPT !.live = db.live \cup {r}]
      BY <1>7 DEF CreateRecord, Edited
  <2>2. db' = [db EXCEPT !.live = db.live \cup {r}, !.marked = db.marked]
      BY <1>0, <2>1 DEF Shaped
  <2> QED BY <1>0, <2>2, RecordEditOK
<1>8. CASE UpdateRecord
  <2>1. PICK r \in db.live, v \in Values :
          db' = [db EXCEPT !.live = (db.live \ {r}) \cup {<<r[1], r[2], v>>}]
      BY <1>8 DEF UpdateRecord, Edited
  <2> DEFINE l == (db.live \ {r}) \cup {<<r[1], r[2], v>>}
  <2>2. l \subseteq (DOMAIN db.zones) \X RecordNames \X Values
      BY <1>0
  <2>3. db' = [db EXCEPT !.live = l, !.marked = db.marked]
      BY <1>0, <2>1 DEF Shaped
  <2> HIDE DEF l
  <2> QED BY <1>0, <2>2, <2>3, RecordEditOK
<1>9. CASE DropRecord
  <2>1. PICK r \in db.live :
          db' = [db EXCEPT !.live = db.live \ {r}, !.marked = db.marked \cup {r}]
      BY <1>9 DEF DropRecord, Edited
  <2> QED BY <1>0, <2>1, RecordEditOK
<1>10. CASE PutVariable
  <2>1. PICK x \in VarNames, z \in DOMAIN db.zones \cup {NoName}, v \in Values :
          db' = [db EXCEPT !.vars = Put(db.vars, <<x, z>>, v)]
      BY <1>10 DEF PutVariable, Edited, SetRow
  <2>2. <<x, z>> \in VarNames \X (DOMAIN db.zones \cup {NoName})
      OBVIOUS
  <2>3. IsTable(Put(db.vars, <<x, z>>, v), VarNames \X (DOMAIN db.zones \cup {NoName}), Values)
      BY <1>0, <2>2, PutIs
  <2> QED BY <2>1, <2>3, VarsOnlyOK
<1>11. CASE DropVariable
  <2>1. PICK k \in DOMAIN db.vars : db' = [db EXCEPT !.vars = Less(db.vars, {k})]
      BY <1>11 DEF DropVariable, Edited
  <2>2. IsTable(Less(db.vars, {k}), VarNames \X (DOMAIN db.zones \cup {NoName}), Values)
      BY <1>0, LessIs
  <2> QED BY <2>1, <2>2, VarsOnlyOK
<1> QED BY <1>1, <1>2, <1>3, <1>4, <1>5, <1>6, <1>7, <1>8, <1>9, <1>10, <1>11 DEF ZoneEdit

\* Every edit keeps the tables.
LEMMA EditOK ==
    ASSUME TablesOK(db), CatalogEdit
    PROVE  TablesOK(db')
BY AccountEditOK, HostEditOK, ZoneEditOK DEF CatalogEdit

\* Edits are counted, up to the bound.
LEMMA EditCounts ==
    ASSUME edits \in 0..MaxEdits, CatalogEdit
    PROVE  tables' = tables /\ edits' \in 0..MaxEdits
<1>1. \E d : Edited(d)
  <2>1. CASE AccountEdit
      BY <2>1 DEF AccountEdit, PutRoleRow, DropRole, PutGroup, DropGroup, PutUser, PutIdpRow,
         DropIdpRow
  <2>2. CASE HostEdit
      BY <2>2 DEF HostEdit, PutKey, CreateProvider, UpdateProvider, DropProvider, CreateRepo,
         UpdateRepo, DropRepo, AttachProvider, DetachProvider
  <2>3. CASE ZoneEdit
      BY <2>3 DEF ZoneEdit, CreateView, DropView, CreateZone, UpdateZone, DropZone, CloneZone,
         CreateRecord, UpdateRecord, DropRecord, PutVariable, DropVariable
  <2> QED BY <2>1, <2>2, <2>3 DEF CatalogEdit
<1> QED BY <1>1, CatalogAssumption DEF Edited

-----------------------------------------------------------------------------
(* The first tables *)

\* The table without rows
LEMMA EmptyTable ==
    ASSUME NEW names, NEW rows
    PROVE  IsTable(<<>>, names, rows)
BY DEF IsTable

\* The table of one row
LEMMA OnlyIs ==
    ASSUME NEW names, NEW rows, NEW n \in names, NEW row \in rows
    PROVE  IsTable(Only(n, row), names, rows)
BY DEF IsTable, Only

\* The first tables of a new installation
LEMMA NewInstallationOK == TablesOK(NewInstallation)
<1> DEFINE o == CHOOSE o \in RoleNames : TRUE
           d == NewInstallation
<1>1. o \in RoleNames
    BY CatalogAssumption
<1>2. d = [settings |-> [k \in SettingKeys |-> 2], roles |-> Only(o, 1), groups |-> <<>>,
           users |-> <<>>, idps |-> <<>>, providers |-> <<>>, repos |-> <<>>, views |-> <<>>,
           zones |-> <<>>, last |-> 0, live |-> {}, marked |-> {}, vars |-> <<>>, secrets |-> {}]
    BY DEF NewInstallation
<1> HIDE DEF o, d
<1>3. Shaped(d)
    BY <1>2 DEF Shaped
<1>4. /\ d.settings = [k \in SettingKeys |-> 2] /\ d.roles = Only(o, 1) /\ d.groups = <<>>
      /\ d.users = <<>> /\ d.idps = <<>> /\ d.providers = <<>> /\ d.repos = <<>> /\ d.views = <<>>
      /\ d.zones = <<>> /\ d.last = 0 /\ d.live = {} /\ d.marked = {} /\ d.vars = <<>>
      /\ d.secrets = {}
    BY <1>2
<1>5. IsTable(d.settings, SettingKeys, Values)
    BY <1>4, CatalogAssumption DEF IsTable
<1>6. IsTable(d.roles, RoleNames, Values \cup {NoName})
  <2>1. 1 \in Values \cup {NoName}
      BY CatalogAssumption
  <2> QED BY <1>1, <1>4, <2>1, OnlyIs
<1>7. AccountsOK(d)
    BY <1>4, <1>5, <1>6, EmptyTable DEF AccountsOK
<1>8. HostsOK(d)
    BY <1>4, EmptyTable DEF HostsOK
<1>9. ZonesOK(d)
    BY <1>4, EmptyTable DEF ZonesOK
<1> QED BY <1>3, <1>4, <1>7, <1>8, <1>9 DEF TablesOK, d

\* The first tables of an installation in use
LEMMA InstalledBeforeOK == TablesOK(InstalledBefore)
<1> DEFINE any(S) == CHOOSE x \in S : TRUE
           o == any(RoleNames)      g == any(GroupNames)  u == any(UserNames)  i == any(IdpNames)
           p == any(ProviderNames)  q == any(RepoNames)   v == any(ViewNames)  x == any(VarNames)
           n == any(ZoneNames)      r == any(RecordNames)
           row == [name |-> n, view |-> v, repo |-> q]
           d == InstalledBefore
<1>1. /\ o \in RoleNames /\ g \in GroupNames /\ u \in UserNames /\ i \in IdpNames
      /\ p \in ProviderNames /\ q \in RepoNames /\ v \in ViewNames /\ x \in VarNames
      /\ n \in ZoneNames /\ r \in RecordNames
  <2>1. \A S : S # {} => any(S) \in S
      OBVIOUS
  <2> QED BY <2>1, CatalogAssumption
<1>2. d = [settings |-> [k \in SettingKeys |-> 1], roles |-> Only(o, 1), groups |-> Only(g, o),
           users |-> Only(u, {g}), idps |-> Only(i, g), providers |-> Only(p, 1),
           repos |-> Only(q, 1), views |-> Only(v, {p}), zones |-> Only(1, row),
           last |-> 1, live |-> {<<1, r, 1>>}, marked |-> {},
           vars |-> Put(Only(<<x, NoName>>, 1), <<x, 1>>, 2),
           secrets |-> {<<"user", u>>, <<"provider", p>>, <<"repo", q>>, <<"idp", i>>}]
    BY DEF InstalledBefore
<1> HIDE DEF o, g, u, i, p, q, v, x, n, r, row, d
<1>3. Shaped(d)
    BY <1>2 DEF Shaped
<1>4. /\ d.settings = [k \in SettingKeys |-> 1] /\ d.roles = Only(o, 1) /\ d.groups = Only(g, o)
      /\ d.users = Only(u, {g}) /\ d.idps = Only(i, g) /\ d.providers = Only(p, 1)
      /\ d.repos = Only(q, 1) /\ d.views = Only(v, {p}) /\ d.zones = Only(1, row)
      /\ d.last = 1 /\ d.live = {<<1, r, 1>>} /\ d.marked = {}
      /\ d.vars = Put(Only(<<x, NoName>>, 1), <<x, 1>>, 2)
      /\ d.secrets = {<<"user", u>>, <<"provider", p>>, <<"repo", q>>, <<"idp", i>>}
    BY <1>2
<1>5. /\ DOMAIN d.roles = {o} /\ DOMAIN d.groups = {g} /\ DOMAIN d.providers = {p}
      /\ DOMAIN d.repos = {q} /\ DOMAIN d.views = {v} /\ DOMAIN d.zones = {1}
    BY <1>4 DEF Only
<1>6. AccountsOK(d)
  <2>1. IsTable(d.settings, SettingKeys, Values)
      BY <1>4, CatalogAssumption DEF IsTable
  <2>2. IsTable(d.roles, RoleNames, Values \cup {NoName})
    <3>1. 1 \in Values \cup {NoName}
        BY CatalogAssumption
    <3> QED BY <1>1, <1>4, <3>1, OnlyIs
  <2>3. IsTable(d.groups, GroupNames, DOMAIN d.roles)
    <3>1. o \in DOMAIN d.roles
        BY <1>5
    <3> QED BY <1>1, <1>4, <3>1, OnlyIs
  <2>4. IsTable(d.users, UserNames, SUBSET DOMAIN d.groups)
    <3>1. {g} \in SUBSET DOMAIN d.groups
        BY <1>5
    <3> QED BY <1>1, <1>4, <3>1, OnlyIs
  <2>5. IsTable(d.idps, IdpNames, DOMAIN d.groups \cup {NoName})
    <3>1. g \in DOMAIN d.groups \cup {NoName}
        BY <1>5
    <3> QED BY <1>1, <1>4, <3>1, OnlyIs
  <2> QED BY <2>1, <2>2, <2>3, <2>4, <2>5 DEF AccountsOK
<1>7. HostsOK(d)
  <2>1. 1 \in Values /\ {p} \in SUBSET DOMAIN d.providers
      BY <1>5, CatalogAssumption
  <2> QED BY <1>1, <1>4, <2>1, OnlyIs DEF HostsOK
<1>8. ZonesOK(d)
  <2>1. row \in ZoneOf(DOMAIN d.views, DOMAIN d.repos \cup {NoName}) /\ 1 \in 1..d.last /\ d.last \in Nat
      BY <1>1, <1>4, <1>5 DEF ZoneOf, row
  <2>2. IsTable(d.zones, 1..d.last, ZoneOf(DOMAIN d.views, DOMAIN d.repos \cup {NoName}))
      BY <1>4, <2>1, OnlyIs
  <2>3. /\ d.live \subseteq (DOMAIN d.zones) \X RecordNames \X Values
        /\ d.marked \subseteq (DOMAIN d.zones) \X RecordNames \X Values
      BY <1>1, <1>4, <1>5, CatalogAssumption
  <2>4. IsTable(d.vars, VarNames \X (DOMAIN d.zones \cup {NoName}), Values)
    <3> DEFINE keys == VarNames \X (DOMAIN d.zones \cup {NoName})
    <3>1. <<x, NoName>> \in keys /\ <<x, 1>> \in keys /\ 1 \in Values /\ 2 \in Values
        BY <1>1, <1>5, CatalogAssumption
    <3> HIDE DEF keys
    <3>2. IsTable(Only(<<x, NoName>>, 1), keys, Values)
        BY <3>1, OnlyIs
    <3>3. IsTable(Put(Only(<<x, NoName>>, 1), <<x, 1>>, 2), keys, Values)
        BY <3>1, <3>2, PutIs
    <3> QED BY <1>4, <3>3 DEF keys
  <2> QED BY <2>1, <2>2, <2>3, <2>4 DEF ZonesOK
<1>9. d.secrets \subseteq Bearers
    BY <1>1, <1>4 DEF Bearers
<1> QED BY <1>3, <1>6, <1>7, <1>8, <1>9 DEF TablesOK, d

-----------------------------------------------------------------------------
(* The file *)

\* The file is a record of these.
FileShaped(f) ==
    f = [kind |-> f.kind, settings |-> f.settings, roles |-> f.roles, groups |-> f.groups,
         users |-> f.users, idps |-> f.idps, providers |-> f.providers, repos |-> f.repos,
         views |-> f.views, zones |-> f.zones, records |-> f.records, vars |-> f.vars]

\* A zone of a file: names, not ids, of the view and of the repository
FileZone == [id : Nat, name : ZoneNames, view : ViewNames \cup {NoName}, repo : RepoNames \cup {NoName}]

\* A record of a file
FileRecord == [zone : ZoneNames, name : RecordNames, value : Values, id : Nat]

\* A variable of a file
FileVar == [name : VarNames, value : Values, scope : {"global", "zone"}, zone : SUBSET ZoneNames]

\* What a file has, whatever was edited while it was written
FileTables(f) ==
    /\ IsTable(f.settings, SettingKeys, Values)
    /\ IsTable(f.roles, RoleNames, Values \cup {NoName})
    /\ IsTable(f.groups, GroupNames, RoleNames \cup {NoName})
    /\ IsTable(f.users, UserNames, SUBSET GroupNames)
    /\ IsTable(f.idps, IdpNames, GroupNames \cup {NoName})
    /\ IsTable(f.providers, ProviderNames, Values)
    /\ IsTable(f.repos, RepoNames, Values)
    /\ IsTable(f.views, ViewNames, SUBSET ProviderNames)

\* The zones of a file, one of an id
FileZones(zones) ==
    /\ zones \subseteq FileZone /\ IsFiniteSet(zones)
    /\ \A y, z \in zones : y.id = z.id => y = z

\* A file, whatever it was made from
FileOK(f) ==
    /\ FileShaped(f) /\ FileTables(f) /\ FileZones(f.zones)
    /\ f.records \subseteq FileRecord /\ f.vars \subseteq FileVar

\* The zones of the file are those of the tables.
ZonesListed == \A i \in DOMAIN db.zones : \E z \in backup.zones : z.id = i

\* The records are of zones of the file.
RecordsNamed == \A r \in backup.records : \E z \in backup.zones : z.name = r.zone

\* The variables are global, or of one zone of the file.
VarsNamed ==
    \A x \in backup.vars :
      \/ x.scope = "global" /\ x.zone = {}
      \/ x.scope = "zone" /\ \E z \in backup.zones : x.zone = {z.name}

\* The sections that are read after the zones
Listing == {"repos", "settings", "permissions", "users", "idps", "attachments", "records",
               "variables"}

\* What the file is at every moment, also while it is written
FileInv ==
    /\ reading # "idle" => FileOK(backup)
    /\ reading \notin {"idle", "ready"} => backup.kind = "system"
    /\ saved # NoName /\ reading \in Listing => ZonesListed
    /\ reading \in {"variables", "ready"} /\ backup.kind = "system" => RecordsNamed
    /\ saved # NoName /\ reading = "ready" /\ backup.kind = "system" => VarsNamed

\* Names of the rows that are there
LEMMA DomainsAre ==
    ASSUME TablesOK(db)
    PROVE  /\ DOMAIN db.roles \subseteq RoleNames /\ DOMAIN db.groups \subseteq GroupNames
           /\ DOMAIN db.users \subseteq UserNames /\ DOMAIN db.idps \subseteq IdpNames
           /\ DOMAIN db.providers \subseteq ProviderNames /\ DOMAIN db.repos \subseteq RepoNames
           /\ DOMAIN db.views \subseteq ViewNames /\ DOMAIN db.zones \subseteq Nat
           /\ IsFiniteSet(DOMAIN db.zones)
           /\ \A g \in DOMAIN db.groups : db.groups[g] \in RoleNames
           /\ \A u \in DOMAIN db.users : db.users[u] \in SUBSET GroupNames
           /\ \A i \in DOMAIN db.idps : db.idps[i] \in GroupNames \cup {NoName}
           /\ \A v \in DOMAIN db.views : db.views[v] \in SUBSET ProviderNames
           /\ \A z \in DOMAIN db.zones : /\ db.zones[z].name \in ZoneNames
                                         /\ db.zones[z].view \in ViewNames
                                         /\ db.zones[z].repo \in RepoNames \cup {NoName}
<1>1. /\ DOMAIN db.roles \subseteq RoleNames /\ DOMAIN db.groups \subseteq GroupNames
      /\ DOMAIN db.users \subseteq UserNames /\ DOMAIN db.idps \subseteq IdpNames
      /\ DOMAIN db.providers \subseteq ProviderNames /\ DOMAIN db.repos \subseteq RepoNames
      /\ DOMAIN db.views \subseteq ViewNames
    BY DEF TablesOK, AccountsOK, HostsOK, IsTable
<1>2. DOMAIN db.zones \subseteq 1..db.last /\ db.last \in Nat
    BY DEF TablesOK, ZonesOK, IsTable
<1>3. IsFiniteSet(DOMAIN db.zones)
  <2>1. db.last \in Int /\ 1 \in Int
      BY <1>2
  <2>2. IsFiniteSet(1..db.last)
      BY <2>1, FS_Interval
  <2> QED BY <1>2, <2>2, FS_Subset
<1>4. /\ \A g \in DOMAIN db.groups : db.groups[g] \in DOMAIN db.roles
      /\ \A u \in DOMAIN db.users : db.users[u] \in SUBSET DOMAIN db.groups
      /\ \A i \in DOMAIN db.idps : db.idps[i] \in DOMAIN db.groups \cup {NoName}
      /\ \A v \in DOMAIN db.views : db.views[v] \in SUBSET DOMAIN db.providers
    BY DEF TablesOK, AccountsOK, HostsOK, IsTable
<1>5. \A z \in DOMAIN db.zones : /\ db.zones[z].name \in ZoneNames
                                 /\ db.zones[z].view \in DOMAIN db.views
                                 /\ db.zones[z].repo \in DOMAIN db.repos \cup {NoName}
    BY ZoneFields DEF TablesOK
<1>6. DOMAIN db.zones \subseteq Nat
    BY <1>2
<1>7. /\ \A g \in DOMAIN db.groups : db.groups[g] \in RoleNames
      /\ \A u \in DOMAIN db.users : db.users[u] \in SUBSET GroupNames
      /\ \A i \in DOMAIN db.idps : db.idps[i] \in GroupNames \cup {NoName}
      /\ \A v \in DOMAIN db.views : db.views[v] \in SUBSET ProviderNames
    BY <1>1, <1>4
<1>8. \A z \in DOMAIN db.zones : /\ db.zones[z].name \in ZoneNames
                                 /\ db.zones[z].view \in ViewNames
                                 /\ db.zones[z].repo \in RepoNames \cup {NoName}
    BY <1>1, <1>5
<1> QED BY <1>1, <1>3, <1>6, <1>7, <1>8

\* The file before the first section is read
LEMMA EmptyFileOK == FileOK(EmptyFile) /\ EmptyFile.kind = "system"
<1> DEFINE f == EmptyFile
<1>1. FileShaped(f)
    BY DEF FileShaped, EmptyFile
<1>2. /\ f.kind = "system" /\ f.settings = <<>> /\ f.roles = <<>> /\ f.groups = <<>> /\ f.users = <<>>
      /\ f.idps = <<>> /\ f.providers = <<>> /\ f.repos = <<>> /\ f.views = <<>> /\ f.zones = {}
      /\ f.records = {} /\ f.vars = {}
    BY DEF EmptyFile
<1> HIDE DEF f
<1>3. FileTables(f)
    BY <1>2, EmptyTable DEF FileTables
<1>4. FileZones(f.zones)
    BY <1>2, FS_EmptySet DEF FileZones
<1> QED BY <1>1, <1>2, <1>3, <1>4 DEF FileOK, f

\* Another table in a section
LEMMA TablesReadOK ==
    ASSUME NEW f, FileOK(f), NEW e, FileShaped(e), FileTables(e),
           e.zones = f.zones, e.records = f.records, e.vars = f.vars
    PROVE  FileOK(e)
BY DEF FileOK

\* The sections that are a table by name
LEMMA ReadTableOK ==
    ASSUME TablesOK(db), NEW f, FileOK(f),
           NEW e, e \in {ReadRoles(f), ReadGroups(f), ReadProviders(f), ReadViews(f), ReadSettings(f),
                         ReadPermissions(f), ReadUsers(f), ReadIdps(f), ReadAttachments(f)}
    PROVE  FileOK(e) /\ e.kind = f.kind /\ e.zones = f.zones /\ e.records = f.records
<1> USE DomainsAre
<1>0. FileShaped(f) /\ FileTables(f)
    BY DEF FileOK
<1>1. CASE e = ReadRoles(f)
  <2> DEFINE t == [o \in DOMAIN db.roles |-> NoName]
  <2>1. IsTable(t, RoleNames, Values \cup {NoName})
      BY DEF IsTable
  <2>2. /\ FileShaped(e) /\ e = [f EXCEPT !.roles = t] /\ e.kind = f.kind
        /\ e.zones = f.zones /\ e.records = f.records /\ e.vars = f.vars
      BY <1>0, <1>1 DEF ReadRoles, FileShaped
  <2> HIDE DEF t
  <2>3. FileTables(e)
      BY <1>0, <2>1, <2>2 DEF FileTables, FileShaped
  <2> QED BY <2>2, <2>3, TablesReadOK
<1>2. CASE e = ReadGroups(f)
  <2> DEFINE t == [g \in DOMAIN db.groups |-> NameIn(db.groups[g], f.roles)]
  <2>1. IsTable(t, GroupNames, RoleNames \cup {NoName})
      BY DEF IsTable, NameIn
  <2>2. /\ FileShaped(e) /\ e = [f EXCEPT !.groups = t] /\ e.kind = f.kind
        /\ e.zones = f.zones /\ e.records = f.records /\ e.vars = f.vars
      BY <1>0, <1>2 DEF ReadGroups, FileShaped
  <2> HIDE DEF t
  <2>3. FileTables(e)
      BY <1>0, <2>1, <2>2 DEF FileTables, FileShaped
  <2> QED BY <2>2, <2>3, TablesReadOK
<1>3. CASE e = ReadProviders(f)
  <2>2. /\ FileShaped(e) /\ e = [f EXCEPT !.providers = db.providers] /\ e.kind = f.kind
        /\ e.zones = f.zones /\ e.records = f.records /\ e.vars = f.vars
      BY <1>0, <1>3 DEF ReadProviders, FileShaped
  <2>3. FileTables(e)
      BY <1>0, <2>2 DEF FileTables, FileShaped, TablesOK, HostsOK
  <2> QED BY <2>2, <2>3, TablesReadOK
<1>4. CASE e = ReadViews(f)
  <2> DEFINE t == [v \in DOMAIN db.views |-> {}]
  <2>1. IsTable(t, ViewNames, SUBSET ProviderNames)
      BY DEF IsTable
  <2>2. /\ FileShaped(e) /\ e = [f EXCEPT !.views = t] /\ e.kind = f.kind
        /\ e.zones = f.zones /\ e.records = f.records /\ e.vars = f.vars
      BY <1>0, <1>4 DEF ReadViews, FileShaped
  <2> HIDE DEF t
  <2>3. FileTables(e)
      BY <1>0, <2>1, <2>2 DEF FileTables, FileShaped
  <2> QED BY <2>2, <2>3, TablesReadOK
<1>5. CASE e = ReadSettings(f)
  <2>2. /\ FileShaped(e) /\ e = [f EXCEPT !.settings = db.settings] /\ e.kind = f.kind
        /\ e.zones = f.zones /\ e.records = f.records /\ e.vars = f.vars
      BY <1>0, <1>5 DEF ReadSettings, FileShaped
  <2>3. FileTables(e)
      BY <1>0, <2>2 DEF FileTables, FileShaped, TablesOK, AccountsOK
  <2> QED BY <2>2, <2>3, TablesReadOK
<1>6. CASE e = ReadPermissions(f)
  <2> DEFINE t == [o \in DOMAIN f.roles |-> IF o \in DOMAIN db.roles THEN db.roles[o] ELSE NoName]
  <2>1. IsTable(t, RoleNames, Values \cup {NoName})
    <3>1. DOMAIN f.roles \subseteq RoleNames
        BY <1>0 DEF FileTables, IsTable
    <3>2. \A o \in DOMAIN db.roles : db.roles[o] \in Values \cup {NoName}
        BY DEF TablesOK, AccountsOK, IsTable
    <3> QED BY <3>1, <3>2 DEF IsTable
  <2>2. /\ FileShaped(e) /\ e = [f EXCEPT !.roles = t] /\ e.kind = f.kind
        /\ e.zones = f.zones /\ e.records = f.records /\ e.vars = f.vars
      BY <1>0, <1>6 DEF ReadPermissions, FileShaped
  <2> HIDE DEF t
  <2>3. FileTables(e)
      BY <1>0, <2>1, <2>2 DEF FileTables, FileShaped
  <2> QED BY <2>2, <2>3, TablesReadOK
<1>7. CASE e = ReadUsers(f)
  <2>1. IsTable(db.users, UserNames, SUBSET GroupNames)
      BY DEF TablesOK, AccountsOK, IsTable
  <2>2. /\ FileShaped(e) /\ e = [f EXCEPT !.users = db.users] /\ e.kind = f.kind
        /\ e.zones = f.zones /\ e.records = f.records /\ e.vars = f.vars
      BY <1>0, <1>7 DEF ReadUsers, FileShaped
  <2>3. FileTables(e)
      BY <1>0, <2>1, <2>2 DEF FileTables, FileShaped
  <2> QED BY <2>2, <2>3, TablesReadOK
<1>8. CASE e = ReadIdps(f)
  <2> DEFINE t == [i \in DOMAIN db.idps |-> NameIn(db.idps[i], f.groups)]
  <2>1. IsTable(t, IdpNames, GroupNames \cup {NoName})
      BY DEF IsTable, NameIn
  <2>2. /\ FileShaped(e) /\ e = [f EXCEPT !.idps = t] /\ e.kind = f.kind
        /\ e.zones = f.zones /\ e.records = f.records /\ e.vars = f.vars
      BY <1>0, <1>8 DEF ReadIdps, FileShaped
  <2> HIDE DEF t
  <2>3. FileTables(e)
      BY <1>0, <2>1, <2>2 DEF FileTables, FileShaped
  <2> QED BY <2>2, <2>3, TablesReadOK
<1>9. CASE e = ReadAttachments(f)
  <2> DEFINE t == [v \in DOMAIN f.views |->
                     IF v \in DOMAIN db.views THEN db.views[v] \cap DOMAIN f.providers ELSE {}]
  <2>1. IsTable(t, ViewNames, SUBSET ProviderNames)
    <3>1. DOMAIN f.views \subseteq ViewNames /\ DOMAIN f.providers \subseteq ProviderNames
        BY <1>0 DEF FileTables, IsTable
    <3> QED BY <3>1 DEF IsTable
  <2>2. /\ FileShaped(e) /\ e = [f EXCEPT !.views = t] /\ e.kind = f.kind
        /\ e.zones = f.zones /\ e.records = f.records /\ e.vars = f.vars
      BY <1>0, <1>9 DEF ReadAttachments, FileShaped
  <2> HIDE DEF t
  <2>3. FileTables(e)
      BY <1>0, <2>1, <2>2 DEF FileTables, FileShaped
  <2> QED BY <2>2, <2>3, TablesReadOK
<1> QED BY <1>1, <1>2, <1>3, <1>4, <1>5, <1>6, <1>7, <1>8, <1>9

\* A zone as the file has it
LEMMA ListedIs ==
    ASSUME TablesOK(db), NEW z \in DOMAIN db.zones
    PROVE  Listed(z) \in FileZone /\ Listed(z).id = z /\ Listed(z).name = db.zones[z].name
BY DomainsAre DEF Listed, FileZone

\* The zones are read.
LEMMA ReadZonesOK ==
    ASSUME TablesOK(db), FileInv, reading = "zones"
    PROVE  LET e == ReadZones(backup) IN
           /\ FileOK(e) /\ e.kind = "system"
           /\ \A i \in DOMAIN db.zones : \E z \in e.zones : z.id = i
<1> DEFINE f == backup
           e == ReadZones(f)
           row(z) == [Listed(z) EXCEPT !.view = NameIn(@, f.views)]
           g == [z \in DOMAIN db.zones |-> row(z)]
           rows == {row(z) : z \in DOMAIN db.zones}
<1>1. FileOK(f) /\ f.kind = "system"
    BY DEF FileInv
<1>2. /\ FileShaped(e) /\ e = [f EXCEPT !.zones = rows] /\ e.zones = rows
      /\ e.kind = "system" /\ e.records = f.records /\ e.vars = f.vars
  <2>1. e = [f EXCEPT !.zones = rows]
      BY DEF ReadZones
  <2>2. FileShaped(f)
      BY <1>1 DEF FileOK
  <2> HIDE DEF e, rows
  <2> QED BY <1>1, <2>1, <2>2 DEF FileShaped
<1>3. ASSUME NEW z \in DOMAIN db.zones
      PROVE  row(z) \in FileZone /\ row(z).id = z
  <2>1. Listed(z) = [id |-> z, name |-> db.zones[z].name, view |-> db.zones[z].view,
                     repo |-> db.zones[z].repo]
      BY DEF Listed
  <2>2. NameIn(db.zones[z].view, f.views) \in ViewNames \cup {NoName}
      BY DomainsAre DEF NameIn
  <2>3. row(z) = [id |-> z, name |-> db.zones[z].name, view |-> NameIn(db.zones[z].view, f.views),
                  repo |-> db.zones[z].repo]
      BY <2>1
  <2>4. /\ z \in Nat /\ db.zones[z].name \in ZoneNames
        /\ db.zones[z].repo \in RepoNames \cup {NoName}
      BY DomainsAre
  <2> HIDE DEF row
  <2> QED BY <2>2, <2>3, <2>4 DEF FileZone
<1> HIDE DEF row
<1>4. IsFiniteSet(rows)
  <2>1. rows = {g[z] : z \in DOMAIN db.zones} /\ g \in [DOMAIN db.zones -> rows]
      OBVIOUS
  <2>2. g \in Surjection(DOMAIN db.zones, rows)
      BY <2>1 DEF Surjection
  <2>3. IsFiniteSet(DOMAIN db.zones)
      BY DomainsAre
  <2> HIDE DEF g, rows
  <2> QED BY <2>2, <2>3, FS_Surjection
<1>5. FileZones(rows)
    BY <1>3, <1>4 DEF FileZones
<1>6. \A i \in DOMAIN db.zones : \E z \in e.zones : z.id = i
    BY <1>2, <1>3
<1>7. FileTables(e)
  <2> HIDE DEF e, rows
  <2>1. /\ e.settings = f.settings /\ e.roles = f.roles /\ e.groups = f.groups /\ e.users = f.users
        /\ e.idps = f.idps /\ e.providers = f.providers /\ e.repos = f.repos /\ e.views = f.views
      BY <1>1, <1>2 DEF FileOK, FileShaped
  <2> QED BY <1>1, <2>1 DEF FileOK, FileTables
<1> HIDE DEF e, rows
<1>8. FileOK(e)
    BY <1>1, <1>2, <1>5, <1>7 DEF FileOK
<1> QED BY <1>2, <1>6, <1>8 DEF e

\* The repositories are read, and the zones get theirs.
LEMMA ReadReposOK ==
    ASSUME TablesOK(db), NEW f, FileOK(f), NEW e, e = ReadRepos(f)
    PROVE  /\ FileOK(e) /\ e.kind = f.kind
           /\ \A y \in f.zones : \E z \in e.zones : z.id = y.id
<1> DEFINE row(z) == [z EXCEPT !.repo = NameIn(@, db.repos)]
           g == [z \in f.zones |-> row(z)]
           rows == {row(z) : z \in f.zones}
<1>1. /\ FileShaped(e) /\ e = [f EXCEPT !.repos = db.repos, !.zones = rows] /\ e.zones = rows
      /\ e.kind = f.kind /\ e.records = f.records /\ e.vars = f.vars
    BY DEF FileOK, FileShaped, ReadRepos
<1>2. ASSUME NEW z \in f.zones
      PROVE  row(z) \in FileZone /\ row(z).id = z.id
  <2>1. z \in [id : Nat, name : ZoneNames, view : ViewNames \cup {NoName}, repo : RepoNames \cup {NoName}]
      BY DEF FileOK, FileZones, FileZone
  <2>2. NameIn(z.repo, db.repos) \in RepoNames \cup {NoName}
      BY <2>1, DomainsAre DEF NameIn
  <2> QED BY <2>1, <2>2 DEF FileZone
<1>3. IsFiniteSet(f.zones) /\ \A y, z \in f.zones : y.id = z.id => y = z
    BY DEF FileOK, FileZones
<1> HIDE DEF row
<1>4. IsFiniteSet(rows)
  <2>1. rows = {g[z] : z \in f.zones} /\ g \in [f.zones -> rows]
      OBVIOUS
  <2>2. g \in Surjection(f.zones, rows)
      BY <2>1 DEF Surjection
  <2> HIDE DEF g, rows
  <2> QED BY <1>3, <2>2, FS_Surjection
<1>5. FileZones(rows)
  <2>1. rows \subseteq FileZone
      BY <1>2
  <2>2. ASSUME NEW y \in f.zones, NEW z \in f.zones, row(y).id = row(z).id
        PROVE  y = z
      BY <1>2, <1>3, <2>2
  <2> QED BY <1>4, <2>1, <2>2 DEF FileZones
<1>6. \A y \in f.zones : \E z \in e.zones : z.id = y.id
    BY <1>1, <1>2
<1>7. FileTables(e)
  <2> HIDE DEF rows
  <2>1. /\ e.settings = f.settings /\ e.roles = f.roles /\ e.groups = f.groups /\ e.users = f.users
        /\ e.idps = f.idps /\ e.providers = f.providers /\ e.repos = db.repos /\ e.views = f.views
      BY <1>1 DEF FileOK, FileShaped
  <2> QED BY <2>1 DEF FileOK, FileTables, TablesOK, HostsOK
<1> HIDE DEF rows
<1> QED BY <1>1, <1>5, <1>6, <1>7 DEF FileOK

\* The records are read: each is of a zone of the file.
LEMMA ReadRecordsOK ==
    ASSUME TablesOK(db), NEW f, FileOK(f), NEW e, e = ReadRecords(f)
    PROVE  /\ FileOK(e) /\ e.kind = f.kind /\ e.zones = f.zones
           /\ \A r \in e.records : \E z \in e.zones : z.name = r.zone
<1> DEFINE rec(z, r) == [zone |-> z.name, name |-> r[2], value |-> r[3], id |-> z.id]
           recs == UNION {{rec(z, r) : r \in {r \in db.live : r[1] = z.id}} : z \in f.zones}
<1>1. /\ FileShaped(e) /\ e = [f EXCEPT !.records = recs] /\ e.records = recs
      /\ e.kind = f.kind /\ e.zones = f.zones /\ e.vars = f.vars
    BY DEF FileOK, FileShaped, ReadRecords, Exported
<1>2. ASSUME NEW x \in recs
      PROVE  x \in FileRecord /\ \E z \in f.zones : z.name = x.zone
  <2>1. PICK z \in f.zones : x \in {rec(z, r) : r \in {r \in db.live : r[1] = z.id}}
      OBVIOUS
  <2>2. PICK r \in db.live : x = rec(z, r)
      BY <2>1
  <2>3. r[2] \in RecordNames /\ r[3] \in Values
      BY DEF TablesOK, ZonesOK
  <2>4. z.name \in ZoneNames /\ z.id \in Nat
      BY DEF FileOK, FileZones, FileZone
  <2> HIDE DEF recs
  <2> QED BY <2>2, <2>3, <2>4 DEF FileRecord
<1> HIDE DEF recs
<1>3. FileTables(e)
  <2>1. /\ e.settings = f.settings /\ e.roles = f.roles /\ e.groups = f.groups /\ e.users = f.users
        /\ e.idps = f.idps /\ e.providers = f.providers /\ e.repos = f.repos /\ e.views = f.views
      BY <1>1 DEF FileOK, FileShaped
  <2> QED BY <2>1 DEF FileOK, FileTables
<1> QED BY <1>1, <1>2, <1>3 DEF FileOK

\* What the export makes of the variables is what a file may have.
LEMMA VariablesTyped ==
    ASSUME TablesOK(db), NEW keys, keys \subseteq DOMAIN db.vars,
           NEW zones, \A z \in zones : z.name \in ZoneNames
    PROVE  VariablesOf(keys, zones) \subseteq FileVar
<1>1. ASSUME NEW k \in keys
      PROVE  [name |-> k[1], value |-> db.vars[k], scope |-> IF k[2] = NoName THEN "global" ELSE "zone",
              zone |-> {z.name : z \in {y \in zones : y.id = k[2]}}] \in FileVar
  <2>1. k[1] \in VarNames /\ db.vars[k] \in Values
      BY DEF TablesOK, ZonesOK, IsTable
  <2>2. {z.name : z \in {y \in zones : y.id = k[2]}} \in SUBSET ZoneNames
      OBVIOUS
  <2> QED BY <2>1, <2>2 DEF FileVar
<1> QED BY <1>1 DEF VariablesOf

\* Where all zones of the tables are listed, a variable is global or of a zone of the list.
LEMMA VariablesPlaced ==
    ASSUME TablesOK(db), NEW zones, FileZones(zones),
           \A i \in DOMAIN db.zones : \E z \in zones : z.id = i,
           NEW x \in VariablesOf(DOMAIN db.vars, zones)
    PROVE  \/ x.scope = "global" /\ x.zone = {}
           \/ x.scope = "zone" /\ \E z \in zones : x.zone = {z.name}
<1>1. PICK k \in DOMAIN db.vars :
        /\ x.scope = IF k[2] = NoName THEN "global" ELSE "zone"
        /\ x.zone = {z.name : z \in {y \in zones : y.id = k[2]}}
    BY DEF VariablesOf
<1>2. k[2] \in DOMAIN db.zones \cup {NoName}
    BY DEF TablesOK, ZonesOK, IsTable
<1>3. CASE k[2] = NoName
  <2>1. \A y \in zones : y.id \in Nat
      BY DEF FileZones, FileZone
  <2>2. {y \in zones : y.id = k[2]} = {}
      BY <1>3, <2>1, CatalogAssumption
  <2> QED BY <1>1, <1>3, <2>2
<1>4. CASE k[2] # NoName
  <2>1. PICK z \in zones : z.id = k[2]
      BY <1>2, <1>4
  <2>2. {y \in zones : y.id = k[2]} = {z}
      BY <2>1 DEF FileZones
  <2> QED BY <1>1, <1>4, <2>2
<1> QED BY <1>3, <1>4

\* The variables are read.
LEMMA ReadVariablesOK ==
    ASSUME TablesOK(db), NEW f, FileOK(f), NEW e, e = ReadVariables(f)
    PROVE  /\ FileOK(e) /\ e.kind = f.kind /\ e.zones = f.zones /\ e.records = f.records
           /\ e.vars = VariablesOf(DOMAIN db.vars, f.zones)
<1> DEFINE vars == VariablesOf(DOMAIN db.vars, f.zones)
<1>1. e = [f EXCEPT !.vars = vars] /\ FileShaped(f)
    BY DEF FileOK, ReadVariables
<1>2. vars \subseteq FileVar
  <2>1. \A z \in f.zones : z.name \in ZoneNames
      BY DEF FileOK, FileZones, FileZone
  <2> QED BY <2>1, VariablesTyped
<1> HIDE DEF vars
<1>3. /\ FileShaped(e) /\ e.kind = f.kind /\ e.zones = f.zones /\ e.records = f.records
      /\ e.vars = vars
      /\ e.settings = f.settings /\ e.roles = f.roles /\ e.groups = f.groups /\ e.users = f.users
      /\ e.idps = f.idps /\ e.providers = f.providers /\ e.repos = f.repos /\ e.views = f.views
    BY <1>1 DEF FileShaped
<1>4. FileTables(e)
    BY <1>3 DEF FileOK, FileTables
<1> QED BY <1>2, <1>3, <1>4 DEF FileOK, vars

\* The sections, one step for each
LEMMA SectionSteps ==
    ASSUME ExportSection
    PROVE  \/ reading = "roles" /\ reading' = "groups" /\ backup' = ReadRoles(backup)
           \/ reading = "groups" /\ reading' = "providers" /\ backup' = ReadGroups(backup)
           \/ reading = "providers" /\ reading' = "views" /\ backup' = ReadProviders(backup)
           \/ reading = "views" /\ reading' = "zones" /\ backup' = ReadViews(backup)
           \/ reading = "zones" /\ reading' = "repos" /\ backup' = ReadZones(backup)
           \/ reading = "repos" /\ reading' = "settings" /\ backup' = ReadRepos(backup)
           \/ reading = "settings" /\ reading' = "permissions" /\ backup' = ReadSettings(backup)
           \/ reading = "permissions" /\ reading' = "users" /\ backup' = ReadPermissions(backup)
           \/ reading = "users" /\ reading' = "idps" /\ backup' = ReadUsers(backup)
           \/ reading = "idps" /\ reading' = "attachments" /\ backup' = ReadIdps(backup)
           \/ reading = "attachments" /\ reading' = "records" /\ backup' = ReadAttachments(backup)
           \/ reading = "records" /\ reading' = "variables" /\ backup' = ReadRecords(backup)
           \/ reading = "variables" /\ reading' = "ready" /\ backup' = ReadVariables(backup)
<1>1. PICK i \in 1..(Len(Sections) - 1) :
        /\ reading = Sections[i] /\ reading' = Sections[i + 1]
        /\ backup' = ReadSection(reading, backup)
    BY DEF ExportSection
<1>2. i \in 1..13
    BY <1>1 DEF Sections
<1>3. \/ reading = "roles" /\ reading' = "groups"
      \/ reading = "groups" /\ reading' = "providers"
      \/ reading = "providers" /\ reading' = "views"
      \/ reading = "views" /\ reading' = "zones"
      \/ reading = "zones" /\ reading' = "repos"
      \/ reading = "repos" /\ reading' = "settings"
      \/ reading = "settings" /\ reading' = "permissions"
      \/ reading = "permissions" /\ reading' = "users"
      \/ reading = "users" /\ reading' = "idps"
      \/ reading = "idps" /\ reading' = "attachments"
      \/ reading = "attachments" /\ reading' = "records"
      \/ reading = "records" /\ reading' = "variables"
      \/ reading = "variables" /\ reading' = "ready"
    BY <1>1, <1>2 DEF Sections
<1> QED BY <1>1, <1>3 DEF ReadSection

\* A section more leaves a file.
LEMMA SectionOK ==
    ASSUME TablesOK(db), FileInv, ExportSection
    PROVE  FileInv'
<1>0. /\ UNCHANGED <<catalogVars, saved, lost, outcome>>
      /\ FileOK(backup) /\ backup.kind = "system"
  <2>1. reading \notin {"idle", "ready"}
      BY SectionSteps
  <2> QED BY <2>1 DEF ExportSection, FileInv
<1>1. CASE reading \in {"roles", "groups", "providers", "views"}
  <2>1. /\ reading' \in {"groups", "providers", "views", "zones"}
        /\ backup' \in {ReadRoles(backup), ReadGroups(backup), ReadProviders(backup), ReadViews(backup)}
      BY <1>1, SectionSteps
  <2>2. FileOK(backup') /\ backup'.kind = "system"
      BY <1>0, <2>1, ReadTableOK
  <2> QED BY <2>1, <2>2 DEF FileInv, Listing
<1>2. CASE reading = "zones"
  <2>1. reading' = "repos" /\ backup' = ReadZones(backup)
      BY <1>2, SectionSteps
  <2>2. /\ FileOK(backup') /\ backup'.kind = "system"
        /\ \A i \in DOMAIN db.zones : \E z \in backup'.zones : z.id = i
      BY <1>2, <2>1, ReadZonesOK
  <2> QED BY <1>0, <2>1, <2>2 DEF FileInv, ZonesListed, catalogVars
<1>3. CASE reading = "repos"
  <2>1. reading' = "settings" /\ backup' = ReadRepos(backup)
      BY <1>3, SectionSteps
  <2>2. /\ FileOK(backup') /\ backup'.kind = "system"
        /\ \A y \in backup.zones : \E z \in backup'.zones : z.id = y.id
      BY <1>0, <2>1, ReadReposOK
  <2>3. saved # NoName => ZonesListed
      BY <1>3 DEF FileInv, Listing
  <2> QED BY <1>0, <2>1, <2>2, <2>3 DEF FileInv, ZonesListed, catalogVars
<1>4. CASE reading \in {"settings", "permissions", "users", "idps", "attachments"}
  <2>1. /\ reading' \in {"permissions", "users", "idps", "attachments", "records"}
        /\ backup' \in {ReadSettings(backup), ReadPermissions(backup), ReadUsers(backup),
                        ReadIdps(backup), ReadAttachments(backup)}
      BY <1>4, SectionSteps
  <2>2. FileOK(backup') /\ backup'.kind = "system" /\ backup'.zones = backup.zones
      BY <1>0, <2>1, ReadTableOK
  <2>3. saved # NoName => ZonesListed
      BY <1>4 DEF FileInv, Listing
  <2> QED BY <1>0, <2>1, <2>2, <2>3 DEF FileInv, ZonesListed, catalogVars
<1>5. CASE reading = "records"
  <2>1. reading' = "variables" /\ backup' = ReadRecords(backup)
      BY <1>5, SectionSteps
  <2>2. /\ FileOK(backup') /\ backup'.kind = "system" /\ backup'.zones = backup.zones
        /\ \A r \in backup'.records : \E z \in backup'.zones : z.name = r.zone
      BY <1>0, <2>1, ReadRecordsOK
  <2>3. saved # NoName => ZonesListed
      BY <1>5 DEF FileInv, Listing
  <2> QED BY <1>0, <2>1, <2>2, <2>3 DEF FileInv, ZonesListed, RecordsNamed, catalogVars
<1>6. CASE reading = "variables"
  <2>1. reading' = "ready" /\ backup' = ReadVariables(backup)
      BY <1>6, SectionSteps
  <2>2. /\ FileOK(backup') /\ backup'.kind = "system" /\ backup'.zones = backup.zones
        /\ backup'.records = backup.records
        /\ backup'.vars = VariablesOf(DOMAIN db.vars, backup.zones)
      BY <1>0, <2>1, ReadVariablesOK
  <2>3. RecordsNamed /\ (saved # NoName => ZonesListed)
      BY <1>0, <1>6 DEF FileInv, Listing
  <2>4. RecordsNamed'
      BY <2>2, <2>3 DEF RecordsNamed
  <2>5. saved # NoName => VarsNamed'
    <3> SUFFICES ASSUME saved # NoName, NEW x \in backup'.vars
                 PROVE  \/ x.scope = "global" /\ x.zone = {}
                        \/ x.scope = "zone" /\ \E z \in backup'.zones : x.zone = {z.name}
        BY DEF VarsNamed
    <3>1. FileZones(backup.zones)
        BY <1>0 DEF FileOK
    <3>2. \A i \in DOMAIN db.zones : \E z \in backup.zones : z.id = i
        BY <2>3 DEF ZonesListed
    <3>3. x \in VariablesOf(DOMAIN db.vars, backup.zones)
        BY <2>2
    <3> QED BY <2>2, <3>1, <3>2, <3>3, VariablesPlaced
  <2> QED BY <1>0, <2>1, <2>2, <2>4, <2>5 DEF FileInv, Listing
<1> QED BY <1>1, <1>2, <1>3, <1>4, <1>5, <1>6, SectionSteps

\* The export of one zone is a file.
LEMMA ExportZoneOK ==
    ASSUME TablesOK(db), FileInv, ExportZone
    PROVE  FileInv'
<1>1. PICK z \in DOMAIN db.zones :
        LET row == Listed(z) IN
        backup' = [EmptyFile EXCEPT
           !.kind = "zone",
           !.records = {[zone |-> row.name, name |-> r[2], value |-> r[3], id |-> z] :
                          r \in {r \in Exported : r[1] = z}},
           !.vars = VariablesOf({k \in DOMAIN db.vars : k[2] \in {NoName, z}}, {row})]
    BY DEF ExportZone
<1> DEFINE recs == {[zone |-> Listed(z).name, name |-> r[2], value |-> r[3], id |-> z] :
                      r \in {r \in db.live : r[1] = z}}
           vars == VariablesOf({k \in DOMAIN db.vars : k[2] \in {NoName, z}}, {Listed(z)})
           e == backup'
<1>2. e = [EmptyFile EXCEPT !.kind = "zone", !.records = recs, !.vars = vars]
    BY <1>1 DEF Exported
<1>3. Listed(z).name \in ZoneNames /\ z \in Nat
    BY DomainsAre, ListedIs
<1>4. recs \subseteq FileRecord
  <2>1. \A r \in db.live : r[2] \in RecordNames /\ r[3] \in Values
      BY DEF TablesOK, ZonesOK
  <2> QED BY <1>3, <2>1 DEF FileRecord
<1>5. vars \subseteq FileVar
    BY <1>3, VariablesTyped
<1> HIDE DEF recs, vars
<1>6. FileOK(EmptyFile)
    BY EmptyFileOK
<1>7. /\ FileShaped(e) /\ e.kind = "zone" /\ e.zones = EmptyFile.zones /\ e.records = recs
      /\ e.vars = vars
      /\ e.settings = EmptyFile.settings /\ e.roles = EmptyFile.roles /\ e.groups = EmptyFile.groups
      /\ e.users = EmptyFile.users /\ e.idps = EmptyFile.idps /\ e.providers = EmptyFile.providers
      /\ e.repos = EmptyFile.repos /\ e.views = EmptyFile.views
    BY <1>2, <1>6 DEF FileOK, FileShaped
<1>8. FileOK(e)
    BY <1>4, <1>5, <1>6, <1>7 DEF FileOK, FileTables
<1>9. reading' = "ready"
    BY DEF ExportZone
<1> QED BY <1>7, <1>8, <1>9 DEF FileInv, Listing

-----------------------------------------------------------------------------
(* The restore *)

\* What a restore makes of each table
Restores(d, f, to, e) ==
    /\ Shaped(e)
    /\ e.settings = Upserted(f.settings, d.settings)
    /\ e.roles = Upserted(f.roles, d.roles)
    /\ e.groups = Upserted([g \in DOMAIN f.groups |->
         IF f.groups[g] \in DOMAIN f.roles \cup DOMAIN e.roles THEN f.groups[g] ELSE NoName], d.groups)
    /\ e.users = Upserted([u \in DOMAIN f.users |-> Memberships(u, f)], d.users)
    /\ e.idps = Upserted([i \in DOMAIN f.idps |->
         IF f.idps[i] \in DOMAIN f.groups \cup DOMAIN e.groups THEN f.idps[i] ELSE NoName], d.idps)
    /\ e.providers = Upserted(f.providers, d.providers)
    /\ e.repos = Upserted(f.repos, d.repos)
    /\ e.views = Upserted([v \in DOMAIN f.views |-> f.views[v] \cap DOMAIN f.providers], d.views)
    /\ e.last = d.last + Cardinality({z \in f.zones : IsNew(d, z)})
    /\ e.zones = Upserted([i \in {to[z] : z \in f.zones} |->
         LET z == CHOOSE y \in f.zones : to[y] = i IN
         [name |-> z.name, view |-> z.view,
          repo |-> IF z.repo \in DOMAIN f.repos THEN z.repo ELSE NoName]], d.zones)
    /\ e.live = d.live /\ e.marked = d.marked /\ e.vars = d.vars /\ e.secrets = d.secrets

\* applyRestore's sections, taken together: each table is upserted from the file.
LEMMA RestoredFields ==
    ASSUME NEW d, Shaped(d), NEW f, NEW to, NEW e, e = Restored(d, f, to)
    PROVE  Restores(d, f, to, e)
<1> DEFINE r1 == RestoreSettings(d, f)    r2 == RestoreRoles(r1, f)  r3 == RestoreGroups(r2, f)
           r4 == RestoreUsers(r3, f)      r5 == RestoreHosts(r4, f)  r6 == RestoreIdps(r5, f)
           r7 == RestoreViews(r6, f)
           groups == [g \in DOMAIN f.groups |-> RoleOf(f.groups[g], r2, f)]
           users == [u \in DOMAIN f.users |-> Memberships(u, f)]
           idps == [i \in DOMAIN f.idps |->
                      IF f.idps[i] \in DOMAIN f.groups \cup DOMAIN r5.groups THEN f.idps[i] ELSE NoName]
           views == [v \in DOMAIN f.views |-> f.views[v] \cap DOMAIN f.providers]
           zones == [i \in {to[z] : z \in f.zones} |->
                LET z == CHOOSE y \in f.zones : to[y] = i IN
                [name |-> z.name, view |-> z.view,
                 repo |-> IF z.repo \in DOMAIN f.repos THEN z.repo ELSE NoName]]
           new(x) == Cardinality({z \in f.zones : IsNew(x, z)})
<1> HIDE DEF groups, users, views, zones, idps, new
<1>a. r1 = [d EXCEPT !.settings = Upserted(f.settings, d.settings)]
    BY DEF RestoreSettings
<1>b. r2 = [r1 EXCEPT !.roles = Upserted(f.roles, r1.roles)]
    BY DEF RestoreRoles
<1>c. r3 = [r2 EXCEPT !.groups = Upserted(groups, r2.groups)]
    BY DEF RestoreGroups, groups
<1>d. r4 = [r3 EXCEPT !.users = Upserted(users, r3.users)]
    BY DEF RestoreUsers, users
<1>e. r5 = [r4 EXCEPT !.providers = Upserted(f.providers, r4.providers),
                      !.repos = Upserted(f.repos, r4.repos)]
    BY DEF RestoreHosts
<1>f. r6 = [r5 EXCEPT !.idps = Upserted(idps, r5.idps)]
    BY DEF RestoreIdps, idps
<1>g. r7 = [r6 EXCEPT !.views = Upserted(views, r6.views)]
    BY DEF RestoreViews, views
<1>h. e = [r7 EXCEPT !.last = r7.last + new(r7), !.zones = Upserted(zones, r7.zones)]
    BY DEF Restored, RestoreZones, zones, new
<1>2. groups = [g \in DOMAIN f.groups |->
                  IF f.groups[g] \in DOMAIN f.roles \cup DOMAIN r2.roles THEN f.groups[g] ELSE NoName]
    BY DEF RoleOf, groups
<1> HIDE DEF r1, r2, r3, r4, r5, r6, r7
<1>3. r7.zones = d.zones => new(r7) = new(d)
    BY DEF IsNew, new
<1>4. /\ Shaped(r2) /\ r2.settings = Upserted(f.settings, d.settings)
      /\ r2.roles = Upserted(f.roles, d.roles) /\ r2.groups = d.groups
      /\ r2.users = d.users /\ r2.idps = d.idps /\ SameHosts(r2, d) /\ SameZones(r2, d)
      /\ r2.secrets = d.secrets
  <2>1. /\ Shaped(r1) /\ r1.settings = Upserted(f.settings, d.settings) /\ r1.roles = d.roles
        /\ r1.groups = d.groups /\ r1.users = d.users /\ r1.idps = d.idps
        /\ SameHosts(r1, d) /\ SameZones(r1, d) /\ r1.secrets = d.secrets
      BY <1>a DEF Shaped, SameHosts, SameZones
  <2>2. /\ Shaped(r2) /\ r2.roles = Upserted(f.roles, r1.roles) /\ r2.settings = r1.settings
        /\ r2.groups = r1.groups /\ r2.users = r1.users /\ r2.idps = r1.idps
        /\ SameHosts(r2, r1) /\ SameZones(r2, r1) /\ r2.secrets = r1.secrets
      BY <1>b, <2>1 DEF Shaped, SameHosts, SameZones
  <2> QED BY <2>1, <2>2 DEF SameHosts, SameZones
<1>5. /\ Shaped(r4) /\ r4.settings = r2.settings /\ r4.roles = r2.roles
      /\ r4.groups = Upserted(groups, d.groups)
      /\ r4.users = Upserted(users, d.users) /\ r4.idps = d.idps /\ SameHosts(r4, d) /\ SameZones(r4, d)
      /\ r4.secrets = d.secrets
  <2>1. /\ Shaped(r3) /\ r3.groups = Upserted(groups, r2.groups) /\ r3.settings = r2.settings
        /\ r3.roles = r2.roles /\ r3.users = r2.users /\ r3.idps = r2.idps
        /\ SameHosts(r3, r2) /\ SameZones(r3, r2) /\ r3.secrets = r2.secrets
      BY <1>c, <1>4 DEF Shaped, SameHosts, SameZones
  <2>2. /\ Shaped(r4) /\ r4.users = Upserted(users, r3.users) /\ r4.settings = r3.settings
        /\ r4.roles = r3.roles /\ r4.groups = r3.groups /\ r4.idps = r3.idps
        /\ SameHosts(r4, r3) /\ SameZones(r4, r3) /\ r4.secrets = r3.secrets
      BY <1>d, <2>1 DEF Shaped, SameHosts, SameZones
  <2> QED BY <1>4, <2>1, <2>2 DEF SameHosts, SameZones
<1>6. /\ Shaped(r7) /\ r7.settings = r2.settings /\ r7.roles = r2.roles /\ r7.groups = r4.groups
      /\ r7.users = r4.users /\ r7.idps = Upserted(idps, d.idps) /\ r5.groups = r4.groups
      /\ r7.providers = Upserted(f.providers, d.providers) /\ r7.repos = Upserted(f.repos, d.repos)
      /\ r7.views = Upserted(views, d.views) /\ SameZones(r7, d) /\ r7.secrets = d.secrets
  <2>1. /\ Shaped(r5) /\ SameAccounts(r5, r4) /\ SameZones(r5, r4) /\ r5.secrets = r4.secrets
        /\ r5.providers = Upserted(f.providers, r4.providers)
        /\ r5.repos = Upserted(f.repos, r4.repos) /\ r5.views = r4.views
      BY <1>e, <1>5 DEF Shaped, SameAccounts, SameZones
  <2>2. /\ Shaped(r6) /\ r6.idps = Upserted(idps, r5.idps) /\ r6.settings = r5.settings
        /\ r6.roles = r5.roles /\ r6.groups = r5.groups /\ r6.users = r5.users
        /\ SameHosts(r6, r5) /\ SameZones(r6, r5) /\ r6.secrets = r5.secrets
      BY <1>f, <2>1 DEF Shaped, SameHosts, SameZones
  <2>3. /\ Shaped(r7) /\ SameAccounts(r7, r6) /\ SameZones(r7, r6) /\ r7.secrets = r6.secrets
        /\ r7.views = Upserted(views, r6.views) /\ r7.providers = r6.providers
        /\ r7.repos = r6.repos
      BY <1>g, <2>2 DEF Shaped, SameAccounts, SameZones
  <2> QED BY <1>5, <2>1, <2>2, <2>3 DEF SameAccounts, SameHosts, SameZones
<1>7. /\ Shaped(e) /\ SameAccounts(e, r7) /\ SameHosts(e, r7)
      /\ e.last = r7.last + new(r7) /\ e.zones = Upserted(zones, r7.zones)
      /\ e.live = r7.live /\ e.marked = r7.marked /\ e.vars = r7.vars /\ e.secrets = r7.secrets
    BY <1>h, <1>6 DEF Shaped, SameAccounts, SameHosts
<1>8. e.last = d.last + new(d) /\ e.zones = Upserted(zones, d.zones)
    BY <1>3, <1>6, <1>7 DEF SameZones
<1>9. /\ e.settings = r2.settings /\ e.roles = r2.roles /\ e.groups = r4.groups /\ e.users = r4.users
      /\ e.idps = r7.idps /\ r5.groups = e.groups /\ e.providers = r7.providers /\ e.repos = r7.repos
      /\ e.views = r7.views
      /\ e.live = d.live /\ e.marked = d.marked /\ e.vars = d.vars /\ e.secrets = d.secrets
    BY <1>6, <1>7 DEF SameAccounts, SameHosts, SameZones
<1>10. e.groups = Upserted([g \in DOMAIN f.groups |->
                IF f.groups[g] \in DOMAIN f.roles \cup DOMAIN e.roles THEN f.groups[g] ELSE NoName], d.groups)
    BY <1>2, <1>5, <1>9
<1>11. e.idps = Upserted([i \in DOMAIN f.idps |->
                IF f.idps[i] \in DOMAIN f.groups \cup DOMAIN e.groups THEN f.idps[i] ELSE NoName], d.idps)
    BY <1>6, <1>9 DEF idps
<1> QED BY <1>4, <1>5, <1>6, <1>7, <1>8, <1>9, <1>10, <1>11 DEF Restores, users, views, zones, new

\* The last zone of some of the file
LEMMA LastZone ==
    ASSUME NEW S, IsFiniteSet(S), S # {}, \A z \in S : z.id \in Nat
    PROVE  \E z \in S : \A y \in S : y.id =< z.id
<1> DEFINE later(z) == {y \in S : z.id < y.id}
           T == {later(z) : z \in S}
           less == StrictSubsetOrdering(S)
           all == FiniteSubsetsOf(S)
<1>1. \A z \in S : later(z) \in SUBSET S /\ IsFiniteSet(later(z))
    BY FS_Subset
<1>2. T \subseteq all /\ T # {}
    BY <1>1 DEF FiniteSubsetsOf
<1>3. PICK X \in T : \A Y \in T : ~ (<<Y, X>> \in less)
  <2>1. IsWellFoundedOn(less, all)
      BY FS_StrictSubsetOrderingWellFounded
  <2> HIDE DEF T, less, all
  <2> QED BY <1>2, <2>1, WFMin
<1>4. PICK z \in S : X = later(z)
    OBVIOUS
<1>5. ASSUME NEW y \in S, z.id < y.id
      PROVE  FALSE
  <2>1. later(y) \subseteq later(z) /\ y \in later(z) /\ y \notin later(y)
      BY <1>5
  <2>2. <<later(y), later(z)>> \in less
      BY <1>1, <2>1 DEF StrictSubsetOrdering
  <2> QED BY <1>3, <1>4, <2>2
<1>6. \A y \in S : y.id =< z.id
    BY <1>5
<1> QED BY <1>6

\* Where the zones go: rows of theirs, or rows after the last.
LEMMA TargetsAre ==
    ASSUME NEW d, TablesOK(d), NEW f, FileOK(f), NEW to, to = Targets(d, f), NEW z \in f.zones
    PROVE  LET new == Cardinality({y \in f.zones : IsNew(d, y)}) IN
           /\ new \in Nat
           /\ IsNew(d, z) => to[z] \in (d.last + 1)..(d.last + new)
           /\ ~ IsNew(d, z) => to[z] \in DOMAIN d.zones /\ SameZone(d.zones[to[z]], z)
<1> DEFINE new == {y \in f.zones : IsNew(d, y)}
           upTo == {y \in new : y.id =< z.id}
<1>1. new \in SUBSET f.zones /\ upTo \in SUBSET new /\ IsFiniteSet(f.zones) /\ z.id \in Nat
    BY DEF FileOK, FileZones, FileZone
<1>2. IsFiniteSet(new) /\ IsFiniteSet(upTo) /\ Cardinality(new) \in Nat /\ Cardinality(upTo) \in Nat
    BY <1>1, FS_Subset, FS_CardinalityType
<1>3. Cardinality(upTo) =< Cardinality(new)
    BY <1>1, <1>2, FS_Subset
<1>4. ASSUME IsNew(d, z)
      PROVE  to[z] \in (d.last + 1)..(d.last + Cardinality(new))
  <2>1. to[z] = d.last + Cardinality(upTo)
      BY <1>4 DEF Targets
  <2>2. z \in upTo
      BY <1>1, <1>4
  <2>3. Cardinality(upTo) # 0
      BY <1>2, <2>2, FS_EmptySet
  <2>4. d.last \in Nat
      BY DEF TablesOK, ZonesOK
  <2> HIDE DEF new, upTo
  <2> QED BY <1>2, <1>3, <2>1, <2>3, <2>4
<1>5. ASSUME ~ IsNew(d, z)
      PROVE  to[z] \in DOMAIN d.zones /\ SameZone(d.zones[to[z]], z)
  <2>1. to[z] = IdOf(d, z)
      BY <1>5 DEF Targets
  <2>2. \E i \in DOMAIN d.zones : SameZone(d.zones[i], z)
      BY <1>5 DEF IsNew
  <2> QED BY <2>1, <2>2 DEF IdOf
<1> QED BY <1>2, <1>4, <1>5

\* A name leads to where a zone of that name goes.
LEMMA LandingIs ==
    ASSUME NEW f, FileOK(f), NEW to, NEW n \in DOMAIN Landing(f, to)
    PROVE  \E z \in f.zones : z.name = n /\ Landing(f, to)[n] = to[z]
<1> DEFINE S == ZonesNamed(f, n)
<1>1. S \in SUBSET f.zones /\ IsFiniteSet(f.zones) /\ \A z \in S : z.id \in Nat
    BY DEF FileOK, FileZones, FileZone, ZonesNamed
<1>2. S # {} /\ IsFiniteSet(S)
    BY <1>1, FS_Subset DEF Landing, ZonesNamed
<1>3. \E z \in S : \A y \in S : y.id =< z.id
  <2> HIDE DEF S
  <2> QED BY <1>1, <1>2, LastZone
<1>4. (CHOOSE z \in S : \A y \in S : y.id =< z.id) \in S
    BY <1>3
<1>5. Landing(f, to)[n] = to[CHOOSE z \in S : \A y \in S : y.id =< z.id]
    BY DEF Landing
<1>6. \A z \in S : z \in f.zones /\ z.name = n
    BY DEF ZonesNamed
<1> HIDE DEF S
<1> QED BY <1>4, <1>5, <1>6

\* A restore that is not refused leaves accounts whose references hold.
LEMMA RestoredAccounts ==
    ASSUME NEW d, TablesOK(d), NEW f, FileOK(f), NEW to, NEW landing, ~ Refused(d, f, landing),
           NEW e, e = Restored(d, f, to)
    PROVE  AccountsOK(e)
<1>0. Shaped(d) /\ AccountsOK(d) /\ FileTables(f)
    BY DEF TablesOK, FileOK
<1>a. Restores(d, f, to, e)
    BY <1>0, RestoredFields
<1>1. /\ e.settings = Upserted(f.settings, d.settings)
      /\ e.roles = Upserted(f.roles, d.roles)
      /\ e.groups = Upserted([g \in DOMAIN f.groups |->
            IF f.groups[g] \in DOMAIN f.roles \cup DOMAIN e.roles THEN f.groups[g] ELSE NoName], d.groups)
      /\ e.users = Upserted([u \in DOMAIN f.users |-> Memberships(u, f)], d.users)
      /\ e.idps = Upserted([i \in DOMAIN f.idps |->
            IF f.idps[i] \in DOMAIN f.groups \cup DOMAIN e.groups THEN f.idps[i] ELSE NoName], d.idps)
    BY <1>a DEF Restores
<1>2. IsTable(e.settings, SettingKeys, Values)
  <2>1. IsTable(f.settings, SettingKeys, Values) /\ IsTable(d.settings, SettingKeys, Values)
      BY <1>0 DEF AccountsOK, FileTables
  <2>2. IsTable(Upserted(f.settings, d.settings), SettingKeys, Values)
      BY <2>1, UpsertedIs
  <2> QED BY <1>1, <2>2
<1>3. IsTable(e.roles, RoleNames, Values \cup {NoName})
  <2>1. /\ IsTable(f.roles, RoleNames, Values \cup {NoName})
        /\ IsTable(d.roles, RoleNames, Values \cup {NoName})
      BY <1>0 DEF AccountsOK, FileTables
  <2>2. IsTable(Upserted(f.roles, d.roles), RoleNames, Values \cup {NoName})
      BY <2>1, UpsertedIs
  <2> QED BY <1>1, <2>2
<1>4. DOMAIN e.roles = DOMAIN f.roles \cup DOMAIN d.roles
    BY <1>1 DEF Upserted
<1>5. IsTable(e.groups, GroupNames, DOMAIN e.roles)
  <2> DEFINE t == [g \in DOMAIN f.groups |->
            IF f.groups[g] \in DOMAIN f.roles \cup DOMAIN e.roles THEN f.groups[g] ELSE NoName]
  <2>1. \A g \in DOMAIN f.groups : f.groups[g] \in DOMAIN f.roles \cup DOMAIN d.roles
      BY DEF Refused, RoleOf
  <2>2. DOMAIN f.groups \subseteq GroupNames
      BY <1>0 DEF FileTables, IsTable
  <2>3. IsTable(t, GroupNames, DOMAIN e.roles)
      BY <1>4, <2>1, <2>2 DEF IsTable
  <2>4. IsTable(d.groups, GroupNames, DOMAIN d.roles) /\ DOMAIN d.roles \subseteq DOMAIN e.roles
      BY <1>0, <1>4 DEF AccountsOK
  <2>5. IsTable(d.groups, GroupNames, DOMAIN e.roles)
      BY <2>4, WiderTable
  <2> HIDE DEF t
  <2>6. IsTable(Upserted(t, d.groups), GroupNames, DOMAIN e.roles)
      BY <2>3, <2>5, UpsertedIs
  <2> QED BY <1>1, <2>6 DEF t
<1>6. DOMAIN e.groups = DOMAIN f.groups \cup DOMAIN d.groups
    BY <1>1 DEF Upserted
<1>7. IsTable(e.users, UserNames, SUBSET DOMAIN e.groups)
  <2> DEFINE t == [u \in DOMAIN f.users |-> Memberships(u, f)]
  <2>1. \A u \in DOMAIN f.users : Memberships(u, f) \in SUBSET DOMAIN e.groups
      BY <1>6 DEF Memberships
  <2>2. DOMAIN f.users \subseteq UserNames
      BY <1>0 DEF FileTables, IsTable
  <2>3. IsTable(t, UserNames, SUBSET DOMAIN e.groups)
      BY <2>1, <2>2 DEF IsTable
  <2>4. /\ IsTable(d.users, UserNames, SUBSET DOMAIN d.groups)
        /\ SUBSET DOMAIN d.groups \subseteq SUBSET DOMAIN e.groups
      BY <1>0, <1>6 DEF AccountsOK
  <2>5. IsTable(d.users, UserNames, SUBSET DOMAIN e.groups)
      BY <2>4, WiderTable
  <2> HIDE DEF t
  <2>6. IsTable(Upserted(t, d.users), UserNames, SUBSET DOMAIN e.groups)
      BY <2>3, <2>5, UpsertedIs
  <2> QED BY <1>1, <2>6 DEF t
<1>8. IsTable(e.idps, IdpNames, DOMAIN e.groups \cup {NoName})
  <2> DEFINE t == [i \in DOMAIN f.idps |->
            IF f.idps[i] \in DOMAIN f.groups \cup DOMAIN e.groups THEN f.idps[i] ELSE NoName]
             more == DOMAIN e.groups \cup {NoName}
  <2>1. DOMAIN f.idps \subseteq IdpNames
      BY <1>0 DEF FileTables, IsTable
  <2>2. IsTable(t, IdpNames, more)
      BY <1>6, <2>1 DEF IsTable
  <2>3. IsTable(d.idps, IdpNames, DOMAIN d.groups \cup {NoName}) /\ DOMAIN d.groups \cup {NoName} \subseteq more
      BY <1>0, <1>6 DEF AccountsOK
  <2> HIDE DEF t, more
  <2>4. IsTable(d.idps, IdpNames, more)
      BY <2>3, WiderTable
  <2>5. IsTable(Upserted(t, d.idps), IdpNames, more)
      BY <2>2, <2>4, UpsertedIs
  <2> QED BY <1>1, <2>5 DEF t, more
<1> QED BY <1>2, <1>3, <1>5, <1>7, <1>8 DEF AccountsOK

\* It leaves views whose providers are there.
LEMMA RestoredHosts ==
    ASSUME NEW d, TablesOK(d), NEW f, FileOK(f), NEW to, NEW e, e = Restored(d, f, to)
    PROVE  /\ HostsOK(e)
           /\ DOMAIN e.views = DOMAIN f.views \cup DOMAIN d.views
           /\ DOMAIN e.repos = DOMAIN f.repos \cup DOMAIN d.repos
<1>0. Shaped(d) /\ HostsOK(d) /\ FileTables(f)
    BY DEF TablesOK, FileOK
<1>a. Restores(d, f, to, e)
    BY <1>0, RestoredFields
<1>1. /\ e.providers = Upserted(f.providers, d.providers)
      /\ e.repos = Upserted(f.repos, d.repos)
      /\ e.views = Upserted([v \in DOMAIN f.views |-> f.views[v] \cap DOMAIN f.providers], d.views)
    BY <1>a DEF Restores
<1>2. IsTable(e.providers, ProviderNames, Values) /\ IsTable(e.repos, RepoNames, Values)
  <2>1. /\ IsTable(f.providers, ProviderNames, Values) /\ IsTable(d.providers, ProviderNames, Values)
        /\ IsTable(f.repos, RepoNames, Values) /\ IsTable(d.repos, RepoNames, Values)
      BY <1>0 DEF HostsOK, FileTables
  <2>2. /\ IsTable(Upserted(f.providers, d.providers), ProviderNames, Values)
        /\ IsTable(Upserted(f.repos, d.repos), RepoNames, Values)
      BY <2>1, UpsertedIs
  <2> QED BY <1>1, <2>2
<1>3. /\ DOMAIN e.providers = DOMAIN f.providers \cup DOMAIN d.providers
      /\ DOMAIN e.repos = DOMAIN f.repos \cup DOMAIN d.repos
      /\ DOMAIN e.views = DOMAIN f.views \cup DOMAIN d.views
    BY <1>1 DEF Upserted
<1>4. IsTable(e.views, ViewNames, SUBSET DOMAIN e.providers)
  <2> DEFINE t == [v \in DOMAIN f.views |-> f.views[v] \cap DOMAIN f.providers]
  <2>1. \A v \in DOMAIN f.views : f.views[v] \cap DOMAIN f.providers \in SUBSET DOMAIN e.providers
      BY <1>3
  <2>2. DOMAIN f.views \subseteq ViewNames
      BY <1>0 DEF FileTables, IsTable
  <2>3. IsTable(t, ViewNames, SUBSET DOMAIN e.providers)
      BY <2>1, <2>2 DEF IsTable
  <2>4. /\ IsTable(d.views, ViewNames, SUBSET DOMAIN d.providers)
        /\ SUBSET DOMAIN d.providers \subseteq SUBSET DOMAIN e.providers
      BY <1>0, <1>3 DEF HostsOK
  <2>5. IsTable(d.views, ViewNames, SUBSET DOMAIN e.providers)
      BY <2>4, WiderTable
  <2> HIDE DEF t
  <2>6. IsTable(Upserted(t, d.views), ViewNames, SUBSET DOMAIN e.providers)
      BY <2>3, <2>5, UpsertedIs
  <2> QED BY <1>1, <2>6 DEF t
<1> QED BY <1>2, <1>3, <1>4 DEF HostsOK

\* It leaves zones whose views and repositories are there.
LEMMA RestoredZones ==
    ASSUME NEW d, TablesOK(d), NEW f, FileOK(f), NEW to, to = Targets(d, f),
           NEW landing, ~ Refused(d, f, landing), NEW e, e = Restored(d, f, to)
    PROVE  /\ e.last \in Nat
           /\ DOMAIN e.zones = {to[z] : z \in f.zones} \cup DOMAIN d.zones
           /\ IsTable(e.zones, 1..e.last, ZoneOf(DOMAIN e.views, DOMAIN e.repos \cup {NoName}))
<1> DEFINE new == Cardinality({y \in f.zones : IsNew(d, y)})
           ids == {to[z] : z \in f.zones}
           row(z) == [name |-> z.name, view |-> z.view,
                      repo |-> IF z.repo \in DOMAIN f.repos THEN z.repo ELSE NoName]
           at(i) == CHOOSE y \in f.zones : to[y] = i
           t == [i \in ids |-> row(at(i))]
           all == 1..e.last
           rows == ZoneOf(DOMAIN e.views, DOMAIN e.repos \cup {NoName})
<1>a. Restores(d, f, to, e)
    BY RestoredFields DEF TablesOK
<1>1. e.last = d.last + new /\ e.zones = Upserted(t, d.zones)
    BY <1>a DEF Restores
<1>2. d.last \in Nat
    BY DEF TablesOK, ZonesOK
<1>3. new \in Nat
  <2>1. {y \in f.zones : IsNew(d, y)} \in SUBSET f.zones /\ IsFiniteSet(f.zones)
      BY DEF FileOK, FileZones
  <2>2. IsFiniteSet({y \in f.zones : IsNew(d, y)})
      BY <2>1, FS_Subset
  <2> QED BY <2>2, FS_CardinalityType
<1>4. DOMAIN d.zones \subseteq 1..d.last
    BY DEF TablesOK, ZonesOK, IsTable
<1>5. ids \subseteq all
  <2> SUFFICES ASSUME NEW z \in f.zones PROVE to[z] \in all
      OBVIOUS
  <2>1. to[z] \in (d.last + 1)..(d.last + new) \/ to[z] \in 1..d.last
      BY <1>4, TargetsAre
  <2> HIDE DEF new
  <2> QED BY <1>1, <1>2, <1>3, <2>1
<1>6. DOMAIN e.views = DOMAIN f.views \cup DOMAIN d.views /\ DOMAIN e.repos = DOMAIN f.repos \cup DOMAIN d.repos
    BY RestoredHosts
<1>7. ASSUME NEW z \in f.zones
      PROVE  row(z) \in rows
  <2>1. z.view \in DOMAIN f.views \cup DOMAIN d.views
      BY DEF Refused
  <2>2. z.name \in ZoneNames
      BY DEF FileOK, FileZones, FileZone
  <2> QED BY <1>6, <2>1, <2>2 DEF ZoneOf
<1>8. \A i \in ids : at(i) \in f.zones
    OBVIOUS
<1> HIDE DEF row, at
<1>9. IsTable(t, all, rows)
  <2>1. \A i \in ids : t[i] \in rows
      BY <1>7, <1>8
  <2>2. DOMAIN t = ids /\ t = [i \in DOMAIN t |-> t[i]]
      OBVIOUS
  <2> HIDE DEF t, ids, all, rows
  <2> QED BY <1>5, <2>1, <2>2 DEF IsTable
<1>10. IsTable(d.zones, all, rows)
  <2>1. DOMAIN d.zones \subseteq all
    <3> HIDE DEF new
    <3> QED BY <1>1, <1>2, <1>3, <1>4
  <2>2. \A i \in DOMAIN d.zones : d.zones[i] \in rows
    <3>1. \A i \in DOMAIN d.zones :
             d.zones[i] \in [name : ZoneNames, view : DOMAIN d.views, repo : DOMAIN d.repos \cup {NoName}]
        BY ZoneFields DEF TablesOK
    <3> QED BY <1>6, <3>1 DEF ZoneOf
  <2>3. d.zones = [i \in DOMAIN d.zones |-> d.zones[i]]
      BY DEF TablesOK, ZonesOK, IsTable
  <2> HIDE DEF all, rows
  <2> QED BY <2>1, <2>2, <2>3 DEF IsTable
<1>11. DOMAIN e.zones = ids \cup DOMAIN d.zones
    BY <1>1 DEF Upserted
<1>12. IsTable(e.zones, all, rows)
  <2> HIDE DEF t, all, rows
  <2>1. IsTable(Upserted(t, d.zones), all, rows)
      BY <1>9, <1>10, UpsertedIs
  <2> QED BY <1>1, <2>1
<1>13. e.last \in Nat
  <2> HIDE DEF new
  <2> QED BY <1>1, <1>2, <1>3
<1> QED BY <1>11, <1>12, <1>13

\* It leaves records of zones that are there.
LEMMA RestoredRecords ==
    ASSUME NEW d, TablesOK(d), NEW f, FileOK(f), NEW landing, NEW ids,
           DOMAIN d.zones \subseteq ids, \A n \in DOMAIN landing : landing[n] \in ids,
           NEW live \in RestoreRecords(d, f, landing)
    PROVE  live \subseteq ids \X RecordNames \X Values
<1> DEFINE spot(r) == <<landing[r.zone], r.name>>
           rows == {r \in f.records : r.zone \in DOMAIN landing}
           keys == {spot(r) : r \in rows}
           rest == {r \in d.live : <<r[1], r[2]>> \notin keys}
<1>1. PICK w \in [keys -> SUBSET Values] :
        live = rest \cup UNION {{<<k[1], k[2], v>> : v \in w[k]} : k \in keys}
    BY DEF RestoreRecords
<1>2. keys \subseteq ids \X RecordNames
    BY DEF FileOK, FileRecord
<1>3. rest \subseteq ids \X RecordNames \X Values
  <2>1. d.live \subseteq (DOMAIN d.zones) \X RecordNames \X Values
      BY DEF TablesOK, ZonesOK
  <2>2. rest \subseteq d.live
      OBVIOUS
  <2> HIDE DEF rest
  <2> QED BY <2>1, <2>2
<1>4. ASSUME NEW k \in keys, NEW v \in w[k]
      PROVE  <<k[1], k[2], v>> \in ids \X RecordNames \X Values
  <2>1. v \in Values
      BY <1>1
  <2>2. k[1] \in ids /\ k[2] \in RecordNames
      BY <1>2
  <2> QED BY <2>1, <2>2
<1> HIDE DEF keys, rest
<1> QED BY <1>1, <1>3, <1>4

\* The place of a variable: global, or in a zone of the file
LEMMA SlotIs ==
    ASSUME NEW x, NEW landing
    PROVE  \/ Slot(x, landing) = <<x.name, NoName>>
           \/ /\ x.zone \subseteq DOMAIN landing /\ x.zone # {}
              /\ \E n \in x.zone : Slot(x, landing) = <<x.name, landing[n]>>
<1>1. CASE x.zone \subseteq DOMAIN landing /\ x.zone # {}
  <2>1. (CHOOSE n \in x.zone : TRUE) \in x.zone
      BY <1>1
  <2> QED BY <1>1, <2>1 DEF Slot
<1>2. CASE ~ (x.zone \subseteq DOMAIN landing /\ x.zone # {})
    BY <1>2 DEF Slot
<1> QED BY <1>1, <1>2

\* It leaves variables that are global or of zones that are there.
LEMMA RestoredVars ==
    ASSUME NEW d, TablesOK(d), NEW f, FileOK(f), NEW landing, NEW ids,
           DOMAIN d.zones \subseteq ids, \A n \in DOMAIN landing : landing[n] \in ids,
           NEW vars \in RestoreVars(d, f, landing)
    PROVE  IsTable(vars, VarNames \X (ids \cup {NoName}), Values)
<1> DEFINE slots == {Slot(x, landing) : x \in f.vars}
           keys == VarNames \X (ids \cup {NoName})
<1>1. PICK w \in [slots -> Values] : vars = Upserted(w, d.vars)
    BY DEF RestoreVars
<1>2. slots \subseteq keys
  <2> SUFFICES ASSUME NEW x \in f.vars PROVE Slot(x, landing) \in keys
      OBVIOUS
  <2>1. x.name \in VarNames
      BY DEF FileOK, FileVar
  <2> QED BY <2>1, SlotIs
<1>3. IsTable(w, keys, Values)
  <2> HIDE DEF slots, keys
  <2> QED BY <1>1, <1>2 DEF IsTable
<1>4. IsTable(d.vars, keys, Values)
  <2>1. IsTable(d.vars, VarNames \X (DOMAIN d.zones \cup {NoName}), Values)
      BY DEF TablesOK, ZonesOK
  <2> QED BY <2>1 DEF IsTable
<1> HIDE DEF slots, keys
<1>5. IsTable(Upserted(w, d.vars), keys, Values)
    BY <1>3, <1>4, UpsertedIs
<1> QED BY <1>1, <1>5 DEF keys

\* A restore keeps the tables.
LEMMA ApplyOK ==
    ASSUME TablesOK(db), FileOK(backup), ApplyRestore
    PROVE  TablesOK(db')
<1> DEFINE to == Targets(db, backup)
           landing == Landing(backup, to)
           e == Restored(db, backup, to)
<1>1. CASE Refused(db, backup, landing)
    BY <1>1 DEF ApplyRestore
<1>2. CASE ~ Refused(db, backup, landing)
  <2>1. PICK rows \in RestoreRecords(db, backup, landing), vars \in RestoreVars(db, backup, landing) :
          db' = [e EXCEPT !.live = rows, !.vars = vars]
      BY <1>2 DEF ApplyRestore
  <2> DEFINE ids == {to[z] : z \in backup.zones} \cup DOMAIN db.zones
  <2>2. \A n \in DOMAIN landing : landing[n] \in ids
    <3> SUFFICES ASSUME NEW n \in DOMAIN landing PROVE landing[n] \in ids
        OBVIOUS
    <3>1. \E z \in backup.zones : landing[n] = to[z]
      <4> HIDE DEF to
      <4> QED BY LandingIs
    <3> HIDE DEF to, landing
    <3> QED BY <3>1
  <2>3. AccountsOK(e) /\ HostsOK(e)
    <3> HIDE DEF to, landing
    <3> QED BY <1>2, RestoredAccounts, RestoredHosts
  <2>4. /\ e.last \in Nat /\ DOMAIN e.zones = ids
        /\ IsTable(e.zones, 1..e.last, ZoneOf(DOMAIN e.views, DOMAIN e.repos \cup {NoName}))
    <3>1. to = Targets(db, backup) /\ e = Restored(db, backup, to)
        OBVIOUS
    <3>2. Restores(db, backup, to, e)
        BY RestoredFields DEF TablesOK
    <3> HIDE DEF to, landing, e
    <3>3. /\ e.last \in Nat
          /\ IsTable(e.zones, 1..e.last, ZoneOf(DOMAIN e.views, DOMAIN e.repos \cup {NoName}))
        BY <1>2, <3>1, RestoredZones
    <3>4. DOMAIN e.zones = ids
        BY <3>2 DEF Restores, Upserted
    <3> QED BY <3>3, <3>4
  <2>5. Restores(db, backup, to, e)
      BY RestoredFields DEF TablesOK
  <2> HIDE DEF to, landing, e
  <2>6. Shaped(e) /\ e.marked = db.marked /\ e.secrets = db.secrets
      BY <2>5 DEF Restores
  <2>7. rows \subseteq ids \X RecordNames \X Values
    <3> DEFINE s == ids
    <3>1. DOMAIN db.zones \subseteq s /\ \A n \in DOMAIN landing : landing[n] \in s
        BY <2>2
    <3> HIDE DEF s
    <3>2. rows \subseteq s \X RecordNames \X Values
        BY <3>1, RestoredRecords
    <3> QED BY <3>2 DEF s
  <2>8. IsTable(vars, VarNames \X (ids \cup {NoName}), Values)
    <3> DEFINE s == ids
    <3>1. DOMAIN db.zones \subseteq s /\ \A n \in DOMAIN landing : landing[n] \in s
        BY <2>2
    <3> HIDE DEF s
    <3>2. IsTable(vars, VarNames \X (s \cup {NoName}), Values)
        BY <3>1, RestoredVars
    <3> QED BY <3>2 DEF s
  <2>9. db.marked \subseteq ids \X RecordNames \X Values
      BY DEF TablesOK, ZonesOK
  <2> HIDE DEF ids
  <2>10. /\ Shaped(db') /\ SameAccounts(db', e) /\ SameHosts(db', e)
         /\ db'.zones = e.zones /\ db'.last = e.last /\ db'.live = rows
         /\ db'.marked = e.marked /\ db'.vars = vars /\ db'.secrets = e.secrets
      BY <2>1, <2>6 DEF Shaped, SameAccounts, SameHosts
  <2>11. AccountsOK(db')
      BY <2>3, <2>10 DEF AccountsOK, SameAccounts
  <2>12. HostsOK(db')
      BY <2>3, <2>10 DEF HostsOK, SameHosts
  <2>13. ZonesOK(db')
      BY <2>4, <2>6, <2>7, <2>8, <2>9, <2>10 DEF ZonesOK, SameHosts
  <2> QED BY <2>6, <2>10, <2>11, <2>12, <2>13 DEF TablesOK
<1> QED BY <1>1, <1>2

-----------------------------------------------------------------------------
(* Types *)

\* Types, inductively: the tables, and the file a restore reads
BackupTypeInv ==
    /\ tables \in {"accounts", "hosts", "zones"} /\ edits \in 0..MaxEdits
    /\ TablesOK(db) /\ FileInv
    /\ reading \in {"idle"} \cup {Sections[i] : i \in 1..Len(Sections)}
    /\ lost \in BOOLEAN
    /\ outcome \in {"none", "applied", "failed"}

\* The names of the sections
LEMMA SectionsAre ==
    {Sections[i] : i \in 1..Len(Sections)} =
      {"roles", "groups", "providers", "views", "zones", "repos", "settings",
       "permissions", "users", "idps", "attachments", "records", "variables", "ready"}
BY DEF Sections

\* The first state has them.
LEMMA BackupTypeInit == BackupInit => BackupTypeInv
<1> SUFFICES ASSUME BackupInit PROVE BackupTypeInv
    OBVIOUS
<1>1. TablesOK(db) /\ tables \in {"accounts", "hosts", "zones"} /\ edits \in 0..MaxEdits
    BY InstalledBeforeOK, CatalogAssumption DEF BackupInit, CatalogInit
<1>2. FileInv
    BY DEF BackupInit, FileInv, Listing
<1> QED BY <1>1, <1>2 DEF BackupInit, BackupTypeInv

\* Every step keeps them.
LEMMA BackupTypeNext == BackupTypeInv /\ [BackupNext]_backupVars => BackupTypeInv'
<1> SUFFICES ASSUME BackupTypeInv, [BackupNext]_backupVars PROVE BackupTypeInv'
    OBVIOUS
<1>0. TablesOK(db) /\ FileInv /\ lost \in BOOLEAN
    BY DEF BackupTypeInv
<1>1. CASE BeginExport
  <2>1. reading' = "roles" /\ backup' = EmptyFile /\ UNCHANGED <<tables, db, edits, lost>> /\ outcome' = "none"
      BY <1>1 DEF BeginExport, Sections, catalogVars
  <2>2. FileInv'
      BY <2>1, EmptyFileOK DEF FileInv, Listing
  <2> QED BY <2>1, <2>2, SectionsAre DEF BackupTypeInv
<1>2. CASE ExportSection
  <2>1. FileInv'
      BY <1>0, <1>2, SectionOK
  <2>2. UNCHANGED <<tables, db, edits, lost, outcome>>
      BY <1>2 DEF ExportSection, catalogVars
  <2>3. reading' \in {"groups", "providers", "views", "zones", "repos", "settings",
                      "permissions", "users", "idps", "attachments", "records", "variables", "ready"}
      BY <1>2, SectionSteps
  <2> QED BY <2>1, <2>2, <2>3, SectionsAre DEF BackupTypeInv
<1>3. CASE ExportZone
  <2>1. FileInv'
      BY <1>0, <1>3, ExportZoneOK
  <2>2. UNCHANGED <<tables, db, edits, lost>> /\ outcome' = "none" /\ reading' = "ready"
      BY <1>3 DEF ExportZone, catalogVars
  <2> QED BY <2>1, <2>2, SectionsAre DEF BackupTypeInv
<1>4. CASE ApplyRestore
  <2>1. reading = "ready" /\ UNCHANGED <<tables, edits, reading, backup, saved, lost>>
        /\ outcome' \in {"applied", "failed"}
      BY <1>4 DEF ApplyRestore
  <2>2. TablesOK(db')
      BY <1>0, <1>4, <2>1, ApplyOK DEF FileInv
  <2>3. FileInv'
      BY <1>0, <2>1 DEF FileInv, Listing, RecordsNamed, VarsNamed
  <2> QED BY <2>1, <2>2, <2>3 DEF BackupTypeInv
<1>5. CASE EditTables
  <2>1. TablesOK(db') /\ tables' = tables /\ edits' \in 0..MaxEdits
      BY <1>0, <1>5, EditOK, EditCounts DEF BackupTypeInv, EditTables
  <2>2. UNCHANGED <<reading, backup, lost>> /\ outcome' = "none"
      BY <1>5 DEF EditTables
  <2>3. saved' = IF reading \in {"idle", "ready"} THEN saved ELSE NoName
      BY <1>5 DEF EditTables
  <2>4. FileInv'
      BY <1>0, <2>2, <2>3 DEF FileInv, Listing, RecordsNamed, VarsNamed
  <2> QED BY <2>1, <2>2, <2>4 DEF BackupTypeInv
<1>6. CASE SetUpAnew
  <2>1. reading = "ready" /\ lost' = TRUE /\ db' = NewInstallation /\ outcome' = "none"
        /\ UNCHANGED <<tables, edits, reading, backup, saved>>
      BY <1>6 DEF SetUpAnew
  <2>2. FileInv'
      BY <1>0, <2>1 DEF FileInv, Listing, RecordsNamed, VarsNamed
  <2> QED BY <2>1, <2>2, NewInstallationOK DEF BackupTypeInv
<1>7. CASE UNCHANGED backupVars
  <2>1. UNCHANGED <<tables, db, edits, reading, backup, saved, lost, outcome>>
      BY <1>7 DEF backupVars
  <2>2. FileInv'
      BY <1>0, <2>1 DEF FileInv, Listing, ZonesListed, RecordsNamed, VarsNamed
  <2> QED BY <2>1, <2>2 DEF BackupTypeInv
<1> QED BY <1>1, <1>2, <1>3, <1>4, <1>5, <1>6, <1>7 DEF BackupNext

\* They always hold.
LEMMA BackupTyped == BackupSpec => []BackupTypeInv
<1> QED BY BackupTypeInit, BackupTypeNext, PTL DEF BackupSpec

\* They are what the run checks, field by field.
LEMMA TypesHold == BackupTypeInv => BackupTypeOK
BY TablesType DEF BackupTypeInv, BackupTypeOK

-----------------------------------------------------------------------------
(* The preview *)

\* No zone of the file is there in another view.
SameViews(d, f) ==
    \A i \in DOMAIN d.zones, z \in f.zones : d.zones[i].name = z.name => d.zones[i].view = z.view

\* Then the row a name of the file lands on is the one that bears it, if there is one.
LEMMA LandsOnItsRow ==
    ASSUME TablesOK(db), FileOK(backup), Plain(db), SameViews(db, backup),
           NEW landing, landing = Landing(backup, Targets(db, backup)), NEW n \in DOMAIN landing
    PROVE  /\ landing[n] \in Nat
           /\ \A i \in DOMAIN db.zones : db.zones[i].name = n <=> i = landing[n]
<1> DEFINE to == Targets(db, backup)
           new == Cardinality({y \in backup.zones : IsNew(db, y)})
<1>1. PICK z \in backup.zones : z.name = n /\ landing[n] = to[z]
  <2> HIDE DEF to
  <2> QED BY LandingIs DEF to
<1>2. /\ new \in Nat
      /\ IsNew(db, z) => to[z] \in (db.last + 1)..(db.last + new)
      /\ ~ IsNew(db, z) => to[z] \in DOMAIN db.zones /\ SameZone(db.zones[to[z]], z)
    BY TargetsAre
<1>3. db.last \in Nat /\ DOMAIN db.zones \subseteq 1..db.last
    BY DEF TablesOK, ZonesOK, IsTable
<1> HIDE DEF to, new
<1>4. CASE IsNew(db, z)
  <2>1. landing[n] \in Nat /\ landing[n] \notin DOMAIN db.zones
      BY <1>1, <1>2, <1>3, <1>4
  <2>2. \A i \in DOMAIN db.zones : db.zones[i].name # n
      BY <1>1, <1>4 DEF IsNew, SameZone, SameViews
  <2> QED BY <2>1, <2>2
<1>5. CASE ~ IsNew(db, z)
  <2>1. landing[n] \in DOMAIN db.zones /\ db.zones[landing[n]].name = n
      BY <1>1, <1>2, <1>5 DEF SameZone
  <2>2. \A i \in DOMAIN db.zones : db.zones[i].name = n => i = landing[n]
      BY <2>1 DEF Plain
  <2> QED BY <1>3, <2>1, <2>2
<1> QED BY <1>4, <1>5

\* A record is known by the name of its zone exactly when it meets one where it goes.
LEMMA RecordsAsPreviewed ==
    ASSUME TablesOK(db), FileOK(backup), Plain(db), SameViews(db, backup), RecordsNamed,
           NEW landing, landing = Landing(backup, Targets(db, backup)), NEW r \in backup.records
    PROVE  ~ KnownRecord(db, r) <=>
             /\ r.zone \in DOMAIN landing
             /\ \A s \in db.live : <<s[1], s[2]>> # <<landing[r.zone], r.name>>
<1>1. r.zone \in DOMAIN landing
    BY DEF RecordsNamed, Landing
<1>2. \A i \in DOMAIN db.zones : db.zones[i].name = r.zone <=> i = landing[r.zone]
    BY <1>1, LandsOnItsRow
<1>3. \A s \in db.live : s[1] \in DOMAIN db.zones
    BY DEF TablesOK, ZonesOK
<1>4. \A s \in db.live : db.zones[s[1]].name = r.zone <=> s[1] = landing[r.zone]
    BY <1>2, <1>3
<1> QED BY <1>1, <1>4 DEF KnownRecord

\* So is a variable.
LEMMA VarsAsPreviewed ==
    ASSUME TablesOK(db), FileOK(backup), Plain(db), SameViews(db, backup), VarsNamed,
           NEW landing, landing = Landing(backup, Targets(db, backup)), NEW x \in backup.vars
    PROVE  ~ KnownVar(db, x) <=> Slot(x, landing) \notin DOMAIN db.vars
<1>1. \A k \in DOMAIN db.vars : k = <<k[1], k[2]>> /\ k[2] \in DOMAIN db.zones \cup {NoName}
    BY DEF TablesOK, ZonesOK, IsTable
<1>2. CASE x.scope = "global" /\ x.zone = {}
  <2>1. Slot(x, landing) = <<x.name, NoName>>
      BY <1>2 DEF Slot
  <2>2. KnownVar(db, x) <=> \E k \in DOMAIN db.vars : k[1] = x.name /\ k[2] = NoName
      BY <1>2 DEF KnownVar
  <2> QED BY <1>1, <2>1, <2>2
<1>3. CASE x.scope = "zone" /\ \E z \in backup.zones : x.zone = {z.name}
  <2>1. PICK z \in backup.zones : x.zone = {z.name}
      BY <1>3
  <2> DEFINE n == z.name
  <2>2. n \in DOMAIN landing
      BY DEF Landing
  <2>3. x.zone \subseteq DOMAIN landing /\ x.zone # {} /\ \A m \in x.zone : m = n
      BY <2>1, <2>2
  <2>4. (CHOOSE m \in x.zone : TRUE) = n
      BY <2>3
  <2>5. Slot(x, landing) = <<x.name, landing[n]>>
      BY <2>3, <2>4 DEF Slot
  <2>6. /\ landing[n] \in Nat
        /\ \A i \in DOMAIN db.zones : db.zones[i].name = n <=> i = landing[n]
      BY <2>2, LandsOnItsRow
  <2>7. landing[n] # NoName
      BY <2>6, CatalogAssumption
  <2>8. KnownVar(db, x) <=>
          \E k \in DOMAIN db.vars : k[1] = x.name /\ k[2] # NoName /\ db.zones[k[2]].name = n
      BY <1>3, <2>1 DEF KnownVar
  <2>9. \A k \in DOMAIN db.vars : k[2] # NoName /\ db.zones[k[2]].name = n <=> k[2] = landing[n]
      BY <1>1, <2>6, <2>7
  <2> QED BY <1>1, <2>5, <2>8, <2>9
<1> QED BY <1>2, <1>3 DEF VarsNamed

\* The preview announces what the restore inserts.
LEMMA PreviewHolds == BackupTypeInv => PreviewTells
<1> SUFFICES ASSUME BackupTypeInv, reading = "ready", saved # NoName, backup.kind = "system",
                    Plain(db), SameViews(db, backup)
             PROVE  PreviewRestore(db, backup) = Inserted(db, backup)
    BY DEF PreviewTells, SameViews
<1> DEFINE d == db
           f == backup
           landing == Landing(f, Targets(d, f))
<1>1. TablesOK(db) /\ FileOK(backup) /\ RecordsNamed /\ VarsNamed
    BY DEF BackupTypeInv, FileInv
<1>2. {z.name : z \in f.zones} \ {d.zones[i].name : i \in DOMAIN d.zones}
        = {z.name : z \in {y \in f.zones : IsNew(d, y)}}
    BY DEF IsNew, SameZone, SameViews
<1>3. {r \in f.records : ~ KnownRecord(d, r)}
        = {r \in f.records : /\ r.zone \in DOMAIN landing
                             /\ \A s \in d.live : <<s[1], s[2]>> # <<landing[r.zone], r.name>>}
  <2> HIDE DEF landing
  <2> QED BY <1>1, RecordsAsPreviewed DEF landing
<1>4. {x \in f.vars : ~ KnownVar(d, x)} = {x \in f.vars : Slot(x, landing) \notin DOMAIN d.vars}
  <2> HIDE DEF landing
  <2> QED BY <1>1, VarsAsPreviewed DEF landing
<1> QED BY <1>2, <1>3, <1>4 DEF PreviewRestore, Inserted

\* The tables keep their references through every edit, export and restore, and the
\* preview of a restore announces the rows the restore inserts (BackupService.cpp:
\* exportSystem, exportZone, previewRestore, applyRestore).
THEOREM BackupCorrect == BackupSpec => []BackupInv
<1>1. BackupTypeInv => BackupInv
    BY TypesHold, PreviewHolds DEF BackupInv
<1> QED BY <1>1, BackupTyped, PTL

-----------------------------------------------------------------------------
(* A file nobody edited the tables under *)

\* The zones, records and variables of tables as the file has them
ZoneItem(d, i) == [id |-> i, name |-> d.zones[i].name, view |-> d.zones[i].view,
                   repo |-> d.zones[i].repo]
ZoneItems(d)   == {ZoneItem(d, i) : i \in DOMAIN d.zones}

RecordItem(d, r) == [zone |-> d.zones[r[1]].name, name |-> r[2], value |-> r[3], id |-> r[1]]
RecordItems(d)   == {RecordItem(d, r) : r \in d.live}

VarItem(d, k) == [name |-> k[1], value |-> d.vars[k],
                  scope |-> IF k[2] = NoName THEN "global" ELSE "zone",
                  zone |-> IF k[2] = NoName THEN {} ELSE {d.zones[k[2]].name}]
VarItems(d)   == {VarItem(d, k) : k \in DOMAIN d.vars}

\* What is still to be read after each section
AfterVariables == {"ready"}
AfterRecords == {"variables"} \cup AfterVariables
AfterAttachments == {"records"} \cup AfterRecords
AfterIdps == {"attachments"} \cup AfterAttachments
AfterUsers == {"idps"} \cup AfterIdps
AfterPermissions == {"users"} \cup AfterUsers
AfterSettings == {"permissions"} \cup AfterPermissions
AfterRepos == {"settings"} \cup AfterSettings
AfterZones == {"repos"} \cup AfterRepos
AfterViews == {"zones"} \cup AfterZones
AfterProviders == {"views"} \cup AfterViews
AfterGroups == {"providers"} \cup AfterProviders
AfterRoles == {"groups"} \cup AfterGroups

\* The sections read so far are those of the tables.
SoFar(f, s, d) ==
    /\ s \in AfterRoles => DOMAIN f.roles = DOMAIN d.roles
    /\ s \in AfterGroups => f.groups = d.groups
    /\ s \in AfterProviders => f.providers = d.providers
    /\ s \in AfterViews => DOMAIN f.views = DOMAIN d.views
    /\ s \in AfterZones => f.zones = ZoneItems(d)
    /\ s \in AfterRepos => f.repos = d.repos
    /\ s \in AfterSettings => f.settings = d.settings
    /\ s \in AfterPermissions => f.roles = d.roles
    /\ s \in AfterUsers => f.users = d.users
    /\ s \in AfterIdps => f.idps = d.idps
    /\ s \in AfterAttachments => f.views = d.views
    /\ s \in AfterRecords => f.records = RecordItems(d)
    /\ s \in AfterVariables => f.vars = VarItems(d)

\* One section more, and the others as they were
LEMMA RolesKnown ==
    ASSUME TablesOK(db), NEW f, SoFar(f, reading, db)
    PROVE  /\ reading = "groups" =>
                [g \in DOMAIN db.groups |-> NameIn(db.groups[g], f.roles)] = db.groups
           /\ reading = "permissions" =>
                [o \in DOMAIN f.roles |-> IF o \in DOMAIN db.roles THEN db.roles[o] ELSE NoName] = db.roles
           /\ reading = "idps" =>
                [i \in DOMAIN db.idps |-> NameIn(db.idps[i], f.groups)] = db.idps
           /\ reading = "attachments" =>
                [v \in DOMAIN f.views |-> IF v \in DOMAIN db.views THEN db.views[v] \cap DOMAIN f.providers
                                          ELSE {}] = db.views
<1> USE DEF AfterRoles, AfterGroups, AfterProviders, AfterViews, AfterZones, AfterRepos,
            AfterSettings, AfterPermissions, AfterUsers, AfterIdps, AfterAttachments,
            AfterRecords, AfterVariables
<1>1. ASSUME reading = "groups"
      PROVE  [g \in DOMAIN db.groups |-> NameIn(db.groups[g], f.roles)] = db.groups
  <2>1. DOMAIN f.roles = DOMAIN db.roles
      BY <1>1 DEF SoFar
  <2>2. \A g \in DOMAIN db.groups : db.groups[g] \in DOMAIN db.roles
      BY DEF TablesOK, AccountsOK, IsTable
  <2>3. db.groups = [g \in DOMAIN db.groups |-> db.groups[g]]
      BY DEF TablesOK, AccountsOK, IsTable
  <2> QED BY <2>1, <2>2, <2>3 DEF NameIn
<1>2. ASSUME reading = "permissions"
      PROVE  [o \in DOMAIN f.roles |-> IF o \in DOMAIN db.roles THEN db.roles[o] ELSE NoName] = db.roles
  <2>1. DOMAIN f.roles = DOMAIN db.roles
      BY <1>2 DEF SoFar
  <2>2. db.roles = [o \in DOMAIN db.roles |-> db.roles[o]]
      BY DEF TablesOK, AccountsOK, IsTable
  <2> QED BY <2>1, <2>2
<1>3. ASSUME reading = "idps"
      PROVE  [i \in DOMAIN db.idps |-> NameIn(db.idps[i], f.groups)] = db.idps
  <2>1. f.groups = db.groups
      BY <1>3 DEF SoFar
  <2>2. \A i \in DOMAIN db.idps : db.idps[i] \in DOMAIN db.groups \cup {NoName}
      BY DEF TablesOK, AccountsOK, IsTable
  <2>3. db.idps = [i \in DOMAIN db.idps |-> db.idps[i]]
      BY DEF TablesOK, AccountsOK, IsTable
  <2> QED BY <2>1, <2>2, <2>3 DEF NameIn
<1>4. ASSUME reading = "attachments"
      PROVE  [v \in DOMAIN f.views |-> IF v \in DOMAIN db.views THEN db.views[v] \cap DOMAIN f.providers
                                       ELSE {}] = db.views
  <2>1. DOMAIN f.views = DOMAIN db.views /\ f.providers = db.providers
      BY <1>4 DEF SoFar
  <2>2. \A v \in DOMAIN db.views : db.views[v] \subseteq DOMAIN db.providers
      BY DEF TablesOK, HostsOK, IsTable
  <2>3. db.views = [v \in DOMAIN db.views |-> db.views[v]]
      BY DEF TablesOK, HostsOK, IsTable
  <2>4. \A v \in DOMAIN db.views : db.views[v] \cap DOMAIN db.providers = db.views[v]
      BY <2>2
  <2> QED BY <2>1, <2>3, <2>4
<1> QED BY <1>1, <1>2, <1>3, <1>4

\* The zones are read in two sections, with the views and repositories there are.
LEMMA ZonesKnown ==
    ASSUME TablesOK(db), NEW f, SoFar(f, reading, db)
    PROVE  /\ reading = "zones" =>
                {[Listed(z) EXCEPT !.view = NameIn(@, f.views)] : z \in DOMAIN db.zones} = ZoneItems(db)
           /\ reading = "repos" =>
                {[z EXCEPT !.repo = NameIn(@, db.repos)] : z \in f.zones} = ZoneItems(db)
<1> USE DEF AfterRoles, AfterGroups, AfterProviders, AfterViews, AfterZones, AfterRepos,
            AfterSettings, AfterPermissions, AfterUsers, AfterIdps, AfterAttachments,
            AfterRecords, AfterVariables
<1>1. ASSUME reading = "zones"
      PROVE  {[Listed(z) EXCEPT !.view = NameIn(@, f.views)] : z \in DOMAIN db.zones} = ZoneItems(db)
  <2>1. DOMAIN f.views = DOMAIN db.views
      BY <1>1 DEF SoFar
  <2>2. ASSUME NEW z \in DOMAIN db.zones
        PROVE  [Listed(z) EXCEPT !.view = NameIn(@, f.views)] = ZoneItem(db, z)
    <3>1. NameIn(db.zones[z].view, f.views) = db.zones[z].view
        BY <2>1, ZoneFields DEF NameIn, TablesOK
    <3>2. Listed(z) = ZoneItem(db, z) /\ Listed(z).view = db.zones[z].view
        BY DEF Listed, ZoneItem
    <3> QED BY <3>1, <3>2 DEF ZoneItem
  <2> QED BY <2>2 DEF ZoneItems
<1>2. ASSUME reading = "repos"
      PROVE  {[z EXCEPT !.repo = NameIn(@, db.repos)] : z \in f.zones} = ZoneItems(db)
  <2>1. f.zones = ZoneItems(db)
      BY <1>2 DEF SoFar
  <2>2. ASSUME NEW z \in f.zones
        PROVE  [z EXCEPT !.repo = NameIn(@, db.repos)] = z
    <3>1. PICK i \in DOMAIN db.zones : z = ZoneItem(db, i)
        BY <2>1 DEF ZoneItems
    <3>2. NameIn(z.repo, db.repos) = z.repo
        BY <3>1, ZoneFields DEF NameIn, TablesOK, ZoneItem
    <3> QED BY <3>1, <3>2 DEF ZoneItem
  <2> QED BY <2>1, <2>2
<1> QED BY <1>1, <1>2

\* The records and the variables of all the zones are read.
LEMMA RowsKnown ==
    ASSUME TablesOK(db), NEW f, f.zones = ZoneItems(db)
    PROVE  /\ ReadRecords(f) = [f EXCEPT !.records = RecordItems(db)]
           /\ ReadVariables(f) = [f EXCEPT !.vars = VarItems(db)]
<1>1. UNION {{[zone |-> z.name, name |-> r[2], value |-> r[3], id |-> z.id] :
                r \in {r \in db.live : r[1] = z.id}} : z \in f.zones} = RecordItems(db)
  <2> DEFINE of(z) == {[zone |-> z.name, name |-> r[2], value |-> r[3], id |-> z.id] :
                         r \in {r \in db.live : r[1] = z.id}}
  <2>1. ASSUME NEW z \in f.zones, NEW x \in of(z)
        PROVE  x \in RecordItems(db)
    <3>1. PICK i \in DOMAIN db.zones : z = ZoneItem(db, i)
        BY DEF ZoneItems
    <3>2. PICK r \in db.live : r[1] = z.id /\ x = [zone |-> z.name, name |-> r[2], value |-> r[3], id |-> z.id]
        OBVIOUS
    <3>3. z.id = i /\ z.name = db.zones[i].name
        BY <3>1 DEF ZoneItem
    <3> QED BY <3>2, <3>3 DEF RecordItems, RecordItem
  <2>2. ASSUME NEW x \in RecordItems(db)
        PROVE  \E z \in f.zones : x \in of(z)
    <3>1. PICK r \in db.live : x = RecordItem(db, r)
        BY DEF RecordItems
    <3>2. r[1] \in DOMAIN db.zones
        BY DEF TablesOK, ZonesOK
    <3> DEFINE z == ZoneItem(db, r[1])
    <3>3. z \in f.zones /\ z.id = r[1] /\ z.name = db.zones[r[1]].name
        BY <3>2 DEF ZoneItems, ZoneItem
    <3> HIDE DEF z
    <3>4. x \in of(z)
        BY <3>1, <3>3 DEF RecordItem
    <3> QED BY <3>3, <3>4
  <2> HIDE DEF of
  <2>3. UNION {of(z) : z \in f.zones} = RecordItems(db)
      BY <2>1, <2>2
  <2> QED BY <2>3 DEF of
<1>2. VariablesOf(DOMAIN db.vars, f.zones) = VarItems(db)
  <2>1. ASSUME NEW k \in DOMAIN db.vars
        PROVE  {z.name : z \in {y \in f.zones : y.id = k[2]}} =
                 IF k[2] = NoName THEN {} ELSE {db.zones[k[2]].name}
    <3>1. k[2] \in DOMAIN db.zones \cup {NoName}
        BY DEF TablesOK, ZonesOK, IsTable
    <3>2. \A y \in f.zones : \E i \in DOMAIN db.zones : y.id = i /\ y.name = db.zones[i].name
        BY DEF ZoneItems, ZoneItem
    <3>3. \A i \in DOMAIN db.zones : \E y \in f.zones : y.id = i /\ y.name = db.zones[i].name
      <4>1. \A i \in DOMAIN db.zones : ZoneItem(db, i) \in f.zones
          BY DEF ZoneItems
      <4>2. \A i \in DOMAIN db.zones : ZoneItem(db, i).id = i /\ ZoneItem(db, i).name = db.zones[i].name
          BY DEF ZoneItem
      <4> QED BY <4>1, <4>2
    <3>4. NoName \notin DOMAIN db.zones
        BY CatalogAssumption, DomainsAre
    <3> QED BY <3>1, <3>2, <3>3, <3>4
  <2> QED BY <2>1 DEF VariablesOf, VarItems, VarItem
<1> QED BY <1>1, <1>2 DEF ReadRecords, ReadVariables, Exported

\* A section more is that of the tables.
LEMMA SoFarStep ==
    ASSUME TablesOK(db), FileOK(backup), SoFar(backup, reading, db), ExportSection
    PROVE  SoFar(backup', reading', db)
<1> DEFINE f == backup
           e == backup'
<1>0. FileShaped(f)
    BY DEF FileOK
<1>1. CASE reading = "roles"
  <2>1. reading' = "groups" /\ e = ReadRoles(f)
      BY <1>1, SectionSteps
  <2>2. e = [f EXCEPT !.roles = [o \in DOMAIN db.roles |-> NoName]]
      BY <1>1, <2>1 DEF ReadRoles
  <2>3. /\ e.roles = [o \in DOMAIN db.roles |-> NoName] /\ e.groups = f.groups /\ e.providers = f.providers /\ e.views = f.views
        /\ e.zones = f.zones /\ e.repos = f.repos /\ e.settings = f.settings /\ e.users = f.users
        /\ e.idps = f.idps /\ e.records = f.records /\ e.vars = f.vars
      BY <1>0, <2>2 DEF FileShaped
  <2> HIDE DEF f, e
  <2> QED BY <1>1, <2>1, <2>3 DEF SoFar, f, e, AfterRoles, AfterGroups, AfterProviders,
             AfterViews, AfterZones, AfterRepos, AfterSettings, AfterPermissions, AfterUsers,
             AfterIdps, AfterAttachments, AfterRecords, AfterVariables
<1>2. CASE reading = "groups"
  <2>1. reading' = "providers" /\ e = ReadGroups(f)
      BY <1>2, SectionSteps
  <2>2. e = [f EXCEPT !.groups = db.groups]
      BY <1>2, <2>1, RolesKnown DEF ReadGroups
  <2>3. /\ e.groups = db.groups /\ e.roles = f.roles /\ e.providers = f.providers /\ e.views = f.views
        /\ e.zones = f.zones /\ e.repos = f.repos /\ e.settings = f.settings /\ e.users = f.users
        /\ e.idps = f.idps /\ e.records = f.records /\ e.vars = f.vars
      BY <1>0, <2>2 DEF FileShaped
  <2> HIDE DEF f, e
  <2> QED BY <1>2, <2>1, <2>3 DEF SoFar, f, e, AfterRoles, AfterGroups, AfterProviders,
             AfterViews, AfterZones, AfterRepos, AfterSettings, AfterPermissions, AfterUsers,
             AfterIdps, AfterAttachments, AfterRecords, AfterVariables
<1>3. CASE reading = "providers"
  <2>1. reading' = "views" /\ e = ReadProviders(f)
      BY <1>3, SectionSteps
  <2>2. e = [f EXCEPT !.providers = db.providers]
      BY <1>3, <2>1 DEF ReadProviders
  <2>3. /\ e.providers = db.providers /\ e.roles = f.roles /\ e.groups = f.groups /\ e.views = f.views
        /\ e.zones = f.zones /\ e.repos = f.repos /\ e.settings = f.settings /\ e.users = f.users
        /\ e.idps = f.idps /\ e.records = f.records /\ e.vars = f.vars
      BY <1>0, <2>2 DEF FileShaped
  <2> HIDE DEF f, e
  <2> QED BY <1>3, <2>1, <2>3 DEF SoFar, f, e, AfterRoles, AfterGroups, AfterProviders,
             AfterViews, AfterZones, AfterRepos, AfterSettings, AfterPermissions, AfterUsers,
             AfterIdps, AfterAttachments, AfterRecords, AfterVariables
<1>4. CASE reading = "views"
  <2>1. reading' = "zones" /\ e = ReadViews(f)
      BY <1>4, SectionSteps
  <2>2. e = [f EXCEPT !.views = [v \in DOMAIN db.views |-> {}]]
      BY <1>4, <2>1 DEF ReadViews
  <2>3. /\ e.views = [v \in DOMAIN db.views |-> {}] /\ e.roles = f.roles /\ e.groups = f.groups /\ e.providers = f.providers
        /\ e.zones = f.zones /\ e.repos = f.repos /\ e.settings = f.settings /\ e.users = f.users
        /\ e.idps = f.idps /\ e.records = f.records /\ e.vars = f.vars
      BY <1>0, <2>2 DEF FileShaped
  <2> HIDE DEF f, e
  <2> QED BY <1>4, <2>1, <2>3 DEF SoFar, f, e, AfterRoles, AfterGroups, AfterProviders,
             AfterViews, AfterZones, AfterRepos, AfterSettings, AfterPermissions, AfterUsers,
             AfterIdps, AfterAttachments, AfterRecords, AfterVariables
<1>5. CASE reading = "zones"
  <2>1. reading' = "repos" /\ e = ReadZones(f)
      BY <1>5, SectionSteps
  <2>2. e = [f EXCEPT !.zones = ZoneItems(db)]
      BY <1>5, <2>1, ZonesKnown DEF ReadZones
  <2>3. /\ e.zones = ZoneItems(db) /\ e.roles = f.roles /\ e.groups = f.groups /\ e.providers = f.providers
        /\ e.views = f.views /\ e.repos = f.repos /\ e.settings = f.settings /\ e.users = f.users
        /\ e.idps = f.idps /\ e.records = f.records /\ e.vars = f.vars
      BY <1>0, <2>2 DEF FileShaped
  <2> HIDE DEF f, e
  <2> QED BY <1>5, <2>1, <2>3 DEF SoFar, f, e, AfterRoles, AfterGroups, AfterProviders,
             AfterViews, AfterZones, AfterRepos, AfterSettings, AfterPermissions, AfterUsers,
             AfterIdps, AfterAttachments, AfterRecords, AfterVariables
<1>6. CASE reading = "repos"
  <2>1. reading' = "settings" /\ e = ReadRepos(f)
      BY <1>6, SectionSteps
  <2>2. e = [f EXCEPT !.repos = db.repos, !.zones = ZoneItems(db)]
      BY <1>6, <2>1, ZonesKnown DEF ReadRepos
  <2>3. /\ e.repos = db.repos /\ e.zones = ZoneItems(db) /\ e.roles = f.roles /\ e.groups = f.groups
        /\ e.providers = f.providers /\ e.views = f.views /\ e.settings = f.settings /\ e.users = f.users
        /\ e.idps = f.idps /\ e.records = f.records /\ e.vars = f.vars
      BY <1>0, <2>2 DEF FileShaped
  <2> HIDE DEF f, e
  <2> QED BY <1>6, <2>1, <2>3 DEF SoFar, f, e, AfterRoles, AfterGroups, AfterProviders,
             AfterViews, AfterZones, AfterRepos, AfterSettings, AfterPermissions, AfterUsers,
             AfterIdps, AfterAttachments, AfterRecords, AfterVariables
<1>7. CASE reading = "settings"
  <2>1. reading' = "permissions" /\ e = ReadSettings(f)
      BY <1>7, SectionSteps
  <2>2. e = [f EXCEPT !.settings = db.settings]
      BY <1>7, <2>1 DEF ReadSettings
  <2>3. /\ e.settings = db.settings /\ e.roles = f.roles /\ e.groups = f.groups /\ e.providers = f.providers
        /\ e.views = f.views /\ e.zones = f.zones /\ e.repos = f.repos /\ e.users = f.users
        /\ e.idps = f.idps /\ e.records = f.records /\ e.vars = f.vars
      BY <1>0, <2>2 DEF FileShaped
  <2> HIDE DEF f, e
  <2> QED BY <1>7, <2>1, <2>3 DEF SoFar, f, e, AfterRoles, AfterGroups, AfterProviders,
             AfterViews, AfterZones, AfterRepos, AfterSettings, AfterPermissions, AfterUsers,
             AfterIdps, AfterAttachments, AfterRecords, AfterVariables
<1>8. CASE reading = "permissions"
  <2>1. reading' = "users" /\ e = ReadPermissions(f)
      BY <1>8, SectionSteps
  <2>2. e = [f EXCEPT !.roles = db.roles]
      BY <1>8, <2>1, RolesKnown DEF ReadPermissions
  <2>3. /\ e.roles = db.roles /\ e.groups = f.groups /\ e.providers = f.providers /\ e.views = f.views
        /\ e.zones = f.zones /\ e.repos = f.repos /\ e.settings = f.settings /\ e.users = f.users
        /\ e.idps = f.idps /\ e.records = f.records /\ e.vars = f.vars
      BY <1>0, <2>2 DEF FileShaped
  <2> HIDE DEF f, e
  <2> QED BY <1>8, <2>1, <2>3 DEF SoFar, f, e, AfterRoles, AfterGroups, AfterProviders,
             AfterViews, AfterZones, AfterRepos, AfterSettings, AfterPermissions, AfterUsers,
             AfterIdps, AfterAttachments, AfterRecords, AfterVariables
<1>9. CASE reading = "users"
  <2>1. reading' = "idps" /\ e = ReadUsers(f)
      BY <1>9, SectionSteps
  <2>2. e = [f EXCEPT !.users = db.users]
      BY <1>9, <2>1 DEF ReadUsers
  <2>3. /\ e.users = db.users /\ e.roles = f.roles /\ e.groups = f.groups /\ e.providers = f.providers
        /\ e.views = f.views /\ e.zones = f.zones /\ e.repos = f.repos /\ e.settings = f.settings
        /\ e.idps = f.idps /\ e.records = f.records /\ e.vars = f.vars
      BY <1>0, <2>2 DEF FileShaped
  <2> HIDE DEF f, e
  <2> QED BY <1>9, <2>1, <2>3 DEF SoFar, f, e, AfterRoles, AfterGroups, AfterProviders,
             AfterViews, AfterZones, AfterRepos, AfterSettings, AfterPermissions, AfterUsers,
             AfterIdps, AfterAttachments, AfterRecords, AfterVariables
<1>10. CASE reading = "idps"
  <2>1. reading' = "attachments" /\ e = ReadIdps(f)
      BY <1>10, SectionSteps
  <2>2. e = [f EXCEPT !.idps = db.idps]
      BY <1>10, <2>1, RolesKnown DEF ReadIdps
  <2>3. /\ e.idps = db.idps /\ e.roles = f.roles /\ e.groups = f.groups /\ e.providers = f.providers
        /\ e.views = f.views /\ e.zones = f.zones /\ e.repos = f.repos /\ e.settings = f.settings
        /\ e.users = f.users /\ e.records = f.records /\ e.vars = f.vars
      BY <1>0, <2>2 DEF FileShaped
  <2> HIDE DEF f, e
  <2> QED BY <1>10, <2>1, <2>3 DEF SoFar, f, e, AfterRoles, AfterGroups, AfterProviders,
             AfterViews, AfterZones, AfterRepos, AfterSettings, AfterPermissions, AfterUsers,
             AfterIdps, AfterAttachments, AfterRecords, AfterVariables
<1>11. CASE reading = "attachments"
  <2>1. reading' = "records" /\ e = ReadAttachments(f)
      BY <1>11, SectionSteps
  <2>2. e = [f EXCEPT !.views = db.views]
      BY <1>11, <2>1, RolesKnown DEF ReadAttachments
  <2>3. /\ e.views = db.views /\ e.roles = f.roles /\ e.groups = f.groups /\ e.providers = f.providers
        /\ e.zones = f.zones /\ e.repos = f.repos /\ e.settings = f.settings /\ e.users = f.users
        /\ e.idps = f.idps /\ e.records = f.records /\ e.vars = f.vars
      BY <1>0, <2>2 DEF FileShaped
  <2> HIDE DEF f, e
  <2> QED BY <1>11, <2>1, <2>3 DEF SoFar, f, e, AfterRoles, AfterGroups, AfterProviders,
             AfterViews, AfterZones, AfterRepos, AfterSettings, AfterPermissions, AfterUsers,
             AfterIdps, AfterAttachments, AfterRecords, AfterVariables
<1>12. CASE reading = "records"
  <2>1. reading' = "variables" /\ e = ReadRecords(f)
      BY <1>12, SectionSteps
  <2>2. e = [f EXCEPT !.records = RecordItems(db)]
    <3>1. f.zones = ZoneItems(db)
        BY <1>12 DEF SoFar, AfterRoles, AfterGroups, AfterProviders, AfterViews, AfterZones,
           AfterRepos, AfterSettings, AfterPermissions, AfterUsers, AfterIdps, AfterAttachments,
           AfterRecords, AfterVariables
    <3> QED BY <2>1, <3>1, RowsKnown
  <2>3. /\ e.records = RecordItems(db) /\ e.roles = f.roles /\ e.groups = f.groups /\ e.providers = f.providers
        /\ e.views = f.views /\ e.zones = f.zones /\ e.repos = f.repos /\ e.settings = f.settings
        /\ e.users = f.users /\ e.idps = f.idps /\ e.vars = f.vars
      BY <1>0, <2>2 DEF FileShaped
  <2> HIDE DEF f, e
  <2> QED BY <1>12, <2>1, <2>3 DEF SoFar, f, e, AfterRoles, AfterGroups, AfterProviders,
             AfterViews, AfterZones, AfterRepos, AfterSettings, AfterPermissions, AfterUsers,
             AfterIdps, AfterAttachments, AfterRecords, AfterVariables
<1>13. CASE reading = "variables"
  <2>1. reading' = "ready" /\ e = ReadVariables(f)
      BY <1>13, SectionSteps
  <2>2. e = [f EXCEPT !.vars = VarItems(db)]
    <3>1. f.zones = ZoneItems(db)
        BY <1>13 DEF SoFar, AfterRoles, AfterGroups, AfterProviders, AfterViews, AfterZones,
           AfterRepos, AfterSettings, AfterPermissions, AfterUsers, AfterIdps, AfterAttachments,
           AfterRecords, AfterVariables
    <3> QED BY <2>1, <3>1, RowsKnown
  <2>3. /\ e.vars = VarItems(db) /\ e.roles = f.roles /\ e.groups = f.groups /\ e.providers = f.providers
        /\ e.views = f.views /\ e.zones = f.zones /\ e.repos = f.repos /\ e.settings = f.settings
        /\ e.users = f.users /\ e.idps = f.idps /\ e.records = f.records
      BY <1>0, <2>2 DEF FileShaped
  <2> HIDE DEF f, e
  <2> QED BY <1>13, <2>1, <2>3 DEF SoFar, f, e, AfterRoles, AfterGroups, AfterProviders,
             AfterViews, AfterZones, AfterRepos, AfterSettings, AfterPermissions, AfterUsers,
             AfterIdps, AfterAttachments, AfterRecords, AfterVariables
<1> QED BY <1>1, <1>2, <1>3, <1>4, <1>5, <1>6, <1>7, <1>8, <1>9, <1>10, <1>11, <1>12, <1>13,
           SectionSteps

\* The file is what the export of these tables is.
IsExport(f, d) ==
    /\ f.settings = d.settings /\ f.roles = d.roles /\ f.groups = d.groups /\ f.users = d.users
    /\ f.idps = d.idps /\ f.providers = d.providers /\ f.repos = d.repos /\ f.views = d.views
    /\ f.zones = ZoneItems(d) /\ f.records = RecordItems(d) /\ f.vars = VarItems(d)

\* As long as nobody edits, what is read is what was saved when the export began.
SavedInv ==
    saved # NoName /\ reading # "idle" /\ backup.kind = "system" =>
        /\ TablesOK(saved)
        /\ reading # "ready" => db = saved /\ SoFar(backup, reading, db)
        /\ reading = "ready" => IsExport(backup, saved)

\* Every step keeps it.
LEMMA SavedNext == BackupTypeInv /\ SavedInv /\ [BackupNext]_backupVars => SavedInv'
<1> SUFFICES ASSUME BackupTypeInv, SavedInv, [BackupNext]_backupVars PROVE SavedInv'
    OBVIOUS
<1>0. TablesOK(db) /\ FileInv
    BY DEF BackupTypeInv
<1>1. CASE BeginExport
  <2>1. reading' = "roles" /\ saved' = db /\ db' = db
      BY <1>1 DEF BeginExport, Sections, catalogVars
  <2>2. SoFar(backup', reading', db)
      BY <2>1 DEF SoFar, AfterRoles, AfterGroups, AfterProviders, AfterViews, AfterZones,
         AfterRepos,
         AfterSettings, AfterPermissions, AfterUsers, AfterIdps, AfterAttachments, AfterRecords,
         AfterVariables
  <2> QED BY <1>0, <2>1, <2>2 DEF SavedInv
<1>2. CASE ExportSection
  <2>1. UNCHANGED <<db, saved>>
      BY <1>2 DEF ExportSection, catalogVars
  <2>2. reading \notin {"idle", "ready"} /\ reading' # "idle"
      BY <1>2, SectionSteps
  <2>3. FileOK(backup) /\ backup.kind = "system"
      BY <1>0, <2>2 DEF FileInv
  <2>4. ASSUME saved # NoName
        PROVE  TablesOK(saved) /\ db = saved /\ SoFar(backup', reading', db)
    <3>1. TablesOK(saved) /\ db = saved /\ SoFar(backup, reading, db)
        BY <2>2, <2>3, <2>4 DEF SavedInv
    <3> QED BY <1>0, <1>2, <2>3, <3>1, SoFarStep
  <2>5. ASSUME SoFar(backup', "ready", saved)
        PROVE  IsExport(backup', saved)
      BY <2>5 DEF SoFar, IsExport, AfterRoles, AfterGroups, AfterProviders, AfterViews, AfterZones,
         AfterRepos, AfterSettings, AfterPermissions, AfterUsers, AfterIdps, AfterAttachments,
         AfterRecords, AfterVariables
  <2> QED BY <2>1, <2>4, <2>5 DEF SavedInv
<1>3. CASE ExportZone
  <2>1. backup'.kind = "zone"
      BY <1>3 DEF ExportZone, EmptyFile
  <2> QED BY <2>1 DEF SavedInv
<1>4. CASE ApplyRestore
    BY <1>4 DEF ApplyRestore, SavedInv
<1>5. CASE EditTables
  <2>1. UNCHANGED <<reading, backup>> /\ saved' = IF reading \in {"idle", "ready"} THEN saved ELSE NoName
      BY <1>5 DEF EditTables
  <2> QED BY <2>1 DEF SavedInv
<1>6. CASE SetUpAnew
    BY <1>6 DEF SetUpAnew, SavedInv
<1>7. CASE UNCHANGED backupVars
    BY <1>7 DEF backupVars, SavedInv
<1> QED BY <1>1, <1>2, <1>3, <1>4, <1>5, <1>6, <1>7 DEF BackupNext

\* It always holds.
LEMMA BackupSaved == BackupSpec => []SavedInv
<1>1. BackupInit => SavedInv
    BY DEF BackupInit, SavedInv
<1> QED BY <1>1, SavedNext, BackupTyped, PTL DEF BackupSpec

-----------------------------------------------------------------------------
(* What a restore leaves alone *)

\* A step that leaves the file and counts no edit is a restore.
LEMMA OnlyApplies ==
    ASSUME BackupTypeInv, BackupNext, Applies
    PROVE  ApplyRestore
<1>1. ~ BeginExport
    BY DEF BeginExport, Applies, Sections
<1>2. ~ ExportSection
    BY SectionSteps DEF Applies
<1>3. ~ ExportZone
    BY DEF ExportZone, Applies
<1>4. ~ EditTables
  <2>1. edits' # edits + 1
      BY CatalogAssumption DEF BackupTypeInv, Applies
  <2>2. CatalogEdit => edits' = edits + 1
    <3>1. AccountEdit => edits' = edits + 1
        BY DEF AccountEdit, PutRoleRow, DropRole, PutGroup, DropGroup, PutUser, PutIdpRow,
           DropIdpRow, Edited
    <3>2. HostEdit => edits' = edits + 1
        BY DEF HostEdit, PutKey, CreateProvider, UpdateProvider, DropProvider, CreateRepo,
           UpdateRepo, DropRepo, AttachProvider, DetachProvider, Edited
    <3>3. ZoneEdit => edits' = edits + 1
        BY DEF ZoneEdit, CreateView, DropView, CreateZone, UpdateZone, DropZone, CloneZone,
           CreateRecord, UpdateRecord, DropRecord, PutVariable, DropVariable, Edited
    <3> QED BY <3>1, <3>2, <3>3 DEF CatalogEdit
  <2> QED BY <2>1, <2>2 DEF EditTables
<1>5. ~ SetUpAnew
    BY DEF SetUpAnew, Applies
<1> QED BY <1>1, <1>2, <1>3, <1>4, <1>5 DEF BackupNext

\* What a restore does to the tables, or that it does nothing
LEMMA AppliedIs ==
    ASSUME TablesOK(db), ApplyRestore,
           NEW to, to = Targets(db, backup), NEW landing, landing = Landing(backup, to)
    PROVE  \/ Refused(db, backup, landing) /\ db' = db
           \/ /\ ~ Refused(db, backup, landing) /\ outcome' = "applied"
              /\ db'.live \in RestoreRecords(db, backup, landing)
              /\ db'.vars \in RestoreVars(db, backup, landing)
              /\ \E e : /\ Restores(db, backup, to, e) /\ SameAccounts(db', e) /\ SameHosts(db', e)
                        /\ db'.zones = e.zones /\ db'.marked = db.marked /\ db'.secrets = db.secrets
<1>1. CASE Refused(db, backup, landing)
    BY <1>1 DEF ApplyRestore
<1>2. CASE ~ Refused(db, backup, landing)
  <2> DEFINE e == Restored(db, backup, to)
  <2>1. PICK rows \in RestoreRecords(db, backup, landing), vars \in RestoreVars(db, backup, landing) :
          db' = [e EXCEPT !.live = rows, !.vars = vars]
      BY <1>2 DEF ApplyRestore
  <2>2. Restores(db, backup, to, e)
      BY RestoredFields DEF TablesOK
  <2> HIDE DEF e
  <2>3. Shaped(e) /\ e.marked = db.marked /\ e.secrets = db.secrets
      BY <2>2 DEF Restores
  <2>4. /\ SameAccounts(db', e) /\ SameHosts(db', e) /\ db'.zones = e.zones
        /\ db'.marked = db.marked /\ db'.secrets = db.secrets /\ db'.live = rows /\ db'.vars = vars
      BY <2>1, <2>3 DEF Shaped, SameAccounts, SameHosts
  <2>5. outcome' = "applied"
      BY <1>2 DEF ApplyRestore
  <2> QED BY <1>2, <2>1, <2>2, <2>4, <2>5
<1> QED BY <1>1, <1>2

\* An upsert leaves the rows it has no item for.
LEMMA OthersLeft ==
    ASSUME NEW items, NEW table, NEW names, DOMAIN items \subseteq names
    PROVE  Includes(Upserted(items, table), Less(table, names))
BY DEF Includes, Upserted, Less

\* So does doing nothing.
LEMMA AllLeft ==
    ASSUME NEW table, NEW names
    PROVE  Includes(table, Less(table, names))
BY DEF Includes, Less

\* No zone the file does not name is gone to.
LEMMA TargetsNamed ==
    ASSUME TablesOK(db), FileOK(backup), NEW to, to = Targets(db, backup), NEW z \in backup.zones,
           NEW i \in DOMAIN db.zones, to[z] = i
    PROVE  ZoneRow(db, i) = <<z.name, z.view>>
<1>1. DOMAIN db.zones \subseteq 1..db.last /\ db.last \in Nat
    BY DEF TablesOK, ZonesOK, IsTable
<1>2. \E new \in Nat : IsNew(db, z) => to[z] \in (db.last + 1)..(db.last + new)
    BY TargetsAre
<1>3. ~ IsNew(db, z)
    BY <1>1, <1>2
<1>4. SameZone(db.zones[i], z)
    BY <1>3, TargetsAre
<1> QED BY <1>4 DEF SameZone, ZoneRow

\* The records of these zones are as they were.
SameRecords(zones, now, was) == {r \in now : r[1] \in zones} = {r \in was : r[1] \in zones}

\* The records of zones the file does not go to stay.
LEMMA RecordsLeft ==
    ASSUME NEW landing, NEW ids, \A n \in DOMAIN landing : landing[n] \in ids,
           NEW live \in RestoreRecords(db, backup, landing), NEW zones, zones \cap ids = {}
    PROVE  SameRecords(zones, live, db.live)
<1> DEFINE spot(r) == <<landing[r.zone], r.name>>
           rows == {r \in backup.records : r.zone \in DOMAIN landing}
           keys == {spot(r) : r \in rows}
           rest == {r \in db.live : <<r[1], r[2]>> \notin keys}
<1>1. PICK w \in [keys -> SUBSET Values] :
        live = rest \cup UNION {{<<k[1], k[2], v>> : v \in w[k]} : k \in keys}
    BY DEF RestoreRecords
<1>2. \A k \in keys : k[1] \in ids
    OBVIOUS
<1>3. \A r \in db.live : r[1] \in zones => r \in rest
  <2> SUFFICES ASSUME NEW r \in db.live, r[1] \in zones, <<r[1], r[2]>> \in keys PROVE FALSE
      OBVIOUS
  <2>1. <<r[1], r[2]>>[1] \in ids
      BY <1>2
  <2> QED BY <2>1
<1>4. \A r \in rest : r \in db.live
    OBVIOUS
<1> HIDE DEF keys, rest
<1>5. \A r \in live : r[1] \in zones => r \in rest
    BY <1>1, <1>2
<1> QED BY <1>1, <1>3, <1>4, <1>5 DEF SameRecords

\* What a restore leaves alone, table by table
LEMMA RestoreLeaves ==
    ASSUME BackupTypeInv, SavedInv, BackupNext, Applies, saved # NoName, backup.kind = "system"
    PROVE  LET named == {<<z.name, z.view>> : z \in backup.zones}
               zones == {i \in DOMAIN db.zones : ZoneRow(db, i) \notin named}
           IN /\ \A t \in {"settings", "roles", "groups", "users", "idps", "providers",
                            "repos", "views"} :
                   Includes(db'[t], Less(db[t], DOMAIN saved[t]))
              /\ \A i \in zones : db'.zones[i] = db.zones[i]
              /\ {r \in db'.live : r[1] \in zones} = {r \in db.live : r[1] \in zones}
              /\ db'.marked = db.marked
              /\ db'.secrets = db.secrets
<1> DEFINE named == {<<z.name, z.view>> : z \in backup.zones}
           zones == {i \in DOMAIN db.zones : ZoneRow(db, i) \notin named}
           to == Targets(db, backup)
           landing == Landing(backup, to)
<1>1. /\ TablesOK(db) /\ FileOK(backup) /\ IsExport(backup, saved) /\ ApplyRestore
    BY OnlyApplies DEF BackupTypeInv, FileInv, SavedInv, Applies
<1>2. CASE db' = db
    BY <1>2, AllLeft
<1>3. CASE db' # db
  <2>1. /\ db'.live \in RestoreRecords(db, backup, landing)
        /\ \E e : /\ Restores(db, backup, to, e) /\ SameAccounts(db', e) /\ SameHosts(db', e)
                  /\ db'.zones = e.zones /\ db'.marked = db.marked /\ db'.secrets = db.secrets
    <3> HIDE DEF to, landing
    <3> QED BY <1>1, <1>3, AppliedIs DEF to, landing
  <2>2. PICK e : /\ Restores(db, backup, to, e) /\ SameAccounts(db', e) /\ SameHosts(db', e)
                 /\ db'.zones = e.zones /\ db'.marked = db.marked /\ db'.secrets = db.secrets
      BY <2>1
  <2>3. \A i \in zones, z \in backup.zones : to[z] # i
    <3> HIDE DEF to
    <3> QED BY <1>1, TargetsNamed DEF to
  <2>4. {r \in db'.live : r[1] \in zones} = {r \in db.live : r[1] \in zones}
    <3> DEFINE ids == {to[z] : z \in backup.zones}
    <3>1. zones \cap ids = {}
        BY <2>3
    <3>2. \A n \in DOMAIN landing : landing[n] \in ids
      <4> HIDE DEF to
      <4> QED BY <1>1, LandingIs
    <3> HIDE DEF ids, zones, to, landing
    <3>3. SameRecords(zones, db'.live, db.live)
        BY <2>1, <3>1, <3>2, RecordsLeft
    <3> QED BY <3>3 DEF SameRecords
  <2>5. \A i \in zones : db'.zones[i] = db.zones[i]
    <3>1. \A i \in zones : e.zones[i] = db.zones[i]
      <4> HIDE DEF to
      <4> QED BY <2>2, <2>3 DEF Restores, Upserted
    <3> QED BY <2>2, <3>1
  <2>6. /\ Includes(db'.settings, Less(db.settings, DOMAIN saved.settings))
        /\ Includes(db'.roles, Less(db.roles, DOMAIN saved.roles))
        /\ Includes(db'.providers, Less(db.providers, DOMAIN saved.providers))
        /\ Includes(db'.repos, Less(db.repos, DOMAIN saved.repos))
    <3>1. /\ db'.settings = Upserted(saved.settings, db.settings)
          /\ db'.roles = Upserted(saved.roles, db.roles)
          /\ db'.providers = Upserted(saved.providers, db.providers)
          /\ db'.repos = Upserted(saved.repos, db.repos)
        BY <1>1, <2>2 DEF IsExport, Restores, SameAccounts, SameHosts
    <3> QED BY <3>1, OthersLeft
  <2>7. /\ Includes(db'.groups, Less(db.groups, DOMAIN saved.groups))
        /\ Includes(db'.users, Less(db.users, DOMAIN saved.users))
        /\ Includes(db'.idps, Less(db.idps, DOMAIN saved.idps))
        /\ Includes(db'.views, Less(db.views, DOMAIN saved.views))
    <3> DEFINE f == backup
               groups == [g \in DOMAIN f.groups |->
                 IF f.groups[g] \in DOMAIN f.roles \cup DOMAIN e.roles THEN f.groups[g] ELSE NoName]
               users == [u \in DOMAIN f.users |-> Memberships(u, f)]
               idps == [i \in DOMAIN f.idps |->
                 IF f.idps[i] \in DOMAIN f.groups \cup DOMAIN e.groups THEN f.idps[i] ELSE NoName]
               views == [v \in DOMAIN f.views |-> f.views[v] \cap DOMAIN f.providers]
    <3>1. /\ DOMAIN groups = DOMAIN saved.groups /\ DOMAIN users = DOMAIN saved.users
          /\ DOMAIN idps = DOMAIN saved.idps /\ DOMAIN views = DOMAIN saved.views
        BY <1>1 DEF IsExport
    <3>2. /\ db'.groups = Upserted(groups, db.groups) /\ db'.users = Upserted(users, db.users)
          /\ db'.idps = Upserted(idps, db.idps) /\ db'.views = Upserted(views, db.views)
        BY <2>2 DEF Restores, SameAccounts, SameHosts
    <3> HIDE DEF groups, users, idps, views
    <3> QED BY <3>1, <3>2, OthersLeft
  <2> HIDE DEF zones, to, landing
  <2> QED BY <2>2, <2>4, <2>5, <2>6, <2>7 DEF zones
<1> QED BY <1>2, <1>3

\* A restore of a file written while nobody edited touches nothing the file does not
\* name, and no credentials (BackupService.cpp: applyRestore).
THEOREM RestoreTouchesNothingElse == BackupSpec => NothingElseTouched
<1>1. BackupTypeInv /\ SavedInv /\ [BackupNext]_backupVars =>
        [Applies /\ saved # NoName /\ backup.kind = "system" =>
          LET named == {<<z.name, z.view>> : z \in backup.zones}
              zones == {i \in DOMAIN db.zones : ZoneRow(db, i) \notin named}
          IN /\ \A t \in {"settings", "roles", "groups", "users", "idps", "providers",
                           "repos", "views"} :
                  Includes(db'[t], Less(db[t], DOMAIN saved[t]))
             /\ \A i \in zones : db'.zones[i] = db.zones[i]
             /\ {r \in db'.live : r[1] \in zones} = {r \in db.live : r[1] \in zones}
             /\ db'.marked = db.marked
             /\ db'.secrets = db.secrets]_backupVars
    BY RestoreLeaves
<1> QED BY <1>1, BackupTyped, BackupSaved, PTL DEF BackupSpec, NothingElseTouched

-----------------------------------------------------------------------------
(* What a restore brings back *)

\* Two new zones of a file do not go to one row: the later goes after the earlier.
LEMMA LaterZone ==
    ASSUME NEW d, TablesOK(d), NEW f, FileOK(f), NEW to, to = Targets(d, f),
           NEW y \in f.zones, NEW z \in f.zones, IsNew(d, y), IsNew(d, z), y.id < z.id
    PROVE  to[y] # to[z]
<1> DEFINE new == {x \in f.zones : IsNew(d, x)}
           upTo(x) == {w \in new : w.id =< x.id}
<1>1. new \in SUBSET f.zones /\ IsFiniteSet(f.zones) /\ \A x \in f.zones : x.id \in Nat
    BY DEF FileOK, FileZones, FileZone
<1>2. upTo(y) \in SUBSET f.zones /\ upTo(z) \in SUBSET f.zones
    BY <1>1
<1>3. IsFiniteSet(upTo(y)) /\ IsFiniteSet(upTo(z))
    BY <1>1, <1>2, FS_Subset
<1>4. upTo(y) \in SUBSET upTo(z)
    BY <1>1
<1>5. z \in upTo(z) /\ z \notin upTo(y)
    BY <1>1
<1>6. Cardinality(upTo(y)) # Cardinality(upTo(z))
    BY <1>3, <1>4, <1>5, FS_Subset
<1>7. Cardinality(upTo(y)) \in Nat /\ Cardinality(upTo(z)) \in Nat
    BY <1>3, FS_CardinalityType
<1>8. to[y] = d.last + Cardinality(upTo(y)) /\ to[z] = d.last + Cardinality(upTo(z))
    BY DEF Targets
<1>9. d.last \in Nat
    BY DEF TablesOK, ZonesOK
<1> HIDE DEF upTo
<1> QED BY <1>6, <1>7, <1>8, <1>9

\* Nor do any two zones of a file with names of their own.
LEMMA TargetsApart ==
    ASSUME NEW d, TablesOK(d), NEW f, FileOK(f), NEW to, to = Targets(d, f),
           NEW y \in f.zones, NEW z \in f.zones, to[y] = to[z], y.name = z.name => y = z
    PROVE  y = z
<1>1. /\ \E n \in Nat : IsNew(d, y) => to[y] \in (d.last + 1)..(d.last + n)
      /\ \E n \in Nat : IsNew(d, z) => to[z] \in (d.last + 1)..(d.last + n)
      /\ ~ IsNew(d, y) => to[y] \in DOMAIN d.zones /\ SameZone(d.zones[to[y]], y)
      /\ ~ IsNew(d, z) => to[z] \in DOMAIN d.zones /\ SameZone(d.zones[to[z]], z)
    BY TargetsAre
<1>2. DOMAIN d.zones \subseteq 1..d.last /\ d.last \in Nat
    BY DEF TablesOK, ZonesOK, IsTable
<1>3. CASE IsNew(d, y) /\ IsNew(d, z)
  <2>1. y.id \in Nat /\ z.id \in Nat /\ (y.id = z.id => y = z)
      BY DEF FileOK, FileZones, FileZone
  <2>2. ~ (y.id < z.id) /\ ~ (z.id < y.id)
      BY <1>3, LaterZone
  <2> QED BY <2>1, <2>2
<1>4. CASE ~ IsNew(d, y) /\ ~ IsNew(d, z)
    BY <1>1, <1>4 DEF SameZone
<1>5. CASE IsNew(d, y) /\ ~ IsNew(d, z)
    BY <1>1, <1>2, <1>5
<1>6. CASE ~ IsNew(d, y) /\ IsNew(d, z)
    BY <1>1, <1>2, <1>6
<1> QED BY <1>3, <1>4, <1>5, <1>6

\* Each zone of the tables s has a row of its own to go to, and its name leads there.
Lands(s, landing, at) ==
    /\ \A i \in DOMAIN s.zones :
         /\ s.zones[i].name \in DOMAIN landing
         /\ landing[s.zones[i].name] = at[i]
         /\ at[i] \in Nat
    /\ \A i, j \in DOMAIN s.zones : at[i] = at[j] => i = j

\* They do, when the names of the zones are their own.
LEMMA ZonesLand ==
    ASSUME NEW d, TablesOK(d), NEW f, FileOK(f), NEW s, TablesOK(s), Plain(s),
           f.zones = ZoneItems(s), NEW to, to = Targets(d, f)
    PROVE  Lands(s, Landing(f, to), [i \in DOMAIN s.zones |-> to[ZoneItem(s, i)]])
<1> DEFINE item(i) == ZoneItem(s, i)
           landing == Landing(f, to)
<1>1. \A i \in DOMAIN s.zones : item(i) \in f.zones /\ item(i).name = s.zones[i].name /\ item(i).id = i
    BY DEF ZoneItems, ZoneItem
<1>2. \A y \in f.zones : \E i \in DOMAIN s.zones : y = item(i)
    BY DEF ZoneItems
<1>3. \A y, z \in f.zones : y.name = z.name => y = z
    BY <1>1, <1>2 DEF Plain
<1> HIDE DEF item
<1>4. ASSUME NEW i \in DOMAIN s.zones
      PROVE  s.zones[i].name \in DOMAIN landing /\ landing[s.zones[i].name] = to[item(i)]
  <2>1. s.zones[i].name \in DOMAIN landing
      BY <1>1 DEF Landing
  <2>2. \E z \in f.zones : z.name = s.zones[i].name /\ landing[s.zones[i].name] = to[z]
      BY <2>1, LandingIs
  <2> HIDE DEF landing
  <2> QED BY <1>1, <1>3, <2>1, <2>2
<1>5. ASSUME NEW i \in DOMAIN s.zones
      PROVE  to[item(i)] \in Nat
  <2>1. /\ \E n \in Nat : IsNew(d, item(i)) => to[item(i)] \in (d.last + 1)..(d.last + n)
        /\ ~ IsNew(d, item(i)) => to[item(i)] \in DOMAIN d.zones
      BY <1>1, TargetsAre
  <2>2. DOMAIN d.zones \subseteq 1..d.last /\ d.last \in Nat
      BY DEF TablesOK, ZonesOK, IsTable
  <2> QED BY <2>1, <2>2
<1>6. ASSUME NEW i \in DOMAIN s.zones, NEW j \in DOMAIN s.zones, to[item(i)] = to[item(j)]
      PROVE  i = j
  <2>1. item(i) = item(j)
      BY <1>1, <1>3, <1>6, TargetsApart
  <2> QED BY <1>1, <2>1
<1> HIDE DEF landing
<1> QED BY <1>4, <1>5, <1>6 DEF Lands, item, landing

\* The zones of s are among these, each in its place; the others were there before.
ZonesPlaced(s, zones, at, before) ==
    /\ \A i \in DOMAIN s.zones : at[i] \in DOMAIN zones /\ zones[at[i]] = s.zones[i]
    /\ DOMAIN zones \subseteq {at[i] : i \in DOMAIN s.zones} \cup before

\* The zones of the tables s come back as they were.
LEMMA ZonesBack ==
    ASSUME NEW d, NEW f, NEW s, TablesOK(s), f.zones = ZoneItems(s), f.repos = s.repos,
           NEW to, NEW e, Restores(d, f, to, e), NEW landing,
           NEW at, at = [i \in DOMAIN s.zones |-> to[ZoneItem(s, i)]], Lands(s, landing, at)
    PROVE  ZonesPlaced(s, e.zones, at, DOMAIN d.zones)
<1> DEFINE item(i) == ZoneItem(s, i)
           row(z) == [name |-> z.name, view |-> z.view,
                      repo |-> IF z.repo \in DOMAIN f.repos THEN z.repo ELSE NoName]
           ids == {to[z] : z \in f.zones}
           from(i) == CHOOSE y \in f.zones : to[y] = i
           t == [i \in ids |-> row(from(i))]
<1>1. e.zones = Upserted(t, d.zones)
    BY DEF Restores
<1>2. ids = {at[i] : i \in DOMAIN s.zones}
    BY DEF ZoneItems
<1>3. ASSUME NEW i \in DOMAIN s.zones
      PROVE  from(at[i]) = item(i)
  <2>1. item(i) \in f.zones /\ to[item(i)] = at[i]
      BY DEF ZoneItems
  <2>2. \A y \in f.zones : to[y] = at[i] => y = item(i)
    <3> SUFFICES ASSUME NEW y \in f.zones, to[y] = at[i] PROVE y = item(i)
        OBVIOUS
    <3>1. PICK j \in DOMAIN s.zones : y = item(j)
        BY DEF ZoneItems
    <3>2. at[j] = at[i]
        BY <3>1
    <3> QED BY <3>1, <3>2 DEF Lands
  <2> HIDE DEF item
  <2> QED BY <2>1, <2>2
<1>4. ASSUME NEW i \in DOMAIN s.zones
      PROVE  row(item(i)) = s.zones[i]
  <2>1. s.zones[i] \in [name : ZoneNames, view : DOMAIN s.views, repo : DOMAIN s.repos \cup {NoName}]
      BY ZoneFields DEF TablesOK
  <2> QED BY <2>1 DEF ZoneItem
<1> HIDE DEF row, from, item, ids
<1>5. DOMAIN e.zones = ids \cup DOMAIN d.zones
    BY <1>1 DEF Upserted
<1>6. ASSUME NEW i \in DOMAIN s.zones
      PROVE  at[i] \in DOMAIN e.zones /\ e.zones[at[i]] = s.zones[i]
  <2>1. at[i] \in ids
      BY <1>2
  <2>2. e.zones[at[i]] = row(from(at[i]))
      BY <1>1, <2>1 DEF Upserted
  <2> QED BY <1>3, <1>4, <1>5, <2>1, <2>2
<1> QED BY <1>2, <1>5, <1>6 DEF ZonesPlaced

\* One value for a name and type: it is there after the overwriting.
LEMMA OverwrittenBy ==
    ASSUME NEW rows, NEW v, NEW w \in Overwritten(rows, {v})
    PROVE  v \in w /\ (rows = {} => w = {v})
<1>1. CASE rows = {}
    BY <1>1 DEF Overwritten
<1>2. CASE rows # {}
  <2>1. PICK s \in (SUBSET rows) \ {{}} : \E g \in [s -> {v}] : w = (rows \ s) \cup {g[x] : x \in s}
      BY <1>2 DEF Overwritten
  <2>2. PICK g \in [s -> {v}] : w = (rows \ s) \cup {g[x] : x \in s}
      BY <2>1
  <2>3. PICK x \in s : TRUE
      BY <2>1
  <2> QED BY <1>2, <2>2, <2>3
<1> QED BY <1>1, <1>2

\* The records of the tables s come back, in the rows their zones went to.
LEMMA RecordsBack ==
    ASSUME NEW d, NEW f, NEW s, TablesOK(s), Plain(s), f.records = RecordItems(s),
           NEW landing, NEW at, Lands(s, landing, at), NEW live \in RestoreRecords(d, f, landing)
    PROVE  /\ \A r \in s.live : <<at[r[1]], r[2], r[3]>> \in live
           /\ d.live = {} => \A t \in live : \E r \in s.live : t = <<at[r[1]], r[2], r[3]>>
<1> DEFINE spot(r) == <<landing[r.zone], r.name>>
           rows == {r \in f.records : r.zone \in DOMAIN landing}
           keys == {spot(r) : r \in rows}
           had(k) == {r[3] : r \in {x \in d.live : <<x[1], x[2]>> = k}}
           new(k) == {r.value : r \in {x \in rows : spot(x) = k}}
           rest == {r \in d.live : <<r[1], r[2]>> \notin keys}
           key(r) == <<at[r[1]], r[2]>>
<1>1. PICK w \in [keys -> SUBSET Values] :
        /\ live = rest \cup UNION {{<<k[1], k[2], v>> : v \in w[k]} : k \in keys}
        /\ \A k \in keys : w[k] \in Overwritten(had(k), new(k))
    BY DEF RestoreRecords
<1>2. \A r \in s.live : r[1] \in DOMAIN s.zones /\ r = <<r[1], r[2], r[3]>>
    BY DEF TablesOK, ZonesOK
<1>3. ASSUME NEW r \in s.live
      PROVE  /\ RecordItem(s, r) \in rows /\ spot(RecordItem(s, r)) = key(r)
             /\ RecordItem(s, r).value = r[3]
    BY <1>2 DEF RecordItems, RecordItem, Lands
<1>4. \A x \in rows : \E r \in s.live : x = RecordItem(s, r)
    BY DEF RecordItems
<1> HIDE DEF rows
<1>5. keys = {key(r) : r \in s.live}
    BY <1>3, <1>4
<1>6. ASSUME NEW r \in s.live
      PROVE  new(key(r)) = {r[3]}
  <2>1. r[3] \in new(key(r))
      BY <1>3
  <2>2. ASSUME NEW x \in rows, spot(x) = key(r)
        PROVE  x.value = r[3]
    <3>1. PICK q \in s.live : x = RecordItem(s, q)
        BY <1>4
    <3>2. key(q) = key(r)
        BY <1>3, <2>2, <3>1
    <3>3. q[1] = r[1] /\ q[2] = r[2]
        BY <1>2, <3>2 DEF Lands
    <3>4. q = r
        BY <3>3 DEF Plain
    <3> QED BY <1>3, <3>1, <3>4
  <2> QED BY <2>1, <2>2
<1> HIDE DEF keys, rest, had, new, spot
<1>7. ASSUME NEW r \in s.live
      PROVE  key(r) \in keys /\ r[3] \in w[key(r)] /\ (had(key(r)) = {} => w[key(r)] = {r[3]})
  <2>1. key(r) \in keys
      BY <1>5
  <2>2. w[key(r)] \in Overwritten(had(key(r)), {r[3]})
      BY <1>1, <1>6, <2>1
  <2> QED BY <2>1, <2>2, OverwrittenBy
<1>8. ASSUME NEW r \in s.live
      PROVE  <<at[r[1]], r[2], r[3]>> \in live
  <2>1. key(r) \in keys /\ r[3] \in w[key(r)] /\ key(r)[1] = at[r[1]] /\ key(r)[2] = r[2]
      BY <1>7
  <2> HIDE DEF key
  <2> QED BY <1>1, <2>1
<1>9. ASSUME d.live = {}, NEW t \in live
      PROVE  \E r \in s.live : t = <<at[r[1]], r[2], r[3]>>
  <2>1. rest = {} /\ \A k : had(k) = {}
      BY <1>9 DEF rest, had
  <2>2. PICK k \in keys : \E v \in w[k] : t = <<k[1], k[2], v>>
      BY <1>1, <2>1
  <2>3. PICK v \in w[k] : t = <<k[1], k[2], v>>
      BY <2>2
  <2>4. PICK r \in s.live : k = key(r)
      BY <1>5
  <2>5. v = r[3]
      BY <1>7, <2>1, <2>3, <2>4
  <2> QED BY <2>3, <2>4, <2>5
<1> QED BY <1>8, <1>9

\* Where a variable of the tables s goes
Spot(k, at) == <<k[1], IF k[2] = NoName THEN NoName ELSE at[k[2]]>>

\* The variables of s are among these, each in its place; the others were there before.
VarsPlaced(s, vars, at, before) ==
    /\ \A k \in DOMAIN s.vars : Spot(k, at) \in DOMAIN vars /\ vars[Spot(k, at)] = s.vars[k]
    /\ DOMAIN vars \subseteq {Spot(k, at) : k \in DOMAIN s.vars} \cup before

\* The variables of the tables s come back, in the zones theirs went to.
LEMMA VarsBack ==
    ASSUME NEW d, NEW f, NEW s, TablesOK(s), f.vars = VarItems(s),
           NEW landing, NEW at, Lands(s, landing, at), NEW vars \in RestoreVars(d, f, landing)
    PROVE  VarsPlaced(s, vars, at, DOMAIN d.vars)
<1> DEFINE slots == {Slot(x, landing) : x \in f.vars}
           for(k) == {x \in f.vars : Slot(x, landing) = k}
           last(k) == IF \E x \in for(k) : x.scope = "zone"
                      THEN {x \in for(k) : x.scope = "zone"} ELSE for(k)
<1>1. PICK w \in [slots -> Values] :
        vars = Upserted(w, d.vars) /\ \A k \in slots : \E x \in last(k) : w[k] = x.value
    BY DEF RestoreVars
<1>2. \A k \in DOMAIN s.vars : k = <<k[1], k[2]>> /\ k[2] \in DOMAIN s.zones \cup {NoName}
    BY DEF TablesOK, ZonesOK, IsTable
<1>3. ASSUME NEW k \in DOMAIN s.vars
      PROVE  Slot(VarItem(s, k), landing) = Spot(k, at)
  <2>1. CASE k[2] = NoName
      BY <2>1 DEF Slot, VarItem, Spot
  <2>2. CASE k[2] # NoName
    <3> DEFINE n == s.zones[k[2]].name
    <3>1. n \in DOMAIN landing /\ landing[n] = at[k[2]]
        BY <1>2, <2>2 DEF Lands
    <3>2. VarItem(s, k).zone = {n} /\ VarItem(s, k).name = k[1]
        BY <2>2 DEF VarItem
    <3> HIDE DEF n
    <3>3. (CHOOSE m \in {n} : TRUE) = n
        OBVIOUS
    <3> QED BY <2>2, <3>1, <3>2, <3>3 DEF Slot, Spot
  <2> QED BY <2>1, <2>2
<1>4. \A k \in DOMAIN s.vars : VarItem(s, k) \in f.vars /\ VarItem(s, k).value = s.vars[k]
    BY DEF VarItems, VarItem
<1>5. \A x \in f.vars : \E k \in DOMAIN s.vars : x = VarItem(s, k)
    BY DEF VarItems
<1>6. \A j, k \in DOMAIN s.vars : Spot(j, at) = Spot(k, at) => j = k
  <2> SUFFICES ASSUME NEW j \in DOMAIN s.vars, NEW k \in DOMAIN s.vars, Spot(j, at) = Spot(k, at)
               PROVE  j = k
      OBVIOUS
  <2>1. \A i \in DOMAIN s.zones : at[i] \in Nat /\ at[i] # NoName
      BY CatalogAssumption DEF Lands
  <2>2. j[1] = k[1] /\ j[2] = k[2]
      BY <1>2, <2>1 DEF Spot, Lands
  <2> QED BY <1>2, <2>2
<1>7. ASSUME NEW k \in DOMAIN s.vars
      PROVE  Spot(k, at) \in slots /\ w[Spot(k, at)] = s.vars[k]
  <2>1. Spot(k, at) \in slots
      BY <1>3, <1>4
  <2>2. PICK x \in last(Spot(k, at)) : w[Spot(k, at)] = x.value
      BY <1>1, <2>1
  <2>3. x \in f.vars /\ Slot(x, landing) = Spot(k, at)
      OBVIOUS
  <2>4. x = VarItem(s, k)
      BY <1>3, <1>5, <1>6, <2>3
  <2> QED BY <1>4, <2>1, <2>2, <2>4
<1>8. slots \subseteq {Spot(k, at) : k \in DOMAIN s.vars}
    BY <1>3, <1>5
<1> HIDE DEF slots
<1>9. ASSUME NEW k \in DOMAIN s.vars
      PROVE  Spot(k, at) \in DOMAIN vars /\ vars[Spot(k, at)] = s.vars[k]
    BY <1>1, <1>7 DEF Upserted
<1>10. DOMAIN vars = slots \cup DOMAIN d.vars
    BY <1>1 DEF Upserted
<1> QED BY <1>8, <1>9, <1>10 DEF VarsPlaced

\* A file nobody edited the tables under is never refused.
LEMMA NotRefused ==
    ASSUME NEW d, NEW f, NEW s, TablesOK(s), IsExport(f, s), NEW landing, NEW at, Lands(s, landing, at)
    PROVE  ~ Refused(d, f, landing)
<1>1. ASSUME NEW g \in DOMAIN f.groups
      PROVE  RoleOf(f.groups[g], d, f) # NoName
  <2>1. f.groups[g] \in DOMAIN s.roles /\ f.roles = s.roles /\ DOMAIN s.roles \subseteq RoleNames
      BY DEF IsExport, TablesOK, AccountsOK, IsTable
  <2> QED BY <2>1, CatalogAssumption DEF RoleOf
<1>2. ASSUME NEW z \in f.zones
      PROVE  z.view \in DOMAIN f.views \cup DOMAIN d.views
  <2>1. PICK i \in DOMAIN s.zones : z = ZoneItem(s, i)
      BY DEF IsExport, ZoneItems
  <2>2. s.zones[i] \in [name : ZoneNames, view : DOMAIN s.views, repo : DOMAIN s.repos \cup {NoName}]
      BY ZoneFields DEF TablesOK
  <2> QED BY <2>1, <2>2 DEF IsExport, ZoneItem
<1>3. ASSUME NEW x \in f.vars, x.scope = "zone"
      PROVE  Slot(x, landing)[2] # NoName
  <2>1. PICK k \in DOMAIN s.vars : x = VarItem(s, k)
      BY DEF IsExport, VarItems
  <2>2. k[2] # NoName
      BY <1>3, <2>1 DEF VarItem
  <2>3. k[2] \in DOMAIN s.zones
      BY <2>2 DEF TablesOK, ZonesOK, IsTable
  <2> DEFINE n == s.zones[k[2]].name
  <2>4. n \in DOMAIN landing /\ landing[n] \in Nat
      BY <2>3 DEF Lands
  <2>5. x.zone = {n}
      BY <2>1, <2>2 DEF VarItem
  <2> HIDE DEF n
  <2>6. (CHOOSE m \in {n} : TRUE) = n
      OBVIOUS
  <2>7. Slot(x, landing) = <<x.name, landing[n]>>
      BY <2>4, <2>5, <2>6 DEF Slot
  <2> QED BY <2>4, <2>7, CatalogAssumption
<1> QED BY <1>1, <1>2, <1>3 DEF Refused

\* An upsert puts its items.
LEMMA ItemsIn ==
    ASSUME NEW items, NEW table
    PROVE  Includes(Upserted(items, table), items)
BY DEF Includes, Upserted

\* The tables with a row per name come back.
LEMMA TablesBack ==
    ASSUME NEW d, NEW f, NEW s, TablesOK(s), IsExport(f, s), NEW to, NEW e, Restores(d, f, to, e)
    PROVE  /\ Includes(e.settings, s.settings) /\ Includes(e.roles, s.roles)
           /\ Includes(e.groups, s.groups) /\ Includes(e.users, s.users)
           /\ Includes(e.idps, s.idps) /\ Includes(e.providers, s.providers)
           /\ Includes(e.repos, s.repos) /\ Includes(e.views, s.views)
<1> DEFINE groups == [g \in DOMAIN f.groups |->
             IF f.groups[g] \in DOMAIN f.roles \cup DOMAIN e.roles THEN f.groups[g] ELSE NoName]
           users == [u \in DOMAIN f.users |-> Memberships(u, f)]
           idps == [i \in DOMAIN f.idps |->
             IF f.idps[i] \in DOMAIN f.groups \cup DOMAIN e.groups THEN f.idps[i] ELSE NoName]
           views == [v \in DOMAIN f.views |-> f.views[v] \cap DOMAIN f.providers]
<1>1. /\ e.settings = Upserted(s.settings, d.settings) /\ e.roles = Upserted(s.roles, d.roles)
      /\ e.providers = Upserted(s.providers, d.providers) /\ e.repos = Upserted(s.repos, d.repos)
    BY DEF IsExport, Restores
<1>2. /\ e.groups = Upserted(groups, d.groups) /\ e.users = Upserted(users, d.users)
      /\ e.idps = Upserted(idps, d.idps) /\ e.views = Upserted(views, d.views)
    BY DEF Restores
<1>3. groups = s.groups
  <2>1. IsTable(s.groups, GroupNames, DOMAIN s.roles) /\ f.groups = s.groups /\ f.roles = s.roles
      BY DEF TablesOK, AccountsOK, IsExport
  <2> QED BY <2>1 DEF IsTable
<1>4. users = s.users
  <2>1. IsTable(s.users, UserNames, SUBSET DOMAIN s.groups) /\ f.groups = s.groups /\ f.users = s.users
      BY DEF TablesOK, AccountsOK, IsExport
  <2>2. \A u \in DOMAIN s.users : Memberships(u, f) = s.users[u]
      BY <2>1 DEF IsTable, Memberships
  <2> QED BY <2>1, <2>2 DEF IsTable
<1>5. idps = s.idps
  <2>1. IsTable(s.idps, IdpNames, DOMAIN s.groups \cup {NoName}) /\ f.groups = s.groups /\ f.idps = s.idps
      BY DEF TablesOK, AccountsOK, IsExport
  <2> QED BY <2>1 DEF IsTable
<1>6. views = s.views
  <2>1. IsTable(s.views, ViewNames, SUBSET DOMAIN s.providers) /\ f.views = s.views
        /\ f.providers = s.providers
      BY DEF TablesOK, HostsOK, IsExport
  <2>2. \A v \in DOMAIN s.views : s.views[v] \cap DOMAIN s.providers = s.views[v]
      BY <2>1 DEF IsTable
  <2> QED BY <2>1, <2>2 DEF IsTable
<1> HIDE DEF groups, users, idps, views
<1> QED BY <1>1, <1>2, <1>3, <1>4, <1>5, <1>6, ItemsIn

\* What a restore d of the tables s has when each of them has a place
LEMMA ContentsBack ==
    ASSUME NEW s, TablesOK(s), NEW d, NEW at,
           \A i \in DOMAIN s.zones : at[i] \in DOMAIN d.zones /\ d.zones[at[i]] = s.zones[i],
           \A r \in s.live : <<at[r[1]], r[2], r[3]>> \in d.live,
           \A k \in DOMAIN s.vars : Spot(k, at) \in DOMAIN d.vars /\ d.vars[Spot(k, at)] = s.vars[k],
           \A i \in DOMAIN s.zones : at[i] # NoName
    PROVE  /\ ZonesOf(s) \subseteq ZonesOf(d)
           /\ RecordsOf(s) \subseteq RecordsOf(d)
           /\ VarsOf(s) \subseteq VarsOf(d)
           /\ DOMAIN d.zones \subseteq {at[i] : i \in DOMAIN s.zones} => ZonesOf(d) = ZonesOf(s)
           /\ (\A t \in d.live : \E r \in s.live : t = <<at[r[1]], r[2], r[3]>>) =>
                RecordsOf(d) = RecordsOf(s)
           /\ DOMAIN d.vars \subseteq {Spot(k, at) : k \in DOMAIN s.vars} => VarsOf(d) = VarsOf(s)
<1> DEFINE rec(x, r) == <<ZoneRow(x, r[1]), r[2], r[3]>>
           var(x, k) == <<k[1], IF k[2] = NoName THEN NoName ELSE ZoneRow(x, k[2]), x.vars[k]>>
           moved(r) == <<at[r[1]], r[2], r[3]>>
<1>1. \A i \in DOMAIN s.zones : ZoneRow(d, at[i]) = ZoneRow(s, i)
    BY DEF ZoneRow
<1>2. \A r \in s.live : rec(d, moved(r)) = rec(s, r)
  <2>1. \A r \in s.live : r[1] \in DOMAIN s.zones
      BY DEF TablesOK, ZonesOK
  <2> QED BY <1>1, <2>1
<1>3. ASSUME NEW k \in DOMAIN s.vars
      PROVE  var(d, Spot(k, at)) = var(s, k)
  <2>1. CASE k[2] = NoName
      BY <2>1 DEF Spot
  <2>2. CASE k[2] # NoName
    <3>1. k[2] \in DOMAIN s.zones
        BY <2>2 DEF TablesOK, ZonesOK, IsTable
    <3>2. Spot(k, at)[1] = k[1] /\ Spot(k, at)[2] = at[k[2]] /\ at[k[2]] # NoName
        BY <2>2, <3>1 DEF Spot
    <3> QED BY <1>1, <2>2, <3>1, <3>2
  <2> QED BY <2>1, <2>2
<1>4. RecordsOf(s) = {rec(s, r) : r \in s.live} /\ RecordsOf(d) = {rec(d, r) : r \in d.live}
    BY DEF RecordsOf
<1>5. VarsOf(s) = {var(s, k) : k \in DOMAIN s.vars} /\ VarsOf(d) = {var(d, k) : k \in DOMAIN d.vars}
    BY DEF VarsOf
<1> HIDE DEF rec, var, moved
<1>6. ZonesOf(s) \subseteq ZonesOf(d)
    BY DEF ZonesOf
<1>7. RecordsOf(s) \subseteq RecordsOf(d)
  <2>1. \A r \in s.live : moved(r) \in d.live
      BY DEF moved
  <2> QED BY <1>2, <1>4, <2>1
<1>8. VarsOf(s) \subseteq VarsOf(d)
    BY <1>3, <1>5
<1>9. ASSUME DOMAIN d.zones \subseteq {at[i] : i \in DOMAIN s.zones}
      PROVE  ZonesOf(d) = ZonesOf(s)
    BY <1>6, <1>9 DEF ZonesOf
<1>10. ASSUME \A t \in d.live : \E r \in s.live : t = <<at[r[1]], r[2], r[3]>>
       PROVE  RecordsOf(d) = RecordsOf(s)
  <2>1. \A t \in d.live : \E r \in s.live : t = moved(r)
      BY <1>10 DEF moved
  <2>2. \A t \in d.live : \E r \in s.live : rec(d, t) = rec(s, r)
      BY <1>2, <2>1
  <2>3. RecordsOf(d) \subseteq RecordsOf(s)
      BY <1>4, <2>2
  <2> QED BY <1>7, <2>3
<1>11. ASSUME DOMAIN d.vars \subseteq {Spot(k, at) : k \in DOMAIN s.vars}
       PROVE  VarsOf(d) = VarsOf(s)
  <2>1. \A t \in DOMAIN d.vars : \E k \in DOMAIN s.vars : var(d, t) = var(s, k)
      BY <1>3, <1>11
  <2>2. VarsOf(d) \subseteq VarsOf(s)
      BY <1>5, <2>1
  <2> QED BY <1>8, <2>2
<1> QED BY <1>6, <1>7, <1>8, <1>9, <1>10, <1>11

\* What a restore brings, table by table
LEMMA RestoreFills ==
    ASSUME BackupTypeInv, SavedInv, BackupNext, Applies, saved # NoName, backup.kind = "system",
           Plain(saved)
    PROVE  /\ outcome' = "applied"
           /\ \A t \in {"settings", "roles", "groups", "users", "idps", "providers",
                         "repos", "views"} : Includes(db'[t], saved[t])
           /\ ZonesOf(saved) \subseteq ZonesOf(db')
           /\ RecordsOf(saved) \subseteq RecordsOf(db')
           /\ VarsOf(saved) \subseteq VarsOf(db')
           /\ db = NewInstallation => /\ ZonesOf(db') = ZonesOf(saved)
                                      /\ RecordsOf(db') = RecordsOf(saved)
                                      /\ VarsOf(db') = VarsOf(saved)
<1> DEFINE to == Targets(db, backup)
           landing == Landing(backup, to)
           at == [i \in DOMAIN saved.zones |-> to[ZoneItem(saved, i)]]
<1>1. /\ TablesOK(db) /\ FileOK(backup) /\ TablesOK(saved) /\ IsExport(backup, saved) /\ ApplyRestore
    BY OnlyApplies DEF BackupTypeInv, FileInv, SavedInv, Applies
<1>2. /\ backup.zones = ZoneItems(saved) /\ backup.records = RecordItems(saved)
      /\ backup.vars = VarItems(saved) /\ backup.repos = saved.repos
    BY <1>1 DEF IsExport
<1>3. Lands(saved, landing, at)
  <2>1. to = Targets(db, backup)
      OBVIOUS
  <2> HIDE DEF to
  <2> QED BY <1>1, <1>2, <2>1, ZonesLand
<1>4. ~ Refused(db, backup, landing)
  <2> HIDE DEF to, landing, at
  <2> QED BY <1>1, <1>3, NotRefused
<1>5. /\ outcome' = "applied"
      /\ db'.live \in RestoreRecords(db, backup, landing)
      /\ db'.vars \in RestoreVars(db, backup, landing)
      /\ \E e : /\ Restores(db, backup, to, e) /\ SameAccounts(db', e) /\ SameHosts(db', e)
                /\ db'.zones = e.zones /\ db'.marked = db.marked /\ db'.secrets = db.secrets
  <2>1. to = Targets(db, backup) /\ landing = Landing(backup, to)
      OBVIOUS
  <2> HIDE DEF to, landing, at
  <2> QED BY <1>1, <1>4, <2>1, AppliedIs
<1>6. PICK e : /\ Restores(db, backup, to, e) /\ SameAccounts(db', e) /\ SameHosts(db', e)
               /\ db'.zones = e.zones
    BY <1>5
<1>7. at = [i \in DOMAIN saved.zones |-> to[ZoneItem(saved, i)]]
    OBVIOUS
<1> HIDE DEF to, landing, at
<1>8. \A t \in {"settings", "roles", "groups", "users", "idps", "providers", "repos", "views"} :
        Includes(db'[t], saved[t])
  <2>1. /\ Includes(e.settings, saved.settings) /\ Includes(e.roles, saved.roles)
        /\ Includes(e.groups, saved.groups) /\ Includes(e.users, saved.users)
        /\ Includes(e.idps, saved.idps) /\ Includes(e.providers, saved.providers)
        /\ Includes(e.repos, saved.repos) /\ Includes(e.views, saved.views)
      BY <1>1, <1>6, TablesBack
  <2>2. /\ Includes(db'.settings, saved.settings) /\ Includes(db'.roles, saved.roles)
        /\ Includes(db'.groups, saved.groups) /\ Includes(db'.users, saved.users)
        /\ Includes(db'.idps, saved.idps) /\ Includes(db'.providers, saved.providers)
        /\ Includes(db'.repos, saved.repos) /\ Includes(db'.views, saved.views)
      BY <1>6, <2>1 DEF SameAccounts, SameHosts
  <2> QED BY <2>2
<1>9. ZonesPlaced(saved, e.zones, at, DOMAIN db.zones)
    BY <1>1, <1>2, <1>3, <1>6, <1>7, ZonesBack
<1>10. /\ \A i \in DOMAIN saved.zones : at[i] \in DOMAIN db'.zones /\ db'.zones[at[i]] = saved.zones[i]
       /\ DOMAIN db'.zones \subseteq {at[i] : i \in DOMAIN saved.zones} \cup DOMAIN db.zones
    BY <1>6, <1>9 DEF ZonesPlaced
<1>11. /\ \A r \in saved.live : <<at[r[1]], r[2], r[3]>> \in db'.live
       /\ db.live = {} => \A t \in db'.live : \E r \in saved.live : t = <<at[r[1]], r[2], r[3]>>
    BY <1>1, <1>2, <1>3, <1>5, RecordsBack
<1>12. /\ \A k \in DOMAIN saved.vars :
            Spot(k, at) \in DOMAIN db'.vars /\ db'.vars[Spot(k, at)] = saved.vars[k]
       /\ DOMAIN db'.vars \subseteq {Spot(k, at) : k \in DOMAIN saved.vars} \cup DOMAIN db.vars
  <2>1. VarsPlaced(saved, db'.vars, at, DOMAIN db.vars)
      BY <1>1, <1>2, <1>3, <1>5, VarsBack
  <2> QED BY <2>1 DEF VarsPlaced
<1>13. \A i \in DOMAIN saved.zones : at[i] # NoName
    BY <1>3, CatalogAssumption DEF Lands
<1>14. /\ ZonesOf(saved) \subseteq ZonesOf(db')
       /\ RecordsOf(saved) \subseteq RecordsOf(db')
       /\ VarsOf(saved) \subseteq VarsOf(db')
       /\ DOMAIN db'.zones \subseteq {at[i] : i \in DOMAIN saved.zones} => ZonesOf(db') = ZonesOf(saved)
       /\ (\A t \in db'.live : \E r \in saved.live : t = <<at[r[1]], r[2], r[3]>>) =>
            RecordsOf(db') = RecordsOf(saved)
       /\ DOMAIN db'.vars \subseteq {Spot(k, at) : k \in DOMAIN saved.vars} => VarsOf(db') = VarsOf(saved)
    BY <1>1, <1>10, <1>11, <1>12, <1>13, ContentsBack
<1>15. ASSUME db = NewInstallation
       PROVE  /\ ZonesOf(db') = ZonesOf(saved) /\ RecordsOf(db') = RecordsOf(saved)
              /\ VarsOf(db') = VarsOf(saved)
  <2>1. DOMAIN db.zones = {} /\ db.live = {} /\ DOMAIN db.vars = {}
      BY <1>15 DEF NewInstallation
  <2> QED BY <1>10, <1>11, <1>12, <1>14, <2>1
<1> QED BY <1>5, <1>8, <1>14, <1>15

\* A file written while nobody edited restores every row the tables had, on the same
\* system after any edits or on a new one, and there nothing else (BackupService.cpp:
\* exportSystem, applyRestore).
THEOREM RestoreBringsBack == BackupSpec => RestoreBrings
<1>1. BackupTypeInv /\ SavedInv /\ [BackupNext]_backupVars =>
        [Applies /\ saved # NoName /\ backup.kind = "system" /\ Plain(saved) =>
          /\ outcome' = "applied"
          /\ \A t \in {"settings", "roles", "groups", "users", "idps", "providers",
                        "repos", "views"} : Includes(db'[t], saved[t])
          /\ ZonesOf(saved) \subseteq ZonesOf(db')
          /\ RecordsOf(saved) \subseteq RecordsOf(db')
          /\ VarsOf(saved) \subseteq VarsOf(db')
          /\ db = NewInstallation => /\ ZonesOf(db') = ZonesOf(saved)
                                     /\ RecordsOf(db') = RecordsOf(saved)
                                     /\ VarsOf(db') = VarsOf(saved)]_backupVars
    BY RestoreFills
<1> QED BY <1>1, BackupTyped, BackupSaved, PTL DEF BackupSpec, RestoreBrings

\* A restore does what the file says and nothing else (BackupService.cpp: applyRestore).
THEOREM RestoreKeeps == BackupSpec => RestoreKeepsToFile
BY RestoreBringsBack, RestoreTouchesNothingElse DEF RestoreKeepsToFile

=============================================================================
