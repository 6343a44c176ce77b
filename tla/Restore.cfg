\* A push that deploys, rollbacks to it and edits between all of their steps;
\* a backup, two edits of the tables, and the restore of the file.
SPECIFICATION RestoreSpec
CONSTANTS
    Keys = {www}
    Contents = {1}
    MaxId = 4
    Providers = {1}
    Carried <- CarryAll
    Unmanaged = {}
    Text <- Distinct
    Canon <- Distinct
    Workers = {w1}
    NoWorker = NoWorker
    GitConfigured = FALSE
    Retention = 1
    MaxSeq = 1
    NoName = NoName
    SettingKeys = {key}
    RoleNames = {role1, role2}
    GroupNames = {group1, group2}
    UserNames = {user1, user2}
    IdpNames = {idp1}
    ProviderNames = {prov1, prov2}
    RepoNames = {repo1}
    ViewNames = {view1, view2}
    ZoneNames = {zone1, zone2}
    RecordNames = {www}
    VarNames = {var1}
    Values = {1, 2}
    MaxEdits = 2
INVARIANTS RollbackInv BackupInv
PROPERTIES RestoreExact 
