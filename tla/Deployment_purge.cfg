\* Edits between the snapshot and the purge of a push.
SPECIFICATION Spec
CONSTANTS
    Keys = {www}
    Contents = {1}
    MaxId = 1
    Providers = {1}
    Carried <- CarryAll
    Unmanaged = {}
    Text <- Distinct
    Canon <- Distinct
    Workers = {w1}
    NoWorker = NoWorker
    GitConfigured = TRUE
    Retention = 1
    MaxSeq = 1
PROPERTY PurgeIsAlwaysDeployed
