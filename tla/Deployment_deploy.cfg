\* Two threads push and capture a zone with a key it does not manage.
SPECIFICATION FairSpec
CONSTANTS
    Keys = {www, ns}
    Contents = {1}
    MaxId = 1
    Providers = {1}
    Carried <- CarryAll
    Unmanaged = {ns}
    Text <- Distinct
    Canon <- Distinct
    Workers = {w1, w2}
    NoWorker = NoWorker
    GitConfigured = FALSE
    Retention = 1
    MaxSeq = 3
INVARIANTS MutexInv HistoryInv
PROPERTIES ConsentForDrift  ImplementsLedger
