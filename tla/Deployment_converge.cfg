\* Two providers with different records to start from.
SPECIFICATION Spec
CONSTANTS
    Keys = {www}
    Contents = {1, 2}
    MaxId = 2
    Providers = {1, 2}
    Carried <- CarryAll
    Unmanaged = {}
    Text <- Distinct
    Canon <- Distinct
    Workers = {w1}
    NoWorker = NoWorker
    GitConfigured = TRUE
    Retention = 1
    MaxSeq = 1
INVARIANT Converged
 
