\* Checks, pushes and edits of a zone served by two providers.
SPECIFICATION CheckSpec
CONSTANTS
    Keys = {www}
    Contents = {1}
    MaxId = 1
    Providers = {1, 2}
    Carried <- CarryAll
    Unmanaged = {}
    Text <- Distinct
    Canon <- Distinct
    Workers = {w1}
    NoWorker = NoWorker
    GitConfigured = TRUE
    Retention = 1
    MaxSeq = 1
PROPERTY StatusSettles
