SPECIFICATION AdministrationSpec
CONSTANTS
    Nothing = Nothing
    People = {usr}
    Groups = {g1, g2}
    Roles = {admin, other}
    SystemRoles = {admin}
    Perms = {p, q}
    Passwords = {1, 2}
    Threads = {t1, t2}
    Absent = Absent
    Idps = {i1, i2}
    Flows = {f1, f2}
    Tokens = {k1}
    AnswerIds = {a1}
    StateTtl = 0
    ReplayTtl = 2
    AnswerLife = 2
    FedMaxNow = 2
    MaxPuts = 1
    NoBucket = NoBucket
    Clients = {c1}
    MaxRequests = 2
    Window = 2
    LimiterMaxNow = 6
    Versions = {1, 2}
    Visitors = {v1, v2}
    OldZones = {z1, z2}
    Unset = Unset
    MaxCrashes = 2
    Pushes = {p1, p2}
    MaxSeq = 1
    LastDay = 2
SYMMETRY AccessSymmetry
CHECK_DEADLOCK FALSE
INVARIANTS AccountsInv  LimiterInv 
PROPERTIES AskedIsDone AnswersServeTheirLogin SerialsAreFresh
