SPECIFICATION SessionsFairSpec
CONSTANTS
    None = None
    Users = {usr}
    Admins = {usr}
    Keys = {k1}
    Requests = {r1, r2}
    KeyLives = {0}
    Ttl = 1
    AbsTtl = 2
    Grace = 0
    MaxTokens = 1
    MaxNow = 2
INVARIANT SessionsInv
PROPERTIES  DeadRowsGo
