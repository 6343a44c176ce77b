\* Zones of up to 3 rows beside any listing; every kind of provider, two clients of one
\* zone and strangers.
SPECIFICATION ProvidersSpec
CONSTANTS
    Keys = {www}
    Contents = {1, 2, 3, 4, 5}
    MaxId = 3
    Providers = {1}
    Carried <- CarryAll
    Unmanaged = {}
    Text <- ValueOf
    Canon <- CanonicalOf
    Clients = {c1, c2}
    Kinds = {"cloudflare", "digitalocean", "generic_rest", "subprocess", "adguardhome", "powerdns"}
    Names = {a}
    Vals = {1, 2}
    Ttls = {0}
    PageSize = 1
    MaxServerId = 2
CHECK_DEADLOCK FALSE
INVARIANTS PushSettles 
PROPERTIES CallsKeepPromise NothingElseLost CallsReturn
