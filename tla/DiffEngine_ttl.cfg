\* CHANGELOG.md 97: a TTL that was changed is pushed.
SPECIFICATION Spec
CONSTANTS
    Keys = {www}
    Contents = {1, 2, 3, 4, 5}
    MaxId = 3
    Providers = {1}
    Carried <- CarryAll
    Unmanaged = {}
    Text <- ValueOf
    Canon <- CanonicalOf
INVARIANT PushServesContent
CHECK_DEADLOCK FALSE
