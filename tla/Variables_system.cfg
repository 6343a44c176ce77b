\* Two records, one of which mentions the zone's name and the serial of the push.
SPECIFICATION VariablesSpec
CONSTANTS
    Unresolved = Unresolved
    VarNames = {"ip"}
    VarValues = {1}
    Editors = {e1}
    Texts = {{"ip"}, {"sys.zone", "sys.serial"}}
    MaxVarId = 1
    MaxDay = 0
CHECK_DEADLOCK FALSE
PROPERTY SystemNamesResolve
