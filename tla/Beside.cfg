\* One zone and one backup file in a repository of two branches; two requests at a
\* time to a zone with a template; two records that mention a variable, one also the
\* date; two requests at a time that write records.
SPECIFICATION BesideSpec
CONSTANTS
    Zones = {"z1"}
    Backups = {"bk"}
    Outside = "other"
    Nobody = "nobody"
    Branches = {"main", "side"}
    Default = "main"
    BranchOf <- OneAside
    Urls = {"u1"}
    MaxVersion = 2
    MaxCommits = 3
    Snippets = {1, 2}
    TemplateIds = {"t"}
    Slots = {"a", "b"}
    Worths = {1, 2}
    Operators = {o1, o2}
    NoRow = NoRow
    RecordLists <- SmallSnippets
    SnippetLists <- SmallTemplates
    MaxRowId = 4
    MaxRequests = 2
    Unresolved = Unresolved
    VarNames = {"ip"}
    VarValues = {1, 2}
    Editors = {o1, o2}
    Texts <- Mentions
    MaxVarId = 2
    MaxDay = 1
    Unasked = Unasked
    Askers = {o1, o2}
    Owners = {"a"}
    MaxCheckedId = 3
SYMMETRY BesideSymmetry
INVARIANTS  TemplatesInv VariablesInv
PROPERTIES NothingGoesBack PushedIsBuilt   RulesAreKept
