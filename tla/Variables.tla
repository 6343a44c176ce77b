-------------------------------- MODULE Variables -------------------------------
(***************************************************************************)
(* The variables a record's template mentions, as one zone sees them: the  *)
(* requests that create, change and delete them, and a push, which looks   *)
(* them up again for every record, twice: for what it deploys, and for     *)
(* what its snapshot says it has deployed.                                 *)
(*                                                                         *)
(* A template is the set of names between its braces, an expansion what    *)
(* each of them stands for.                                                *)
(***************************************************************************)
EXTENDS Integers, FiniteSets

CONSTANTS
    Unresolved,    \* a template that was not expanded; a thread that has found no name free
    VarNames, VarValues,
    Editors,       \* threads that serve requests
    Texts,         \* the templates records may have
    MaxVarId,      \* bound: rows ever made
    MaxDay         \* bound: the day

\* Variable names have no dot (validateVariableName), so no row hides one of these.
SystemNames == {"sys.zone", "sys.serial", "sys.date"}

VARIABLES
    variables,  \* the rows of this zone and the global ones
    lastVar,    \* the sequence of their ids
    request,    \* request[e]: the global name thread e has found free
    day,        \* the date
    template,   \* template[i]: the value_template of record i of the zone; does not change
    stage,      \* where the push is
    expanded,   \* the records this pass has been through
    deployed,   \* what the push deploys, after its preview
    calm,       \* since the push began no variable was changed and the day was the same
    apart       \* no two requests have looked for one global name at once

variableVars == <<variables, lastVar, request, day, template, stage, expanded, deployed, calm, apart>>
rowVars      == <<variables, lastVar, request, apart>>
passVars     == <<stage, expanded, deployed>>

Lines == 1..2

\* A row: `text' is the value of a static variable and the dynamic_format of a dynamic
\* one, whose constraint says that it has one; the other column is not used.
Variable == [id : 1..MaxVarId, name : VarNames, scope : {"global", "zone"},
             kind : {"static", "dynamic"}, text : VarValues]

\* What a name stands for: a value, a format with the day it was used on, the zone's
\* name or the push's serial.
Meanings == [of : {"value"}, value : VarValues] \cup [of : {"time"}, format : VarValues, day : 0..MaxDay]
            \cup [of : SystemNames, day : 0..MaxDay]

\* What is not an expansion is told from one.
ASSUME VariablesAssumption ==
    /\ MaxVarId \in Nat /\ MaxDay \in Nat
    /\ \A t \in Texts : Unresolved \notin [t -> Meanings]

Expansions == {Unresolved} \cup UNION {[t -> Meanings] : t \in Texts}

Context == {"sys.zone", "sys.serial"}

\* Every variable has its type, every row satisfies the table's constraints, and a push
\* that gets beyond its preview has expanded every record.
VariablesTypeOK ==
    /\ variables \subseteq Variable /\ lastVar \in 0..MaxVarId
    /\ \A v \in variables : v.id <= lastVar
    /\ \A v, w \in variables :
         v.id = w.id \/ (v.scope = "zone" /\ w.scope = "zone" /\ v.name = w.name) => v = w
    /\ request \in [Editors -> VarNames \cup {Unresolved}]
    /\ day \in 0..MaxDay /\ template \in [Lines -> Texts]
    /\ stage \in {"idle", "preview", "snapshot"}
    /\ \E done \in SUBSET Lines : expanded \in [done -> Expansions]
    /\ deployed \in [Lines -> Expansions]
    /\ \A i \in Lines : (deployed[i] = Unresolved) = (stage # "snapshot")
    /\ calm \in BOOLEAN /\ apart \in BOOLEAN

Raw == [i \in Lines |-> Unresolved]

VariablesInit ==
    /\ variables = {} /\ lastVar = 0 /\ request = [e \in Editors |-> Unresolved]
    /\ day = 0 /\ template \in [Lines -> Texts]
    /\ stage = "idle" /\ expanded = <<>> /\ deployed = Raw
    /\ calm = TRUE /\ apart = TRUE

-----------------------------------------------------------------------------
(* The requests *)

\* Mutant of Taken: NULLs are left to the constraint, which takes them for distinct.
TakenInZone(n, s) == s = "zone" /\ \E v \in variables : v.name = n /\ v.scope = s

\* For a zone's row the constraint UNIQUE (name, zone_id), for a global one a SELECT.
Taken(n, s) == \E v \in variables : v.name = n /\ v.scope = s

\* VariableRepository::create of a global row: the SELECT and the INSERT are one
\* transaction, at READ COMMITTED.
PostGlobal(e, n) ==
    /\ request[e] = Unresolved /\ ~Taken(n, "global")
    /\ request' = [request EXCEPT ![e] = n]
    /\ apart' = (apart /\ \A f \in Editors : request[f] # n)
    /\ UNCHANGED <<variables, lastVar, day, template, passVars, calm>>

Insert(n, s, k, x) ==
    /\ lastVar < MaxVarId /\ lastVar' = lastVar + 1
    /\ variables' = variables \cup
         {[id |-> lastVar + 1, name |-> n, scope |-> s, kind |-> k, text |-> x]}
    /\ calm' = FALSE
    /\ UNCHANGED <<day, template, passVars, apart>>

InsertGlobal(e, k, x) ==
    /\ request[e] # Unresolved
    /\ Insert(request[e], "global", k, x)
    /\ request' = [request EXCEPT ![e] = Unresolved]

PostZone(n, k, x) ==
    /\ ~Taken(n, "zone")
    /\ Insert(n, "zone", k, x)
    /\ UNCHANGED request

\* PUT writes both columns; for a dynamic variable the constraint asks for a format.
PutVariable(v, x) ==
    /\ variables' = (variables \ {v}) \cup {[v EXCEPT !.text = x]}
    /\ calm' = FALSE
    /\ UNCHANGED <<lastVar, request, day, template, passVars, apart>>

DeleteVariable(v) ==
    /\ variables' = variables \ {v}
    /\ calm' = FALSE
    /\ UNCHANGED <<lastVar, request, day, template, passVars, apart>>

NextDay ==
    /\ day < MaxDay /\ day' = day + 1
    /\ calm' = FALSE
    /\ UNCHANGED <<rowVars, template, passVars>>

-----------------------------------------------------------------------------
(* VariableEngine *)

OfKind(n, s, k) == {v \in variables : v.name = n /\ v.scope = s /\ v.kind = k}

\* Mutant of Nearest: the zone's own row is not preferred.
NearestAny(n, k) == OfKind(n, "zone", k) \cup OfKind(n, "global", k)

\* The zone's row of a name, else a global one: which of two is the database's choice.
Nearest(n, k) ==
    IF OfKind(n, "zone", k) # {} THEN OfKind(n, "zone", k) ELSE OfKind(n, "global", k)

\* What a name may stand for, nothing if it cannot be resolved.
Meaning(n, context) ==
    CASE n = "sys.date" -> {[of |-> n, day |-> day]}
      [] n \in Context  -> {[of |-> c, day |-> 0] : c \in context \cap {n}}
      [] OTHER ->
           IF Nearest(n, "static") # {}
             THEN {[of |-> "value", value |-> v.text] : v \in Nearest(n, "static")}
             ELSE {[of |-> "time", format |-> v.text, day |-> day] : v \in Nearest(n, "dynamic")}

\* expand; nothing if it throws.
Expand(t, context) ==
    {x \in [t -> UNION {Meaning(n, context) : n \in t}] : \A n \in t : x[n] \in Meaning(n, context)}

-----------------------------------------------------------------------------
(* A push, a record at a time *)

Rest == Lines \ DOMAIN expanded
With(i, x) == [j \in DOMAIN expanded \cup {i} |-> IF j = i THEN x ELSE expanded[j]]

PushBegins ==
    /\ stage = "idle"
    /\ stage' = "preview" /\ expanded' = <<>> /\ calm' = TRUE
    /\ UNCHANGED <<rowVars, day, template, deployed>>

\* preview expands without the context of a push.
PreviewLine(i) ==
    /\ stage = "preview" /\ i \in Rest
    /\ \E x \in Expand(template[i], {}) : expanded' = With(i, x)
    /\ UNCHANGED <<rowVars, day, template, stage, deployed, calm>>

\* A record that cannot be expanded, whether it is marked for deletion or not, ends the
\* push before anything is sent.
PreviewThrows(i) ==
    /\ stage = "preview" /\ i \in Rest /\ Expand(template[i], {}) = {}
    /\ stage' = "idle" /\ expanded' = <<>>
    /\ UNCHANGED <<rowVars, day, template, deployed, calm>>

\* Nothing to push, a refusal, or a provider that fails.
ReturnsEarly ==
    /\ stage = "preview" /\ Rest = {}
    /\ stage' = "idle" /\ expanded' = <<>>
    /\ UNCHANGED <<rowVars, day, template, deployed, calm>>

\* The serial is taken and the diffs are executed.
Deploys ==
    /\ stage = "preview" /\ Rest = {}
    /\ stage' = "snapshot" /\ deployed' = expanded /\ expanded' = <<>>
    /\ UNCHANGED <<rowVars, day, template, calm>>

\* buildSnapshot: the template as it is where the expansion throws.
Stored(i) ==
    LET xs == Expand(template[i], Context) IN IF xs = {} THEN {Unresolved} ELSE xs

SnapshotLine(i) ==
    /\ stage = "snapshot" /\ i \in Rest
    /\ \E x \in Stored(i) : expanded' = With(i, x)
    /\ UNCHANGED <<rowVars, day, template, stage, deployed, calm>>

\* The snapshot is stored and push returns.
Stores ==
    /\ stage = "snapshot" /\ Rest = {}
    /\ stage' = "idle" /\ deployed' = Raw /\ expanded' = <<>>
    /\ UNCHANGED <<rowVars, day, template, calm>>

VariableRequest ==
    \/ \E n \in VarNames, e \in Editors : PostGlobal(e, n)
    \/ \E k \in {"static", "dynamic"}, x \in VarValues :
         \/ \E e \in Editors : InsertGlobal(e, k, x)
         \/ \E n \in VarNames : PostZone(n, k, x)
    \/ \E v \in variables : DeleteVariable(v) \/ \E x \in VarValues : PutVariable(v, x)

VariablesNext ==
    \/ VariableRequest
    \/ NextDay
    \/ PushBegins \/ ReturnsEarly \/ Deploys \/ Stores
    \/ \E i \in Lines : PreviewLine(i) \/ PreviewThrows(i) \/ SnapshotLine(i)

VariablesSpec == VariablesInit /\ [][VariablesNext]_variableVars

-----------------------------------------------------------------------------
(* Properties *)

\* Two global rows of one name appear only if two requests looked for the name at once:
\* the database does not keep them apart (VariableRepository.cpp:36).
GlobalsAreOne ==
    apart => \A v, w \in variables :
                 v.scope = "global" /\ w.scope = "global" /\ v.name = w.name => v = w

\* The table keeps its constraints, and one meaning of every global name.
VariablesInv == VariablesTypeOK /\ GlobalsAreOne

\* The snapshot of a push during which nothing was edited says what was deployed, and
\* gives a name that two records mention one meaning (docs/ARCHITECTURE.md:1187), as
\* long as the global names are unique.  Each record is expanded from a read of its own,
\* once for the preview and once for the snapshot.
SnapshotTells ==
    [][stage = "snapshot" /\ stage' = "idle" /\ calm /\ apart =>
         /\ expanded = deployed
         /\ \A i, j \in Lines : \A n \in template[i] \cap template[j] :
              deployed[i][n] = deployed[j][n]]_variableVars

\* CHANGELOG.md:88: a push resolves the system variables.  None ends in its preview over
\* a record whose names all have a meaning in the context of a push.
SystemNamesResolve ==
    [][stage = "preview" /\ stage' = "idle" /\ Rest # {} =>
         \E i \in Lines : Expand(template[i], Context) = {}]_variableVars
=============================================================================
