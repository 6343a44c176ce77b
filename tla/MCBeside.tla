-------------------------------- MODULE MCBeside --------------------------------
(***************************************************************************)
(* What goes on beside the deployments of a zone: snapshots are kept in a  *)
(* git repository, templates and snippets are applied, variables are       *)
(* edited, records are validated.  The four share no state and are checked *)
(* side by side; a behaviour is one of one of them.                        *)
(***************************************************************************)
EXTENDS GitMirror, Templates, Variables, Validator, TLC

VARIABLE part

beside == <<part, gitVars, templateVars, variableVars, validatorVars>>

\* The zone "z1" has a branch of its own, everything else is on the default one.
OneAside == [w \in Writers |-> IF w = "z1" THEN "side" ELSE Default]

\* Snippets of one record and of two, templates of one snippet and of two.
Wants(k, w)    == [key |-> k, content |-> w]
SmallSnippets  == {<<Wants("a", 1)>>, <<Wants("b", 1)>>, <<Wants("b", 2), Wants("a", 2)>>}
SmallTemplates == {<<1>>, <<1, 2>>}

\* Threads that serve requests, the same in each part.
BesideSymmetry == Permutations(Operators)

\* Two records that mention a variable, one of them and the date.
Mentions == {{"ip"}, {"ip", "sys.date"}}

\* The parts that are not looked at begin in one way only.
BesideInit ==
    /\ part \in {"git", "templates", "variables", "validator"}
    /\ GitInit /\ TemplatesInit /\ VariablesInit /\ ValidatorInit
    /\ template[1] = {"ip"} /\ template[2] # {"ip"}
    /\ part # "templates" =>
         zone.link = NoRow /\ \A s \in Snippets : snippets[s] = <<Wants("a", 1)>>

GitPart ==
    /\ part = "git" /\ GitNext
    /\ UNCHANGED <<part, templateVars, variableVars, validatorVars>>
TemplatesPart ==
    /\ part = "templates" /\ TemplatesNext
    /\ UNCHANGED <<part, gitVars, variableVars, validatorVars>>
VariablesPart ==
    /\ part = "variables" /\ VariablesNext
    /\ UNCHANGED <<part, gitVars, templateVars, validatorVars>>
ValidatorPart ==
    /\ part = "validator" /\ ValidatorNext
    /\ UNCHANGED <<part, gitVars, templateVars, variableVars>>

\* The requests or the ids of the bounds are used up.
Rests ==
    /\ part = "templates" /\ (asked = MaxRequests \/ lastId = MaxRowId)
    /\ UNCHANGED beside

BesideNext == GitPart \/ TemplatesPart \/ VariablesPart \/ ValidatorPart \/ Rests

BesideSpec == BesideInit /\ [][BesideNext]_beside
=============================================================================
