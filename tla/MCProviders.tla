------------------------------- MODULE MCProviders -------------------------------
(***************************************************************************)
(* The two halves of a push towards a provider, which share no state: what *)
(* preview plans to ask of it, over every input up to a bound, and what    *)
(* the provider makes of a call, with others changing the same zone.  A    *)
(* behaviour is one of one of them.                                        *)
(***************************************************************************)
EXTENDS MCDiffEngine, ProviderApi

VARIABLE part

planVars == <<rs, listing, nextRow>>
pushVars == <<part, planVars, apiVars>>

\* The part that is not looked at begins in one way only.
ProvidersInit ==
    /\ part \in {"plan", "calls"}
    /\ Init /\ ApiInit
    /\ part = "plan" => kind = "powerdns"

PlanPart  == part = "plan" /\ Next /\ UNCHANGED <<part, apiVars>>
CallsPart == part = "calls" /\ ApiNext /\ UNCHANGED <<part, planVars>>

ProvidersNext == PlanPart \/ CallsPart

ProvidersSpec ==
    /\ ProvidersInit /\ [][ProvidersNext]_pushVars
    /\ CallsFairness
=============================================================================
