---------------------------- MODULE MCAdministration ----------------------------
(***************************************************************************)
(* Who may come in and as whom, how an installation starts, and the serial *)
(* numbers it hands out: five parts that share no state, checked side by   *)
(* side.  A behaviour is one of one of them.                               *)
(***************************************************************************)
EXTENDS Accounts, FederatedLogin, RateLimiter, Startup, SoaSerial, TLC

VARIABLE part

administration == <<part, accountVars, loginVars, limiterVars, startVars, serialVars>>

\* The parts that are not looked at begin in one way only.
AdministrationInit ==
    /\ part \in {"accounts", "federated", "limiter", "startup", "serial"}
    /\ AccountsInit /\ FederatedInit /\ LimiterInit /\ StartupInit
    /\ SerialInit
    /\ part # "accounts" => family = "roles"
    /\ part # "federated" => protocol = "saml" /\ \A i \in Idps : idp[i].direct

AccountsPart ==
    /\ part = "accounts" /\ AccountsNext
    /\ UNCHANGED <<part, loginVars, limiterVars, startVars, serialVars>>
FederatedPart ==
    /\ part = "federated" /\ FederatedNext
    /\ UNCHANGED <<part, accountVars, limiterVars, startVars, serialVars>>
LimiterPart ==
    /\ part = "limiter" /\ LimiterNext
    /\ UNCHANGED <<part, accountVars, loginVars, startVars, serialVars>>
StartupPart ==
    /\ part = "startup" /\ StartupNext
    /\ UNCHANGED <<part, accountVars, loginVars, limiterVars, serialVars>>
SerialPart ==
    /\ part = "serial" /\ SerialNext
    /\ UNCHANGED <<part, accountVars, loginVars, limiterVars, startVars>>

AdministrationNext ==
    AccountsPart \/ FederatedPart \/ LimiterPart \/ StartupPart \/ SerialPart

AdministrationSpec == AdministrationInit /\ [][AdministrationNext]_administration

\* The threads that serve logins, and the identity providers, are alike.
AccessSymmetry == Permutations(Flows) \cup Permutations(Idps)
=============================================================================
