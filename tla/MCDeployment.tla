------------------------------ MODULE MCDeployment ------------------------------
(* Finite instances of Deployment for TLC. *)
EXTENDS Deployment

\* Contents compared whole: two contents are two values.
Distinct == [c \in Contents |-> c]

\* Every provider serves every key.
CarryAll == [p \in Providers |-> Keys]
=============================================================================
