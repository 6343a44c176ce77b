------------------------------- MODULE MCSyncCheck -------------------------------
(* Finite instances of SyncCheck for TLC. *)
EXTENDS SyncCheck

\* Two contents are two values.
Distinct == [c \in Contents |-> c]

\* Every provider serves every key.
CarryAll == [p \in Providers |-> Keys]
=============================================================================
