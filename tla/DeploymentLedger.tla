---------------------------- MODULE DeploymentLedger ----------------------------
(***************************************************************************)
(* What the deployments of a zone promise, whatever pushes and captures    *)
(* are made of: one at a time, each recorded under the next number or not  *)
(* at all, old numbers forgotten only by a push that has recorded its own, *)
(* and rows marked for deletion dropped only after that.  Everything else  *)
(* a deployment does is invisible here.                                    *)
(***************************************************************************)
EXTENDS Integers

CONSTANT Keep  \* numbers a push leaves

VARIABLES
    stage,   \* how far the deployment that runs has come
    last,    \* the newest number
    kept,    \* the numbers that can still be gone back to
    there,   \* the ids of the zone's rows
    marked   \* those that are marked for deletion

ledger == <<stage, last, kept, there, marked>>

LedgerInit ==
    /\ stage = "free"
    /\ last = 0 /\ kept = {}
    /\ there = {} /\ marked = {}

Begin ==
    /\ stage = "free"
    /\ stage' = "held"
    /\ UNCHANGED <<last, kept, there, marked>>

\* A capture ends with its record, a push goes on.
Record ==
    /\ stage = "held"
    /\ stage' \in {"free", "recorded"}
    /\ last' = last + 1
    /\ kept' = kept \cup {last + 1}
    /\ UNCHANGED <<there, marked>>

Forget ==
    /\ stage = "recorded"
    /\ stage' = "pruned"
    /\ kept' = {n \in kept : n > last - Keep}
    /\ UNCHANGED <<last, there, marked>>

\* Rows are dropped only here, and only marked ones.
Drop ==
    /\ stage = "pruned"
    /\ stage' = "settled"
    /\ there \ marked \subseteq there' /\ there' \subseteq there
    /\ marked' = {}
    /\ UNCHANGED <<last, kept>>

\* Success, a refusal, a failure or a restart, at any stage.
End ==
    /\ stage # "free"
    /\ stage' = "free"
    /\ UNCHANGED <<last, kept, there, marked>>

\* Rows are added, marked and unmarked at any time, by a deployment or beside it.
EditRows ==
    /\ there \subseteq there' /\ marked' \subseteq there'
    /\ UNCHANGED <<stage, last, kept>>

LedgerNext == Begin \/ Record \/ Forget \/ Drop \/ End \/ EditRows

LedgerSpec == LedgerInit /\ [][LedgerNext]_ledger
=============================================================================
