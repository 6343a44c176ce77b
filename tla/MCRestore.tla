-------------------------------- MODULE MCRestore --------------------------------
(***************************************************************************)
(* The two ways back: a zone is rolled back to the snapshot of a           *)
(* deployment, and an installation is restored from a backup.  They share  *)
(* no state and are checked side by side; a behaviour is one of one of     *)
(* them.                                                                   *)
(***************************************************************************)
EXTENDS Rollback, Backup

VARIABLE part

zoneVars == <<store, live, history, sync, mutex, pc, locals, rollback, base, quiet>>
restore  == <<part, zoneVars, backupVars>>

\* Two contents are two values.
Distinct == [c \in Contents |-> c]

\* Every provider serves every key.
CarryAll == [p \in Providers |-> Keys]

\* The part that is not looked at begins in one way only.
RestoreInit ==
    /\ part \in {"zone", "installation"}
    /\ RollbackInit /\ BackupInit
    /\ part = "zone" => tables = "hosts"

ZonePart         == part = "zone" /\ RollbackNext /\ UNCHANGED <<part, backupVars>>
InstallationPart == part = "installation" /\ BackupNext /\ UNCHANGED <<part, zoneVars>>

RestoreNext == ZonePart \/ InstallationPart

RestoreSpec == RestoreInit /\ [][RestoreNext]_restore
=============================================================================
