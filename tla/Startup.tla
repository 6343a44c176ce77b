--------------------------------- MODULE Startup --------------------------------
(***************************************************************************)
(* From the start of the process to the service: the migrations of the     *)
(* schema, the settings that are seeded and loaded, the state of the first *)
(* setup and the adoption of the git repository that used to be configured *)
(* by the environment; then the requests for the first setup.  The process *)
(* may die between any two steps, and a start may fail; what is committed  *)
(* is there at the next start.                                             *)
(***************************************************************************)
EXTENDS Integers, Sequences, FiniteSets

CONSTANTS
    Versions,       \* the numbers of the vNNN directories of all releases
    Visitors,       \* requests for the first setup
    OldZones,       \* zones there when the repository is adopted
    Unset,          \* a setting that has no row
    MaxCrashes      \* bound on the ends of the process

ASSUME StartupAssumption ==
    /\ Versions \subseteq Nat \ {0}
    /\ Unset \notin Nat
    /\ MaxCrashes \in Nat

VARIABLES
    stage,      \* how far the process has come
    crashes,
    dirs,       \* the directories of this release that hold SQL files
    live,       \* schema_version
    applied,    \* the versions whose files were committed, in that order
    floor,      \* iLiveVersion, read once at the start
    env,        \* the value the environment gives to a setting
    row,        \* its row, or Unset
    edited,     \* whether the administrator has changed the row
    done,       \* the row setup_completed
    founders,   \* users that the setup has made administrators
    flag,       \* _bSetupCompleted
    visitor,    \* visitor[v]: where the request is
    adopted,    \* the number of rows of git_repos made from the environment
    assigned,   \* zones that were given to the repository
    cutShort    \* whether the process died while it gave them

startVars == <<stage, crashes, dirs, live, applied, floor, env, row, edited, done, founders,
               flag, visitor, adopted, assigned, cutShort>>

schema  == <<dirs, live, applied, floor>>
configured == <<env, row, edited>>
setup   == <<done, founders, flag, visitor>>
adoption == <<adopted, assigned, cutShort>>

Rising(s) == \A i, j \in DOMAIN s : i < j => s[i] < s[j]

StartupTypeOK ==
    /\ stage \in {"down", "bootstrap", "migrate", "seed", "setup", "adopt", "assign", "serve"}
    /\ crashes \in 0 .. MaxCrashes
    /\ dirs \in SUBSET Versions
    /\ live \in Versions \cup {0} /\ floor \in Versions \cup {0}
    /\ applied \in Seq(Versions)
    /\ env \in 1 .. 2 /\ row \in 1 .. 3 \cup {Unset} /\ edited \in BOOLEAN
    /\ done \in BOOLEAN /\ flag \in BOOLEAN
    /\ founders \in SUBSET Visitors
    /\ visitor \in [Visitors -> {"away", "asked", "found", "user", "group", "made"}]
    /\ adopted \in 0 .. 2 /\ assigned \in SUBSET OldZones /\ cutShort \in BOOLEAN

StartupInit ==
    /\ stage = "down" /\ crashes = 0
    /\ dirs = {} /\ live = 0 /\ applied = <<>> /\ floor = 0
    /\ env = 1 /\ row = Unset /\ edited = FALSE
    /\ done = FALSE /\ founders = {} /\ flag = FALSE
    /\ visitor = [v \in Visitors |-> "away"]
    /\ adopted = 0 /\ assigned = {} /\ cutShort = FALSE

-----------------------------------------------------------------------------
(* The start *)

\* A release, or the same again, with its directories and an environment.
Start ==
    /\ stage = "down"
    /\ dirs' \in SUBSET Versions
    /\ env' \in 1 .. 2
    /\ stage' = "bootstrap"
    /\ UNCHANGED <<crashes, live, applied, floor, row, edited, setup, adoption>>

\* The table of versions is made if it is missing, and read.
Bootstrap ==
    /\ stage = "bootstrap"
    /\ floor' = live
    /\ stage' = "migrate"
    /\ UNCHANGED <<crashes, dirs, live, applied, configured, setup, adoption>>

\* Directories above the version that was read, and not run by this start.
Ahead == {v \in dirs : v > floor /\ v > live}

\* Mutant of Recorded: the version is not written with the files.
RecordedNot(v) == live

Recorded(v) == v

\* The next directory: its files and its number in one transaction.
Migrate ==
    /\ stage = "migrate"
    /\ \E v \in Ahead :
         /\ \A u \in Ahead : v <= u
         /\ applied' = Append(applied, v)
         /\ live' = Recorded(v)
    /\ UNCHANGED <<stage, crashes, dirs, floor, configured, setup, adoption>>

EndMigrate ==
    /\ stage = "migrate" /\ Ahead = {}
    /\ stage' = "seed"
    /\ UNCHANGED <<crashes, schema, configured, setup, adoption>>

Seeded == IF row = Unset THEN env ELSE row

\* seedToDb: a row that is missing gets the value of the environment.
Seed ==
    /\ stage = "seed"
    /\ row' = Seeded
    /\ stage' = "setup"
    /\ UNCHANGED <<crashes, schema, env, edited, setup, adoption>>

\* loadSetupState: a failure is logged, and the setup is then taken to be open.
LoadSetupState ==
    /\ stage = "setup"
    /\ flag' \in {done, FALSE}
    /\ stage' = "adopt"
    /\ UNCHANGED <<crashes, schema, configured, done, founders, visitor, adoption>>

Adopts == adopted = 0

\* migrateIfNeeded: with the old variable set, and no repository, one is made.
Adopt ==
    /\ stage = "adopt"
    /\ \/ Adopts /\ adopted < 2 /\ adopted' = adopted + 1 /\ stage' = "assign"
       \/ stage' = "serve" /\ UNCHANGED adopted
    /\ UNCHANGED <<crashes, schema, configured, setup, assigned, cutShort>>

\* Every zone is given to it, one transaction each.
Assign ==
    /\ stage = "assign"
    /\ \/ \E z \in OldZones \ assigned : assigned' = assigned \cup {z} /\ UNCHANGED stage
       \/ assigned = OldZones /\ stage' = "serve" /\ UNCHANGED assigned
    /\ UNCHANGED <<crashes, schema, configured, setup, adopted, cutShort>>

\* A step of the start throws, or the process is ended, whatever it does.
Crash ==
    /\ stage # "down" /\ crashes < MaxCrashes
    /\ crashes' = crashes + 1
    /\ stage' = "down" /\ flag' = FALSE
    /\ visitor' = [v \in Visitors |-> "away"]
    /\ cutShort' = (cutShort \/ stage = "assign")
    /\ UNCHANGED <<schema, configured, done, founders, adopted, assigned>>

\* PUT settings, by an administrator: a value the environment never gave.
EditSetting ==
    /\ stage = "serve" /\ done
    /\ row' = 3 /\ edited' = TRUE
    /\ UNCHANGED <<stage, crashes, schema, env, setup, adoption>>

-----------------------------------------------------------------------------
(* POST setup *)

Steps(v, from, to) ==
    /\ stage = "serve" /\ visitor[v] = from
    /\ visitor' = [visitor EXCEPT ![v] = to]
    /\ UNCHANGED <<stage, crashes, schema, configured, adoption>>

\* The flag, the token and the input are looked at before the transaction.
PostSetup(v) ==
    /\ Steps(v, "away", "asked") /\ ~flag
    /\ UNCHANGED <<done, founders, flag>>

\* No setup was completed, and there are no users, as far as is committed.
SetupOpen == ~done /\ founders = {}

FindOpen(v) ==
    /\ Steps(v, "asked", "found") /\ SetupOpen
    /\ UNCHANGED <<done, founders, flag>>

\* The user has a name that is free.
InsertFounder(v) ==
    /\ Steps(v, "found", "user")
    /\ UNCHANGED <<done, founders, flag>>

\* Nobody has taken the name Admins, not even in a transaction that is open: that one
\* is waited for, and makes this one fail when it commits.
NameFree == founders = {} /\ \A u \in Visitors : visitor[u] # "group"

InsertAdmins(v) ==
    /\ Steps(v, "user", "group") /\ NameFree
    /\ UNCHANGED <<done, founders, flag>>

CommitSetup(v) ==
    /\ Steps(v, "group", "made")
    /\ done' = TRUE /\ founders' = founders \cup {v}
    /\ UNCHANGED flag

RaiseFlag(v) ==
    /\ Steps(v, "made", "away")
    /\ flag' = TRUE
    /\ UNCHANGED <<done, founders>>

\* Refused, or a statement fails: the transaction leaves nothing.
SetupFails(v) ==
    /\ visitor[v] \in {"asked", "found", "user", "group"}
    /\ Steps(v, visitor[v], "away")
    /\ UNCHANGED <<done, founders, flag>>

-----------------------------------------------------------------------------
StartStep == Start \/ Bootstrap \/ Migrate \/ EndMigrate \/ Seed \/ LoadSetupState \/ Adopt \/ Assign

SetupStep(v) ==
    \/ PostSetup(v) \/ FindOpen(v) \/ InsertFounder(v) \/ InsertAdmins(v)
    \/ CommitSetup(v) \/ RaiseFlag(v) \/ SetupFails(v)

StartupNext ==
    \/ StartStep \/ Crash \/ EditSetting
    \/ \E v \in Visitors : SetupStep(v)

StartupSpec == StartupInit /\ [][StartupNext]_startVars

-----------------------------------------------------------------------------
(* Properties *)

\* The files of a version are run once in the life of a database, in the order of the
\* versions, whatever releases were started on it and wherever they died.
AppliedOnce == Rising(applied) /\ (applied # <<>> => live = applied[Len(applied)])

\* A process that serves has the schema its release brings, or a newer one.
UpToDate == stage = "serve" => \A v \in dirs : v <= live

\* The first setup makes one administrator: not two that race, not another one after a
\* restart, and not one more because the state of the setup could not be loaded.
OneFounder == Cardinality(founders) <= 1 /\ (done <=> founders # {})

\* What the administrator has set survives every restart under another environment.
EditsStay == edited => row = 3

\* The repository of the environment is adopted once; and all zones are given to it,
\* unless the process died on the way: then the others never are.
AdoptedOnce ==
    /\ adopted <= 1
    /\ stage = "serve" /\ adopted = 1 /\ ~cutShort => assigned = OldZones

\* What must be true of an installation however often and wherever its processes died:
\* its schema is the one the process expects and was made once, it has one founder, and
\* what was set by hand or adopted from the environment stays as it is.
StartupInv ==
    /\ StartupTypeOK
    /\ AppliedOnce /\ UpToDate
    /\ OneFounder
    /\ EditsStay /\ AdoptedOnce
=============================================================================
