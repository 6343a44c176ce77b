-------------------------------- MODULE SyncCheck --------------------------------
(***************************************************************************)
(* The sync-check task of main.cpp, and the sync-check routes that do the  *)
(* same on request, beside a deploying zone.  A check previews the zone    *)
(* without the zone's mutex and stores its verdict in a later transaction, *)
(* so both the preview and the verdict may be torn by a push or an edit:   *)
(* it reads the rows, lists the providers one after the other, and writes. *)
(***************************************************************************)
EXTENDS Deployment

VARIABLES
    cstep,    \* "idle", "list", "store" or "baseline"
    seen,     \* the rows the check has read
    listed,   \* listed[p]: what provider p answered, for p below `nextProv'
    nextProv, \* the next provider to list
    verdict   \* the status the check is about to store

check == <<cstep, seen, listed, nextProv, verdict>>

Empty == [p \in Providers |-> {}]

LastProv  == CHOOSE p \in Providers : \A q \in Providers : q <= p
FirstProv == CHOOSE p \in Providers : \A q \in Providers : p <= q
After(p)  == CHOOSE q \in Providers : q > p /\ \A r \in Providers : r > p => q <= r

\* The status a preview stands for.
StatusOf(ds) ==
    CASE ds = {}                    -> "in_sync"
      [] ds # {} /\ HasDrift(ds)    -> "drift"
      [] OTHER                      -> "pending"

CheckTypeOK ==
    /\ cstep \in {"idle", "list", "store", "baseline"}
    /\ seen \subseteq Row
    /\ listed \in [Providers -> SUBSET Record]
    /\ nextProv \in Providers
    /\ verdict \in {"in_sync", "drift", "pending", "error"}

CheckInit ==
    /\ Init
    /\ cstep = "idle" /\ seen = {} /\ listed = Empty
    /\ nextProv = FirstProv /\ verdict = "error"

System == <<store, live, history, mutex, pc, locals, ghosts>>

CheckReset == seen' = {} /\ listed' = Empty /\ nextProv' = FirstProv

CheckReadRows ==
    /\ cstep = "idle"
    /\ seen' = rows
    /\ cstep' = "list"
    /\ UNCHANGED <<System, sync, listed, nextProv, verdict>>

CheckList ==
    LET answered == [listed EXCEPT ![nextProv] = live[nextProv]]
    IN  /\ cstep = "list"
        /\ \/ /\ nextProv # LastProv
              /\ listed' = answered
              /\ nextProv' = After(nextProv)
              /\ UNCHANGED <<cstep, seen, verdict>>
           \/ /\ nextProv = LastProv
              /\ verdict' = StatusOf(Preview(seen, answered))
              /\ cstep' = "store"
              /\ CheckReset
        /\ UNCHANGED <<System, sync>>

\* preview throws: a provider that cannot be listed, a variable without a value.
CheckFails ==
    /\ cstep = "list"
    /\ verdict' = "error"
    /\ cstep' = "store"
    /\ CheckReset
    /\ UNCHANGED <<System, sync>>

\* Mutant of CheckStore: a zone in sync is taken to stay so.
CheckStoreOnce ==
    /\ cstep = "store"
    /\ sync' = IF sync = "in_sync" THEN sync ELSE verdict
    /\ cstep' = "idle"
    /\ verdict' = "error"
    /\ UNCHANGED <<System, seen, listed, nextProv>>

\* updateSyncStatus.  The task then captures a baseline of a zone that is in
\* sync, has a repository and was never deployed; the routes do not.
CheckStore ==
    /\ cstep = "store"
    /\ sync' = verdict
    /\ \/ cstep' = "idle"
       \/ verdict = "in_sync" /\ GitConfigured /\ history = {} /\ cstep' = "baseline"
    /\ verdict' = "error"
    /\ UNCHANGED <<System, seen, listed, nextProv>>

\* capture is called without looking at the history again.
CheckBaseline(t) ==
    /\ cstep = "baseline"
    /\ CaptureLock(t)
    /\ cstep' = "idle"
    /\ UNCHANGED <<seen, listed, nextProv, verdict>>

\* The zone is being deployed: ZONE_LOCKED is logged and the task goes on.
CheckLocked ==
    /\ cstep = "baseline"
    /\ mutex # NoWorker \/ LastSeq(history) >= MaxSeq
    /\ cstep' = "idle"
    /\ UNCHANGED <<System, sync, seen, listed, nextProv, verdict>>

Check ==
    \/ CheckReadRows
    \/ CheckList
    \/ CheckFails
    \/ CheckStore
    \/ \E t \in Workers : CheckBaseline(t)
    \/ CheckLocked

CheckRestart ==
    /\ Busy \/ cstep # "idle"
    /\ Killed
    /\ cstep' = "idle"
    /\ verdict' = "error"
    /\ CheckReset

Beside ==
    /\ \/ \E t \in Workers : Push(t) \/ Capture(t) \/ Throw(t)
       \/ Edit
       \/ OutOfBand
    /\ UNCHANGED check

CheckNext == Check \/ Beside \/ CheckRestart

all == <<vars, check>>

\* The task is due again and again while the process runs, threads keep
\* running, and a provider that is asked often enough answers.
CheckFairness ==
    /\ \A t \in Workers : WF_all(Work(t) /\ UNCHANGED check)
    /\ WF_all(CheckReadRows)
    /\ WF_all(CheckList \/ CheckFails)
    /\ WF_all(CheckStore)
    /\ WF_all(CheckLocked \/ \E t \in Workers : CheckBaseline(t))

CheckSpec == CheckInit /\ [][CheckNext]_all /\ CheckFairness

-----------------------------------------------------------------------------

\* Once rows and providers have come to rest and the process stays up, the
\* status keeps coming back to what a preview says of them - or to "error"
\* when the preview fails.  A torn check, a stale verdict stored after a push,
\* or the in_sync of a push that ignored drift, is corrected.
StatusCatchesUp ==
    /\ <>[][FALSE]_<<rows, live>>
    /\ <>[][~CheckRestart]_all
    => []<>(sync \in {StatusOf(Preview(rows, live)), "error"})

\* A check is always at one of its steps, and the status it stores comes to the truth.
StatusSettles == []CheckTypeOK /\ StatusCatchesUp
=============================================================================
