------------------------------- MODULE Deployment -------------------------------
(***************************************************************************)
(* DeploymentEngine on one zone: HTTP threads that push and capture it,    *)
(* the record routes editing it meanwhile, the providers that serve it and *)
(* everything that changes them behind Meridian's back.  Zones share no    *)
(* state but the serial counter, so one zone stands for each.              *)
(*                                                                         *)
(* push holds the zone's mutex from its first step to its last; record     *)
(* edits take no lock and fall between any two of its steps.  A step of a  *)
(* worker is one provider call or one database transaction; what happens   *)
(* between two of them to nobody else's state is part of the next one.     *)
(***************************************************************************)
EXTENDS DiffEngine, DeploymentHistory

CONSTANTS
    Workers,        \* HTTP threads and the maintenance thread
    NoWorker,       \* the value of an unlocked mutex
    GitConfigured,  \* the zone has a git repository
    Retention,      \* snapshots pruneByRetention is told to keep
    MaxSeq          \* bound: the last sequence number a run may reach

ASSUME DeploymentAssumption ==
    /\ NoWorker \notin Workers
    /\ GitConfigured \in BOOLEAN
    /\ Retention \in Int
    /\ MaxSeq \in Nat
    /\ 0 \notin Providers

VARIABLES
    rows,     \* the zone's records
    nextId,   \* the next id of the records sequence
    live,     \* live[p]: what provider p serves
    history,  \* the zone's deployments
    sync,     \* zones.sync_status
    mutex,    \* the holder of the zone's mutex
    pc,       \* pc[t]: the step worker t is about to take
    diffs,    \* diffs[t]: the diffs t has still to execute
    actions,  \* actions[t]: mDriftActionMap of t's push
    fetched,  \* fetched[t]: the live records t's capture has listed
    base,     \* live as the last preview of a push listed it
    quiet     \* no edit and no outside change since that preview

store  == <<rows, nextId>>
locals == <<diffs, actions, fetched>>
ghosts == <<base, quiet>>
vars   == <<rows, nextId, live, history, sync, mutex, pc, diffs, actions,
            fetched, base, quiet>>

Choices   == {"adopt", "delete", "ignore", "none"}
NoActions == [k \in Keys |-> "none"]

\* A record of a snapshot.  push writes rows (prov = 0), capture live records,
\* which have no row id; each provider's listing is appended to the capture,
\* so a record served by two providers is in it twice.
Entry == [id : Ids \cup {0}, key : Keys, content : Contents, prov : Providers \cup {0}]

RowEntry(r)     == [id |-> r.id, key |-> r.key, content |-> r.content, prov |-> 0]
LiveEntry(p, x) == [id |-> 0, key |-> x.key, content |-> x.content, prov |-> p]

PushSteps    == {"preview", "gate", "execute", "prune", "purge", "status"}
CaptureSteps == {"fetch", "store"}

TypeOK ==
    /\ rows \subseteq Row
    /\ nextId \in 1..(MaxId + 1)
    /\ live \in [Providers -> SUBSET Record]
    /\ history \subseteq [seq : Nat, records : SUBSET Entry]
    /\ sync \in {"unknown", "in_sync", "drift", "pending", "error"}
    /\ mutex \in Workers \cup {NoWorker}
    /\ pc \in [Workers -> {"idle"} \cup PushSteps \cup CaptureSteps]
    /\ diffs \in [Workers -> SUBSET Diff]
    /\ actions \in [Workers -> [Keys -> Choices]]
    /\ fetched \in [Workers -> SUBSET Entry]
    /\ base \in [Providers -> SUBSET Record]
    /\ quiet \in BOOLEAN

\* A zone is created empty over providers that may already serve records.
Init ==
    /\ rows = {}
    /\ nextId = 1
    /\ live \in [Providers -> SUBSET Record]
    /\ history = {}
    /\ sync = "unknown"
    /\ mutex = NoWorker
    /\ pc = [t \in Workers |-> "idle"]
    /\ diffs = [t \in Workers |-> {}]
    /\ actions = [t \in Workers |-> NoActions]
    /\ fetched = [t \in Workers |-> {}]
    /\ base = live
    /\ quiet = FALSE

Goto(t, step) == pc' = [pc EXCEPT ![t] = step]

\* The lock_guard's destructor: every return and every exception of push and
\* capture ends here, and the locals go with the frame.
Release(t) ==
    /\ mutex' = NoWorker
    /\ Goto(t, "idle")
    /\ diffs' = [diffs EXCEPT ![t] = {}]
    /\ actions' = [actions EXCEPT ![t] = NoActions]
    /\ fetched' = [fetched EXCEPT ![t] = {}]

-----------------------------------------------------------------------------
(* push *)

\* try_lock; a busy mutex throws ZONE_LOCKED and changes nothing.
PushLock(t) ==
    /\ pc[t] = "idle"
    /\ mutex = NoWorker
    /\ LastSeq(history) < MaxSeq
    /\ mutex' = t
    /\ Goto(t, "preview")
    /\ UNCHANGED <<store, live, history, sync, locals, ghosts>>

\* The fresh preview.  Rows are read before the providers are listed, but an
\* outside change touches no row and an edit no provider, so one instant does.
PushPreview(t) ==
    LET ds == Preview(rows, live)
    IN  /\ pc[t] = "preview"
        /\ base' = live
        /\ quiet' = TRUE
        /\ \/ /\ ds = {}
              /\ Release(t)
           \/ /\ ds # {}
              /\ Goto(t, "gate")
              /\ diffs' = [diffs EXCEPT ![t] = ds]
              /\ UNCHANGED <<mutex, actions, fetched>>
        /\ UNCHANGED <<store, live, history, sync>>

\* Mutant of PushRefused: the lock outlives the refusal.
PushRefusedLocked(t) ==
    /\ pc[t] = "gate"
    /\ GitConfigured \/ HasDrift(diffs[t])
    /\ Goto(t, "idle")
    /\ diffs' = [diffs EXCEPT ![t] = {}]
    /\ UNCHANGED <<store, live, history, sync, mutex, actions, fetched, ghosts>>

\* GIT_REPO_UNAVAILABLE (the probe failed and the caller did not acknowledge
\* it), DRIFT_ACTIONS_REQUIRED or MISSING_DRIFT_ACTION.
PushRefused(t) ==
    /\ pc[t] = "gate"
    /\ GitConfigured \/ HasDrift(diffs[t])
    /\ Release(t)
    /\ UNCHANGED <<store, live, history, sync, ghosts>>

\* The caller's drift actions, one for each key with a drift record; those of
\* other keys are never looked at.
PushAccepted(t) ==
    LET drifted == {d.key : d \in {e \in diffs[t] : e.op = "drift"}}
    IN  /\ pc[t] = "gate"
        /\ \E a \in [Keys -> Choices] :
              /\ \A k \in Keys : (a[k] # "none") <=> (k \in drifted)
              /\ actions' = [actions EXCEPT ![t] = a]
        /\ Goto(t, "execute")
        /\ UNCHANGED <<store, live, history, sync, mutex, diffs, fetched, ghosts>>

\* Mutant of Removes: drift is purged whatever the caller answered.
RemovesDrift(t, d) == d.op \in {"delete", "drift"}

\* partitionDiffsForExecution
Removes(t, d) == d.op = "delete" \/ (d.op = "drift" /\ actions[t][d.key] = "delete")

\* Mutant of Phase: records are added before others are removed.
PhaseAddFirst(t, d) ==
    CASE d.op = "add"        -> 1
      [] d.op = "update"     -> 2
      [] Removes(t, d)       -> 3
      [] OTHER               -> 4

Phase(t, d) ==
    CASE Removes(t, d)      -> 1
      [] d.op = "update"    -> 2
      [] d.op = "add"       -> 3
      [] OTHER              -> 4

\* The diffs that may come next: providers in id order, each provider's phases
\* in order.  Inside a phase the order is that of row ids and listings, which
\* nothing else depends on.
NextDiffs(t) ==
    {d \in diffs[t] : \A e \in diffs[t] :
        \/ d.prov < e.prov
        \/ d.prov = e.prov /\ Phase(t, d) <= Phase(t, e)}

CallsProvider(t, d) == Removes(t, d) \/ d.op \in {"update", "add"}

\* What a provider serves after it answered d with success.  An update or a
\* removal of a record that is not there any more may write nothing.
Executed(t, d, recs) ==
    CASE Removes(t, d)                                  -> recs \ {OldRecord(d)}
      [] d.op = "update" /\ OldRecord(d) \in recs       -> (recs \ {OldRecord(d)}) \cup {NewRecord(d)}
      [] d.op = "update" /\ OldRecord(d) \notin recs    -> recs
      [] OTHER                                          -> recs \cup {NewRecord(d)}

\* What it may serve after a call that failed: nothing new, all of it with the
\* answer lost, or the first half of an update that removes and then creates.
Failed(t, d, recs) ==
    {recs, Executed(t, d, recs)}
    \cup (IF d.op = "update" THEN {recs \ {OldRecord(d)}} ELSE {})

PushExecute(t) ==
    /\ pc[t] = "execute"
    /\ \E d \in NextDiffs(t) :
          /\ CallsProvider(t, d)
          /\ live' = [live EXCEPT ![d.prov] = Executed(t, d, @)]
          /\ diffs' = [diffs EXCEPT ![t] = @ \ {d}]
    /\ UNCHANGED <<store, history, sync, mutex, pc, actions, fetched, ghosts>>

\* A drift record adopted: it becomes a row of the zone.
PushAdopt(t) ==
    /\ pc[t] = "execute"
    /\ \E d \in NextDiffs(t) :
          /\ d.op = "drift"
          /\ actions[t][d.key] = "adopt"
          /\ nextId <= MaxId
          /\ rows' = Create(rows, nextId, d.key, d.old)
          /\ nextId' = nextId + 1
          /\ diffs' = [diffs EXCEPT ![t] = @ \ {d}]
    /\ UNCHANGED <<live, history, sync, mutex, pc, actions, fetched, ghosts>>

\* The insert fails once the sequence of ids is used up.
PushAdoptFails(t) ==
    /\ pc[t] = "execute"
    /\ nextId > MaxId
    /\ \E d \in NextDiffs(t) : d.op = "drift" /\ actions[t][d.key] = "adopt"
    /\ Release(t)
    /\ UNCHANGED <<store, live, history, sync, ghosts>>

\* Mutant of PushIgnore: an ignored diff stays in the list.
PushIgnoreForever(t) ==
    /\ pc[t] = "execute"
    /\ \E d \in NextDiffs(t) : d.op = "drift" /\ actions[t][d.key] = "ignore"
    /\ UNCHANGED vars

PushIgnore(t) ==
    /\ pc[t] = "execute"
    /\ \E d \in NextDiffs(t) :
          /\ d.op = "drift"
          /\ actions[t][d.key] = "ignore"
          /\ diffs' = [diffs EXCEPT ![t] = @ \ {d}]
    /\ UNCHANGED <<store, live, history, sync, mutex, pc, actions, fetched, ghosts>>

\* ProviderError unwinds the push: what the calls before it wrote stays.
PushProviderError(t) ==
    /\ pc[t] = "execute"
    /\ \E d \in NextDiffs(t) :
          /\ CallsProvider(t, d)
          /\ \E recs \in Failed(t, d, live[d.prov]) :
                live' = [live EXCEPT ![d.prov] = recs]
    /\ Release(t)
    /\ UNCHANGED <<store, history, sync, ghosts>>

\* Any other exception - a listing that fails, a variable without a value, a
\* database error - leaves push or capture where it is.
Throw(t) ==
    /\ pc[t] # "idle"
    /\ Release(t)
    /\ UNCHANGED <<store, live, history, sync, ghosts>>

\* buildSnapshot reads the rows as they are now, pending ones included.
PushSnapshot(t) ==
    /\ pc[t] = "execute"
    /\ diffs[t] = {}
    /\ history' = CreateDeployment(history, {RowEntry(r) : r \in rows})
    /\ Goto(t, "prune")
    /\ UNCHANGED <<store, live, sync, mutex, locals, ghosts>>

PushPrune(t) ==
    /\ pc[t] = "prune"
    /\ history' = Prune(history, Retention)
    /\ Goto(t, "purge")
    /\ UNCHANGED <<store, live, sync, mutex, locals, ghosts>>

PushPurge(t) ==
    /\ pc[t] = "purge"
    /\ rows' = HardDeletePending(rows)
    /\ Goto(t, "status")
    /\ UNCHANGED <<nextId, live, history, sync, mutex, locals, ghosts>>

PushStatus(t) ==
    /\ pc[t] = "status"
    /\ sync' = "in_sync"
    /\ Release(t)
    /\ UNCHANGED <<store, live, history, ghosts>>

-----------------------------------------------------------------------------
(* capture *)

CaptureLock(t) ==
    /\ pc[t] = "idle"
    /\ mutex = NoWorker
    /\ LastSeq(history) < MaxSeq
    /\ mutex' = t
    /\ Goto(t, "fetch")
    /\ UNCHANGED <<store, live, history, sync, locals, ghosts>>

CaptureFetch(t) ==
    /\ pc[t] = "fetch"
    /\ fetched' = [fetched EXCEPT ![t] =
                     UNION {{LiveEntry(p, x) : x \in live[p]} : p \in Providers}]
    /\ Goto(t, "store")
    /\ UNCHANGED <<store, live, history, sync, mutex, diffs, actions, ghosts>>

CaptureStore(t) ==
    /\ pc[t] = "store"
    /\ history' = CreateDeployment(history, fetched[t])
    /\ Release(t)
    /\ UNCHANGED <<store, live, sync, ghosts>>

-----------------------------------------------------------------------------
(* Everything that goes on beside the workers *)

Others == <<history, sync, mutex, pc, locals, base>>

\* RecordRoutes: POST, PUT, DELETE and restore of a record.
AddRecord ==
    /\ nextId <= MaxId
    /\ \E k \in Keys, c \in Contents : rows' = Create(rows, nextId, k, c)
    /\ nextId' = nextId + 1
    /\ quiet' = FALSE
    /\ UNCHANGED <<live, Others>>

EditRecord ==
    /\ \E r \in rows, k \in Keys, c \in Contents : rows' = Update(rows, r.id, k, c)
    /\ quiet' = FALSE
    /\ UNCHANGED <<nextId, live, Others>>

DeleteRecord ==
    /\ \E r \in rows : rows' = Mark(rows, r.id, TRUE)
    /\ quiet' = FALSE
    /\ UNCHANGED <<nextId, live, Others>>

RestoreRecord ==
    /\ \E r \in rows : rows' = Mark(rows, r.id, FALSE)
    /\ quiet' = FALSE
    /\ UNCHANGED <<nextId, live, Others>>

\* Someone changes a provider without Meridian.
OutOfBand ==
    /\ \E p \in Providers, x \in Record :
          live' = [live EXCEPT ![p] = IF x \in @ THEN @ \ {x} ELSE @ \cup {x}]
    /\ quiet' = FALSE
    /\ UNCHANGED <<store, Others>>

\* The process dies and is started again: the mutexes and the stacks are gone,
\* the database and the providers are as they were.
Busy == \E t \in Workers : pc[t] # "idle"

Killed ==
    /\ mutex' = NoWorker
    /\ pc' = [t \in Workers |-> "idle"]
    /\ diffs' = [t \in Workers |-> {}]
    /\ actions' = [t \in Workers |-> NoActions]
    /\ fetched' = [t \in Workers |-> {}]
    /\ UNCHANGED <<store, live, history, sync, ghosts>>

Restart == Busy /\ Killed

-----------------------------------------------------------------------------

Push(t) ==
    \/ PushLock(t)
    \/ PushPreview(t)
    \/ PushRefused(t)
    \/ PushAccepted(t)
    \/ PushExecute(t)
    \/ PushAdopt(t)
    \/ PushAdoptFails(t)
    \/ PushIgnore(t)
    \/ PushProviderError(t)
    \/ PushSnapshot(t)
    \/ PushPrune(t)
    \/ PushPurge(t)
    \/ PushStatus(t)

Capture(t) ==
    \/ CaptureLock(t)
    \/ CaptureFetch(t)
    \/ CaptureStore(t)

Edit == AddRecord \/ EditRecord \/ DeleteRecord \/ RestoreRecord

Next ==
    \/ \E t \in Workers : Push(t) \/ Capture(t) \/ Throw(t)
    \/ Edit
    \/ OutOfBand
    \/ Restart

Spec == Init /\ [][Next]_vars

\* A thread that has entered push or capture keeps running: every call it
\* makes returns or times out.  Nobody is obliged to start one, and nothing is
\* obliged to fail.
Work(t) == pc[t] # "idle" /\ (Push(t) \/ Capture(t))

FairSpec == Spec /\ \A t \in Workers : WF_vars(Work(t))
-----------------------------------------------------------------------------
(* What holds of every push and capture *)

\* A worker is inside push or capture exactly while it holds the mutex: two
\* never deploy the zone together, and no return, refusal or exception leaves
\* the mutex behind (DeploymentEngine.cpp 173-179).
MutexInv == \A t \in Workers : pc[t] # "idle" <=> mutex = t

\* The history has one deployment per number and no gap below its newest one,
\* whatever mixture of pushes, captures, failures and restarts wrote it.
HistoryInv ==
    /\ \A d, e \in history : d.seq = e.seq => d = e
    /\ \A e \in history : \A s \in e.seq .. LastSeq(history) : s \in Seqs(history)

\* A push leaves at most Retention snapshots, however many captures - which
\* do not prune - came before it.
WithinRetention ==
    \A t \in Workers : pc[t] = "purge" => Cardinality(history) <= Retention

\* The newest deployment is never pruned, so MAX(seq) + 1 never hands out a
\* number a second time ("at least 1" snapshot is kept).
SeqNeverReused == [][LastSeq(history') >= LastSeq(history)]_vars

\* A push takes away or overwrites a live record only if the zone manages its
\* key there - a desired or a pending row has it - or the operator answered
\* "delete" for that key; never a record of an unmanaged type.
ConsentForDrift ==
    [][\A t \in Workers, p \in Providers :
         pc[t] = "execute" /\ quiet /\ quiet' =>
           \A x \in live[p] \ live'[p] :
             /\ x.key \notin Unmanaged
             /\ \/ actions[t][x.key] = "delete"
                \/ \E r \in rows : r.key = x.key /\ (r.pending \/ x.key \in Carried[p])]_vars

\* A push nobody disturbed has done its work when it declares the zone
\* in_sync: a new preview finds only drift the operator chose to ignore, and
\* what adopting drift of one provider asks of the others.  Failed pushes,
\* lost answers and restarts before it do not matter.
Converged ==
    \A t \in Workers : pc[t] = "status" /\ quiet =>
      \A d \in Preview(rows, live) :
        \/ d.op = "drift" /\ actions[t][d.key] = "ignore"
        \/ d.op = "drift" /\ actions[t][d.key] = "adopt" /\ d.key \notin Carried[d.prov]
        \/ d.op = "add" /\ actions[t][d.key] = "adopt"

\* No provider serves the value of row r any more, unless another row wants it.
Gone(r) ==
    \A p \in Providers : \A x \in live[p] :
      x.key = r.key /\ Text[x.content] = Text[r.content]
        => \E q \in Active(rows) : Same(q, x)

\* A push nobody disturbed hard-deletes a pending row only after the record
\* is gone from every provider.
PurgeIsDeployed ==
    [][\A t \in Workers : pc[t] = "purge" /\ quiet =>
         \A r \in rows : HasId(rows', r.id) \/ r.key \in Unmanaged \/ Gone(r)]_vars

\* Every push and every capture comes to an end and gives the mutex back.
PushTerminates == \A t \in Workers : pc[t] # "idle" ~> pc[t] = "idle"

-----------------------------------------------------------------------------
(* What push and capture implement *)

\* How far the worker that holds the mutex has come
Stage ==
    IF mutex = NoWorker THEN "free"
    ELSE CASE pc[mutex] = "prune"  -> "recorded"
           [] pc[mutex] = "purge"  -> "pruned"
           [] pc[mutex] = "status" -> "settled"
           [] OTHER                -> "held"

Ledger == INSTANCE DeploymentLedger WITH
    Keep   <- Retention,
    stage  <- Stage,
    last   <- LastSeq(history),
    kept   <- Seqs(history),
    there  <- {r.id : r \in rows},
    marked <- {r.id : r \in Pending(rows)}

\* Every step of push, capture, an edit or a restart is a step of the ledger, or none:
\* deployments are recorded one at a time under consecutive numbers, and nothing is
\* pruned or purged but by a push that has recorded its own.
ImplementsLedger == Ledger!LedgerSpec

-----------------------------------------------------------------------------
(* What the documents say and the code does not do *)

\* include/dal/RecordRepository.hpp 65: "Hard-delete all pending-delete
\* records for a zone (after successful push)": a row that goes was pushed,
\* also when edits fell between the steps of the push.
PurgeIsAlwaysDeployed ==
    [][\A t \in Workers : pc[t] = "purge" =>
         \A r \in rows : HasId(rows', r.id) \/ r.key \in Unmanaged \/ Gone(r)]_vars
=============================================================================
