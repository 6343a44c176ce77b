--------------------------- MODULE Deployment_proofs ---------------------------
(***************************************************************************)
(* What is proved of Deployment, and of Rollback and SyncCheck beside it,  *)
(* for every value of their constants.                                     *)
(***************************************************************************)
EXTENDS Rollback, SyncCheck, DiffEngine_proofs

-----------------------------------------------------------------------------
(* The operators the state is computed with *)

\* The statements of RecordRepository keep rows rows.
LEMMA RecordsType ==
    ASSUME NEW rs \in SUBSET Row, NEW i \in Ids, NEW k \in Keys, NEW c \in Contents,
           NEW b \in BOOLEAN
    PROVE  /\ Create(rs, i, k, c) \subseteq Row
           /\ Update(rs, i, k, c) \subseteq Row
           /\ Mark(rs, i, b) \subseteq Row
           /\ HardDeletePending(rs) \subseteq Row
<1>1. NewRow(i, k, c) \in Row
      BY DEF NewRow, Row
<1>2. \A r \in rs : (IF r.id = i THEN [r EXCEPT !.key = k, !.content = c] ELSE r) \in Row
      BY DEF Row
<1>3. \A r \in rs : (IF r.id = i THEN [r EXCEPT !.pending = b] ELSE r) \in Row
      BY DEF Row
<1> QED
    BY <1>1, <1>2, <1>3 DEF Create, Update, Mark, HardDeletePending

\* A history whose newest number exists: MAX(seq) is then what LastSeq says.
HasNewest(h) == h = {} \/ \E s \in Seqs(h) : \A u \in Seqs(h) : u <= s

LEMMA LastSeqIsMax ==
    ASSUME NEW h, Seqs(h) \subseteq Nat, HasNewest(h)
    PROVE  /\ LastSeq(h) \in Nat
           /\ \A u \in Seqs(h) : u <= LastSeq(h)
           /\ h # {} => LastSeq(h) \in Seqs(h)
<1>1. CASE h = {}
      BY <1>1 DEF LastSeq, Seqs
<1>2. CASE h # {}
  <2>1. \E s \in Seqs(h) : \A u \in Seqs(h) : u <= s
        BY <1>2 DEF HasNewest
  <2>2. LastSeq(h) = CHOOSE s \in Seqs(h) : \A u \in Seqs(h) : u <= s
        BY <1>2 DEF LastSeq
  <2>3. LastSeq(h) \in Seqs(h) /\ \A u \in Seqs(h) : u <= LastSeq(h)
        BY <2>1, <2>2
  <2> QED
      BY <2>3
<1> QED
    BY <1>1, <1>2

-----------------------------------------------------------------------------
(* Type correctness *)

LEMMA InitType == Init => TypeOK
<1> SUFFICES ASSUME Init PROVE TypeOK
    OBVIOUS
<1>1. nextId \in 1..(MaxId + 1)
      BY RecordsAssumption DEF Init
<1>2. NoActions \in [Keys -> Choices]
      BY DEF NoActions, Choices
<1>3. actions \in [Workers -> [Keys -> Choices]]
      BY <1>2 DEF Init
<1>4. pc \in [Workers -> {"idle"} \cup PushSteps \cup CaptureSteps]
      BY DEF Init
<1>5. diffs \in [Workers -> SUBSET Diff] /\ fetched \in [Workers -> SUBSET Entry]
      BY DEF Init
<1> QED
    BY <1>1, <1>3, <1>4, <1>5 DEF Init, TypeOK

LEMMA ReleaseType ==
    ASSUME TypeOK, NEW t \in Workers, Release(t)
    PROVE  /\ mutex' \in Workers \cup {NoWorker}
           /\ pc' \in [Workers -> {"idle"} \cup PushSteps \cup CaptureSteps]
           /\ diffs' \in [Workers -> SUBSET Diff]
           /\ actions' \in [Workers -> [Keys -> Choices]]
           /\ fetched' \in [Workers -> SUBSET Entry]
BY DEF TypeOK, Release, Goto, NoActions, Choices

\* A provider call maps listings to listings.
LEMMA ExecutedType ==
    ASSUME TypeOK, NEW t \in Workers, NEW d \in Diff, NEW recs \in SUBSET Record
    PROVE  Executed(t, d, recs) \subseteq Record
<1>1. NewRecord(d) \in Record
      BY DEF NewRecord, Record, Diff
<1> QED
    BY <1>1 DEF Executed

LEMMA EntryType ==
    ASSUME TypeOK
    PROVE  /\ {RowEntry(r) : r \in rows} \subseteq Entry
           /\ UNION {{LiveEntry(p, x) : x \in live[p]} : p \in Providers} \subseteq Entry
<1>1. \A r \in rows : RowEntry(r) \in Entry
      BY DEF TypeOK, Row, RowEntry, Entry
<1>2. \A p \in Providers : \A x \in live[p] : LiveEntry(p, x) \in Entry
      BY DEF TypeOK, Record, LiveEntry, Entry
<1> QED
    BY <1>1, <1>2

\* Numbers of the history; what LastSeq needs to be the newest of them.
HistoryOK ==
    /\ history \subseteq [seq : Nat, records : SUBSET Entry]
    /\ HasNewest(history)

LEMMA HistoryType ==
    ASSUME HistoryOK
    PROVE  /\ Seqs(history) \subseteq Nat
           /\ LastSeq(history) \in Nat
           /\ \A u \in Seqs(history) : u <= LastSeq(history)
           /\ history # {} => LastSeq(history) \in Seqs(history)
<1>1. Seqs(history) \subseteq Nat
      BY DEF HistoryOK, Seqs
<1> QED
    BY <1>1, LastSeqIsMax DEF HistoryOK

LEMMA CreateHistory ==
    ASSUME HistoryOK, NEW recs \in SUBSET Entry,
           history' = CreateDeployment(history, recs)
    PROVE  HistoryOK' /\ LastSeq(history') = LastSeq(history) + 1
                      /\ Seqs(history') = Seqs(history) \cup {LastSeq(history) + 1}
<1> DEFINE n == LastSeq(history) + 1
<1>1. n \in Nat /\ \A u \in Seqs(history) : u < n
      BY HistoryType
<1>2. Seqs(history') = Seqs(history) \cup {n}
  <2> DEFINE new == [seq |-> n, records |-> recs]
  <2>1. new.seq = n /\ history' = history \cup {new}
        BY DEF CreateDeployment
  <2> HIDE DEF new, n
  <2> QED
      BY <2>1 DEF Seqs
<1>3. history' \subseteq [seq : Nat, records : SUBSET Entry]
      BY <1>1 DEF CreateDeployment, HistoryOK
<1>4. \A u \in Seqs(history') : u <= n
      BY <1>1, <1>2, HistoryType
<1>5. HasNewest(history')
      BY <1>2, <1>4 DEF HasNewest
<1>6. Seqs(history') \subseteq Nat
      BY <1>1, <1>2, HistoryType
<1>7. history' # {}
      BY DEF CreateDeployment
<1>8. LastSeq(history') \in Seqs(history') /\ \A u \in Seqs(history') : u <= LastSeq(history')
      BY <1>5, <1>6, <1>7, LastSeqIsMax
<1>9. LastSeq(history') = n
  <2>1. n <= LastSeq(history') /\ LastSeq(history') <= n
        BY <1>2, <1>4, <1>8
  <2> QED
      BY <2>1, <1>1, <1>6, <1>8
<1> QED
    BY <1>2, <1>3, <1>5, <1>9 DEF HistoryOK

\* Pruning keeps the newest deployment or, asked to keep none, nothing at all.
LEMMA PruneHistory ==
    ASSUME HistoryOK, history' = Prune(history, Retention)
    PROVE  /\ HistoryOK'
           /\ Retention >= 1 => LastSeq(history') = LastSeq(history)
           /\ history' = {} \/ LastSeq(history') = LastSeq(history)
<1> DEFINE n == LastSeq(history)
<1>1. n \in Nat /\ Retention \in Int /\ \A u \in Seqs(history) : u \in Nat /\ u <= n
      BY HistoryType, DeploymentAssumption
<1>2. history' = {e \in history : e.seq > n - Retention}
      BY DEF Prune
<1>3. history' \subseteq history
      BY <1>2
<1>4. history' \subseteq [seq : Nat, records : SUBSET Entry]
      BY <1>3 DEF HistoryOK
<1>5. Seqs(history') \subseteq Seqs(history)
      BY <1>3 DEF Seqs
<1>6. CASE history = {}
      BY <1>6, <1>3, <1>4 DEF HistoryOK, HasNewest
<1>7. CASE history # {} /\ Retention < 1
  <2>1. \A e \in history : ~(e.seq > n - Retention)
    <3> SUFFICES ASSUME NEW e \in history PROVE ~(e.seq > n - Retention)
        OBVIOUS
    <3>1. e.seq \in Seqs(history)
          BY DEF Seqs
    <3> QED
        BY <3>1, <1>1, <1>7
  <2>2. history' = {}
        BY <2>1, <1>2
  <2> QED
      BY <2>2, <1>1, <1>4, <1>7 DEF HistoryOK, HasNewest
<1>8. CASE history # {} /\ Retention >= 1
  <2>1. PICK e \in history : e.seq = n
        BY <1>8, HistoryType DEF Seqs
  <2>2. e \in history'
        BY <2>1, <1>1, <1>2, <1>8
  <2>3. n \in Seqs(history')
        BY <2>1, <2>2 DEF Seqs
  <2>4. \A u \in Seqs(history') : u <= n
        BY <1>1, <1>5
  <2>5. HasNewest(history') /\ Seqs(history') \subseteq Nat /\ history' # {}
        BY <2>2, <2>3, <2>4, <1>1, <1>5 DEF HasNewest
  <2>6. LastSeq(history') \in Seqs(history') /\ \A u \in Seqs(history') : u <= LastSeq(history')
        BY <2>5, LastSeqIsMax
  <2>7. LastSeq(history') = n
        BY <2>3, <2>4, <2>5, <2>6, <1>1
  <2> QED
      BY <2>5, <2>7, <1>4 DEF HistoryOK
<1> QED
    BY <1>1, <1>6, <1>7, <1>8

TypeInv == TypeOK /\ HasNewest(history)

LEMMA TypeInvHistory == TypeInv => HistoryOK
BY DEF TypeInv, TypeOK, HistoryOK

\* Every step of a worker keeps the types.
LEMMA PushType ==
    ASSUME TypeInv, NEW t \in Workers, Push(t)
    PROVE  TypeInv'
<1> USE DEF TypeInv, store, locals, ghosts
<1>1. CASE PushLock(t)
      BY <1>1 DEF TypeOK, PushLock, Goto, PushSteps
<1>2. CASE PushPreview(t)
  <2>1. Preview(rows, live) \subseteq Diff
        BY PreviewType DEF TypeOK
  <2>2. UNCHANGED <<rows, nextId, live, history, sync>> /\ base' = live /\ quiet' = TRUE
        BY <1>2 DEF PushPreview
  <2>3. CASE Release(t)
        BY <2>2, <2>3, ReleaseType DEF TypeOK
  <2>4. CASE /\ Goto(t, "gate")
             /\ diffs' = [diffs EXCEPT ![t] = Preview(rows, live)]
             /\ UNCHANGED <<mutex, actions, fetched>>
        BY <2>1, <2>2, <2>4 DEF TypeOK, Goto, PushSteps
  <2> QED
      BY <1>2, <2>3, <2>4 DEF PushPreview
<1>3. CASE PushRefused(t)
      BY <1>3, ReleaseType DEF TypeOK, PushRefused
<1>4. CASE PushAccepted(t)
      BY <1>4 DEF TypeOK, PushAccepted, Goto, PushSteps
<1>5. CASE PushExecute(t)
  <2>1. PICK d \in NextDiffs(t) :
              /\ live' = [live EXCEPT ![d.prov] = Executed(t, d, @)]
              /\ diffs' = [diffs EXCEPT ![t] = @ \ {d}]
        BY <1>5 DEF PushExecute
  <2>2. d \in Diff /\ d.prov \in Providers
        BY DEF NextDiffs, TypeOK, Diff
  <2>3. Executed(t, d, live[d.prov]) \subseteq Record
        BY <2>2, ExecutedType DEF TypeOK
  <2>4. live' \in [Providers -> SUBSET Record]
        BY <2>1, <2>2, <2>3 DEF TypeOK
  <2>5. diffs' \in [Workers -> SUBSET Diff]
        BY <2>1 DEF TypeOK
  <2> QED
      BY <1>5, <2>4, <2>5 DEF TypeOK, PushExecute
<1>6. CASE PushAdopt(t)
  <2>1. PICK d \in NextDiffs(t) :
              /\ nextId <= MaxId
              /\ rows' = Create(rows, nextId, d.key, d.old)
              /\ nextId' = nextId + 1
              /\ diffs' = [diffs EXCEPT ![t] = @ \ {d}]
        BY <1>6 DEF PushAdopt
  <2>2. d.key \in Keys /\ d.old \in Contents
        BY DEF NextDiffs, TypeOK, Diff
  <2>3. nextId \in Ids /\ nextId' \in 1..(MaxId + 1)
        BY <2>1, RecordsAssumption DEF TypeOK, Ids
  <2>4. rows' \subseteq Row
        BY <2>1, <2>2, <2>3, RecordsType DEF TypeOK
  <2>5. diffs' \in [Workers -> SUBSET Diff]
        BY <2>1 DEF TypeOK
  <2> QED
      BY <1>6, <2>3, <2>4, <2>5 DEF TypeOK, PushAdopt
<1>7. CASE PushAdoptFails(t)
      BY <1>7, ReleaseType DEF TypeOK, PushAdoptFails
<1>8. CASE PushIgnore(t)
  <2>1. PICK d \in NextDiffs(t) : diffs' = [diffs EXCEPT ![t] = @ \ {d}]
        BY <1>8 DEF PushIgnore
  <2>2. diffs' \in [Workers -> SUBSET Diff]
        BY <2>1 DEF TypeOK
  <2> QED
      BY <1>8, <2>2 DEF TypeOK, PushIgnore
<1>9. CASE PushProviderError(t)
  <2>1. PICK d \in NextDiffs(t) : \E recs \in Failed(t, d, live[d.prov]) :
                                     live' = [live EXCEPT ![d.prov] = recs]
        BY <1>9 DEF PushProviderError
  <2>2. d \in Diff /\ d.prov \in Providers
        BY DEF NextDiffs, TypeOK, Diff
  <2>3. \A recs \in Failed(t, d, live[d.prov]) : recs \subseteq Record
        BY <2>2, ExecutedType DEF TypeOK, Failed
  <2>4. live' \in [Providers -> SUBSET Record]
        BY <2>1, <2>2, <2>3 DEF TypeOK
  <2> QED
      BY <1>9, <2>4, ReleaseType DEF TypeOK, PushProviderError
<1>10. CASE PushSnapshot(t)
  <2>1. HistoryOK'
        BY <1>10, TypeInvHistory, EntryType, CreateHistory DEF PushSnapshot
  <2> QED
      BY <1>10, <2>1 DEF TypeOK, HistoryOK, PushSnapshot, Goto, PushSteps
<1>11. CASE PushPrune(t)
  <2>1. HistoryOK'
        BY <1>11, TypeInvHistory, PruneHistory DEF PushPrune
  <2> QED
      BY <1>11, <2>1 DEF TypeOK, HistoryOK, PushPrune, Goto, PushSteps
<1>12. CASE PushPurge(t)
  <2>1. rows' \subseteq Row
        BY <1>12 DEF PushPurge, HardDeletePending, TypeOK
  <2> QED
      BY <1>12, <2>1 DEF TypeOK, PushPurge, Goto, PushSteps
<1>13. CASE PushStatus(t)
      BY <1>13, ReleaseType DEF TypeOK, PushStatus
<1> QED
    BY <1>1, <1>2, <1>3, <1>4, <1>5, <1>6, <1>7, <1>8, <1>9, <1>10,
       <1>11, <1>12, <1>13 DEF Push

LEMMA CaptureType ==
    ASSUME TypeInv, NEW t \in Workers, Capture(t) \/ Throw(t)
    PROVE  TypeInv'
<1> USE DEF TypeInv, store, locals, ghosts
<1>1. CASE CaptureLock(t)
      BY <1>1 DEF TypeOK, CaptureLock, Goto, CaptureSteps
<1>2. CASE CaptureFetch(t)
      BY <1>2, EntryType DEF TypeOK, CaptureFetch, Goto, CaptureSteps
<1>3. CASE CaptureStore(t)
  <2>1. fetched[t] \in SUBSET Entry
        BY DEF TypeOK
  <2>2. HistoryOK'
        BY <1>3, <2>1, TypeInvHistory, CreateHistory DEF CaptureStore
  <2> QED
      BY <1>3, <2>2, ReleaseType DEF TypeOK, HistoryOK, CaptureStore
<1>4. CASE Throw(t)
      BY <1>4, ReleaseType DEF TypeOK, Throw
<1> QED
    BY <1>1, <1>2, <1>3, <1>4 DEF Capture

LEMMA BesideType ==
    ASSUME TypeInv, Edit \/ OutOfBand \/ Restart
    PROVE  TypeInv'
<1> USE DEF TypeInv, store, locals, ghosts, Others
<1>1. CASE AddRecord
  <2>1. PICK k \in Keys, c \in Contents : rows' = Create(rows, nextId, k, c)
        BY <1>1 DEF AddRecord
  <2>2. nextId \in Ids /\ nextId' \in 1..(MaxId + 1)
        BY <1>1, RecordsAssumption DEF AddRecord, TypeOK, Ids
  <2>3. rows' \subseteq Row
        BY <2>1, <2>2, RecordsType DEF TypeOK
  <2> QED
      BY <1>1, <2>2, <2>3 DEF TypeOK, AddRecord
<1>2. CASE EditRecord
  <2>1. PICK r \in rows, k \in Keys, c \in Contents : rows' = Update(rows, r.id, k, c)
        BY <1>2 DEF EditRecord
  <2>2. r.id \in Ids
        BY DEF TypeOK, Row
  <2>3. rows' \subseteq Row
        BY <2>1, <2>2, RecordsType DEF TypeOK
  <2> QED
      BY <1>2, <2>3 DEF TypeOK, EditRecord
<1>3. CASE DeleteRecord \/ RestoreRecord
  <2>1. PICK r \in rows, b \in BOOLEAN : rows' = Mark(rows, r.id, b)
        BY <1>3 DEF DeleteRecord, RestoreRecord
  <2>2. rows' \subseteq Row
        BY <2>1 DEF TypeOK, Row, Mark
  <2> QED
      BY <1>3, <2>2 DEF TypeOK, DeleteRecord, RestoreRecord
<1>4. CASE OutOfBand
  <2>1. PICK p \in Providers, x \in Record :
          live' = [live EXCEPT ![p] = IF x \in @ THEN @ \ {x} ELSE @ \cup {x}]
        BY <1>4 DEF OutOfBand
  <2>2. live' \in [Providers -> SUBSET Record]
        BY <2>1 DEF TypeOK
  <2> QED
      BY <1>4, <2>2 DEF TypeOK, OutOfBand
<1>5. CASE Restart
  <2>1. NoActions \in [Keys -> Choices]
        BY DEF NoActions, Choices
  <2> QED
      BY <1>5, <2>1 DEF TypeOK, Restart, Killed
<1> QED
    BY <1>1, <1>2, <1>3, <1>4, <1>5 DEF Edit

LEMMA TypeInvariant == Spec => []TypeInv
<1>1. Init => TypeInv
      BY InitType DEF TypeInv, Init, HasNewest
<1>2. TypeInv /\ [Next]_vars => TypeInv'
  <2>1. CASE Next
        BY <2>1, PushType, CaptureType, BesideType DEF Next
  <2>2. CASE UNCHANGED vars
        BY <2>2 DEF TypeInv, TypeOK, HasNewest, vars
  <2> QED
      BY <2>1, <2>2
<1> QED
    BY <1>1, <1>2, PTL DEF Spec

\* The state of Deployment has its types in every behaviour of the engine.
THEOREM TypeCorrect == Spec => []TypeOK
<1>1. TypeInv => TypeOK
      BY DEF TypeInv
<1> QED
    BY <1>1, TypeInvariant, PTL

-----------------------------------------------------------------------------
(* Mutual exclusion *)

\* Release gives back the mutex of the worker that ran.
LEMMA ReleaseMutex ==
    ASSUME TypeOK, MutexInv, NEW t \in Workers, pc[t] # "idle", Release(t)
    PROVE  MutexInv'
BY DeploymentAssumption DEF TypeOK, MutexInv, Release, Goto

\* A step of the holder that keeps the mutex and does not finish.
LEMMA KeepMutex ==
    ASSUME TypeOK, MutexInv, NEW t \in Workers, pc[t] # "idle", NEW s, s # "idle",
           Goto(t, s), mutex' = mutex
    PROVE  MutexInv'
BY DEF TypeOK, MutexInv, Goto

LEMMA MutexNext == TypeOK /\ MutexInv /\ [Next]_vars => MutexInv'
<1> SUFFICES ASSUME TypeOK, MutexInv, [Next]_vars PROVE MutexInv'
    OBVIOUS
<1> USE DEF store, locals, ghosts
<1>1. ASSUME NEW t \in Workers, PushLock(t) \/ CaptureLock(t)
      PROVE  MutexInv'
      BY <1>1, DeploymentAssumption DEF PushLock, CaptureLock, Goto, TypeOK, MutexInv
<1>2. ASSUME NEW t \in Workers, PushPreview(t)
      PROVE  MutexInv'
  <2>1. CASE Release(t)
        BY <1>2, <2>1, ReleaseMutex DEF PushPreview
  <2>2. CASE Goto(t, "gate") /\ mutex' = mutex
        BY <1>2, <2>2, KeepMutex DEF PushPreview
  <2> QED
      BY <1>2, <2>1, <2>2 DEF PushPreview
<1>3. ASSUME NEW t \in Workers,
             \/ PushRefused(t) \/ PushAdoptFails(t) \/ PushProviderError(t)
             \/ PushStatus(t) \/ CaptureStore(t) \/ Throw(t)
      PROVE  MutexInv'
  <2>1. Release(t) /\ pc[t] # "idle"
        BY <1>3 DEF PushRefused, PushAdoptFails, PushProviderError,
                    PushStatus, CaptureStore, Throw
  <2> QED
      BY <2>1, ReleaseMutex
<1>4. ASSUME NEW t \in Workers,
             PushAccepted(t) \/ PushSnapshot(t) \/ PushPrune(t) \/ PushPurge(t) \/ CaptureFetch(t)
      PROVE  MutexInv'
  <2>1. /\ pc[t] # "idle" /\ mutex' = mutex
        /\ \E s \in {"execute", "prune", "purge", "status", "store"} : Goto(t, s)
        BY <1>4 DEF PushAccepted, PushSnapshot, PushPrune, PushPurge, CaptureFetch
  <2> QED
      BY <2>1, KeepMutex
<1>5. ASSUME NEW t \in Workers, PushExecute(t) \/ PushAdopt(t) \/ PushIgnore(t)
      PROVE  MutexInv'
  <2>1. UNCHANGED <<mutex, pc>>
        BY <1>5 DEF PushExecute, PushAdopt, PushIgnore
  <2> QED
      BY <2>1 DEF MutexInv
<1>6. CASE Edit \/ OutOfBand \/ UNCHANGED vars
  <2>1. UNCHANGED <<mutex, pc>>
        BY <1>6 DEF Edit, AddRecord, EditRecord, DeleteRecord, RestoreRecord,
                    OutOfBand, Others, vars
  <2> QED
      BY <2>1 DEF MutexInv
<1>7. CASE Restart
      BY <1>7, DeploymentAssumption DEF Restart, Killed, MutexInv
<1> QED
    BY <1>1, <1>2, <1>3, <1>4, <1>5, <1>6, <1>7 DEF Next, Push, Capture

\* At most one worker is inside push or capture, and the mutex is locked
\* exactly while one is: the lock_guard of push and capture never leaks it.
THEOREM MutualExclusion == Spec => []MutexInv
<1>1. Init => MutexInv
      BY DeploymentAssumption DEF Init, MutexInv
<1> QED
    BY <1>1, MutexNext, TypeCorrect, PTL DEF Spec

-----------------------------------------------------------------------------
(* The deployment history *)

\* Only three steps touch the history.
LEMMA HistorySteps ==
    ASSUME [Next]_vars
    PROVE  \/ history' = history
           \/ \E t \in Workers : PushSnapshot(t) \/ PushPrune(t) \/ CaptureStore(t)
BY DEF Next, Push, Capture, Edit, vars, Others, PushLock, PushPreview, PushRefused,
       PushAccepted, PushExecute, PushAdopt, PushAdoptFails, PushIgnore, PushProviderError,
       PushPurge, PushStatus, CaptureLock, CaptureFetch, Throw, AddRecord,
       EditRecord, DeleteRecord, RestoreRecord, OutOfBand, Restart, Killed

\* A history step is an insert of the next number or a prune.
LEMMA HistoryChange ==
    ASSUME TypeInv, [Next]_vars
    PROVE  \/ history' = history
           \/ \E recs \in SUBSET Entry : history' = CreateDeployment(history, recs)
           \/ history' = Prune(history, Retention)
<1>1. ASSUME NEW t \in Workers, PushSnapshot(t)
      PROVE  \E recs \in SUBSET Entry : history' = CreateDeployment(history, recs)
      BY <1>1, EntryType DEF PushSnapshot, TypeInv
<1>2. ASSUME NEW t \in Workers, CaptureStore(t)
      PROVE  \E recs \in SUBSET Entry : history' = CreateDeployment(history, recs)
      BY <1>2 DEF CaptureStore, TypeInv, TypeOK
<1> QED
    BY <1>1, <1>2, HistorySteps DEF PushPrune

LEMMA HistoryNext == TypeInv /\ HistoryInv /\ [Next]_vars => HistoryInv'
<1> SUFFICES ASSUME TypeInv, HistoryInv, [Next]_vars PROVE HistoryInv'
    OBVIOUS
<1> DEFINE n == LastSeq(history)
<1>1. HistoryOK
      BY TypeInvHistory
<1>2. n \in Nat /\ \A u \in Seqs(history) : u \in Nat /\ u <= n
      BY <1>1, HistoryType
<1>3. CASE history' = history
      BY <1>3 DEF HistoryInv, Seqs, LastSeq
<1>4. ASSUME NEW recs \in SUBSET Entry, history' = CreateDeployment(history, recs)
      PROVE  HistoryInv'
  <2> DEFINE new == [seq |-> n + 1, records |-> recs]
  <2>1. history' = history \cup {new} /\ new.seq = n + 1
        BY <1>4 DEF CreateDeployment
  <2>2. LastSeq(history') = n + 1 /\ Seqs(history') = Seqs(history) \cup {n + 1}
        BY <1>1, <1>4, CreateHistory
  <2> HIDE DEF new, n
  <2>3. \A e \in history : e.seq \in Nat /\ e.seq <= n
        BY <1>2 DEF Seqs
  <2>4. \A d, e \in history' : d.seq = e.seq => d = e
        BY <1>2, <2>1, <2>3 DEF HistoryInv
  <2>5. ASSUME NEW e \in history', NEW s \in e.seq .. LastSeq(history')
        PROVE  s \in Seqs(history')
    <3>1. CASE s = n + 1
          BY <3>1, <2>2
    <3>2. CASE s # n + 1
      <4>1. e \in history /\ s \in e.seq .. n
            BY <3>2, <1>2, <2>1, <2>2, <2>3
      <4> QED
          BY <4>1, <2>2 DEF HistoryInv, n
    <3> QED
        BY <3>1, <3>2
  <2> QED
      BY <2>4, <2>5 DEF HistoryInv
<1>5. CASE history' = Prune(history, Retention)
  <2>1. history' \subseteq history /\ history' = {e \in history : e.seq > n - Retention}
        BY <1>5 DEF Prune
  <2>2. \A d, e \in history' : d.seq = e.seq => d = e
        BY <2>1 DEF HistoryInv
  <2>3. ASSUME NEW e \in history', NEW s \in e.seq .. LastSeq(history')
        PROVE  s \in Seqs(history')
    <3>1. LastSeq(history') = n
          BY <1>1, <1>5, <2>3, PruneHistory
    <3>2. e.seq \in Nat /\ e.seq > n - Retention /\ e \in history
          BY <2>1, <1>2 DEF Seqs
    <3>3. s \in Nat /\ s \in e.seq .. n
          BY <3>1, <3>2, <1>2, <2>3
    <3>4. s \in Seqs(history)
          BY <3>2, <3>3 DEF HistoryInv
    <3>5. PICK f \in history : f.seq = s
          BY <3>4 DEF Seqs
    <3>6. f \in history'
          BY <2>1, <3>2, <3>3, <3>5, <1>2, DeploymentAssumption
    <3> QED
        BY <3>5, <3>6 DEF Seqs
  <2> QED
      BY <2>2, <2>3 DEF HistoryInv
<1> QED
    BY <1>3, <1>4, <1>5, HistoryChange

\* One deployment for each number and no gap below the newest, whatever pushes,
\* captures, failures and restarts do to the history.
THEOREM HistoryCorrect == Spec => []HistoryInv
<1>1. Init => HistoryInv
      BY DEF Init, HistoryInv
<1> QED
    BY <1>1, HistoryNext, TypeInvariant, PTL DEF Spec

\* With a retention of at least 1 - the minimum Config.cpp 177 asks of the
\* environment - a sequence number is never handed out twice.
THEOREM NumbersAreFresh == Retention >= 1 /\ Spec => SeqNeverReused
<1>1. ASSUME Retention >= 1, TypeInv, [Next]_vars
      PROVE  LastSeq(history') >= LastSeq(history)
  <2>1. HistoryOK
        BY <1>1, TypeInvHistory
  <2>2. LastSeq(history) \in Nat
        BY <2>1, HistoryType
  <2>3. CASE history' = history
        BY <2>2, <2>3
  <2>4. ASSUME NEW recs \in SUBSET Entry, history' = CreateDeployment(history, recs)
        PROVE  LastSeq(history') >= LastSeq(history)
        BY <2>1, <2>2, <2>4, CreateHistory
  <2>5. CASE history' = Prune(history, Retention)
        BY <1>1, <2>1, <2>2, <2>5, PruneHistory
  <2> QED
      BY <1>1, <2>3, <2>4, <2>5, HistoryChange
<1>2. Retention >= 1 /\ TypeInv /\ [Next]_vars => [LastSeq(history') >= LastSeq(history)]_vars
      BY <1>1
<1>3. CASE Retention >= 1
  <2>1. TypeInv /\ [Next]_vars => [LastSeq(history') >= LastSeq(history)]_vars
        BY <1>2, <1>3
  <2> QED
      BY <2>1, TypeInvariant, PTL DEF Spec, SeqNeverReused
<1>4. CASE ~(Retention >= 1)
      BY <1>4
<1> QED
    BY <1>3, <1>4

\* The numbers a prune keeps are the last n, and no two deployments share one.
LEMMA PruneBound ==
    ASSUME NEW n \in Nat, NEW m \in Int, NEW h, Seqs(h) \subseteq Int,
           \A d, e \in h : d.seq = e.seq => d = e,
           \A e \in h : e.seq > m - n /\ e.seq <= m
    PROVE  Cardinality(h) <= n
<1> DEFINE f == [e \in h |-> e.seq - (m - n)]
<1>1. \A e \in h : e.seq \in Int
      BY DEF Seqs
<1>2. \A e \in h : e.seq - (m - n) \in 1..n
      BY <1>1
<1>3. f \in [h -> 1..n]
      BY <1>2
<1>4. \A d, e \in h : f[d] = f[e] => d = e
      BY <1>1
<1>5. f \in Injection(h, 1..n)
      BY <1>3, <1>4 DEF Injection, IsInjective
<1>6. IsFiniteSet(1..n) /\ Cardinality(1..n) = n
      BY FS_Interval
<1> QED
    BY <1>5, <1>6, FS_Injection

LEMMA RetentionNext ==
    ASSUME Retention \in Nat, TypeInv, MutexInv, HistoryInv, WithinRetention, [Next]_vars
    PROVE  WithinRetention'
<1> SUFFICES ASSUME NEW t \in Workers, pc'[t] = "purge"
             PROVE  Cardinality(history') <= Retention
    BY DEF WithinRetention
<1>1. CASE pc[t] = "purge"
  <2>1. \A u \in Workers : ~PushSnapshot(u) /\ ~PushPrune(u) /\ ~CaptureStore(u)
        BY <1>1 DEF MutexInv, PushSnapshot, PushPrune, CaptureStore
  <2>2. history' = history
        BY <2>1, HistorySteps
  <2> QED
      BY <1>1, <2>2 DEF WithinRetention
<1>2. CASE pc[t] # "purge"
  <2>1. history' = Prune(history, Retention)
        BY <1>2 DEF TypeInv, TypeOK, Next, Push, Capture, Edit, vars, Others, store, locals, ghosts,
           Goto, Release, PushLock, PushPreview, PushRefused, PushAccepted, PushExecute,
           PushAdopt, PushAdoptFails, PushIgnore, PushProviderError, PushSnapshot, PushPrune,
           PushPurge, PushStatus, CaptureLock, CaptureFetch, CaptureStore, Throw, AddRecord,
           EditRecord, DeleteRecord, RestoreRecord, OutOfBand, Restart, Killed
  <2>2. /\ LastSeq(history) \in Nat
        /\ \A u \in Seqs(history) : u \in Nat /\ u <= LastSeq(history)
        BY TypeInvHistory, HistoryType
  <2>3. history' \subseteq history /\ \A e \in history' : e.seq > LastSeq(history) - Retention
        BY <2>1 DEF Prune
  <2>4. Seqs(history') \subseteq Int /\ \A e \in history' : e.seq <= LastSeq(history)
        BY <2>2, <2>3 DEF Seqs
  <2>5. \A d, e \in history' : d.seq = e.seq => d = e
        BY <2>3 DEF HistoryInv
  <2> QED
      BY <2>2, <2>3, <2>4, <2>5, PruneBound
<1> QED
    BY <1>1, <1>2

\* After its prune a push leaves at most Retention snapshots, whatever captures
\* and failed pushes added before it (DeploymentRepository::pruneByRetention).
THEOREM RetentionKept == Retention \in Nat /\ Spec => []WithinRetention
<1>1. Init => WithinRetention
      BY DEF Init, WithinRetention
<1>2. CASE Retention \in Nat
  <2>1. TypeInv /\ MutexInv /\ HistoryInv /\ WithinRetention /\ [Next]_vars => WithinRetention'
        BY <1>2, RetentionNext
  <2> QED
      BY <1>1, <2>1, TypeInvariant, MutualExclusion, HistoryCorrect, PTL DEF Spec
<1>3. CASE Retention \notin Nat
      BY <1>3
<1> QED
    BY <1>2, <1>3

-----------------------------------------------------------------------------
(* What a push may take away *)

\* The diffs a push still has, while nobody disturbed it, have a row behind them.
ConsentInv ==
    \A t \in Workers : pc[t] \in {"gate", "execute"} /\ quiet =>
        \A d \in diffs[t] : Justified(d, rows)

\* An adopted record is a row more, which takes no justification away.
LEMMA JustifiedGrows ==
    ASSUME NEW d, NEW rs, NEW i, NEW k, NEW c, Justified(d, rs)
    PROVE  Justified(d, Create(rs, i, k, c))
BY DEF Justified, Create

\* A worker that returned has no diffs, and the others have none while it runs.
LEMMA ReleaseConsent ==
    ASSUME TypeOK, MutexInv, NEW t \in Workers, pc[t] # "idle", Release(t)
    PROVE  ConsentInv'
<1>1. \A u \in Workers : pc'[u] = "idle"
      BY DEF TypeOK, MutexInv, Release, Goto
<1> QED
    BY <1>1 DEF ConsentInv

LEMMA ConsentNext == TypeOK /\ MutexInv /\ ConsentInv /\ [Next]_vars => ConsentInv'
<1> SUFFICES ASSUME TypeOK, MutexInv, ConsentInv, [Next]_vars PROVE ConsentInv'
    OBVIOUS
<1> USE DEF store, locals, ghosts
<1>1. ASSUME NEW t \in Workers, PushLock(t) \/ CaptureLock(t)
      PROVE  ConsentInv'
      BY <1>1 DEF PushLock, CaptureLock, Goto, TypeOK, ConsentInv
<1>2. ASSUME NEW t \in Workers, PushPreview(t)
      PROVE  ConsentInv'
  <2>1. CASE Release(t)
        BY <1>2, <2>1, ReleaseConsent DEF PushPreview
  <2>2. CASE Goto(t, "gate") /\ diffs' = [diffs EXCEPT ![t] = Preview(rows, live)]
    <3>1. \A d \in Preview(rows, live) : Justified(d, rows)
          BY PreviewJustified DEF TypeOK
    <3>2. rows' = rows
          BY <1>2 DEF PushPreview
    <3>3. \A u \in Workers : u # t => pc'[u] = "idle"
          BY <1>2, <2>2 DEF PushPreview, Goto, TypeOK, MutexInv
    <3> QED
        BY <2>2, <3>1, <3>2, <3>3 DEF TypeOK, ConsentInv
  <2> QED
      BY <1>2, <2>1, <2>2 DEF PushPreview
<1>3. ASSUME NEW t \in Workers,
             \/ PushRefused(t) \/ PushAdoptFails(t) \/ PushProviderError(t)
             \/ PushStatus(t) \/ CaptureStore(t) \/ Throw(t)
      PROVE  ConsentInv'
  <2>1. Release(t) /\ pc[t] # "idle"
        BY <1>3 DEF PushRefused, PushAdoptFails, PushProviderError,
                    PushStatus, CaptureStore, Throw
  <2> QED
      BY <2>1, ReleaseConsent
<1>4. ASSUME NEW t \in Workers, PushAccepted(t)
      PROVE  ConsentInv'
      BY <1>4 DEF PushAccepted, Goto, TypeOK, ConsentInv
<1>5. ASSUME NEW t \in Workers,
             PushSnapshot(t) \/ PushPrune(t) \/ PushPurge(t) \/ CaptureFetch(t)
      PROVE  ConsentInv'
  <2>1. /\ pc[t] # "idle"
        /\ \E s \in {"prune", "purge", "status", "store"} : Goto(t, s)
        BY <1>5 DEF PushSnapshot, PushPrune, PushPurge, CaptureFetch
  <2>2. \A u \in Workers : pc'[u] \notin {"gate", "execute"}
        BY <2>1 DEF Goto, TypeOK, MutexInv
  <2> QED
      BY <2>2 DEF ConsentInv
<1>6. ASSUME NEW t \in Workers, PushExecute(t) \/ PushIgnore(t)
      PROVE  ConsentInv'
  <2>1. /\ UNCHANGED <<pc, quiet, rows>>
        /\ \E d : diffs' = [diffs EXCEPT ![t] = @ \ {d}]
        BY <1>6 DEF PushExecute, PushIgnore
  <2> QED
      BY <2>1 DEF TypeOK, ConsentInv
<1>7. ASSUME NEW t \in Workers, PushAdopt(t)
      PROVE  ConsentInv'
  <2>1. /\ UNCHANGED <<pc, quiet>>
        /\ \E d : /\ diffs' = [diffs EXCEPT ![t] = @ \ {d}]
                  /\ rows' = Create(rows, nextId, d.key, d.old)
        BY <1>7 DEF PushAdopt
  <2>2. \A d : Justified(d, rows) => Justified(d, rows')
        BY <2>1, JustifiedGrows
  <2>3. \A u \in Workers : diffs'[u] \subseteq diffs[u]
        BY <2>1 DEF TypeOK
  <2> QED
      BY <2>1, <2>2, <2>3 DEF ConsentInv
<1>8. CASE Edit \/ OutOfBand
  <2>1. quiet' = FALSE
        BY <1>8 DEF Edit, AddRecord, EditRecord, DeleteRecord, RestoreRecord, OutOfBand
  <2> QED
      BY <2>1 DEF ConsentInv
<1>9. CASE Restart
  <2>1. \A t \in Workers : pc'[t] = "idle"
        BY <1>9 DEF Restart, Killed
  <2> QED
      BY <2>1 DEF ConsentInv
<1>10. CASE UNCHANGED vars
       BY <1>10 DEF vars, ConsentInv
<1> QED
    BY <1>1, <1>2, <1>3, <1>4, <1>5, <1>6, <1>7, <1>8, <1>9, <1>10 DEF Next, Push, Capture

\* A provider call takes away at most the old record of its diff, and only for
\* an update or a removal.
LEMMA CallTakes ==
    ASSUME NEW t, NEW d, NEW recs, NEW after, NEW x \in recs \ after,
           CallsProvider(t, d), after \in Failed(t, d, recs)
    PROVE  x = OldRecord(d) /\ (Removes(t, d) \/ d.op = "update")
<1>1. \A y \in recs \ Executed(t, d, recs) :
         y = OldRecord(d) /\ (Removes(t, d) \/ d.op = "update")
      BY DEF Executed
<1>2. \/ after = recs
      \/ after = Executed(t, d, recs)
      \/ d.op = "update" /\ after = recs \ {OldRecord(d)}
      BY DEF Failed
<1> QED
    BY <1>1, <1>2

\* Who took a record away: the undisturbed push that runs.
LEMMA TakenByPush ==
    ASSUME TypeOK, MutexInv, [Next]_vars, quiet',
           NEW t \in Workers, pc[t] = "execute",
           NEW p \in Providers, NEW x \in live[p] \ live'[p]
    PROVE  \E d \in diffs[t] : /\ d.prov = p
                               /\ x = OldRecord(d)
                               /\ Removes(t, d) \/ d.op = "update"
<1>1. live' # live
      OBVIOUS
<1>2. PICK u \in Workers : PushExecute(u) \/ PushProviderError(u)
      BY <1>1 DEF Next, Push, Capture, Edit, vars, Others, store, locals, ghosts, PushLock,
         PushPreview, PushRefused, PushAccepted, PushAdopt, PushAdoptFails, PushIgnore,
         PushSnapshot, PushPrune, PushPurge, PushStatus, CaptureLock, CaptureFetch,
         CaptureStore, Throw, AddRecord, EditRecord, DeleteRecord, RestoreRecord, OutOfBand,
         Restart, Killed
<1>3. pc[u] = "execute"
      BY <1>2 DEF PushExecute, PushProviderError
<1>4. u = t
      BY <1>3 DEF MutexInv
<1>5. PICK d \in diffs[t] :
         /\ CallsProvider(t, d)
         /\ \E after \in Failed(t, d, live[d.prov]) : live' = [live EXCEPT ![d.prov] = after]
      BY <1>2, <1>4 DEF PushExecute, PushProviderError, NextDiffs, Failed
<1>6. PICK after \in Failed(t, d, live[d.prov]) : live' = [live EXCEPT ![d.prov] = after]
      BY <1>5
<1>7. d.prov = p /\ live'[p] = after
      BY <1>6 DEF TypeOK
<1>8. x = OldRecord(d) /\ (Removes(t, d) \/ d.op = "update")
      BY <1>5, <1>6, <1>7, CallTakes
<1> QED
    BY <1>7, <1>8

\* A push nobody disturbs takes away or overwrites a live record only where the
\* zone has a row for it or the operator answered "delete", and never one of an
\* unmanaged type: executeDiffs acts on nothing the preview did not find.
THEOREM DriftNeedsConsent == Spec => ConsentForDrift
<1> DEFINE Consent ==
      \A t \in Workers, p \in Providers :
         pc[t] = "execute" /\ quiet /\ quiet' =>
           \A x \in live[p] \ live'[p] :
             /\ x.key \notin Unmanaged
             /\ \/ actions[t][x.key] = "delete"
                \/ \E r \in rows : r.key = x.key /\ (r.pending \/ x.key \in Carried[p])
<1>1. Init => ConsentInv
      BY DEF Init, ConsentInv
<1>2. TypeOK /\ MutexInv /\ ConsentInv /\ [Next]_vars => Consent
  <2> SUFFICES ASSUME TypeOK, MutexInv, ConsentInv, [Next]_vars,
                      NEW t \in Workers, NEW p \in Providers,
                      pc[t] = "execute", quiet, quiet',
                      NEW x \in live[p] \ live'[p]
               PROVE  /\ x.key \notin Unmanaged
                      /\ \/ actions[t][x.key] = "delete"
                         \/ \E r \in rows : r.key = x.key /\ (r.pending \/ x.key \in Carried[p])
      OBVIOUS
  <2>1. PICK d \in diffs[t] : /\ d.prov = p
                              /\ x = OldRecord(d)
                              /\ Removes(t, d) \/ d.op = "update"
        BY TakenByPush
  <2>2. x.key = d.key
        BY <2>1 DEF OldRecord
  <2>3. Justified(d, rows)
        BY DEF ConsentInv
  <2>4. CASE d.op \in {"update", "delete"}
        BY <2>1, <2>2, <2>3, <2>4 DEF Justified
  <2>5. CASE d.op \notin {"update", "delete"}
        BY <2>1, <2>2, <2>3, <2>5 DEF Justified, Removes
  <2> QED
      BY <2>4, <2>5
<1>3. TypeOK /\ MutexInv /\ ConsentInv /\ [Next]_vars => [Consent]_vars
      BY <1>2
<1> QED
    BY <1>1, <1>3, ConsentNext, TypeCorrect, MutualExclusion, PTL DEF Spec, ConsentForDrift

-----------------------------------------------------------------------------
(* What an undisturbed push comes to *)

\* No provider lists two records with one value, however it is spelled.
ListedOnce == \A p \in Providers : \A x, y \in base[p] : Same(x, y) => x = y

\* The diff d takes x away from p, or leaves it to the operator.
Names(d, p, x) == d.prov = p /\ d.op # "add" /\ OldRecord(d) = x

Writes(d) == d.op \in {"update", "add"}

\* The rows p is to serve whatever was drift: of keys where none is adopted.
Wanted(p, acts, rs) == {q \in Desired(p, rs) : acts[q.key] # "adopt"}

\* What is written is a row.
WritesRows(ds, rs) ==
    \A d \in ds : Writes(d) => \E q \in Desired(d.prov, rs) : NewRecord(d) = RecordOf(q)

\* What is overwritten is there, and nothing else is done to it.
UpdatesApart(ds, lv) ==
    \A d \in ds : d.op = "update" =>
        /\ OldRecord(d) \in lv[d.prov]
        /\ \A e \in ds : Names(e, d.prov, OldRecord(d)) => e = d

\* Nothing that is wanted is overwritten or drift.
TakesNoWanted(ds, acts, rs) ==
    \A d \in ds : d.op \in {"update", "drift"} =>
        \A q \in Wanted(d.prov, acts, rs) : ~Same(q, OldRecord(d))

\* What is wanted is there and stays, or is still to be written.
EachWanted(ds, acts, rs, lv) ==
    \A p \in Providers : \A q \in Wanted(p, acts, rs) :
        \/ \E x \in lv[p] : Same(q, x) /\ \A d \in ds : ~Names(d, p, x)
        \/ \E d \in ds : Writes(d) /\ d.prov = p /\ NewRecord(d) = RecordOf(q)

\* What is there is desired, still to be dealt with, or was left there by the operator.
EachServed(ds, acts, rs, lv) ==
    \A p \in Providers : \A x \in lv[p] : x.key \notin Unmanaged =>
        \/ \E q \in Desired(p, rs) : Same(q, x)
        \/ \E d \in ds : Names(d, p, x)
        \/ acts[x.key] = "ignore"
        \/ acts[x.key] = "adopt" /\ x.key \notin Carried[p]

\* What has the value of a row that is to go is desired or still to be deleted.
EachPending(ds, rs, lv) ==
    \A p \in Providers : \A x \in lv[p], r \in Pending(rs) :
        r.key \notin Unmanaged /\ x.key = r.key /\ Text[x.content] = Text[r.content] =>
            \/ \E q \in Active(rs) : Same(q, x)
            \/ \E d \in ds : d.op = "delete" /\ Names(d, p, x)

OnTheWay(ds, acts, rs, lv) ==
    /\ WritesRows(ds, rs) /\ UpdatesApart(ds, lv) /\ TakesNoWanted(ds, acts, rs)
    /\ EachWanted(ds, acts, rs, lv) /\ EachServed(ds, acts, rs, lv) /\ EachPending(ds, rs, lv)

\* Of a push after its preview, while nobody disturbs it
WayInv ==
    \A t \in Workers :
        pc[t] \in {"gate", "execute", "prune", "purge", "status"} /\ quiet /\ ListedOnce =>
            /\ OnTheWay(diffs[t], actions[t], rows, live)
            /\ pc[t] \in {"prune", "purge", "status"} => diffs[t] = {}
            /\ pc[t] = "status" => Pending(rows) = {}

\* Nobody has answers but who was asked.
AnswersInv ==
    \A t \in Workers :
        pc[t] \notin {"execute", "prune", "purge", "status"} => actions[t] = NoActions

\* The rows are a table.
RowsInv == /\ \A r \in rows : r.id < nextId
           /\ \A r, q \in rows : r.id = q.id => r = q

\* What a provider is to serve is served already or written; what it serves is
\* wanted or dealt with; and nothing is dealt with twice.
LEMMA PreviewRight ==
    ASSUME NEW rs \in SUBSET Row, \A r, q \in rs : r.id = q.id => r = q,
           NEW lv \in [Providers -> SUBSET Record],
           \A p \in Providers : \A x, y \in lv[p] : Same(x, y) => x = y
    PROVE  OnTheWay(Preview(rs, lv), NoActions, rs, lv)
<1> DEFINE ds == Preview(rs, lv)
<1>1. \A p \in Providers :
         /\ Desired(p, rs) \subseteq rs /\ Desired(p, rs) \subseteq Row
         /\ Wanted(p, NoActions, rs) \subseteq Desired(p, rs)
         /\ Taken(p, rs, lv) \subseteq lv[p] /\ Unclaimed(p, rs, lv) \subseteq lv[p]
         /\ Taken(p, rs, lv) \cap Unclaimed(p, rs, lv) = {}
         /\ Drifted(p, rs, lv) \subseteq Unclaimed(p, rs, lv)
      BY DEF Desired, FilterTypes, Active, Wanted, Taken, Unclaimed, Claimed, Drifted
<1>2. \A p \in Providers : \A m \in Changed(p, rs, lv) :
         /\ m[1] \in Missing(Desired(p, rs), Unclaimed(p, rs, lv))
         /\ m[1] \in Desired(p, rs) /\ m[2] \in Unclaimed(p, rs, lv)
         /\ m[1].key = m[2].key
         /\ \A r \in Desired(p, rs) : ~Same(r, m[2])
         /\ RowRank(m[1], Missing(Desired(p, rs), Unclaimed(p, rs, lv))) =
              RecordRank(m[2], Free(Desired(p, rs), Unclaimed(p, rs, lv)))
      BY DEF Changed, Pairs, Missing, Free
<1>3. \A p \in Providers : \A m, n \in Changed(p, rs, lv) : m[2] = n[2] => m[1] = n[1]
  <2> SUFFICES ASSUME NEW p \in Providers, NEW m \in Changed(p, rs, lv),
                      NEW n \in Changed(p, rs, lv), m[2] = n[2], m[1] # n[1]
               PROVE  FALSE
      OBVIOUS
  <2> DEFINE miss == Missing(Desired(p, rs), Unclaimed(p, rs, lv))
  <2>1. miss \subseteq rs
        BY <1>1 DEF Missing
  <2>2. miss \in SUBSET Row /\ \A r, q \in miss : r.id = q.id => r = q
        BY <2>1
  <2>3. m[1] \in miss /\ n[1] \in miss /\ m[1].key = n[1].key
        BY <1>2
  <2>4. RowRank(m[1], miss) = RowRank(n[1], miss)
        BY <1>2
  <2> HIDE DEF miss
  <2> QED BY <2>2, <2>3, <2>4, RowRanks
<1>4. \A p \in Providers : \A r \in Added(p, rs, lv) : r \in Desired(p, rs)
      BY DEF Added, Missing
<1>5. \A p \in Providers : \A x \in Drifted(p, rs, lv) :
         /\ \A r \in Desired(p, rs) : ~Same(r, x)
         /\ \A m \in Changed(p, rs, lv) : ~Same(m[2], x)
      BY DEF Drifted
<1>6. \A x : Same(x, x)
      BY DEF Same
<1>a. \A d \in ds : d.prov \in Providers
      BY PreviewCases
<1>b. \A d \in ds : d.op = "update" => \E m \in Changed(d.prov, rs, lv) :
         /\ OldRecord(d) = m[2] /\ NewRecord(d) = RecordOf(m[1])
         /\ d = [prov |-> d.prov, op |-> "update", key |-> m[1].key,
                 old |-> m[2].content, new |-> m[1].content, id |-> m[1].id]
      BY PreviewCases
<1>c. \A d \in ds : d.op = "add" => \E r \in Added(d.prov, rs, lv) : NewRecord(d) = RecordOf(r)
      BY PreviewCases
<1>d. \A d \in ds : d.op = "drift" => OldRecord(d) \in Drifted(d.prov, rs, lv)
      BY PreviewCases
<1>e. \A d \in ds : d.op = "delete" => OldRecord(d) \in Taken(d.prov, rs, lv)
      BY PreviewCases
<1>f. \A d \in ds : d.op \in {"update", "add", "drift", "delete"}
      BY PreviewCases
<1>g. \A p \in Providers : HasAll(ds, p, rs, lv)
      BY PreviewHas
<1> HIDE DEF ds
<1>7. WritesRows(ds, rs)
      BY <1>a, <1>b, <1>c, <1>2, <1>4 DEF WritesRows, Writes
<1>8. UpdatesApart(ds, lv)
  <2> SUFFICES ASSUME NEW d \in ds, d.op = "update"
               PROVE  /\ OldRecord(d) \in lv[d.prov]
                      /\ \A e \in ds : Names(e, d.prov, OldRecord(d)) => e = d
      BY DEF UpdatesApart
  <2>1. PICK m \in Changed(d.prov, rs, lv) :
         /\ OldRecord(d) = m[2]
         /\ d = [prov |-> d.prov, op |-> "update", key |-> m[1].key,
                 old |-> m[2].content, new |-> m[1].content, id |-> m[1].id]
        BY <1>b
  <2>2. m[2] \in Unclaimed(d.prov, rs, lv) /\ m[2] \in lv[d.prov]
        BY <1>a, <1>1, <1>2
  <2>3. ASSUME NEW e \in ds, e.prov = d.prov, e.op # "add", OldRecord(e) = m[2]
        PROVE  e = d
    <3>1. CASE e.op = "update"
      <4>1. PICK n \in Changed(d.prov, rs, lv) :
               /\ OldRecord(e) = n[2]
               /\ e = [prov |-> d.prov, op |-> "update", key |-> n[1].key,
                       old |-> n[2].content, new |-> n[1].content, id |-> n[1].id]
            BY <1>b, <2>3, <3>1
      <4>2. n[2] = m[2] /\ n[1] = m[1]
            BY <4>1, <2>3, <1>a, <1>3
      <4> QED BY <4>1, <4>2, <2>1
    <3>2. CASE e.op = "drift"
          BY <3>2, <2>3, <1>a, <1>d, <1>5, <1>6
    <3>3. CASE e.op = "delete"
          BY <3>3, <2>3, <1>a, <1>e, <1>1, <2>2
    <3> QED BY <1>f, <2>3, <3>1, <3>2, <3>3
  <2> QED BY <2>1, <2>2, <2>3 DEF Names
<1>9. TakesNoWanted(ds, NoActions, rs)
      BY <1>a, <1>b, <1>d, <1>1, <1>2, <1>5 DEF TakesNoWanted
<1>10. EachWanted(ds, NoActions, rs, lv)
  <2> SUFFICES ASSUME NEW p \in Providers, NEW q \in Desired(p, rs)
               PROVE  \/ \E x \in lv[p] : Same(q, x) /\ \A d \in ds : ~Names(d, p, x)
                      \/ \E d \in ds : Writes(d) /\ d.prov = p /\ NewRecord(d) = RecordOf(q)
      BY <1>1 DEF EachWanted
  <2>1. CASE \E x \in Unclaimed(p, rs, lv) : Same(q, x)
    <3>1. PICK x \in Unclaimed(p, rs, lv) : Same(q, x)
          BY <2>1
    <3>2. ASSUME NEW d \in ds, Names(d, p, x) PROVE FALSE
      <4>1. d.prov = p /\ d.op # "add" /\ OldRecord(d) = x
            BY <3>2 DEF Names
      <4>2. CASE d.op = "update"
            BY <4>1, <4>2, <1>b, <1>2, <3>1
      <4>3. CASE d.op = "drift"
            BY <4>1, <4>3, <1>d, <1>5, <3>1
      <4>4. CASE d.op = "delete"
            BY <4>1, <4>4, <1>e, <1>1
      <4> QED BY <4>1, <4>2, <4>3, <4>4, <1>f
    <3> QED BY <3>1, <3>2, <1>1
  <2>2. CASE \A x \in Unclaimed(p, rs, lv) : ~Same(q, x)
    <3>1. q \in Missing(Desired(p, rs), Unclaimed(p, rs, lv))
          BY <2>2 DEF Missing
    <3>2. CASE \E m \in Changed(p, rs, lv) : m[1] = q
          BY <3>2, <1>g DEF HasAll, Writes
    <3>3. CASE \A m \in Changed(p, rs, lv) : m[1] # q
      <4>1. q \in Added(p, rs, lv)
            BY <3>1, <3>3 DEF Added
      <4> QED BY <4>1, <1>g DEF HasAll, Writes
    <3> QED BY <3>2, <3>3
  <2> QED BY <2>1, <2>2
<1>11. EachServed(ds, NoActions, rs, lv)
  <2> SUFFICES ASSUME NEW p \in Providers, NEW x \in lv[p], x.key \notin Unmanaged
               PROVE  \/ \E q \in Desired(p, rs) : Same(q, x)
                      \/ \E d \in ds : Names(d, p, x)
      BY DEF EachServed
  <2>1. CASE x \in Taken(p, rs, lv)
        BY <2>1, <1>g DEF HasAll, Names
  <2>2. CASE x \notin Taken(p, rs, lv) /\ \A q \in Desired(p, rs) : ~Same(q, x)
    <3>1. x \in Unclaimed(p, rs, lv)
          BY <2>2 DEF Unclaimed, FilterTypes
    <3>2. CASE \E m \in Changed(p, rs, lv) : Same(m[2], x)
      <4>1. PICK m \in Changed(p, rs, lv) : Same(m[2], x)
            BY <3>2
      <4>2. m[2] = x
            BY <4>1, <1>1, <1>2
      <4> QED BY <4>2, <1>g DEF HasAll, Names
    <3>3. CASE \A m \in Changed(p, rs, lv) : ~Same(m[2], x)
      <4>1. x \in Drifted(p, rs, lv)
            BY <3>1, <3>3, <2>2 DEF Drifted
      <4> QED BY <4>1, <1>g DEF HasAll, Names
    <3> QED BY <3>2, <3>3
  <2> QED BY <2>1, <2>2
<1>12. EachPending(ds, rs, lv)
  <2> SUFFICES ASSUME NEW p \in Providers, NEW x \in lv[p], NEW r \in Pending(rs),
                      r.key \notin Unmanaged, x.key = r.key,
                      Text[x.content] = Text[r.content]
               PROVE  \E d \in ds : d.op = "delete" /\ Names(d, p, x)
      BY DEF EachPending
  <2>1. r \in FilterTypes(Pending(rs)) /\ x \in FilterTypes(lv[p])
        BY DEF FilterTypes
  <2>2. /\ FilterTypes(Pending(rs)) \in SUBSET Row /\ FilterTypes(lv[p]) \in SUBSET Record
        /\ \A y, z \in FilterTypes(lv[p]) : Same(y, z) => y = z
        BY DEF FilterTypes, Pending
  <2>3. x \in Taken(p, rs, lv)
        BY <2>1, <2>2, ClaimsItsValue DEF Taken
  <2> QED BY <2>3, <1>g DEF HasAll, Names
<1> QED BY <1>7, <1>8, <1>9, <1>10, <1>11, <1>12 DEF OnTheWay, ds

-----------------------------------------------------------------------------
(* Every step of a push keeps it on the way *)

\* The operator's answers leave fewer rows to be served whatever was drift.
LEMMA AnswersKeepWay ==
    ASSUME NEW ds, NEW acts, NEW rs \in SUBSET Row, NEW lv \in [Providers -> SUBSET Record],
           OnTheWay(ds, NoActions, rs, lv)
    PROVE  OnTheWay(ds, acts, rs, lv)
<1>1. \A p \in Providers : Wanted(p, acts, rs) \subseteq Wanted(p, NoActions, rs)
      BY DEF Wanted, NoActions, Desired, FilterTypes, Active, Row
<1>2. \A k \in Keys : NoActions[k] = "none"
      BY DEF NoActions
<1>3. WritesRows(ds, rs) /\ UpdatesApart(ds, lv) /\ EachPending(ds, rs, lv)
      BY DEF OnTheWay
<1>5. EachWanted(ds, acts, rs, lv)
      BY <1>1 DEF OnTheWay, EachWanted
<1>6. EachServed(ds, acts, rs, lv)
  <2>1. \A p \in Providers : \A x \in lv[p] : x.key \in Keys
        BY DEF Record
  <2>2. EachServed(ds, NoActions, rs, lv)
        BY DEF OnTheWay
  <2> QED BY <1>2, <2>1, <2>2 DEF EachServed
<1>7. TakesNoWanted(ds, acts, rs)
  <2>1. \A p : Wanted(p, acts, rs) \subseteq Wanted(p, NoActions, rs)
        BY DEF Wanted, NoActions, Desired, FilterTypes, Active, Row
  <2> QED BY <2>1 DEF OnTheWay, TakesNoWanted
<1> QED BY <1>3, <1>5, <1>6, <1>7 DEF OnTheWay

\* A record is removed.
LEMMA RemoveKeepsWay ==
    ASSUME NEW ds, NEW acts, NEW rs, NEW lv \in [Providers -> SUBSET Record],
           OnTheWay(ds, acts, rs, lv), \A e \in ds : e.prov \in Providers,
           NEW d \in ds, d.op \in {"delete", "drift"},
           NEW lw, lw = [lv EXCEPT ![d.prov] = @ \ {OldRecord(d)}]
    PROVE  OnTheWay(ds \ {d}, acts, rs, lw)
<1>1. \A p \in Providers : lw[p] \subseteq lv[p]
      OBVIOUS
<1>2. \A p \in Providers : \A x \in lv[p] : x \in lw[p] \/ Names(d, p, x)
      BY DEF Names
<1>3. \A p \in Providers : \A x \in lw[p] : ~Names(d, p, x)
      BY DEF Names
<1>4. ~Writes(d)
      BY DEF Writes
<1>5. WritesRows(ds \ {d}, rs) /\ TakesNoWanted(ds \ {d}, acts, rs)
      BY DEF OnTheWay, WritesRows, TakesNoWanted
<1>6. UpdatesApart(ds \ {d}, lw)
  <2> SUFFICES ASSUME NEW e \in ds \ {d}, e.op = "update"
               PROVE  /\ OldRecord(e) \in lw[e.prov]
                      /\ \A f \in ds \ {d} : Names(f, e.prov, OldRecord(e)) => f = e
      BY DEF UpdatesApart
  <2>1. /\ OldRecord(e) \in lv[e.prov]
        /\ \A f \in ds : Names(f, e.prov, OldRecord(e)) => f = e
        BY DEF OnTheWay, UpdatesApart
  <2>2. ~Names(d, e.prov, OldRecord(e))
        BY <2>1
  <2> QED BY <2>1, <2>2, <1>2
<1>7. EachWanted(ds \ {d}, acts, rs, lw)
  <2>1. EachWanted(ds, acts, rs, lv)
        BY DEF OnTheWay
  <2> QED BY <2>1, <1>2, <1>4 DEF EachWanted
<1>8. EachServed(ds \ {d}, acts, rs, lw)
  <2>1. EachServed(ds, acts, rs, lv)
        BY DEF OnTheWay
  <2> QED BY <2>1, <1>1, <1>3 DEF EachServed
<1>9. EachPending(ds \ {d}, rs, lw)
  <2>1. EachPending(ds, rs, lv)
        BY DEF OnTheWay
  <2> QED BY <2>1, <1>1, <1>3 DEF EachPending
<1> QED BY <1>5, <1>6, <1>7, <1>8, <1>9 DEF OnTheWay

\* A record is written, once the removals at its provider are done.
LEMMA WriteKeepsWay ==
    ASSUME NEW ds, NEW acts, NEW rs, NEW lv \in [Providers -> SUBSET Record],
           OnTheWay(ds, acts, rs, lv), \A e \in ds : e.prov \in Providers,
           \A e \in ds : e.op \in {"add", "update", "delete", "drift"},
           NEW d \in ds, d.op \in {"update", "add"},
           \A e \in ds : e.prov = d.prov => e.op # "delete",
           NEW lw, lw = [lv EXCEPT ![d.prov] =
                           (IF d.op = "update" THEN @ \ {OldRecord(d)} ELSE @) \cup {NewRecord(d)}]
    PROVE  OnTheWay(ds \ {d}, acts, rs, lw)
<1>1. \A p \in Providers : \A x \in lw[p] :
         \/ p = d.prov /\ x = NewRecord(d)
         \/ x \in lv[p] /\ ~Names(d, p, x)
      BY DEF Names
<1>2. \A p \in Providers : \A x \in lv[p] : x \in lw[p] \/ Names(d, p, x)
      BY DEF Names
<1>3. NewRecord(d) \in lw[d.prov]
      OBVIOUS
<1>4. PICK w \in Desired(d.prov, rs) : NewRecord(d) = RecordOf(w)
      BY DEF OnTheWay, WritesRows, Writes
<1>5. WritesRows(ds \ {d}, rs) /\ TakesNoWanted(ds \ {d}, acts, rs)
      BY DEF OnTheWay, WritesRows, TakesNoWanted
<1>6. UpdatesApart(ds \ {d}, lw)
  <2> SUFFICES ASSUME NEW e \in ds \ {d}, e.op = "update"
               PROVE  /\ OldRecord(e) \in lw[e.prov]
                      /\ \A f \in ds \ {d} : Names(f, e.prov, OldRecord(e)) => f = e
      BY DEF UpdatesApart
  <2>1. /\ OldRecord(e) \in lv[e.prov]
        /\ \A f \in ds : Names(f, e.prov, OldRecord(e)) => f = e
        BY DEF OnTheWay, UpdatesApart
  <2>2. ~Names(d, e.prov, OldRecord(e))
        BY <2>1
  <2> QED BY <2>1, <2>2, <1>2
<1>7. \A q : Same(q, RecordOf(q))
      BY DEF Same, RecordOf
<1>8. EachWanted(ds \ {d}, acts, rs, lw)
  <2> SUFFICES ASSUME NEW p \in Providers, NEW q \in Wanted(p, acts, rs)
               PROVE  \/ \E x \in lw[p] : Same(q, x) /\ \A e \in ds \ {d} : ~Names(e, p, x)
                      \/ \E e \in ds \ {d} : Writes(e) /\ e.prov = p /\ NewRecord(e) = RecordOf(q)
      BY DEF EachWanted
  <2>1. \/ \E x \in lv[p] : Same(q, x) /\ \A e \in ds : ~Names(e, p, x)
        \/ \E e \in ds : Writes(e) /\ e.prov = p /\ NewRecord(e) = RecordOf(q)
        BY DEF OnTheWay, EachWanted
  <2>2. CASE \E x \in lv[p] : Same(q, x) /\ \A e \in ds : ~Names(e, p, x)
        BY <2>2, <1>2
  <2>3. CASE d.prov = p /\ NewRecord(d) = RecordOf(q)
    <3>1. ASSUME NEW e \in ds \ {d}, Names(e, p, NewRecord(d)) PROVE FALSE
      <4>1. e.prov = d.prov /\ OldRecord(e) = NewRecord(d) /\ e.op \in {"update", "drift"}
            BY <3>1, <2>3 DEF Names
      <4>2. ~Same(q, OldRecord(e))
            BY <4>1, <2>3 DEF OnTheWay, TakesNoWanted
      <4> QED BY <4>1, <4>2, <2>3, <1>7
    <3> QED BY <3>1, <2>3, <1>3, <1>7
  <2>4. CASE \E e \in ds \ {d} : Writes(e) /\ e.prov = p /\ NewRecord(e) = RecordOf(q)
        BY <2>4
  <2> QED BY <2>1, <2>2, <2>3, <2>4
<1>9. EachServed(ds \ {d}, acts, rs, lw)
  <2> SUFFICES ASSUME NEW p \in Providers, NEW x \in lw[p], x.key \notin Unmanaged
               PROVE  \/ \E q \in Desired(p, rs) : Same(q, x)
                      \/ \E e \in ds \ {d} : Names(e, p, x)
                      \/ acts[x.key] = "ignore"
                      \/ acts[x.key] = "adopt" /\ x.key \notin Carried[p]
      BY DEF EachServed
  <2>1. CASE p = d.prov /\ x = NewRecord(d)
        BY <2>1, <1>4, <1>7
  <2>2. CASE x \in lv[p] /\ ~Names(d, p, x)
    <3>1. EachServed(ds, acts, rs, lv)
          BY DEF OnTheWay
    <3> QED BY <3>1, <2>2 DEF EachServed
  <2> QED BY <1>1, <2>1, <2>2
<1>10. EachPending(ds \ {d}, rs, lw)
  <2> SUFFICES ASSUME NEW p \in Providers, NEW x \in lw[p], NEW r \in Pending(rs),
                      r.key \notin Unmanaged, x.key = r.key,
                      Text[x.content] = Text[r.content]
               PROVE  \/ \E q \in Active(rs) : Same(q, x)
                      \/ \E e \in ds \ {d} : e.op = "delete" /\ Names(e, p, x)
      BY DEF EachPending
  <2>1. CASE p = d.prov /\ x = NewRecord(d)
    <3>1. w \in Active(rs)
          BY DEF Desired, FilterTypes
    <3> QED BY <3>1, <2>1, <1>4, <1>7
  <2>2. CASE x \in lv[p] /\ ~Names(d, p, x)
    <3>1. EachPending(ds, rs, lv)
          BY DEF OnTheWay
    <3> QED BY <3>1, <2>2 DEF EachPending
  <2> QED BY <1>1, <2>1, <2>2
<1> QED BY <1>5, <1>6, <1>8, <1>9, <1>10 DEF OnTheWay

\* Drift is ignored.
LEMMA IgnoreKeepsWay ==
    ASSUME NEW ds, NEW acts, NEW rs, NEW lv,
           OnTheWay(ds, acts, rs, lv),
           NEW d \in ds, d.op = "drift", acts[d.key] = "ignore"
    PROVE  OnTheWay(ds \ {d}, acts, rs, lv)
<1>1. ~Writes(d) /\ \A p, x : Names(d, p, x) => x.key = d.key
      BY DEF Writes, Names, OldRecord
<1>2. WritesRows(ds \ {d}, rs) /\ TakesNoWanted(ds \ {d}, acts, rs) /\ UpdatesApart(ds \ {d}, lv)
      BY DEF OnTheWay, WritesRows, TakesNoWanted, UpdatesApart
<1>3. EachWanted(ds \ {d}, acts, rs, lv)
  <2>1. EachWanted(ds, acts, rs, lv)
        BY DEF OnTheWay
  <2> QED BY <2>1, <1>1 DEF EachWanted
<1>4. EachServed(ds \ {d}, acts, rs, lv)
  <2>1. EachServed(ds, acts, rs, lv)
        BY DEF OnTheWay
  <2> QED BY <2>1, <1>1 DEF EachServed
<1>5. EachPending(ds \ {d}, rs, lv)
  <2>1. EachPending(ds, rs, lv)
        BY DEF OnTheWay
  <2> QED BY <2>1 DEF EachPending
<1> QED BY <1>2, <1>3, <1>4, <1>5 DEF OnTheWay

\* Drift is adopted: a row more, of a key nothing else is promised for.
LEMMA AdoptKeepsWay ==
    ASSUME NEW ds, NEW acts, NEW rs, NEW lv, NEW i,
           OnTheWay(ds, acts, rs, lv),
           NEW d \in ds, d.op = "drift", acts[d.key] = "adopt"
    PROVE  OnTheWay(ds \ {d}, acts, Create(rs, i, d.key, d.old), lv)
<1> DEFINE new == NewRow(i, d.key, d.old)
           rt  == Create(rs, i, d.key, d.old)
<1>1. rt = rs \cup {new} /\ new.key = d.key /\ new.content = d.old /\ ~new.pending
      BY DEF Create, NewRow
<1>2. ~Writes(d) /\ \A p, x : Names(d, p, x) => x = OldRecord(d) /\ x.key = d.key /\ p = d.prov
      BY DEF Writes, Names, OldRecord
<1>3. Same(new, OldRecord(d))
      BY <1>1 DEF Same, OldRecord
<1> HIDE DEF new, rt
<1>4. \A p : Desired(p, rs) \subseteq Desired(p, rt)
      BY <1>1 DEF Desired, FilterTypes, Active
<1>5. \A p : Wanted(p, acts, rt) = Wanted(p, acts, rs)
  <2> SUFFICES ASSUME NEW p, NEW q PROVE q \in Wanted(p, acts, rt) <=> q \in Wanted(p, acts, rs)
      BY DEF Wanted
  <2>1. CASE q = new
        BY <1>1, <2>1 DEF Wanted, Desired, FilterTypes, Active
  <2>2. CASE q # new
        BY <1>1, <2>2 DEF Wanted, Desired, FilterTypes, Active
  <2> QED BY <2>1, <2>2
<1>6. Pending(rt) = Pending(rs) /\ Active(rs) \subseteq Active(rt)
      BY <1>1 DEF Pending, Active
<1>7. WritesRows(ds \ {d}, rt)
      BY <1>4 DEF OnTheWay, WritesRows
<1>8. UpdatesApart(ds \ {d}, lv)
      BY DEF OnTheWay, UpdatesApart
<1>9. TakesNoWanted(ds \ {d}, acts, rt)
      BY <1>5 DEF OnTheWay, TakesNoWanted
<1>10. EachWanted(ds \ {d}, acts, rt, lv)
  <2>1. EachWanted(ds, acts, rs, lv)
        BY DEF OnTheWay
  <2> QED BY <2>1, <1>2, <1>5 DEF EachWanted
<1>11. EachServed(ds \ {d}, acts, rt, lv)
  <2> SUFFICES ASSUME NEW p \in Providers, NEW x \in lv[p], x.key \notin Unmanaged
               PROVE  \/ \E q \in Desired(p, rt) : Same(q, x)
                      \/ \E e \in ds \ {d} : Names(e, p, x)
                      \/ acts[x.key] = "ignore"
                      \/ acts[x.key] = "adopt" /\ x.key \notin Carried[p]
      BY DEF EachServed
  <2>1. CASE Names(d, p, x) /\ x.key \in Carried[p]
    <3>1. new \in Desired(p, rt)
          BY <2>1, <1>1, <1>2 DEF Desired, FilterTypes, Active
    <3> QED BY <3>1, <2>1, <1>2, <1>3
  <2>2. CASE Names(d, p, x) /\ x.key \notin Carried[p]
        BY <2>2, <1>2
  <2>3. CASE ~Names(d, p, x)
    <3>1. EachServed(ds, acts, rs, lv)
          BY DEF OnTheWay
    <3> QED BY <3>1, <2>3, <1>4 DEF EachServed
  <2> QED BY <2>1, <2>2, <2>3
<1>12. EachPending(ds \ {d}, rt, lv)
  <2>1. EachPending(ds, rs, lv)
        BY DEF OnTheWay
  <2> QED BY <2>1, <1>6 DEF EachPending
<1> QED BY <1>7, <1>8, <1>9, <1>10, <1>11, <1>12 DEF OnTheWay, rt

\* The rows to go are gone.
LEMMA PurgeKeepsWay ==
    ASSUME NEW ds, NEW acts, NEW rs, NEW lv, OnTheWay(ds, acts, rs, lv)
    PROVE  /\ OnTheWay(ds, acts, HardDeletePending(rs), lv)
           /\ Pending(HardDeletePending(rs)) = {}
<1> DEFINE rt == HardDeletePending(rs)
<1>1. Active(rt) = Active(rs) /\ Pending(rt) = {}
      BY DEF HardDeletePending, Active, Pending
<1> HIDE DEF rt
<1>2. \A p : Desired(p, rt) = Desired(p, rs) /\ Wanted(p, acts, rt) = Wanted(p, acts, rs)
      BY <1>1 DEF Desired, Wanted
<1>3. WritesRows(ds, rt) /\ UpdatesApart(ds, lv) /\ TakesNoWanted(ds, acts, rt)
      BY <1>2 DEF OnTheWay, WritesRows, TakesNoWanted
<1>4. EachWanted(ds, acts, rt, lv) /\ EachServed(ds, acts, rt, lv)
      BY <1>2 DEF OnTheWay, EachWanted, EachServed
<1>5. EachPending(ds, rt, lv)
      BY <1>1 DEF EachPending
<1> QED BY <1>1, <1>3, <1>4, <1>5 DEF OnTheWay, rt

-----------------------------------------------------------------------------
(* Rows and answers *)

\* A new id is nobody's, and no statement changes an id.
LEMMA RowsNext == TypeOK /\ RowsInv /\ [Next]_vars => RowsInv'
<1> SUFFICES ASSUME TypeOK, RowsInv, [Next]_vars PROVE RowsInv'
    OBVIOUS
<1>1. nextId \in Nat /\ \A r \in rows : r.id \in Nat
      BY RecordsAssumption DEF TypeOK, Row, Ids
<1>2. ASSUME NEW k, NEW c, rows' = Create(rows, nextId, k, c), nextId' = nextId + 1
      PROVE  RowsInv'
  <2>1. NewRow(nextId, k, c).id = nextId
        BY DEF NewRow
  <2> QED BY <1>1, <1>2, <2>1 DEF RowsInv, Create
<1>3. ASSUME NEW f, rows' = {f[r] : r \in rows}, \A r \in rows : f[r].id = r.id,
             nextId' = nextId
      PROVE  RowsInv'
      BY <1>3 DEF RowsInv
<1>4. ASSUME rows' \subseteq rows, nextId' = nextId
      PROVE  RowsInv'
      BY <1>4 DEF RowsInv
<1>5. CASE AddRecord
      BY <1>2, <1>5 DEF AddRecord
<1>6. CASE \E t \in Workers : PushAdopt(t)
      BY <1>2, <1>6 DEF PushAdopt
<1>7. CASE EditRecord
  <2>1. PICK r \in rows, k \in Keys, c \in Contents : rows' = Update(rows, r.id, k, c)
        BY <1>7 DEF EditRecord
  <2> DEFINE f == [q \in rows |-> IF q.id = r.id THEN [q EXCEPT !.key = k, !.content = c] ELSE q]
  <2>2. rows' = {f[q] : q \in rows}
        BY <2>1 DEF Update
  <2>3. \A q \in rows : f[q].id = q.id
        BY DEF TypeOK, Row
  <2>4. nextId' = nextId
        BY <1>7 DEF EditRecord
  <2> HIDE DEF f
  <2> QED BY <2>2, <2>3, <2>4, <1>3
<1>8. CASE DeleteRecord \/ RestoreRecord
  <2>1. PICK r \in rows, b \in BOOLEAN : rows' = Mark(rows, r.id, b)
        BY <1>8 DEF DeleteRecord, RestoreRecord
  <2> DEFINE f == [q \in rows |-> IF q.id = r.id THEN [q EXCEPT !.pending = b] ELSE q]
  <2>2. rows' = {f[q] : q \in rows}
        BY <2>1 DEF Mark
  <2>3. \A q \in rows : f[q].id = q.id
        BY DEF TypeOK, Row
  <2>4. nextId' = nextId
        BY <1>8 DEF DeleteRecord, RestoreRecord
  <2> HIDE DEF f
  <2> QED BY <2>2, <2>3, <2>4, <1>3
<1>9. CASE \E t \in Workers : PushPurge(t)
      BY <1>9, <1>4 DEF PushPurge, HardDeletePending
<1>10. \/ AddRecord \/ EditRecord \/ DeleteRecord \/ RestoreRecord
       \/ \E t \in Workers : PushAdopt(t)
       \/ \E t \in Workers : PushPurge(t)
       \/ UNCHANGED <<rows, nextId>>
       BY DEF Next, Push, Capture, Edit, vars, Others, store, PushLock, PushPreview, PushRefused,
          PushAccepted, PushExecute, PushAdoptFails, PushIgnore, PushProviderError,
          PushSnapshot, PushPrune, PushStatus, CaptureLock, CaptureFetch, CaptureStore, Throw,
          OutOfBand, Restart, Killed
<1> QED BY <1>4, <1>5, <1>6, <1>7, <1>8, <1>9, <1>10

\* The rows are a table: every row has an id of its own, and the next id is new.
LEMMA RowsAreATable == Spec => []RowsInv
<1>1. Init => RowsInv
      BY DEF Init, RowsInv
<1> QED BY <1>1, RowsNext, TypeCorrect, PTL DEF Spec

LEMMA AnswersNext == TypeOK /\ AnswersInv /\ [Next]_vars => AnswersInv'
<1> SUFFICES ASSUME TypeOK, AnswersInv, [Next]_vars PROVE AnswersInv'
    OBVIOUS
<1> USE DEF store, locals, ghosts
<1>1. ASSUME NEW t \in Workers, Release(t) PROVE AnswersInv'
      BY <1>1 DEF Release, Goto, TypeOK, AnswersInv
<1>2. ASSUME NEW t \in Workers, PushLock(t) \/ CaptureLock(t) \/ CaptureFetch(t) PROVE AnswersInv'
      BY <1>2 DEF PushLock, CaptureLock, CaptureFetch, Goto, TypeOK, AnswersInv
<1>3. ASSUME NEW t \in Workers, PushPreview(t) PROVE AnswersInv'
  <2>1. CASE Release(t)
        BY <2>1, <1>1
  <2>2. CASE Goto(t, "gate") /\ UNCHANGED actions
        BY <1>3, <2>2 DEF PushPreview, Goto, TypeOK, AnswersInv
  <2> QED BY <1>3, <2>1, <2>2 DEF PushPreview
<1>4. ASSUME NEW t \in Workers,
             \/ PushRefused(t) \/ PushAdoptFails(t) \/ PushProviderError(t)
             \/ PushStatus(t) \/ CaptureStore(t) \/ Throw(t)
      PROVE  AnswersInv'
      BY <1>1, <1>4 DEF PushRefused, PushAdoptFails, PushProviderError,
                        PushStatus, CaptureStore, Throw
<1>5. ASSUME NEW t \in Workers, PushAccepted(t) PROVE AnswersInv'
  <2>1. PICK a : actions' = [actions EXCEPT ![t] = a]
        BY <1>5 DEF PushAccepted
  <2>2. Goto(t, "execute")
        BY <1>5 DEF PushAccepted
  <2> QED BY <2>1, <2>2 DEF Goto, TypeOK, AnswersInv
<1>6. ASSUME NEW t \in Workers, PushSnapshot(t) \/ PushPrune(t) \/ PushPurge(t)
      PROVE  AnswersInv'
      BY <1>6 DEF PushSnapshot, PushPrune, PushPurge, Goto, TypeOK, AnswersInv
<1>7. ASSUME NEW t \in Workers, PushExecute(t) \/ PushAdopt(t) \/ PushIgnore(t)
      PROVE  AnswersInv'
  <2>1. UNCHANGED <<pc, actions>>
        BY <1>7 DEF PushExecute, PushAdopt, PushIgnore
  <2> QED BY <2>1 DEF AnswersInv
<1>8. CASE Edit \/ OutOfBand \/ UNCHANGED vars
  <2>1. UNCHANGED <<pc, actions>>
        BY <1>8 DEF Edit, AddRecord, EditRecord, DeleteRecord, RestoreRecord,
                    OutOfBand, Others, vars
  <2> QED BY <2>1 DEF AnswersInv
<1>9. CASE Restart
      BY <1>9 DEF Restart, Killed, AnswersInv
<1> QED
    BY <1>2, <1>3, <1>4, <1>5, <1>6, <1>7, <1>8, <1>9 DEF Next, Push, Capture

LEMMA AnswersAreAsked == Spec => []AnswersInv
<1>1. Init => AnswersInv
      BY DEF Init, AnswersInv
<1> QED BY <1>1, AnswersNext, TypeCorrect, PTL DEF Spec

-----------------------------------------------------------------------------
(* A push nobody disturbs *)

WaySteps == {"gate", "execute", "prune", "purge", "status"}

WayAt(t) ==
    /\ OnTheWay(diffs[t], actions[t], rows, live)
    /\ pc[t] \in {"prune", "purge", "status"} => diffs[t] = {}
    /\ pc[t] = "status" => Pending(rows) = {}

\* While a worker is inside, every other is idle and stays so.
LEMMA OthersStayIdle ==
    ASSUME TypeOK, MutexInv, NEW t \in Workers, pc[t] # "idle",
           pc' = pc \/ \E s : Goto(t, s)
    PROVE  \A u \in Workers : u # t => pc'[u] = "idle"
BY DEF TypeOK, MutexInv, Goto

\* Hence its own state is all that counts.
LEMMA WayOfOne ==
    ASSUME TypeOK, MutexInv, NEW t \in Workers, pc[t] # "idle",
           pc' = pc \/ \E s : Goto(t, s),
           pc'[t] \in WaySteps /\ quiet' /\ ListedOnce' => WayAt(t)'
    PROVE  WayInv'
<1>1. \A u \in Workers : u # t => pc'[u] = "idle"
      BY OthersStayIdle
<1> SUFFICES ASSUME NEW u \in Workers, pc'[u] \in WaySteps, quiet', ListedOnce'
             PROVE  WayAt(u)'
    BY DEF WayInv, WayAt, WaySteps
<1>2. u = t
      BY <1>1 DEF WaySteps
<1> QED BY <1>2

LEMMA IdleWay ==
    ASSUME \A t \in Workers : pc'[t] = "idle"
    PROVE  WayInv'
BY DEF WayInv

LEMMA ReleaseWay ==
    ASSUME TypeOK, MutexInv, NEW t \in Workers, pc[t] # "idle", Release(t)
    PROVE  WayInv'
<1>1. \A u \in Workers : pc'[u] = "idle"
      BY DEF TypeOK, MutexInv, Release, Goto
<1> QED BY <1>1, IdleWay

LEMMA WayPreview ==
    ASSUME TypeOK, MutexInv, RowsInv, AnswersInv, NEW t \in Workers, PushPreview(t)
    PROVE  WayInv'
<1>1. CASE Release(t)
      BY <1>1, ReleaseWay DEF PushPreview
<1>2. CASE /\ Goto(t, "gate")
           /\ diffs' = [diffs EXCEPT ![t] = Preview(rows, live)]
           /\ UNCHANGED <<mutex, actions, fetched>>
  <2>1. /\ pc[t] = "preview" /\ pc'[t] = "gate" /\ diffs'[t] = Preview(rows, live)
        /\ actions'[t] = NoActions /\ base' = live /\ rows' = rows /\ live' = live
        BY <1>2 DEF PushPreview, Goto, TypeOK, AnswersInv, store
  <2>2. ASSUME ListedOnce' PROVE WayAt(t)'
    <3>1. \A p \in Providers : \A x, y \in live[p] : Same(x, y) => x = y
          BY <2>1, <2>2 DEF ListedOnce
    <3>2. rows \in SUBSET Row /\ live \in [Providers -> SUBSET Record]
          BY DEF TypeOK
    <3>3. OnTheWay(Preview(rows, live), NoActions, rows, live)
          BY <3>1, <3>2, PreviewRight DEF RowsInv
    <3> QED BY <2>1, <3>3 DEF WayAt
  <2> QED BY <1>2, <2>1, <2>2, WayOfOne
<1> QED BY <1>1, <1>2 DEF PushPreview

LEMMA WayExecute ==
    ASSUME TypeOK, MutexInv, WayInv, NEW t \in Workers, PushExecute(t)
    PROVE  WayInv'
<1>1. PICK d \in NextDiffs(t) :
         /\ CallsProvider(t, d)
         /\ live' = [live EXCEPT ![d.prov] = Executed(t, d, @)]
         /\ diffs' = [diffs EXCEPT ![t] = @ \ {d}]
      BY DEF PushExecute
<1>2. /\ pc[t] = "execute" /\ pc' = pc /\ rows' = rows /\ quiet' = quiet /\ base' = base
      /\ actions' = actions
      BY DEF PushExecute, store, ghosts
<1>3. ASSUME quiet, ListedOnce PROVE WayAt(t)'
  <2>1. OnTheWay(diffs[t], actions[t], rows, live)
        BY <1>2, <1>3 DEF WayInv
  <2>2. d \in diffs[t] /\ diffs'[t] = diffs[t] \ {d}
        BY <1>1 DEF TypeOK, NextDiffs
  <2>3. /\ \A e \in diffs[t] : e.prov \in Providers /\ e.op \in {"add", "update", "delete", "drift"}
        /\ live \in [Providers -> SUBSET Record]
        BY DEF TypeOK, Diff
  <2>4. OnTheWay(diffs[t] \ {d}, actions[t], rows, live')
    <3>1. CASE Removes(t, d)
      <4>1. d.op \in {"delete", "drift"}
            BY <3>1 DEF Removes
      <4>2. Executed(t, d, live[d.prov]) = live[d.prov] \ {OldRecord(d)}
            BY <3>1, <4>1 DEF Executed
      <4>3. live' = [live EXCEPT ![d.prov] = @ \ {OldRecord(d)}]
            BY <4>2, <1>1
      <4> QED BY <2>1, <2>2, <2>3, <4>1, <4>3, RemoveKeepsWay
    <3>2. CASE ~Removes(t, d)
      <4>1. d.op \in {"update", "add"}
            BY <3>2, <1>1 DEF CallsProvider
      <4>2. d.op = "update" => OldRecord(d) \in live[d.prov]
            BY <2>1, <2>2 DEF OnTheWay, UpdatesApart
      <4>3. live' = [live EXCEPT ![d.prov] =
               (IF d.op = "update" THEN @ \ {OldRecord(d)} ELSE @) \cup {NewRecord(d)}]
            BY <3>2, <4>1, <4>2, <1>1 DEF Executed
      <4>4. ASSUME NEW e \in diffs[t], e.prov = d.prov, e.op = "delete" PROVE FALSE
        <5>1. Phase(t, e) = 1
              BY <4>4 DEF Phase, Removes
        <5>2. Phase(t, d) \in {2, 3}
              BY <3>2, <4>1 DEF Phase
        <5>3. e.prov \in Nat
              BY <2>3, DiffAssumption
        <5>4. Phase(t, d) <= Phase(t, e)
              BY <4>4, <5>3, <1>1 DEF NextDiffs
        <5> QED BY <5>1, <5>2, <5>4
      <4> QED BY <2>1, <2>2, <2>3, <4>1, <4>3, <4>4, WriteKeepsWay
    <3> QED BY <3>1, <3>2
  <2> QED BY <1>2, <2>2, <2>4 DEF WayAt
<1>4. ListedOnce' => ListedOnce
      BY <1>2 DEF ListedOnce
<1> QED BY <1>2, <1>3, <1>4, WayOfOne

LEMMA WayAdopt ==
    ASSUME TypeOK, MutexInv, WayInv, NEW t \in Workers, PushAdopt(t) \/ PushIgnore(t)
    PROVE  WayInv'
<1>1. PICK d \in NextDiffs(t) :
         /\ d.op = "drift"
         /\ diffs' = [diffs EXCEPT ![t] = @ \ {d}]
         /\ \/ actions[t][d.key] = "adopt" /\ rows' = Create(rows, nextId, d.key, d.old)
            \/ actions[t][d.key] = "ignore" /\ rows' = rows
      BY DEF PushAdopt, PushIgnore, store
<1>2. /\ pc[t] = "execute" /\ pc' = pc /\ live' = live /\ quiet' = quiet /\ base' = base
      /\ actions' = actions
      BY DEF PushAdopt, PushIgnore, ghosts
<1>3. ASSUME quiet, ListedOnce PROVE WayAt(t)'
  <2>1. OnTheWay(diffs[t], actions[t], rows, live)
        BY <1>2, <1>3 DEF WayInv
  <2>2. d \in diffs[t] /\ diffs'[t] = diffs[t] \ {d}
        BY <1>1 DEF TypeOK, NextDiffs
  <2>3. OnTheWay(diffs[t] \ {d}, actions[t], rows', live)
    <3>1. CASE actions[t][d.key] = "adopt" /\ rows' = Create(rows, nextId, d.key, d.old)
          BY <3>1, <1>1, <2>1, <2>2, AdoptKeepsWay
    <3>2. CASE actions[t][d.key] = "ignore" /\ rows' = rows
          BY <3>2, <1>1, <2>1, <2>2, IgnoreKeepsWay
    <3> QED BY <1>1, <3>1, <3>2
  <2> QED BY <1>2, <2>2, <2>3 DEF WayAt
<1>4. ListedOnce' => ListedOnce
      BY <1>2 DEF ListedOnce
<1> QED BY <1>2, <1>3, <1>4, WayOfOne

\* Steps that end at a later stage.
LEMMA WayForward ==
    ASSUME TypeOK, MutexInv, AnswersInv, WayInv, NEW t \in Workers,
           PushAccepted(t) \/ PushSnapshot(t) \/ PushPrune(t) \/ PushPurge(t)
    PROVE  WayInv'
<1>1. /\ quiet' = quiet /\ base' = base /\ diffs' = diffs /\ live' = live
      /\ pc[t] \in {"gate", "execute", "prune", "purge"} /\ \E s : Goto(t, s)
      BY DEF PushAccepted, PushSnapshot, PushPrune, PushPurge, ghosts, locals
<1>2. ListedOnce' => ListedOnce
      BY <1>1 DEF ListedOnce
<1>3. ASSUME quiet, ListedOnce
      PROVE  /\ OnTheWay(diffs[t], actions[t], rows, live)
             /\ pc[t] \in {"prune", "purge"} => diffs[t] = {}
      BY <1>1, <1>3 DEF WayInv
<1>4. rows \in SUBSET Row /\ live \in [Providers -> SUBSET Record]
      BY DEF TypeOK
<1>5. CASE PushAccepted(t)
  <2>1. /\ pc[t] = "gate" /\ pc'[t] = "execute" /\ rows' = rows /\ actions[t] = NoActions
        BY <1>5 DEF PushAccepted, Goto, TypeOK, AnswersInv, store
  <2>2. ASSUME quiet, ListedOnce PROVE WayAt(t)'
    <3>1. OnTheWay(diffs[t], actions'[t], rows, live)
          BY <1>3, <1>4, <2>1, <2>2, AnswersKeepWay
    <3> QED BY <3>1, <1>1, <2>1 DEF WayAt
  <2> QED BY <1>1, <1>2, <2>2, WayOfOne
<1>6. CASE PushSnapshot(t) \/ PushPrune(t)
  <2>1. /\ pc'[t] \in {"prune", "purge"} /\ rows' = rows /\ actions' = actions
        /\ diffs[t] = {} \/ pc[t] = "prune"
        BY <1>6 DEF PushSnapshot, PushPrune, Goto, TypeOK, store, locals
  <2>2. ASSUME quiet, ListedOnce PROVE WayAt(t)'
        BY <1>1, <1>3, <2>1, <2>2 DEF WayAt
  <2> QED BY <1>1, <1>2, <2>2, WayOfOne
<1>7. CASE PushPurge(t)
  <2>1. /\ pc[t] = "purge" /\ pc'[t] = "status" /\ rows' = HardDeletePending(rows)
        /\ actions' = actions
        BY <1>7 DEF PushPurge, Goto, TypeOK, locals
  <2>2. ASSUME quiet, ListedOnce PROVE WayAt(t)'
        BY <1>1, <1>3, <2>1, <2>2, PurgeKeepsWay DEF WayAt
  <2> QED BY <1>1, <1>2, <2>2, WayOfOne
<1> QED BY <1>5, <1>6, <1>7

LEMMA WayNext == TypeOK /\ MutexInv /\ RowsInv /\ AnswersInv /\ WayInv /\ [Next]_vars => WayInv'
<1> SUFFICES ASSUME TypeOK, MutexInv, RowsInv, AnswersInv, WayInv, [Next]_vars PROVE WayInv'
    OBVIOUS
<1> USE DEF store, locals, ghosts
<1>1. ASSUME NEW t \in Workers, PushLock(t) \/ CaptureLock(t)
      PROVE  WayInv'
  <2>1. \A u \in Workers : pc[u] = "idle"
        BY <1>1, DeploymentAssumption DEF PushLock, CaptureLock, MutexInv
  <2>2. \A u \in Workers : pc'[u] \in {"idle", "preview", "fetch"}
        BY <1>1, <2>1 DEF PushLock, CaptureLock, Goto, TypeOK
  <2> QED BY <2>2 DEF WayInv
<1>2. ASSUME NEW t \in Workers, PushPreview(t) PROVE WayInv'
      BY <1>2, WayPreview
<1>3. ASSUME NEW t \in Workers,
             \/ PushRefused(t) \/ PushAdoptFails(t) \/ PushProviderError(t)
             \/ PushStatus(t) \/ CaptureStore(t) \/ Throw(t)
      PROVE  WayInv'
  <2>1. Release(t) /\ pc[t] # "idle"
        BY <1>3 DEF PushRefused, PushAdoptFails, PushProviderError,
                    PushStatus, CaptureStore, Throw
  <2> QED BY <2>1, ReleaseWay
<1>4. ASSUME NEW t \in Workers,
             PushAccepted(t) \/ PushSnapshot(t) \/ PushPrune(t) \/ PushPurge(t)
      PROVE  WayInv'
      BY <1>4, WayForward
<1>5. ASSUME NEW t \in Workers, PushExecute(t) PROVE WayInv'
      BY <1>5, WayExecute
<1>6. ASSUME NEW t \in Workers, PushAdopt(t) \/ PushIgnore(t) PROVE WayInv'
      BY <1>6, WayAdopt
<1>7. ASSUME NEW t \in Workers, CaptureFetch(t) PROVE WayInv'
  <2>1. pc[t] = "fetch" /\ Goto(t, "store") /\ pc'[t] = "store"
        BY <1>7 DEF CaptureFetch, Goto, TypeOK
  <2> QED BY <2>1, WayOfOne DEF WaySteps
<1>8. CASE Edit \/ OutOfBand
  <2>1. quiet' = FALSE
        BY <1>8 DEF Edit, AddRecord, EditRecord, DeleteRecord, RestoreRecord, OutOfBand
  <2> QED BY <2>1 DEF WayInv
<1>9. CASE Restart
  <2>1. \A t \in Workers : pc'[t] = "idle"
        BY <1>9 DEF Restart, Killed
  <2> QED BY <2>1, IdleWay
<1>10. CASE UNCHANGED vars
  <2>1. ListedOnce' = ListedOnce
        BY <1>10 DEF vars, ListedOnce
  <2> QED BY <1>10, <2>1 DEF vars, WayInv
<1> QED
    BY <1>1, <1>2, <1>3, <1>4, <1>5, <1>6, <1>7, <1>8, <1>9, <1>10 DEF Next, Push, Capture

LEMMA PushIsOnTheWay == Spec => []WayInv
<1>1. Init => WayInv
      BY DEF Init, WayInv
<1> QED
    BY <1>1, WayNext, TypeCorrect, MutualExclusion, RowsAreATable, AnswersAreAsked, PTL DEF Spec

-----------------------------------------------------------------------------
(* What it comes to *)

\* With nothing left to delete no record is claimed.
LEMMA NothingTaken ==
    ASSUME NEW rs, NEW lv, NEW p, Pending(rs) = {}
    PROVE  Taken(p, rs, lv) = {}
<1>1. FilterTypes(Pending(rs)) = {}
      BY DEF FilterTypes
<1> QED BY <1>1 DEF Taken, Claimed

\* A push nobody disturbed has done its work when it declares the zone in_sync,
\* for any number of rows, providers and workers and any answers of the operator
\* (DeploymentEngine.cpp 172-333) - if no provider listed one value twice.  One
\* that did keeps the second copy: computeDiff sees a value, not a record.
THEOREM PushConverges == Spec => [](ListedOnce => Converged)
<1>1. ASSUME TypeOK, WayInv, ListedOnce PROVE Converged
  <2> SUFFICES ASSUME NEW t \in Workers, pc[t] = "status", quiet, NEW d \in Preview(rows, live)
               PROVE  \/ d.op = "drift" /\ actions[t][d.key] = "ignore"
                      \/ /\ d.op = "drift" /\ actions[t][d.key] = "adopt"
                         /\ d.key \notin Carried[d.prov]
                      \/ d.op = "add" /\ actions[t][d.key] = "adopt"
      BY DEF Converged
  <2> DEFINE p == d.prov
             want == Desired(p, rows)
  <2>1. OnTheWay({}, actions[t], rows, live) /\ Pending(rows) = {}
        BY <1>1 DEF WayInv
  <2>2. rows \in SUBSET Row /\ live \in [Providers -> SUBSET Record]
        BY <1>1 DEF TypeOK
  <2>3. p \in Providers
        BY <2>2, PreviewCases
  <2>4. Taken(p, rows, live) = {} /\ Unclaimed(p, rows, live) = FilterTypes(live[p])
        BY <2>1, NothingTaken DEF Unclaimed
  <2>5. \A x \in Unclaimed(p, rows, live) :
           \/ \E q \in want : Same(q, x)
           \/ actions[t][x.key] = "ignore"
           \/ actions[t][x.key] = "adopt" /\ x.key \notin Carried[p]
        BY <2>1, <2>3, <2>4 DEF OnTheWay, EachServed, FilterTypes
  <2>6. \A q \in Missing(want, Unclaimed(p, rows, live)) :
           q \in want /\ q.key \in Carried[p] /\ actions[t][q.key] = "adopt"
    <3> SUFFICES ASSUME NEW q \in want, \A x \in Unclaimed(p, rows, live) : ~Same(q, x),
                        actions[t][q.key] # "adopt"
                 PROVE  FALSE
        BY DEF Missing, Desired
    <3>1. q \in Wanted(p, actions[t], rows) /\ q.key \notin Unmanaged
          BY DEF Wanted, Desired, FilterTypes
    <3>2. PICK x \in live[p] : Same(q, x)
          BY <2>1, <2>3, <3>1 DEF OnTheWay, EachWanted
    <3>3. x \in FilterTypes(live[p])
          BY <3>1, <3>2 DEF FilterTypes, Same
    <3> QED BY <3>2, <3>3, <2>4
  <2>7. \A m \in Changed(p, rows, live) : FALSE
    <3> SUFFICES ASSUME NEW m \in Changed(p, rows, live) PROVE FALSE
        OBVIOUS
    <3>1. /\ m[1] \in Missing(want, Unclaimed(p, rows, live)) /\ m[2] \in Unclaimed(p, rows, live)
          /\ m[1].key = m[2].key /\ \A q \in want : ~Same(q, m[2])
          BY DEF Changed, Pairs, Free
    <3> QED BY <3>1, <2>5, <2>6
  <2>8. CASE d.op = "update"
        BY <2>8, <2>2, <2>7, PreviewCases
  <2>9. CASE d.op = "delete"
        BY <2>9, <2>2, <2>4, PreviewCases
  <2>10. CASE d.op = "add"
    <3>1. PICK q \in Added(p, rows, live) : NewRecord(d) = RecordOf(q)
          BY <2>10, <2>2, PreviewCases
    <3>2. d.key = q.key /\ q \in Missing(want, Unclaimed(p, rows, live))
          BY <3>1 DEF NewRecord, RecordOf, Added
    <3> QED BY <3>2, <2>6, <2>10
  <2>11. CASE d.op = "drift"
    <3>1. OldRecord(d) \in Drifted(p, rows, live)
          BY <2>11, <2>2, PreviewCases
    <3>2. OldRecord(d).key = d.key
          BY DEF OldRecord
    <3>3. OldRecord(d) \in Unclaimed(p, rows, live) /\ \A q \in want : ~Same(q, OldRecord(d))
          BY <3>1 DEF Drifted
    <3> QED BY <3>2, <3>3, <2>5, <2>11
  <2> QED BY <2>2, <2>8, <2>9, <2>10, <2>11, PreviewCases
<1>2. TypeOK /\ WayInv => (ListedOnce => Converged)
      BY <1>1
<1> QED BY <1>2, TypeCorrect, PushIsOnTheWay, PTL

\* A push nobody disturbed hard-deletes a row only after its value is gone from
\* every provider (DeploymentEngine.cpp 306-327), unless another row wants it - if
\* no provider listed one value twice: a pending row claims one record only.
THEOREM PurgeAfterDeploy == Spec /\ []ListedOnce => PurgeIsDeployed
<1> DEFINE Deployed ==
      \A t \in Workers : pc[t] = "purge" /\ quiet =>
         \A r \in rows : HasId(rows', r.id) \/ r.key \in Unmanaged \/ Gone(r)
<1>1. ASSUME TypeOK, MutexInv, WayInv, ListedOnce, Next PROVE Deployed
  <2> SUFFICES ASSUME NEW t \in Workers, pc[t] = "purge", quiet,
                      NEW r \in rows, ~HasId(rows', r.id), r.key \notin Unmanaged
               PROVE  Gone(r)
      OBVIOUS
  <2>1. OnTheWay({}, actions[t], rows, live)
        BY <1>1 DEF WayInv
  <2>2. r.pending
    <3>2. \/ AddRecord \/ EditRecord \/ DeleteRecord \/ RestoreRecord
          \/ \E u \in Workers : PushAdopt(u)
          \/ \E u \in Workers : PushPurge(u)
          \/ rows' = rows
          BY <1>1 DEF Next, Push, Capture, Edit, Others, store, PushLock, PushPreview,
             PushRefused, PushAccepted, PushExecute, PushAdoptFails, PushIgnore,
             PushProviderError, PushSnapshot, PushPrune, PushStatus, CaptureLock,
             CaptureFetch, CaptureStore, Throw, OutOfBand, Restart, Killed
    <3>3. CASE AddRecord \/ \E u \in Workers : PushAdopt(u)
      <4>1. rows \subseteq rows'
            BY <3>3 DEF AddRecord, PushAdopt, Create
      <4> QED BY <4>1 DEF HasId
    <3>4. CASE EditRecord
      <4>1. PICK q \in rows, k \in Keys, c \in Contents : rows' = Update(rows, q.id, k, c)
            BY <3>4 DEF EditRecord
      <4>2. (IF r.id = q.id THEN [r EXCEPT !.key = k, !.content = c] ELSE r) \in rows'
            BY <4>1 DEF Update
      <4>3. (IF r.id = q.id THEN [r EXCEPT !.key = k, !.content = c] ELSE r).id = r.id
            BY <1>1 DEF TypeOK, Row
      <4> QED BY <4>2, <4>3 DEF HasId
    <3>5. CASE DeleteRecord \/ RestoreRecord
      <4>1. PICK q \in rows, b \in BOOLEAN : rows' = Mark(rows, q.id, b)
            BY <3>5 DEF DeleteRecord, RestoreRecord
      <4>2. (IF r.id = q.id THEN [r EXCEPT !.pending = b] ELSE r) \in rows'
            BY <4>1 DEF Mark
      <4>3. (IF r.id = q.id THEN [r EXCEPT !.pending = b] ELSE r).id = r.id
            BY <1>1 DEF TypeOK, Row
      <4> QED BY <4>2, <4>3 DEF HasId
    <3>6. CASE \E u \in Workers : PushPurge(u)
          BY <3>6 DEF PushPurge, HardDeletePending, HasId
    <3>7. CASE rows' = rows
          BY <3>7 DEF HasId
    <3> QED BY <3>2, <3>3, <3>4, <3>5, <3>6, <3>7
  <2>3. r \in Pending(rows)
        BY <2>2 DEF Pending
  <2>4. EachPending({}, rows, live)
        BY <2>1 DEF OnTheWay
  <2> QED BY <2>3, <2>4 DEF EachPending, Gone
<1>2. TypeOK /\ MutexInv /\ WayInv /\ ListedOnce /\ [Next]_vars => [Deployed]_vars
      BY <1>1
<1> QED
    BY <1>2, TypeCorrect, MutualExclusion, PushIsOnTheWay, PTL DEF Spec, PurgeIsDeployed

-----------------------------------------------------------------------------
(* That a push comes forward: what its end rests on, apart from fairness. *)

\* How many steps are before a worker, an execution counting for one.
Left(s) ==
    CASE s = "preview" -> 6
      [] s = "gate"    -> 5
      [] s = "execute" -> 4
      [] s = "prune"   -> 3
      [] s = "purge"   -> 2
      [] s = "status"  -> 1
      [] s = "fetch"   -> 2
      [] s = "store"   -> 1
      [] OTHER         -> 0

\* Worker t has less before it than it had: a step fewer, or a diff fewer to execute.
Nearer(t) ==
    \/ Left(pc'[t]) < Left(pc[t])
    \/ pc'[t] = pc[t] /\ Cardinality(diffs'[t]) < Cardinality(diffs[t])

Waits(t) == pc'[t] = pc[t] /\ diffs'[t] = diffs[t]

\* A diff the worker can deal with: a call, an adoption or a refusal, or nothing at all.
AtHand(t) ==
    \E d \in NextDiffs(t) : \/ CallsProvider(t, d)
                            \/ d.op = "drift" /\ actions[t][d.key] \in {"adopt", "ignore"}

\* Whoever executes drift has an answer for it.
AnsweredInv ==
    \A t \in Workers : pc[t] = "execute" =>
      \A d \in diffs[t] : d.op = "drift" => actions[t][d.key] # "none"

LEMMA EndIsNear ==
    ASSUME TypeOK, NEW t \in Workers, pc[t] # "idle", Release(t)
    PROVE  Nearer(t) /\ \A u \in Workers \ {t} : Waits(u)
<1>1. pc[t] \in PushSteps \cup CaptureSteps /\ pc'[t] = "idle"
      BY DEF TypeOK, Release, Goto
<1>2. Left(pc'[t]) < Left(pc[t])
      BY <1>1 DEF Left, PushSteps, CaptureSteps
<1> QED BY <1>2 DEF Nearer, Waits, Release, Goto, TypeOK

LEMMA NextIsNear ==
    ASSUME TypeOK, NEW t \in Workers, NEW s, Goto(t, s), Left(s) < Left(pc[t]),
           \A u \in Workers \ {t} : diffs'[u] = diffs[u]
    PROVE  Nearer(t) /\ \A u \in Workers \ {t} : Waits(u)
BY DEF TypeOK, Goto, Nearer, Waits

LEMMA DiffIsNear ==
    ASSUME TypeOK, IsFiniteSet(Diff), NEW t \in Workers, NEW d \in diffs[t],
           diffs' = [diffs EXCEPT ![t] = @ \ {d}], UNCHANGED pc
    PROVE  Nearer(t) /\ \A u \in Workers \ {t} : Waits(u)
<1>1. diffs[t] \in SUBSET Diff /\ diffs'[t] = diffs[t] \ {d}
      BY DEF TypeOK
<1>2. IsFiniteSet(diffs[t])
      BY <1>1, FS_Subset
<1>3. Cardinality(diffs'[t]) = Cardinality(diffs[t]) - 1 /\ Cardinality(diffs[t]) \in Nat
      BY <1>1, <1>2, FS_RemoveElement, FS_CardinalityType
<1>4. Cardinality(diffs'[t]) < Cardinality(diffs[t])
      BY <1>3
<1> QED BY <1>4 DEF Nearer, Waits, TypeOK

LEMMA InsideComesForward ==
    ASSUME TypeOK, IsFiniteSet(Diff), NEW t \in Workers, pc[t] # "idle",
           Push(t) \/ Capture(t) \/ Throw(t)
    PROVE  Nearer(t) /\ \A u \in Workers \ {t} : Waits(u)
<1> USE DEF locals
<1>1. CASE \/ PushRefused(t) \/ PushAdoptFails(t) \/ PushProviderError(t)
           \/ PushStatus(t) \/ CaptureStore(t) \/ Throw(t)
      BY <1>1, EndIsNear DEF PushRefused, PushAdoptFails, PushProviderError, PushStatus,
                             CaptureStore, Throw
<1>2. CASE PushPreview(t)
  <2>1. CASE Release(t)
        BY <2>1, EndIsNear
  <2>2. CASE Goto(t, "gate") /\ diffs' = [diffs EXCEPT ![t] = Preview(rows, live)]
    <3>1. Left("gate") < Left(pc[t])
          BY <1>2 DEF PushPreview, Left
    <3>2. \A u \in Workers \ {t} : diffs'[u] = diffs[u]
          BY <2>2 DEF TypeOK
    <3> QED BY <2>2, <3>1, <3>2, NextIsNear
  <2> QED BY <1>2, <2>1, <2>2 DEF PushPreview
<1>3. CASE \/ PushAccepted(t) \/ PushSnapshot(t) \/ PushPrune(t) \/ PushPurge(t)
           \/ CaptureFetch(t)
  <2>1. /\ UNCHANGED diffs
        /\ \/ pc[t] = "gate" /\ Goto(t, "execute")
           \/ pc[t] = "execute" /\ Goto(t, "prune")
           \/ pc[t] = "prune" /\ Goto(t, "purge")
           \/ pc[t] = "purge" /\ Goto(t, "status")
           \/ pc[t] = "fetch" /\ Goto(t, "store")
        BY <1>3 DEF PushAccepted, PushSnapshot, PushPrune, PushPurge, CaptureFetch
  <2>2. \E s : Goto(t, s) /\ Left(s) < Left(pc[t])
        BY <2>1 DEF Left
  <2> QED BY <2>1, <2>2, NextIsNear
<1>4. CASE PushExecute(t) \/ PushAdopt(t) \/ PushIgnore(t)
  <2>1. /\ UNCHANGED pc
        /\ \E d \in NextDiffs(t) : diffs' = [diffs EXCEPT ![t] = @ \ {d}]
        BY <1>4 DEF PushExecute, PushAdopt, PushIgnore
  <2>2. NextDiffs(t) \subseteq diffs[t]
        BY DEF NextDiffs
  <2> QED BY <2>1, <2>2, DiffIsNear
<1>5. ~PushLock(t) /\ ~CaptureLock(t)
      BY DEF PushLock, CaptureLock
<1> QED BY <1>1, <1>2, <1>3, <1>4, <1>5 DEF Push, Capture

LEMMA StepsComeForward ==
    ASSUME TypeOK, IsFiniteSet(Diff), [Next]_vars, NEW t \in Workers, pc[t] # "idle"
    PROVE  Nearer(t) \/ Waits(t)
<1> USE DEF locals
<1>1. ASSUME NEW u \in Workers, Push(u) \/ Capture(u) \/ Throw(u) PROVE Nearer(t) \/ Waits(t)
  <2>1. CASE pc[u] # "idle"
        BY <1>1, <2>1, InsideComesForward
  <2>2. CASE pc[u] = "idle"
    <3>1. PushLock(u) \/ CaptureLock(u)
          BY <1>1, <2>2 DEF Push, Capture, Throw, PushPreview, PushRefused, PushAccepted,
             PushExecute, PushAdopt, PushAdoptFails, PushIgnore, PushProviderError,
             PushSnapshot, PushPrune, PushPurge, PushStatus, CaptureFetch, CaptureStore
    <3>2. u # t /\ UNCHANGED diffs /\ (Goto(u, "preview") \/ Goto(u, "fetch"))
          BY <2>2, <3>1 DEF PushLock, CaptureLock
    <3> QED BY <3>2 DEF Waits, Goto, TypeOK
  <2> QED BY <2>1, <2>2
<1>2. CASE Edit \/ OutOfBand \/ UNCHANGED vars
      BY <1>2 DEF Edit, AddRecord, EditRecord, DeleteRecord, RestoreRecord, OutOfBand,
                  Others, vars, Waits
<1>3. CASE Restart
  <2>1. pc[t] \in PushSteps \cup CaptureSteps /\ pc'[t] = "idle"
        BY <1>3 DEF TypeOK, Restart, Killed
  <2> QED BY <2>1 DEF Nearer, Left, PushSteps, CaptureSteps
<1> QED BY <1>1, <1>2, <1>3 DEF Next

LEMMA AnsweredNext == TypeOK /\ AnsweredInv /\ [Next]_vars => AnsweredInv'
<1> SUFFICES ASSUME TypeOK, AnsweredInv, [Next]_vars PROVE AnsweredInv'
    OBVIOUS
<1> USE DEF locals
<1>1. ASSUME NEW t \in Workers, Release(t) PROVE AnsweredInv'
      BY <1>1 DEF Release, Goto, TypeOK, AnsweredInv
<1>2. ASSUME NEW t \in Workers,
             \/ PushRefused(t) \/ PushAdoptFails(t) \/ PushProviderError(t)
             \/ PushStatus(t) \/ CaptureStore(t) \/ Throw(t)
      PROVE  AnsweredInv'
      BY <1>1, <1>2 DEF PushRefused, PushAdoptFails, PushProviderError, PushStatus,
                        CaptureStore, Throw
<1>3. ASSUME NEW t \in Workers, PushPreview(t) PROVE AnsweredInv'
  <2>1. CASE Release(t)
        BY <2>1, <1>1
  <2>2. CASE /\ Goto(t, "gate") /\ UNCHANGED actions
             /\ diffs' = [diffs EXCEPT ![t] = Preview(rows, live)]
        BY <2>2 DEF Goto, TypeOK, AnsweredInv
  <2> QED BY <1>3, <2>1, <2>2 DEF PushPreview
<1>4. ASSUME NEW t \in Workers, PushAccepted(t) PROVE AnsweredInv'
  <2>1. PICK a \in [Keys -> Choices] :
          /\ \A k \in Keys : a[k] # "none" <=> k \in {d.key : d \in {e \in diffs[t] : e.op = "drift"}}
          /\ actions' = [actions EXCEPT ![t] = a]
        BY <1>4 DEF PushAccepted
  <2>2. diffs[t] \in SUBSET Diff /\ UNCHANGED diffs /\ Goto(t, "execute")
        BY <1>4 DEF PushAccepted, TypeOK
  <2>3. \A d \in diffs[t] : d.op = "drift" => a[d.key] # "none"
        BY <2>1, <2>2 DEF Diff
  <2>4. \A d \in diffs'[t] : d.op = "drift" => actions'[t][d.key] # "none"
        BY <2>1, <2>2, <2>3 DEF TypeOK
  <2>5. \A u \in Workers \ {t} : pc'[u] = pc[u] /\ actions'[u] = actions[u]
        BY <2>1, <2>2 DEF TypeOK, Goto
  <2> QED BY <2>2, <2>4, <2>5 DEF AnsweredInv
<1>5. ASSUME NEW t \in Workers,
             \/ PushLock(t) \/ CaptureLock(t) \/ CaptureFetch(t)
             \/ PushSnapshot(t) \/ PushPrune(t) \/ PushPurge(t)
      PROVE  AnsweredInv'
  <2>1. /\ UNCHANGED <<diffs, actions>>
        /\ \E s : s # "execute" /\ Goto(t, s)
        BY <1>5 DEF PushLock, CaptureLock, CaptureFetch, PushSnapshot, PushPrune, PushPurge
  <2> QED BY <2>1 DEF Goto, TypeOK, AnsweredInv
<1>6. ASSUME NEW t \in Workers, PushExecute(t) \/ PushAdopt(t) \/ PushIgnore(t)
      PROVE  AnsweredInv'
  <2>1. /\ UNCHANGED <<pc, actions>>
        /\ \E d : diffs' = [diffs EXCEPT ![t] = @ \ {d}]
        BY <1>6 DEF PushExecute, PushAdopt, PushIgnore
  <2>2. \A u \in Workers : diffs'[u] \subseteq diffs[u]
        BY <2>1 DEF TypeOK
  <2> QED BY <2>1, <2>2 DEF AnsweredInv
<1>7. CASE Edit \/ OutOfBand \/ UNCHANGED vars
  <2>1. UNCHANGED <<pc, diffs, actions>>
        BY <1>7 DEF Edit, AddRecord, EditRecord, DeleteRecord, RestoreRecord,
                    OutOfBand, Others, vars
  <2> QED BY <2>1 DEF AnsweredInv
<1>8. CASE Restart
      BY <1>8 DEF Restart, Killed, AnsweredInv
<1> QED BY <1>2, <1>3, <1>4, <1>5, <1>6, <1>7, <1>8 DEF Next, Push, Capture

\* Providers and phases are numbers: some diff comes first.
LEMMA SomethingAtHand ==
    ASSUME TypeOK, AnsweredInv, NEW t \in Workers, pc[t] = "execute", diffs[t] # {}
    PROVE  AtHand(t)
<1>1. diffs[t] \in SUBSET Diff /\ diffs[t] # {}
      BY DEF TypeOK
<1> DEFINE D == diffs[t]
           P == {d.prov : d \in D}
<1>2. P \in SUBSET Nat /\ P # {}
  <2>1. \A d \in diffs[t] : d \in Diff /\ d.prov \in Providers
        BY <1>1 DEF Diff
  <2>2. \A d \in diffs[t] : d.prov \in Nat
        BY <2>1, DiffAssumption
  <2> QED BY <1>1, <2>2
<1>3. PICK p \in P : \A q \in P : p <= q
  <2> HIDE DEF P
  <2> QED BY <1>2, LeastOf
<1> DEFINE F == {Phase(t, d) : d \in {e \in D : e.prov = p}}
<1>4. F \in SUBSET Nat /\ F # {}
  <2>1. \A d : Phase(t, d) \in Nat
        BY DEF Phase
  <2> QED BY <1>3, <2>1
<1>5. PICK n \in F : \A m \in F : n <= m
  <2> HIDE DEF F
  <2> QED BY <1>4, LeastOf
<1>6. PICK d \in D : d.prov = p /\ Phase(t, d) = n
      BY <1>5
<1>7. ASSUME NEW e \in D
      PROVE  \/ d.prov < e.prov
             \/ d.prov = e.prov /\ Phase(t, d) <= Phase(t, e)
  <2>1. p <= e.prov /\ p \in Nat /\ e.prov \in Nat
        BY <1>2, <1>3
  <2>2. e.prov = p => Phase(t, d) <= Phase(t, e)
        BY <1>5, <1>6
  <2> HIDE DEF D, P, F
  <2>3. e.prov # p => p < e.prov
        BY <2>1
  <2> QED BY <1>6, <2>2, <2>3
<1>8. d \in NextDiffs(t)
      BY <1>6, <1>7 DEF NextDiffs
<1>9. \/ d.op \in {"add", "update", "delete"}
      \/ d.op = "drift" /\ actions[t][d.key] # "none"
  <2>1. d \in Diff /\ d \in diffs[t]
        BY <1>1
  <2> HIDE DEF D, P, F
  <2>2. d.op \in {"add", "update", "delete", "drift"}
        BY <2>1 DEF Diff
  <2>3. d.op = "drift" => actions[t][d.key] # "none"
        BY <2>1 DEF AnsweredInv
  <2> QED BY <2>2, <2>3
<1>10. actions[t][d.key] \in Choices
       BY <1>1, <1>6 DEF TypeOK, Diff
<1> QED BY <1>8, <1>9, <1>10 DEF AtHand, CallsProvider, Removes, Choices

\* What the end of every push and capture rests on, for any number of diffs: whatever a
\* worker does inside brings it nearer to its end, whatever anybody else does leaves it
\* where it is or ends it, and as long as it has diffs to execute one of them is at hand
\* - no answer is missing, and no order of providers and phases keeps it waiting
\* (DeploymentEngine.cpp 248-369).
THEOREM PushesComeForward ==
    IsFiniteSet(Diff) /\ Spec =>
      /\ [][\A t \in Workers : pc[t] # "idle" => Nearer(t) \/ Waits(t)]_vars
      /\ [][\A t \in Workers : Work(t) => Nearer(t)]_vars
      /\ [](\A t \in Workers : pc[t] = "execute" /\ diffs[t] # {} => AtHand(t))
<1>1. ASSUME IsFiniteSet(Diff)
      PROVE  Spec => /\ [][\A t \in Workers : pc[t] # "idle" => Nearer(t) \/ Waits(t)]_vars
                     /\ [][\A t \in Workers : Work(t) => Nearer(t)]_vars
  <2>1. TypeOK /\ [Next]_vars
          => [\A t \in Workers : pc[t] # "idle" => Nearer(t) \/ Waits(t)]_vars
        BY <1>1, StepsComeForward
  <2>2. TypeOK => [\A t \in Workers : Work(t) => Nearer(t)]_vars
        BY <1>1, InsideComesForward DEF Work
  <2> QED BY <2>1, <2>2, TypeCorrect, PTL DEF Spec
<1>2. Spec => [](\A t \in Workers : pc[t] = "execute" /\ diffs[t] # {} => AtHand(t))
  <2>1. Init => AnsweredInv
        BY DEF Init, AnsweredInv
  <2>2. TypeOK /\ AnsweredInv
          => \A t \in Workers : pc[t] = "execute" /\ diffs[t] # {} => AtHand(t)
        BY SomethingAtHand
  <2> QED BY <2>1, <2>2, AnsweredNext, TypeCorrect, PTL DEF Spec
<1> QED BY <1>1, <1>2

-----------------------------------------------------------------------------
(* The ledger: initial states map to initial states of it, and every step to a  *)
(* step of it or to none.                                                      *)

\* The mapped state, by the names of the ledger
There  == {r.id : r \in rows}
Marked == {r.id : r \in Pending(rows)}

-----------------------------------------------------------------------------
(* The stage *)

\* The stage is that of the worker that holds the mutex, and "free" without one.
LEMMA StageOfHolder ==
    ASSUME NEW t \in Workers, mutex = t
    PROVE  /\ Stage # "free"
           /\ pc[t] = "prune" <=> Stage = "recorded"
           /\ pc[t] = "purge" <=> Stage = "pruned"
           /\ pc[t] = "status" <=> Stage = "settled"
           /\ pc[t] \notin {"prune", "purge", "status"} <=> Stage = "held"
BY DeploymentAssumption DEF Stage

\* The same of the next state.
LEMMA StageOfHolderNext ==
    ASSUME NEW t \in Workers, mutex' = t
    PROVE  /\ Stage' # "free"
           /\ pc'[t] = "prune" <=> Stage' = "recorded"
           /\ pc'[t] = "purge" <=> Stage' = "pruned"
           /\ pc'[t] = "status" <=> Stage' = "settled"
           /\ pc'[t] \notin {"prune", "purge", "status"} <=> Stage' = "held"
BY DeploymentAssumption DEF Stage

LEMMA StageFree ==
    /\ mutex = NoWorker => Stage = "free"
    /\ mutex' = NoWorker => Stage' = "free"
BY DEF Stage

\* A worker that is inside push or capture has the mutex and a stage.
LEMMA InsideHolds ==
    ASSUME MutexInv, NEW t \in Workers, pc[t] # "idle"
    PROVE  mutex = t /\ Stage # "free"
BY StageOfHolder DEF MutexInv

-----------------------------------------------------------------------------
(* The steps *)

\* An exit of push or capture that leaves the tables alone ends the deployment.
LEMMA EndMaps ==
    ASSUME MutexInv, NEW t \in Workers, pc[t] # "idle", mutex' = NoWorker,
           history' = history, rows' = rows
    PROVE  Ledger!End
<1>1. Stage # "free" /\ Stage' = "free"
      BY InsideHolds, StageFree
<1>2. /\ LastSeq(history') = LastSeq(history) /\ Seqs(history') = Seqs(history)
      /\ There' = There /\ Marked' = Marked
      BY DEF There, Marked
<1> QED
    BY <1>1, <1>2 DEF Ledger!End, There, Marked

\* A step that touches neither the mutex, nor the stage, nor the tables is none.
LEMMA StutterMaps ==
    ASSUME Stage' = Stage, history' = history, rows' = rows
    PROVE  UNCHANGED Ledger!ledger
BY DEF Ledger!ledger

\* Rows that are added or marked, with the stage and the history left alone
LEMMA EditMaps ==
    ASSUME Stage' = Stage, history' = history, There \subseteq There'
    PROVE  Ledger!EditRows
<1>1. Marked' \subseteq There'
      BY DEF Marked, There, Pending
<1>2. LastSeq(history') = LastSeq(history) /\ Seqs(history') = Seqs(history)
      OBVIOUS
<1> QED
    BY <1>1, <1>2 DEF Ledger!EditRows, There, Marked

\* What the statements of the records table do to the ids
LEMMA IdsGrow ==
    ASSUME NEW rs, NEW i, NEW k, NEW c, NEW b
    PROVE  /\ {r.id : r \in rs} \subseteq {r.id : r \in Create(rs, i, k, c)}
           /\ rs \in SUBSET Row => {r.id : r \in rs} \subseteq {r.id : r \in Update(rs, i, k, c)}
           /\ rs \in SUBSET Row => {r.id : r \in rs} \subseteq {r.id : r \in Mark(rs, i, b)}
<1>1. {r.id : r \in rs} \subseteq {r.id : r \in Create(rs, i, k, c)}
      BY DEF Create
<1>2. ASSUME rs \in SUBSET Row
      PROVE  {r.id : r \in rs} \subseteq {r.id : r \in Update(rs, i, k, c)}
  <2> SUFFICES ASSUME NEW r \in rs
               PROVE  \E s \in Update(rs, i, k, c) : s.id = r.id
      OBVIOUS
  <2> DEFINE s == IF r.id = i THEN [r EXCEPT !.key = k, !.content = c] ELSE r
  <2>1. s \in Update(rs, i, k, c)
        BY DEF Update
  <2>2. s.id = r.id
        BY <1>2 DEF Row
  <2> QED
      BY <2>1, <2>2
<1>3. ASSUME rs \in SUBSET Row
      PROVE  {r.id : r \in rs} \subseteq {r.id : r \in Mark(rs, i, b)}
  <2> SUFFICES ASSUME NEW r \in rs
               PROVE  \E s \in Mark(rs, i, b) : s.id = r.id
      OBVIOUS
  <2> DEFINE s == IF r.id = i THEN [r EXCEPT !.pending = b] ELSE r
  <2>1. s \in Mark(rs, i, b)
        BY DEF Mark
  <2>2. s.id = r.id
        BY <1>3 DEF Row
  <2> QED
      BY <2>1, <2>2
<1> QED
    BY <1>1, <1>2, <1>3

\* A number is taken and its deployment inserted in one statement.
LEMMA RecordMaps ==
    ASSUME TypeInv, MutexInv, NEW t \in Workers,
           PushSnapshot(t) \/ CaptureStore(t)
    PROVE  Ledger!Record
<1>1. \E recs \in SUBSET Entry : history' = CreateDeployment(history, recs)
  <2>1. CASE PushSnapshot(t)
        BY <2>1, EntryType DEF PushSnapshot, TypeInv
  <2>2. CASE CaptureStore(t)
        BY <2>2 DEF CaptureStore, TypeInv, TypeOK
  <2> QED
      BY <2>1, <2>2
<1>2. /\ LastSeq(history') = LastSeq(history) + 1
      /\ Seqs(history') = Seqs(history) \cup {LastSeq(history) + 1}
      BY <1>1, TypeInvHistory, CreateHistory
<1>3. mutex = t /\ Stage = "held"
  <2>1. pc[t] \in {"execute", "store"}
        BY DEF PushSnapshot, CaptureStore
  <2> QED
      BY <2>1, InsideHolds, StageOfHolder
<1>4. Stage' \in {"free", "recorded"}
  <2>1. CASE PushSnapshot(t)
    <3>1. mutex' = t /\ pc'[t] = "prune"
          BY <2>1, <1>3 DEF PushSnapshot, Goto, TypeInv, TypeOK
    <3> QED
        BY <3>1, StageOfHolderNext
  <2>2. CASE CaptureStore(t)
        BY <2>2, StageFree DEF CaptureStore, Release
  <2> QED
      BY <2>1, <2>2
<1>5. rows' = rows
      BY DEF PushSnapshot, CaptureStore, store
<1> QED
    BY <1>2, <1>3, <1>4, <1>5 DEF Ledger!Record

LEMMA ForgetMaps ==
    ASSUME Retention >= 1, TypeInv, MutexInv, NEW t \in Workers, PushPrune(t)
    PROVE  Ledger!Forget
<1>1. mutex = t /\ mutex' = t /\ Stage = "recorded"
      BY InsideHolds, StageOfHolder DEF PushPrune
<1>2. Stage' = "pruned"
  <2>1. pc'[t] = "purge"
        BY DEF PushPrune, Goto, TypeInv, TypeOK
  <2> QED
      BY <1>1, <2>1, StageOfHolderNext
<1>3. history' = Prune(history, Retention) /\ rows' = rows
      BY DEF PushPrune, store
<1>4. LastSeq(history') = LastSeq(history)
      BY <1>3, TypeInvHistory, PruneHistory
<1>5. Seqs(history') = {n \in Seqs(history) : n > LastSeq(history) - Retention}
      BY <1>3 DEF Prune, Seqs
<1> QED
    BY <1>1, <1>2, <1>3, <1>4, <1>5 DEF Ledger!Forget

\* A row that is not marked stays, whatever other rows have its id.
LEMMA DropMaps ==
    ASSUME TypeInv, MutexInv, NEW t \in Workers, PushPurge(t)
    PROVE  Ledger!Drop
<1>1. mutex = t /\ mutex' = t /\ Stage = "pruned"
      BY InsideHolds, StageOfHolder DEF PushPurge
<1>2. Stage' = "settled"
  <2>1. pc'[t] = "status"
        BY DEF PushPurge, Goto, TypeInv, TypeOK
  <2> QED
      BY <1>1, <2>1, StageOfHolderNext
<1>3. history' = history /\ rows' = {r \in rows : ~r.pending}
      BY DEF PushPurge, HardDeletePending
<1>4. There \ Marked \subseteq There' /\ There' \subseteq There /\ Marked' = {}
  <2>1. There' \subseteq There
        BY <1>3 DEF There
  <2>2. Marked' = {}
        BY <1>3 DEF Marked, Pending
  <2>3. ASSUME NEW i \in There \ Marked PROVE i \in There'
    <3>1. PICK r \in rows : r.id = i
          BY DEF There
    <3>2. ~r.pending
          BY <2>3, <3>1 DEF Marked, Pending
    <3> QED
        BY <1>3, <3>1, <3>2 DEF There
  <2> QED
      BY <2>1, <2>2, <2>3
<1>5. LastSeq(history') = LastSeq(history) /\ Seqs(history') = Seqs(history)
      BY <1>3
<1> QED
    BY <1>1, <1>2, <1>4, <1>5 DEF Ledger!Drop, There, Marked

-----------------------------------------------------------------------------
(* The whole *)

LEMMA BesideMaps ==
    ASSUME TypeInv, Edit \/ OutOfBand
    PROVE  [Ledger!LedgerNext]_(Ledger!ledger)
<1>1. Stage' = Stage /\ history' = history
      BY DEF Stage, Edit, AddRecord, EditRecord, DeleteRecord, RestoreRecord, OutOfBand, Others
<1>2. There \subseteq There'
  <2>1. rows \in SUBSET Row
        BY DEF TypeInv, TypeOK
  <2>2. CASE AddRecord
        BY <2>2, IdsGrow DEF AddRecord, There
  <2>3. CASE EditRecord
        BY <2>1, <2>3, IdsGrow DEF EditRecord, There
  <2>4. CASE DeleteRecord
        BY <2>1, <2>4, IdsGrow DEF DeleteRecord, There
  <2>5. CASE RestoreRecord
        BY <2>1, <2>5, IdsGrow DEF RestoreRecord, There
  <2>6. CASE OutOfBand
        BY <2>6 DEF OutOfBand, store, There
  <2> QED
      BY <2>2, <2>3, <2>4, <2>5, <2>6 DEF Edit
<1> QED
    BY <1>1, <1>2, EditMaps DEF Ledger!LedgerNext

\* Steps of a push that are none of the ledger's: the worker stays inside and neither
\* records, prunes nor purges.
LEMMA InsideMaps ==
    ASSUME TypeInv, MutexInv, NEW t \in Workers, pc[t] \in {"preview", "gate", "execute", "fetch"},
           pc'[t] \in {"preview", "gate", "execute", "fetch", "store"},
           mutex' = mutex, history' = history, There \subseteq There'
    PROVE  Ledger!EditRows
<1>1. mutex = t
      BY InsideHolds
<1>2. Stage = "held" /\ Stage' = "held"
      BY <1>1, StageOfHolder, StageOfHolderNext
<1> QED
    BY <1>2, EditMaps

LEMMA StepMaps ==
    ASSUME Retention >= 1, TypeInv, MutexInv, [Next]_vars
    PROVE  [Ledger!LedgerNext]_(Ledger!ledger)
<1> USE DEF Ledger!LedgerNext
<1>1. ASSUME NEW t \in Workers, PushLock(t) \/ CaptureLock(t)
      PROVE  Ledger!Begin
  <2>1. Stage = "free"
        BY <1>1, StageFree DEF PushLock, CaptureLock
  <2>2. mutex' = t /\ pc'[t] \in {"preview", "fetch"}
        BY <1>1 DEF PushLock, CaptureLock, Goto, TypeInv, TypeOK
  <2>3. Stage' = "held"
        BY <2>2, StageOfHolderNext
  <2>4. history' = history /\ rows' = rows
        BY <1>1 DEF PushLock, CaptureLock, store
  <2>5. /\ LastSeq(history') = LastSeq(history) /\ Seqs(history') = Seqs(history)
        /\ There' = There /\ Marked' = Marked
        BY <2>4 DEF There, Marked
  <2> QED
      BY <2>1, <2>3, <2>5 DEF Ledger!Begin, There, Marked
<1>2. ASSUME NEW t \in Workers, PushPreview(t)
      PROVE  Ledger!End \/ Ledger!EditRows
  <2>1. pc[t] = "preview" /\ history' = history /\ rows' = rows
        BY <1>2 DEF PushPreview, store
  <2>2. CASE Release(t)
        BY <2>1, <2>2, EndMaps DEF Release
  <2>3. CASE Goto(t, "gate") /\ mutex' = mutex
    <3>1. pc'[t] = "gate" /\ There \subseteq There'
          BY <2>1, <2>3 DEF Goto, TypeInv, TypeOK, There
    <3> QED
        BY <2>1, <2>3, <3>1, InsideMaps
  <2> QED
      BY <1>2, <2>2, <2>3 DEF PushPreview
<1>3. ASSUME NEW t \in Workers,
             \/ PushRefused(t) \/ PushAdoptFails(t) \/ PushProviderError(t)
             \/ PushStatus(t) \/ Throw(t)
      PROVE  Ledger!End
  <2>1. /\ pc[t] # "idle" /\ mutex' = NoWorker
        /\ history' = history /\ rows' = rows
        BY <1>3 DEF PushRefused, PushAdoptFails, PushProviderError, PushStatus, Throw,
                    Release, store
  <2> QED
      BY <2>1, EndMaps
<1>4. ASSUME NEW t \in Workers,
             PushAccepted(t) \/ PushExecute(t) \/ PushIgnore(t) \/ CaptureFetch(t)
      PROVE  Ledger!EditRows
  <2>1. /\ pc[t] \in {"gate", "execute", "fetch"}
        /\ mutex' = mutex /\ history' = history /\ rows' = rows
        BY <1>4 DEF PushAccepted, PushExecute, PushIgnore, CaptureFetch, store
  <2>2. pc'[t] \in {"execute", "store"} /\ There \subseteq There'
        BY <1>4, <2>1 DEF PushAccepted, PushExecute, PushIgnore, CaptureFetch, Goto,
                          TypeInv, TypeOK, There
  <2> QED
      BY <2>1, <2>2, InsideMaps
<1>5. ASSUME NEW t \in Workers, PushAdopt(t)
      PROVE  Ledger!EditRows
  <2>1. /\ pc[t] = "execute" /\ pc'[t] = "execute" /\ mutex' = mutex /\ history' = history
        /\ \E d : rows' = Create(rows, nextId, d.key, d.old)
        BY <1>5 DEF PushAdopt
  <2>2. There \subseteq There'
        BY <2>1, IdsGrow DEF There
  <2> QED
      BY <2>1, <2>2, InsideMaps
<1>6. ASSUME NEW t \in Workers, PushSnapshot(t) \/ CaptureStore(t)
      PROVE  Ledger!Record
      BY <1>6, RecordMaps
<1>7. ASSUME NEW t \in Workers, PushPrune(t)
      PROVE  Ledger!Forget
      BY <1>7, ForgetMaps
<1>8. ASSUME NEW t \in Workers, PushPurge(t)
      PROVE  Ledger!Drop
      BY <1>8, DropMaps
<1>9. CASE Edit \/ OutOfBand
      BY <1>9, BesideMaps
<1>10. CASE Restart
  <2>1. PICK t \in Workers : pc[t] # "idle"
        BY <1>10 DEF Restart, Busy
  <2>2. mutex' = NoWorker /\ history' = history /\ rows' = rows
        BY <1>10 DEF Restart, Killed, store
  <2> QED
      BY <2>1, <2>2, EndMaps
<1>11. CASE UNCHANGED vars
  <2>1. Stage' = Stage /\ history' = history /\ rows' = rows
        BY <1>11 DEF vars, Stage
  <2> QED
      BY <2>1, StutterMaps
<1> QED
    BY <1>1, <1>2, <1>3, <1>4, <1>5, <1>6, <1>7, <1>8, <1>9, <1>10, <1>11
    DEF Next, Push, Capture

\* push and capture implement the ledger of deployments: one at a time, consecutive
\* numbers, and nothing pruned or purged but after a record of one's own.  The history
\* keeps its newest number because at least one snapshot is retained.
THEOREM DeploymentImplementsLedger == Retention >= 1 /\ Spec => ImplementsLedger
<1>1. Init => Ledger!LedgerInit
  <2> SUFFICES ASSUME Init PROVE Ledger!LedgerInit
      OBVIOUS
  <2>1. Stage = "free"
        BY StageFree DEF Init
  <2>2. LastSeq(history) = 0 /\ Seqs(history) = {}
        BY DEF Init, LastSeq, Seqs
  <2>3. There = {} /\ Marked = {}
        BY DEF Init, There, Marked, Pending
  <2> QED
      BY <2>1, <2>2, <2>3 DEF Ledger!LedgerInit, There, Marked
<1>2. CASE Retention >= 1
  <2>1. TypeInv /\ MutexInv /\ [Next]_vars => [Ledger!LedgerNext]_(Ledger!ledger)
        BY <1>2, StepMaps
  <2> QED
      BY <1>1, <2>1, TypeInvariant, MutualExclusion, PTL DEF Spec, ImplementsLedger, Ledger!LedgerSpec
<1>3. CASE ~(Retention >= 1)
      BY <1>3
<1> QED
    BY <1>2, <1>3


-----------------------------------------------------------------------------
(* Rollback: that the rows stay a table under rollbacks that race pushes and *)
(* edits, and that a full restore nobody interferes with is exact.           *)

\* RollbackFind leaves todo as it is: that it is empty then is what makes the types
\* inductive.
NothingLeftOver == step # "insert" => todo = {}

RollbackTypeInv == TypeInv /\ RollbackTypeOK /\ NothingLeftOver

-----------------------------------------------------------------------------
(* Types *)

LEMMA KilledType ==
    ASSUME TypeInv, Killed
    PROVE  TypeInv'
<1>1. NoActions \in [Keys -> Choices]
    BY DEF NoActions, Choices
<1> QED BY <1>1 DEF TypeInv, TypeOK, Killed, store, ghosts

\* Insert and upsert draw their ids from the sequence.
LEMMA SnapshotEntry ==
    ASSUME RollbackTypeInv, NEW e \in snap
    PROVE  e.id \in Ids \cup {0} /\ e.key \in Keys /\ e.content \in Contents
BY DEF RollbackTypeInv, RollbackTypeOK, Entry

LEMMA ApplyType ==
    ASSUME RollbackTypeInv, Apply
    PROVE  RollbackTypeInv'
<1> USE DEF RollbackTypeInv, TypeInv, RollbackTypeOK, NothingLeftOver, Rest, store, locals
<1>1. CASE RollbackFind
  <2>1. PICK e \in history : snap' = e.records
      BY <1>1 DEF RollbackFind
  <2>2. snap' \subseteq Entry
      BY <2>1 DEF TypeOK
  <2>3. RollbackTypeOK'
    <3>1. todo' = todo /\ step' \in {"clear", "pick"} /\ picks' \subseteq Ids /\ alone' = TRUE
        BY <1>1 DEF RollbackFind
    <3>2. todo = {}
        BY <1>1 DEF RollbackFind
    <3> QED BY <2>2, <3>1, <3>2
  <2> QED BY <1>1, <2>3 DEF RollbackFind, TypeOK
<1>2. CASE RollbackClear
    BY <1>2 DEF RollbackClear, TypeOK
<1>3. CASE RollbackInsert
  <2>1. PICK e \in todo : /\ rows' = Create(rows, nextId, e.key, e.content)
                          /\ todo' = todo \ {e}
      BY <1>3 DEF RollbackInsert
  <2>2. nextId \in Ids /\ nextId' \in 1..(MaxId + 1)
      BY <1>3, RecordsAssumption DEF RollbackInsert, TypeOK, Ids
  <2>3. rows' \subseteq Row
      BY <2>1, <2>2, SnapshotEntry, RecordsType DEF TypeOK
  <2> QED BY <1>3, <2>1, <2>2, <2>3 DEF RollbackInsert, TypeOK
<1>4. CASE RollbackUpsert
  <2>1. PICK e \in snap :
          /\ e.id \in picks
          /\ picks' = picks \ {e.id}
          /\ \/ rows' = Update(rows, e.id, e.key, e.content) /\ nextId' = nextId
             \/ /\ nextId <= MaxId
                /\ rows' = Create(rows, nextId, e.key, e.content)
                /\ nextId' = nextId + 1
      BY <1>4 DEF RollbackUpsert
  <2>2. nextId' \in 1..(MaxId + 1)
      BY <2>1, RecordsAssumption DEF TypeOK
  <2>3. rows' \subseteq Row
    <3>1. CASE rows' = Update(rows, e.id, e.key, e.content)
      <4>1. e.id \in Ids
          BY <2>1
      <4> QED BY <3>1, <4>1, SnapshotEntry, RecordsType DEF TypeOK
    <3>2. CASE nextId <= MaxId /\ rows' = Create(rows, nextId, e.key, e.content)
      <4>1. nextId \in Ids
          BY <3>2, RecordsAssumption DEF TypeOK, Ids
      <4> QED BY <3>2, <4>1, SnapshotEntry, RecordsType DEF TypeOK
    <3> QED BY <2>1, <3>1, <3>2
  <2> QED BY <1>4, <2>1, <2>2, <2>3 DEF RollbackUpsert, TypeOK
<1>5. CASE RollbackSkip
    BY <1>5 DEF RollbackSkip, TypeOK
<1>6. CASE RollbackDone \/ RollbackThrow
    BY <1>6 DEF RollbackDone, RollbackThrow, RollbackReturn, TypeOK
<1> QED BY <1>1, <1>2, <1>3, <1>4, <1>5, <1>6 DEF Apply

LEMMA RollbackTypeNext ==
    ASSUME RollbackTypeInv, [RollbackNext]_<<vars, rollback>>
    PROVE  RollbackTypeInv'
<1>1. CASE Meanwhile
  <2>1. TypeInv'
      BY <1>1, PushType, CaptureType, BesideType DEF Meanwhile, RollbackTypeInv
  <2> QED BY <1>1, <2>1 DEF Meanwhile, RollbackTypeInv, RollbackTypeOK, NothingLeftOver
<1>2. CASE RollbackRestart
  <2>1. TypeInv'
      BY <1>2, KilledType DEF RollbackRestart, RollbackTypeInv
  <2> QED BY <1>2, <2>1 DEF RollbackRestart, RollbackReturn, RollbackTypeInv, RollbackTypeOK, NothingLeftOver
<1>3. CASE UNCHANGED <<vars, rollback>>
    BY <1>3 DEF RollbackTypeInv, RollbackTypeOK, NothingLeftOver, TypeInv, TypeOK, HasNewest, vars, rollback
<1> QED BY <1>1, <1>2, <1>3, ApplyType DEF RollbackNext

LEMMA RollbackTyped == RollbackSpec => []RollbackTypeInv
<1>1. RollbackInit => RollbackTypeInv
  <2>1. Init => TypeInv
      BY InitType DEF TypeInv, Init, HasNewest
  <2> QED BY <2>1 DEF RollbackInit, RollbackTypeInv, RollbackTypeOK, NothingLeftOver
<1> QED BY <1>1, RollbackTypeNext, PTL DEF RollbackSpec

-----------------------------------------------------------------------------
(* Row ids *)

LEMMA UpdateIds ==
    ASSUME TypeOK, IdsUnique, NEW i, NEW k, NEW c, nextId' = nextId,
           rows' = Update(rows, i, k, c)
    PROVE  IdsUnique'
<1> DEFINE u(r) == IF r.id = i THEN [r EXCEPT !.key = k, !.content = c] ELSE r
<1>1. \A r \in rows : u(r).id = r.id
    BY DEF TypeOK, Row
<1>2. rows' = {u(r) : r \in rows}
    BY DEF Update
<1> HIDE DEF u
<1> QED BY <1>1, <1>2 DEF IdsUnique

LEMMA MarkIds ==
    ASSUME TypeOK, IdsUnique, NEW i, NEW b, nextId' = nextId,
           rows' = Mark(rows, i, b)
    PROVE  IdsUnique'
<1> DEFINE u(r) == IF r.id = i THEN [r EXCEPT !.pending = b] ELSE r
<1>1. \A r \in rows : u(r).id = r.id
    BY DEF TypeOK, Row
<1>2. rows' = {u(r) : r \in rows}
    BY DEF Mark
<1> HIDE DEF u
<1> QED BY <1>1, <1>2 DEF IdsUnique

LEMMA CreateIds ==
    ASSUME TypeOK, IdsUnique, NEW k, NEW c, nextId' = nextId + 1,
           rows' = Create(rows, nextId, k, c)
    PROVE  IdsUnique'
<1>1. NewRow(nextId, k, c).id = nextId /\ nextId \in Nat
    BY RecordsAssumption DEF NewRow, TypeOK
<1>2. \A r \in rows : r.id \in Nat
    BY DEF TypeOK, Row, Ids
<1>3. rows' = rows \cup {NewRow(nextId, k, c)}
    BY DEF Create
<1> QED BY <1>1, <1>2, <1>3 DEF IdsUnique

\* What a step does to the rows and the sequence
RowStep ==
    \/ nextId' = nextId /\ rows' \subseteq rows
    \/ nextId' = nextId /\ \E i, k, c : rows' = Update(rows, i, k, c)
    \/ nextId' = nextId /\ \E i, b : rows' = Mark(rows, i, b)
    \/ nextId' = nextId + 1 /\ \E k, c : rows' = Create(rows, nextId, k, c)

LEMMA EveryRowStep == [RollbackNext]_<<vars, rollback>> => RowStep
<1> SUFFICES ASSUME [RollbackNext]_<<vars, rollback>> PROVE RowStep
    OBVIOUS
<1>1. CASE Apply
    BY <1>1 DEF RowStep, Apply, RollbackFind, RollbackClear, RollbackInsert, RollbackUpsert,
       RollbackSkip, RollbackDone, RollbackThrow, store
<1>2. ASSUME NEW t \in Workers, Push(t)
      PROVE  RowStep
  <2>1. CASE PushAdopt(t)
      BY <2>1 DEF PushAdopt, RowStep
  <2>2. CASE PushPurge(t)
      BY <2>2 DEF PushPurge, RowStep, HardDeletePending
  <2>3. CASE UNCHANGED store
      BY <2>3 DEF RowStep, store
  <2> QED BY <1>2, <2>1, <2>2, <2>3 DEF Push, PushLock, PushPreview, PushRefused,
         PushAccepted, PushExecute, PushAdoptFails, PushIgnore, PushProviderError,
         PushSnapshot, PushPrune, PushStatus, store
<1>3. ASSUME NEW t \in Workers, Capture(t) \/ Throw(t)
      PROVE  RowStep
    BY <1>3 DEF Capture, CaptureLock, CaptureFetch, CaptureStore, Throw, store, RowStep
<1>4. CASE Edit \/ OutOfBand
    BY <1>4 DEF Edit, AddRecord, EditRecord, DeleteRecord, RestoreRecord, OutOfBand, Others,
       store, RowStep
<1>5. CASE RollbackRestart
    BY <1>5 DEF RollbackRestart, Killed, store, RowStep
<1>6. CASE UNCHANGED <<vars, rollback>>
    BY <1>6 DEF vars, RowStep
<1> QED BY <1>1, <1>2, <1>3, <1>4, <1>5, <1>6 DEF RollbackNext, Meanwhile

LEMMA IdsNext ==
    ASSUME RollbackTypeInv, IdsUnique, RowStep
    PROVE  IdsUnique'
<1>1. TypeOK
    BY DEF RollbackTypeInv, TypeInv
<1>2. CASE nextId' = nextId /\ rows' \subseteq rows
    BY <1>2 DEF IdsUnique
<1> QED BY <1>1, <1>2, UpdateIds, MarkIds, CreateIds DEF RowStep

\* The rows of the zone stay a table - types, and one id of its own for each row,
\* below the sequence's next - however rollbacks, pushes, captures, edits and restarts
\* interleave without a lock between them (RollbackEngine::apply takes no zone mutex).
THEOREM RowsStayATable == RollbackSpec => []RollbackInv
<1>1. RollbackInit => IdsUnique
    BY DEF RollbackInit, Init, IdsUnique
<1>2. RollbackTypeInv /\ IdsUnique /\ [RollbackNext]_<<vars, rollback>> => IdsUnique'
    BY EveryRowStep, IdsNext
<1>3. RollbackTypeInv /\ IdsUnique => RollbackInv
    BY DEF RollbackTypeInv, TypeInv, RollbackInv
<1> QED BY <1>1, <1>2, <1>3, RollbackTyped, PTL DEF RollbackSpec

-----------------------------------------------------------------------------
(* A full restore alone *)

Alike(x, xs) == {y \in xs : RecordOf(y) = x}

LEMMA CountIs ==
    ASSUME NEW x, NEW xs
    PROVE  Count(x, xs) = Cardinality(Alike(x, xs))
BY DEF Count, Alike

\* One element more counts for its own record and for no other.
LEMMA CountAdds ==
    ASSUME NEW xs, IsFiniteSet(xs), NEW y, y \notin xs, NEW x
    PROVE  /\ Count(x, xs) \in Nat
           /\ Count(x, xs \cup {y}) =
                IF RecordOf(y) = x THEN Count(x, xs) + 1 ELSE Count(x, xs)
<1>1. Alike(x, xs) \in SUBSET xs
    BY DEF Alike
<1>2. IsFiniteSet(Alike(x, xs))
    BY <1>1, FS_Subset
<1>3. Alike(x, xs \cup {y}) = IF RecordOf(y) = x THEN Alike(x, xs) \cup {y} ELSE Alike(x, xs)
    BY DEF Alike
<1>4. y \notin Alike(x, xs)
    BY <1>1
<1>5. Cardinality(Alike(x, xs) \cup {y}) = Cardinality(Alike(x, xs)) + 1
    BY <1>2, <1>4, FS_AddElement
<1>6. Cardinality(Alike(x, xs)) \in Nat
    BY <1>2, FS_CardinalityType
<1> QED BY <1>3, <1>5, <1>6, CountIs

LEMMA CountNone ==
    ASSUME NEW x
    PROVE  Count(x, {}) = 0
<1>1. Alike(x, {}) = {}
    BY DEF Alike
<1> QED BY <1>1, CountIs, FS_EmptySet

\* What is back and what is still to come make up the snapshot.
RestoreInv ==
    step = "insert" /\ alone =>
        /\ Pending(rows) = {}
        /\ \A x \in Record : Count(x, rows) + Count(x, todo) = Count(x, snap)

LEMMA InsertKeeps ==
    ASSUME IsFiniteSet(Entry), RollbackTypeInv, IdsUnique, RestoreInv, RollbackInsert
    PROVE  RestoreInv'
<1> SUFFICES ASSUME alone
             PROVE  /\ Pending(rows') = {}
                    /\ \A x \in Record : Count(x, rows') + Count(x, todo') = Count(x, snap')
    BY DEF RestoreInv, RollbackInsert
<1>1. step = "insert" /\ snap' = snap
    BY DEF RollbackInsert
<1>2. PICK e \in todo : /\ rows' = Create(rows, nextId, e.key, e.content)
                        /\ todo' = todo \ {e}
    BY DEF RollbackInsert
<1> DEFINE new == NewRow(nextId, e.key, e.content)
<1>3. rows' = rows \cup {new}
    BY <1>2 DEF Create
<1>4. ~new.pending /\ RecordOf(new) = RecordOf(e) /\ new.id = nextId
    BY DEF NewRow, RecordOf
<1>5. new \notin rows
  <2>1. nextId \in Nat
      BY RecordsAssumption DEF RollbackTypeInv, TypeInv, TypeOK
  <2> QED BY <1>4, <2>1 DEF IdsUnique
<1> HIDE DEF new
<1>6. Pending(rows') = {}
    BY <1>1, <1>3, <1>4 DEF RestoreInv, Pending
<1>7. IsFiniteSet(rows) /\ IsFiniteSet(todo')
  <2>1. todo' \in SUBSET Entry
      BY <1>2 DEF RollbackTypeInv, RollbackTypeOK, NothingLeftOver
  <2>2. IsFiniteSet(rows)
      BY RowsFinite DEF RollbackTypeInv, TypeInv, TypeOK, IdsUnique
  <2> QED BY <2>1, <2>2, FS_Subset
<1>8. todo = todo' \cup {e} /\ e \notin todo'
    BY <1>2
<1>9. ASSUME NEW x \in Record
      PROVE  Count(x, rows') + Count(x, todo') = Count(x, snap')
  <2>1. /\ Count(x, rows) \in Nat
        /\ Count(x, rows') = IF RecordOf(e) = x THEN Count(x, rows) + 1 ELSE Count(x, rows)
      BY <1>3, <1>4, <1>5, <1>7, CountAdds
  <2>2. /\ Count(x, todo') \in Nat
        /\ Count(x, todo) = IF RecordOf(e) = x THEN Count(x, todo') + 1 ELSE Count(x, todo')
      BY <1>7, <1>8, CountAdds
  <2>3. Count(x, rows) + Count(x, todo) = Count(x, snap)
      BY <1>1 DEF RestoreInv
  <2> QED BY <1>1, <2>1, <2>2, <2>3
<1> QED BY <1>6, <1>9

LEMMA CountType ==
    ASSUME NEW xs, IsFiniteSet(xs), NEW x
    PROVE  Count(x, xs) \in Nat
<1>1. Alike(x, xs) \in SUBSET xs
    BY DEF Alike
<1> QED BY <1>1, FS_Subset, FS_CardinalityType, CountIs

LEMMA RestoreNext ==
    ASSUME IsFiniteSet(Entry), RollbackTypeInv, IdsUnique, RestoreInv,
           [RollbackNext]_<<vars, rollback>>
    PROVE  RestoreInv'
<1>1. CASE RollbackClear
  <2>1. rows' = {} /\ todo' = snap /\ snap' = snap
      BY <1>1 DEF RollbackClear
  <2>2. snap \in SUBSET Entry
      BY DEF RollbackTypeInv, RollbackTypeOK, NothingLeftOver
  <2>3. IsFiniteSet(snap)
      BY <2>2, FS_Subset
  <2>4. \A x \in Record : Count(x, snap) \in Nat /\ Count(x, {}) = 0
      BY <2>3, CountType, CountNone
  <2> QED BY <2>1, <2>4 DEF RestoreInv, Pending
<1>2. CASE Apply /\ ~RollbackClear /\ ~RollbackInsert
    BY <1>2 DEF Apply, RollbackFind, RollbackUpsert, RollbackSkip, RollbackDone,
       RollbackThrow, RollbackReturn, store, RestoreInv
<1>3. CASE Meanwhile
    BY <1>3 DEF Meanwhile, RestoreInv
<1>4. CASE RollbackRestart
    BY <1>4 DEF RollbackRestart, RollbackReturn, RestoreInv
<1>5. CASE UNCHANGED <<vars, rollback>>
    BY <1>5 DEF vars, rollback, RestoreInv
<1> QED BY <1>1, <1>2, <1>3, <1>4, <1>5, InsertKeeps DEF RollbackNext, Apply

\* A full restore that nothing else writes beside leaves exactly the records of the
\* snapshot, each as often as the snapshot has it, and no row marked for deletion
\* (RollbackEngine.cpp: deleteAllByZoneId, then one create for each record).
THEOREM RestoreIsExact == IsFiniteSet(Entry) /\ RollbackSpec => RestoreExact
<1> DEFINE Exact ==
      step = "insert" /\ RollbackDone /\ alone =>
         /\ Pending(rows) = {}
         /\ \A x \in Record : Count(x, rows) = Count(x, snap)
<1>1. CASE IsFiniteSet(Entry)
  <2>1. RollbackInit => RestoreInv
      BY DEF RollbackInit, RestoreInv
  <2>2. RollbackTypeInv /\ RollbackInv /\ RestoreInv /\ [RollbackNext]_<<vars, rollback>>
            => RestoreInv'
      BY <1>1, RestoreNext DEF RollbackInv
  <2>3. ASSUME RollbackInv, RestoreInv
        PROVE  Exact
    <3> SUFFICES ASSUME step = "insert", RollbackDone, alone
                 PROVE  /\ Pending(rows) = {}
                        /\ \A x \in Record : Count(x, rows) = Count(x, snap)
        OBVIOUS
    <3>1. todo = {} /\ IsFiniteSet(rows)
        BY <2>3, RowsFinite DEF RollbackDone, RollbackInv, TypeOK, IdsUnique
    <3>2. \A x \in Record : Count(x, todo) = 0 /\ Count(x, rows) \in Nat
        BY <3>1, CountNone, CountType
    <3> QED BY <2>3, <3>2 DEF RestoreInv
  <2>4. RollbackInv /\ RestoreInv => [Exact]_<<vars, rollback>>
      BY <2>3
  <2> QED BY <2>1, <2>2, <2>4, RollbackTyped, RowsStayATable, PTL DEF RollbackSpec, RestoreExact
<1> QED BY <1>1
-----------------------------------------------------------------------------
(* SyncCheck: that checks leave the engine as sound as it is, and that one   *)
(* which meets rows and providers at rest stores what is true of them.       *)
-----------------------------------------------------------------------------

\* A zone has providers, and finitely many: the check asks them in the order of a list.
Asked == Providers # {} /\ IsFiniteSet(Providers)

LEMMA ProvidersInOrder ==
    ASSUME Asked
    PROVE  /\ FirstProv \in Providers /\ \A q \in Providers : FirstProv <= q
           /\ LastProv \in Providers /\ \A q \in Providers : q <= LastProv
           /\ \A p \in Providers : p # LastProv =>
                /\ After(p) \in Providers
                /\ \A q \in Providers : q < After(p) => q <= p
<1>1. Providers \in SUBSET Nat /\ Providers # {} /\ IsFiniteSet(Providers)
      BY DiffAssumption DEF Asked
<1>2. \E m \in Providers : \A q \in Providers : m <= q
      BY <1>1, LeastOf
<1>3. \E m \in Providers : \A q \in Providers : q <= m
      BY <1>1, GreatestOf
<1>4. FirstProv \in Providers /\ \A q \in Providers : FirstProv <= q
      BY <1>2 DEF FirstProv
<1>5. LastProv \in Providers /\ \A q \in Providers : q <= LastProv
      BY <1>3 DEF LastProv
<1>6. ASSUME NEW p \in Providers, p # LastProv
      PROVE  After(p) \in Providers /\ \A q \in Providers : q < After(p) => q <= p
  <2> DEFINE later == {q \in Providers : q > p}
  <2>1. LastProv \in later
        BY <1>1, <1>5, <1>6
  <2>2. later \in SUBSET Nat /\ later # {}
        BY <1>1, <2>1
  <2>3. \E q \in later : \A r \in later : q <= r
    <3> HIDE DEF later
    <3> QED BY <2>2, LeastOf
  <2>4. \E q \in Providers : q > p /\ \A r \in Providers : r > p => q <= r
        BY <2>3
  <2>5. /\ After(p) \in Providers
        /\ After(p) > p /\ \A r \in Providers : r > p => After(p) <= r
        BY <2>4 DEF After
  <2>6. ASSUME NEW q \in Providers, q < After(p) PROVE q <= p
    <3>1. q \in Nat /\ p \in Nat /\ After(p) \in Nat
          BY <1>1, <2>5
    <3>2. ~(q > p)
          BY <2>5, <2>6, <3>1
    <3> QED BY <3>1, <3>2
  <2> QED BY <2>5, <2>6
<1> QED BY <1>4, <1>5, <1>6

\* A step of the whole is one of the engine, the end of the process, or one of the check
\* that writes nothing but the status.
LEMMA CheckSteps ==
    ASSUME CheckNext
    PROVE  Next \/ Killed \/ UNCHANGED System
<1>1. CASE Check
  <2>1. ASSUME NEW t \in Workers, CheckBaseline(t) PROVE Next
        BY <2>1 DEF CheckBaseline, Capture, Next
  <2>2. CASE CheckReadRows \/ CheckList \/ CheckFails \/ CheckStore \/ CheckLocked
        BY <2>2 DEF CheckReadRows, CheckList, CheckFails, CheckStore, CheckLocked
  <2> QED BY <1>1, <2>1, <2>2 DEF Check
<1>2. CASE Beside
      BY <1>2 DEF Beside, Next
<1>3. CASE CheckRestart
      BY <1>3 DEF CheckRestart
<1> QED BY <1>1, <1>2, <1>3 DEF CheckNext

\* Outside its listing a check has read nothing.
NothingRead == cstep # "list" => seen = {} /\ listed = Empty /\ nextProv = FirstProv

CheckTypeInv == TypeInv /\ CheckTypeOK /\ NothingRead

LEMMA ChecksTyped ==
    ASSUME Asked, CheckTypeInv, [CheckNext]_all
    PROVE  CheckTypeInv'
<1> USE DEF CheckTypeInv, NothingRead
<1>1. FirstProv \in Providers /\ \A p \in Providers : p # LastProv => After(p) \in Providers
      BY ProvidersInOrder
<1>2. Empty \in [Providers -> SUBSET Record]
      BY DEF Empty
<1>3. \A ds : StatusOf(ds) \in {"in_sync", "drift", "pending"}
      BY DEF StatusOf
<1>4. CASE CheckReadRows
      BY <1>4, <1>1 DEF CheckReadRows, System, store, locals, ghosts, CheckTypeOK, TypeInv, TypeOK
<1>5. CASE CheckList
  <2> DEFINE answered == [listed EXCEPT ![nextProv] = live[nextProv]]
  <2>1. answered \in [Providers -> SUBSET Record]
        BY DEF CheckTypeOK, TypeInv, TypeOK
  <2>2. TypeInv'
        BY <1>5 DEF CheckList, System, store, locals, ghosts, TypeInv, TypeOK
  <2>3. CASE /\ nextProv # LastProv /\ listed' = answered /\ nextProv' = After(nextProv)
             /\ UNCHANGED <<cstep, seen, verdict>>
        BY <1>1, <1>5, <2>1, <2>2, <2>3 DEF CheckList, CheckTypeOK
  <2>4. CASE /\ nextProv = LastProv /\ verdict' = StatusOf(Preview(seen, answered))
             /\ cstep' = "store" /\ CheckReset
        BY <1>1, <1>2, <1>3, <2>2, <2>4 DEF CheckReset, CheckTypeOK
  <2> QED BY <1>5, <2>3, <2>4 DEF CheckList
<1>6. CASE CheckFails
      BY <1>1, <1>2, <1>6 DEF CheckFails, CheckReset, System, store, locals, ghosts,
                              CheckTypeOK, TypeInv, TypeOK
<1>7. CASE CheckStore
      BY <1>7 DEF CheckStore, System, store, locals, ghosts, CheckTypeOK, TypeInv, TypeOK
<1>8. CASE \E t \in Workers : CheckBaseline(t)
  <2>1. PICK t \in Workers : CheckBaseline(t)
        BY <1>8
  <2>2. TypeInv'
        BY <2>1, CaptureType DEF CheckBaseline, Capture
  <2> QED BY <2>1, <2>2 DEF CheckBaseline, CheckTypeOK
<1>9. CASE CheckLocked
      BY <1>9 DEF CheckLocked, System, store, locals, ghosts, CheckTypeOK, TypeInv, TypeOK
<1>10. CASE Beside
  <2>1. TypeInv'
        BY <1>10, PushType, CaptureType, BesideType DEF Beside
  <2> QED BY <1>10, <2>1 DEF Beside, check, CheckTypeOK
<1>11. CASE CheckRestart
  <2>1. TypeInv'
        BY <1>11, KilledType DEF CheckRestart
  <2> QED BY <1>1, <1>2, <1>11, <2>1 DEF CheckRestart, CheckReset, CheckTypeOK
<1>12. CASE UNCHANGED all
       BY <1>12 DEF all, vars, check, CheckTypeOK, TypeInv, TypeOK, HasNewest
<1> QED BY <1>4, <1>5, <1>6, <1>7, <1>8, <1>9, <1>10, <1>11, <1>12 DEF CheckNext, Check

LEMMA ChecksAreTyped == Asked => (CheckInit /\ [][CheckNext]_all => []CheckTypeInv)
<1> SUFFICES ASSUME Asked PROVE CheckInit /\ [][CheckNext]_all => []CheckTypeInv
    OBVIOUS
<1>1. CheckInit => CheckTypeInv
  <2>1. Init => TypeInv
        BY InitType DEF TypeInv, Init, HasNewest
  <2> QED BY <2>1, ProvidersInOrder
          DEF CheckInit, CheckTypeInv, CheckTypeOK, NothingRead, Empty
<1>2. CheckTypeInv /\ [CheckNext]_all => CheckTypeInv'
      BY ChecksTyped
<1> QED BY <1>1, <1>2, PTL
\* Checks and the baselines they capture, which take no lock before they decide and never
\* look at the history twice, leave the engine as sound as it is without them: types, one
\* worker inside, a history without gaps (main.cpp 460-505).
THEOREM CheckedZoneStaysSound ==
    Asked => (CheckSpec => [](TypeOK /\ CheckTypeOK /\ MutexInv /\ HistoryInv))
<1> SUFFICES ASSUME Asked
             PROVE  CheckSpec => [](TypeOK /\ CheckTypeOK /\ MutexInv /\ HistoryInv)
    OBVIOUS
<1> DEFINE Sound == MutexInv /\ HistoryInv
<1>1. CheckInit => Sound
      BY DeploymentAssumption DEF CheckInit, Init, MutexInv, HistoryInv
<1>2. CheckTypeInv /\ Sound /\ [CheckNext]_all => Sound'
  <2> SUFFICES ASSUME CheckTypeInv, Sound, [CheckNext]_all PROVE Sound'
      OBVIOUS
  <2>1. TypeInv /\ TypeOK
        BY DEF CheckTypeInv, TypeInv
  <2>2. CASE [Next]_vars
        BY <2>1, <2>2, MutexNext, HistoryNext
  <2>3. CASE Killed
    <3>1. MutexInv'
          BY <2>3, DeploymentAssumption DEF Killed, MutexInv
    <3>2. HistoryInv'
          BY <2>3 DEF Killed, HistoryInv
    <3> QED BY <3>1, <3>2
  <2>4. CASE UNCHANGED System
        BY <2>4 DEF System, MutexInv, HistoryInv
  <2>5. CASE UNCHANGED all
        BY <2>2, <2>5 DEF all
  <2> QED BY <2>2, <2>3, <2>4, <2>5, CheckSteps
<1>3. CheckTypeInv => TypeOK /\ CheckTypeOK
      BY DEF CheckTypeInv, TypeInv
<1> HIDE DEF Sound
<1>4. CheckSpec => [](TypeOK /\ CheckTypeOK /\ Sound)
      BY <1>1, <1>2, <1>3, ChecksAreTyped, PTL DEF CheckSpec
<1> QED BY <1>4 DEF Sound

\* What a check may say of the zone as it is.
Truth == {StatusOf(Preview(rows, live)), "error"}

\* What a check has read is as it is now, and so is the verdict it found.
UpToDate ==
    /\ cstep = "list" => seen = rows /\ \A p \in Providers : p < nextProv => listed[p] = live[p]
    /\ cstep = "store" => verdict \in Truth

LEMMA StaysUpToDate ==
    ASSUME Asked, CheckTypeInv, UpToDate, [CheckNext]_all, UNCHANGED <<rows, live>>
    PROVE  UpToDate'
<1>1. Truth' = Truth
      BY DEF Truth
<1>2. CASE CheckReadRows
  <2>1. ASSUME NEW p \in Providers PROVE ~(p < FirstProv)
    <3>1. FirstProv \in Providers /\ FirstProv <= p
          BY ProvidersInOrder
    <3>2. FirstProv \in Nat /\ p \in Nat
          BY <3>1, DiffAssumption
    <3> QED BY <3>1, <3>2
  <2>2. nextProv' = FirstProv /\ cstep' = "list" /\ seen' = rows
        BY <1>2 DEF CheckReadRows, CheckTypeInv, NothingRead
  <2> QED BY <2>1, <2>2 DEF UpToDate
<1>3. CASE CheckList
  <2> DEFINE answered == [listed EXCEPT ![nextProv] = live[nextProv]]
  <2>1. /\ nextProv \in Providers /\ listed \in [Providers -> SUBSET Record]
        /\ live \in [Providers -> SUBSET Record]
        /\ cstep = "list" /\ seen = rows
        /\ \A p \in Providers : p < nextProv => listed[p] = live[p]
        BY <1>3 DEF CheckList, CheckTypeInv, CheckTypeOK, TypeInv, TypeOK, UpToDate
  <2>2. \A p \in Providers : p <= nextProv => answered[p] = live[p]
    <3>1. \A p \in Providers : p <= nextProv => p < nextProv \/ p = nextProv
          BY <2>1, DiffAssumption
    <3> QED BY <2>1, <3>1
  <2>3. CASE /\ nextProv # LastProv /\ listed' = answered /\ nextProv' = After(nextProv)
             /\ UNCHANGED <<cstep, seen, verdict>>
    <3> HIDE DEF answered
    <3>1. \A p \in Providers : p < nextProv' => listed'[p] = live[p]
          BY <2>1, <2>2, <2>3, ProvidersInOrder
    <3> QED BY <2>1, <2>3, <3>1 DEF UpToDate
  <2>4. CASE /\ nextProv = LastProv /\ verdict' = StatusOf(Preview(seen, answered))
             /\ cstep' = "store"
    <3>1. answered = live
      <4>1. \A p \in Providers : answered[p] = live[p]
            BY <2>2, <2>4, ProvidersInOrder
      <4> QED BY <2>1, <4>1
    <3>2. verdict' \in Truth
          BY <2>1, <2>4, <3>1 DEF Truth
    <3> QED BY <1>1, <2>4, <3>2 DEF UpToDate
  <2> QED BY <1>3, <2>3, <2>4 DEF CheckList
<1>4. CASE CheckFails
      BY <1>1, <1>4 DEF CheckFails, Truth, UpToDate
<1>5. CASE cstep' \in {"idle", "baseline"}
      BY <1>5 DEF UpToDate
<1>6. CASE UNCHANGED check
      BY <1>1, <1>6 DEF check, UpToDate
<1>7. Check => CheckReadRows \/ CheckList \/ CheckFails \/ cstep' \in {"idle", "baseline"}
      BY DEF Check, CheckStore, CheckBaseline, CheckLocked
<1>8. [CheckNext]_all => Check \/ UNCHANGED check \/ cstep' = "idle"
      BY DEF CheckNext, Beside, CheckRestart, all
<1> QED BY <1>2, <1>3, <1>4, <1>5, <1>6, <1>7, <1>8

\* From a moment at which no check runs, and from which rows and providers rest, every
\* verdict that is stored is what a preview says of them, or "error" (main.cpp 460-505,
\* updateSyncStatus): reads that are apart in time do not add up to anything else, and
\* pushes that end, captures, restarts and failed listings meanwhile do not matter.
THEOREM ChecksTellTheTruth ==
    Asked => (CheckSpec => []( cstep = "idle" /\ [][FALSE]_<<rows, live>>
                                 => [][CheckStore => sync' \in Truth]_all ))
<1> SUFFICES ASSUME Asked
             PROVE  CheckSpec => []( cstep = "idle" /\ [][FALSE]_<<rows, live>>
                                       => [][CheckStore => sync' \in Truth]_all )
    OBVIOUS
<1>1. cstep = "idle" => UpToDate
      BY DEF UpToDate
<1>2. CheckTypeInv /\ UpToDate /\ [CheckNext]_all /\ [FALSE]_<<rows, live>> => UpToDate'
      BY StaysUpToDate
<1>3. UpToDate => [CheckStore => sync' \in Truth]_all
      BY DEF UpToDate, CheckStore
<1> QED BY <1>1, <1>2, <1>3, ChecksAreTyped, PTL DEF CheckSpec
=============================================================================
