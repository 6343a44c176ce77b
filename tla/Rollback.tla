-------------------------------- MODULE Rollback --------------------------------
(***************************************************************************)
(* RollbackEngine beside a deploying zone.  apply puts the records of an   *)
(* old deployment back into the records table and pushes nothing.  It      *)
(* takes no zone mutex and has no transaction of its own: each statement   *)
(* commits alone, and record edits and the steps of a push fall between.   *)
(***************************************************************************)
EXTENDS Deployment

VARIABLES
    step,    \* "idle", "clear", "insert" or "pick": what apply does next
    snap,    \* the records of the deployment apply has found
    todo,    \* entries still to insert
    picks,   \* record ids still to restore
    alone    \* nothing but apply has written the rows since its first write

rollback == <<step, snap, todo, picks, alone>>

RollbackTypeOK ==
    /\ step \in {"idle", "clear", "insert", "pick"}
    /\ snap \subseteq Entry
    /\ todo \subseteq snap
    /\ picks \subseteq Ids
    /\ alone \in BOOLEAN

RollbackInit ==
    Init /\ step = "idle" /\ snap = {} /\ todo = {} /\ picks = {} /\ alone = FALSE

Rest == <<live, history, sync, mutex, pc, locals, base>>

\* Leaving apply, normally or by an exception: what is written stays.
RollbackReturn ==
    step' = "idle" /\ snap' = {} /\ todo' = {} /\ picks' = {}

\* findById: a deployment of the zone that retention has not pruned yet.  An
\* empty list of ids, or a body that does not parse, asks for everything.
RollbackFind ==
    /\ step = "idle"
    /\ \E e \in history : snap' = e.records
    /\ \E ids \in SUBSET Ids :
          /\ picks' = ids
          /\ step' = IF ids = {} THEN "clear" ELSE "pick"
    /\ alone' = TRUE
    /\ UNCHANGED <<store, Rest, quiet, todo>>

\* Mutant of RollbackClear: rows marked for deletion are spared.
RollbackClearActive ==
    /\ step = "clear"
    /\ rows' = Pending(rows)
    /\ todo' = snap
    /\ alone' = TRUE
    /\ quiet' = FALSE
    /\ step' = "insert"
    /\ UNCHANGED <<nextId, Rest, snap, picks>>

\* Full restore: deleteAllByZoneId, then one create for each record.
RollbackClear ==
    /\ step = "clear"
    /\ rows' = {}
    /\ todo' = snap
    /\ alone' = TRUE
    /\ quiet' = FALSE
    /\ step' = "insert"
    /\ UNCHANGED <<nextId, Rest, snap, picks>>

\* Entries come back in the order of the snapshot: of their old ids.
RollbackInsert ==
    /\ step = "insert"
    /\ nextId <= MaxId
    /\ \E e \in todo :
          /\ \A f \in todo : e.id <= f.id
          /\ rows' = Create(rows, nextId, e.key, e.content)
          /\ todo' = todo \ {e}
    /\ nextId' = nextId + 1
    /\ quiet' = FALSE
    /\ UNCHANGED <<Rest, step, snap, picks, alone>>

\* Cherry-pick: upsertById rewrites the row of that id, pending mark and all,
\* or inserts the record under a new id.
RollbackUpsert ==
    /\ step = "pick"
    /\ \E e \in snap :
          /\ e.id \in picks
          /\ picks' = picks \ {e.id}
          /\ IF HasId(rows, e.id)
             THEN /\ rows' = Update(rows, e.id, e.key, e.content)
                  /\ UNCHANGED nextId
             ELSE /\ nextId <= MaxId
                  /\ rows' = Create(rows, nextId, e.key, e.content)
                  /\ nextId' = nextId + 1
    /\ quiet' = FALSE
    /\ UNCHANGED <<Rest, step, snap, todo, alone>>

\* An id the snapshot does not have is logged and skipped.
RollbackSkip ==
    /\ step = "pick"
    /\ \E i \in picks :
          /\ \A e \in snap : e.id # i
          /\ picks' = picks \ {i}
    /\ UNCHANGED <<store, Rest, quiet, step, snap, todo, alone>>

RollbackDone ==
    /\ \/ step = "insert" /\ todo = {}
       \/ step = "pick" /\ picks = {}
    /\ RollbackReturn
    /\ UNCHANGED <<store, Rest, quiet, alone>>

\* A database error between two statements.
RollbackThrow ==
    /\ step # "idle"
    /\ RollbackReturn
    /\ alone' = FALSE
    /\ UNCHANGED <<store, Rest, quiet>>

RollbackRestart ==
    /\ Busy \/ step # "idle"
    /\ Killed
    /\ RollbackReturn
    /\ alone' = FALSE

Apply ==
    \/ RollbackFind
    \/ RollbackClear
    \/ RollbackInsert
    \/ RollbackUpsert
    \/ RollbackSkip
    \/ RollbackDone
    \/ RollbackThrow

\* The rest of the system; `alone' notes whether it wrote the rows.
Meanwhile ==
    /\ \/ \E t \in Workers : Push(t) \/ Capture(t) \/ Throw(t)
       \/ Edit
       \/ OutOfBand
    /\ alone' = (alone /\ rows' = rows)
    /\ UNCHANGED <<step, snap, todo, picks>>

RollbackNext == Apply \/ Meanwhile \/ RollbackRestart

RollbackSpec == RollbackInit /\ [][RollbackNext]_<<vars, rollback>>

-----------------------------------------------------------------------------

Count(x, xs) == Cardinality({y \in xs : RecordOf(y) = x})

\* A full restore nobody interferes with puts back every record of the
\* snapshot, as often as the snapshot has it, and leaves nothing else - no
\* later row, no pending one.
RestoreExact ==
    [][step = "insert" /\ RollbackDone /\ alone =>
         /\ Pending(rows) = {}
         /\ \A x \in Record : Count(x, rows) = Count(x, snap)]_<<vars, rollback>>

\* Row ids are unique whatever rollback, push and the routes do to the table
\* together, and the sequence is ahead of all of them.
IdsUnique ==
    /\ \A q, r \in rows : q.id = r.id => q = r
    /\ \A r \in rows : r.id < nextId

\* However rollbacks, pushes and edits interleave, the rows of the zone stay a table:
\* each has an id of its own, below the next one.
RollbackInv == TypeOK /\ RollbackTypeOK /\ IdsUnique
=============================================================================
