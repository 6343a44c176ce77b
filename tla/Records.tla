-------------------------------- MODULE Records --------------------------------
(***************************************************************************)
(* The `records' table of one zone and the statements RecordRepository     *)
(* runs on it.  A row holds what the operator wants a provider to serve;   *)
(* a soft-deleted row (pending_delete) holds what the next push must take  *)
(* away.  Each operator is one transaction: it maps the rows before to the *)
(* rows after.                                                             *)
(*                                                                         *)
(* Data is abstracted to what the deployment code tells apart:             *)
(*   key     - a canonical (name, type) pair of the zone;                  *)
(*   content - everything else of a record: value, TTL and priority.       *)
(* A content is a number so that "first in the listing" has a meaning.     *)
(***************************************************************************)
EXTENDS Integers, FiniteSets

CONSTANTS
    Keys,      \* (name, type) pairs
    Contents,  \* value, TTL and priority together
    MaxId      \* bound: ids the BIGSERIAL of `records' hands out

ASSUME RecordsAssumption == Contents \subseteq Nat /\ MaxId \in Nat

Ids == 1..MaxId

Row == [id : Ids, key : Keys, content : Contents, pending : BOOLEAN]

NewRow(i, k, c) == [id |-> i, key |-> k, content |-> c, pending |-> FALSE]

HasId(rs, i) == \E r \in rs : r.id = i

\* Mutant of Create: ids are counted instead of drawn from a sequence.
CreateCounted(rs, i, k, c) == rs \cup {NewRow(Cardinality(rs) + 1, k, c)}

\* RecordRepository::create
Create(rs, i, k, c) == rs \cup {NewRow(i, k, c)}

\* RecordRepository::update: name, type, value, TTL and priority change, the
\* pending_delete mark does not.
Update(rs, i, k, c) ==
    {IF r.id = i THEN [r EXCEPT !.key = k, !.content = c] ELSE r : r \in rs}

\* RecordRepository::deleteById (b = TRUE) and restoreById (b = FALSE)
Mark(rs, i, b) == {IF r.id = i THEN [r EXCEPT !.pending = b] ELSE r : r \in rs}

\* Mutant of HardDeletePending: the mark is not in the condition of the statement.
HardDeleteAll(rs) == {}

\* RecordRepository::hardDeletePending: every marked row of the zone goes,
\* whoever marked it and whenever.
HardDeletePending(rs) == {r \in rs : ~r.pending}

Active(rs)  == {r \in rs : ~r.pending}
Pending(rs) == {r \in rs : r.pending}
=============================================================================
