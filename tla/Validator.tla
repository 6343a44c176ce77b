-------------------------------- MODULE Validator -------------------------------
(***************************************************************************)
(* RecordValidator and the requests that ask it: a CNAME stands alone at   *)
(* its name.  A POST and a PUT validate in one transaction and write in    *)
(* another; everything else writes unasked.                                *)
(***************************************************************************)
EXTENDS Integers, FiniteSets

CONSTANTS
    Unasked,       \* a thread without a request
    Askers,        \* threads that serve POST and PUT
    Owners,        \* names of records
    MaxCheckedId   \* bound: rows the zone ever has

ASSUME ValidatorAssumption == MaxCheckedId \in Nat

Types == {"CNAME", "A"}

CheckedRows == INSTANCE Records WITH Keys <- Owners \X Types, Contents <- {0}, MaxId <- MaxCheckedId

VARIABLES
    checkedRows,  \* the records of the zone
    lastChecked,  \* the sequence of their ids
    asking        \* asking[o]: the write thread o has been allowed, and the rows it was allowed for

validatorVars == <<checkedRows, lastChecked, asking>>

\* `id' is 0 for a POST.
Allowed == [id : 0..MaxCheckedId, key : Owners \X Types, seen : SUBSET CheckedRows!Row]

\* Every variable has its type, and no two rows share an id.
ValidatorTypeOK ==
    /\ checkedRows \subseteq CheckedRows!Row /\ lastChecked \in 0..MaxCheckedId
    /\ \A r, s \in checkedRows : r.id <= lastChecked /\ (r.id = s.id => r = s)
    /\ asking \in [Askers -> Allowed \cup {Unasked}]

ValidatorInit ==
    /\ checkedRows = {} /\ lastChecked = 0
    /\ asking = [o \in Askers |-> Unasked]

-----------------------------------------------------------------------------
\* The rows validate looks at: not those marked for deletion, not the one it is about.
Existing(i) == {r \in CheckedRows!Active(checkedRows) : r.id # i}

\* Mutant of Refused: nothing is asked of a record that is no CNAME.
RefusedCname(k, rs) == k[2] = "CNAME" /\ \E r \in rs : r.key[1] = k[1]

\* CNAME_COEXISTENCE and MULTIPLE_CNAMES, the warnings with severity "error".
Refused(k, rs) ==
    \/ k[2] = "CNAME" /\ \E r \in rs : r.key[1] = k[1]
    \/ k[2] # "CNAME" /\ \E r \in rs : r.key = <<k[1], "CNAME">>

\* POST and PUT up to the write; 422 leaves everything as it is.
Validate(o, i, k) ==
    /\ asking[o] = Unasked
    /\ i = 0 \/ CheckedRows!HasId(checkedRows, i)
    /\ ~Refused(k, Existing(i))
    /\ asking' = [asking EXCEPT ![o] = [id |-> i, key |-> k, seen |-> Existing(i)]]
    /\ UNCHANGED <<checkedRows, lastChecked>>

InsertRow(k) ==
    /\ lastChecked < MaxCheckedId /\ lastChecked' = lastChecked + 1
    /\ checkedRows' = CheckedRows!Create(checkedRows, lastChecked + 1, k, 0)

ChangeRow(i, k) ==
    /\ checkedRows' = CheckedRows!Update(checkedRows, i, k, 0)
    /\ UNCHANGED lastChecked

\* The write; an UPDATE of a row that is gone is an error and changes nothing.
WriteAllowed(o) ==
    /\ asking[o] # Unasked
    /\ IF asking[o].id = 0 THEN InsertRow(asking[o].key) ELSE ChangeRow(asking[o].id, asking[o].key)
    /\ asking' = [asking EXCEPT ![o] = Unasked]

\* The batch and import routes, templates and snippets, the adoption of drift and
\* rollbacks; a PUT under the address of another zone.
WriteUnasked(k) ==
    /\ InsertRow(k) \/ \E r \in checkedRows : ChangeRow(r.id, k)
    /\ UNCHANGED asking

\* DELETE marks a row, POST restore takes the mark away without a question.
MarkRow(i, b) ==
    /\ CheckedRows!HasId(checkedRows, i)
    /\ checkedRows' = CheckedRows!Mark(checkedRows, i, b)
    /\ UNCHANGED <<lastChecked, asking>>

\* A push.
PurgeMarked ==
    /\ checkedRows' = CheckedRows!HardDeletePending(checkedRows)
    /\ UNCHANGED <<lastChecked, asking>>

ValidatorNext ==
    \/ \E o \in Askers :
         \/ \E i \in 0..MaxCheckedId, k \in Owners \X Types : Validate(o, i, k)
         \/ WriteAllowed(o)
    \/ \E k \in Owners \X Types : WriteUnasked(k)
    \/ \E i \in 1..MaxCheckedId, b \in BOOLEAN : MarkRow(i, b)
    \/ PurgeMarked

ValidatorSpec == ValidatorInit /\ [][ValidatorNext]_validatorVars

-----------------------------------------------------------------------------
\* Pairs of rows of one name of which one is a CNAME.
Conflicts(rs) ==
    {p \in SUBSET {r.id : r \in rs} :
       \E r, s \in rs : /\ p = {r.id, s.id} /\ r.id # s.id
                        /\ r.key[1] = s.key[1] /\ r.key[2] = "CNAME"}

\* A request that was validated against the rows it meets when it writes adds no
\* conflict, whatever conflicts were there before: the rules leave no way to one but a
\* write between the two transactions, a restore, and the requests that do not ask.
AllowedIsSound ==
    [][\A o \in Askers :
         /\ asking[o] # Unasked /\ asking'[o] = Unasked
         /\ asking[o].seen = Existing(asking[o].id)
         => Conflicts(CheckedRows!Active(checkedRows')) \subseteq Conflicts(CheckedRows!Active(checkedRows))
       ]_validatorVars

\* The rows stay a table, and asking the rules first keeps conflicts out of it.
RulesAreKept == []ValidatorTypeOK /\ AllowedIsSound
=============================================================================
