------------------------------ MODULE MCDiffEngine ------------------------------
(***************************************************************************)
(* DiffEngine over every input up to a bound.  A state is one input - the  *)
(* rows of a zone and the listing of one provider - grown a record at a    *)
(* time; an invariant is a statement about what preview makes of it.       *)
(***************************************************************************)
EXTENDS DiffEngine

VARIABLES rs, listing, nextRow

p1 == CHOOSE p \in Providers : TRUE

CarryAll == [p \in Providers |-> Keys]

\* Contents 1 and 2 are one value with two TTLs, 3 and 4 one host name without
\* and with its trailing dot; 5 is a value of its own.
ValueOf     == [c \in Contents |-> IF c = 2 THEN 1 ELSE c]
CanonicalOf == [c \in Contents |-> CASE c = 2 -> 1 [] c = 4 -> 3 [] OTHER -> c]

\* Contents that are all values of their own.
Distinct == [c \in Contents |-> c]

Init == rs = {} /\ listing = {} /\ nextRow = 1

GrowRows ==
    /\ nextRow \in Ids
    /\ \E k \in Keys, c \in Contents, b \in BOOLEAN :
          rs' = rs \cup {[NewRow(nextRow, k, c) EXCEPT !.pending = b]}
    /\ nextRow' = nextRow + 1
    /\ UNCHANGED listing

\* A provider holds a value once: no two records it lists are the same.
GrowListing ==
    /\ \E x \in Record :
          /\ \A y \in listing : ~Same(x, y)
          /\ listing' = listing \cup {x}
    /\ UNCHANGED <<rs, nextRow>>

Next == GrowRows \/ GrowListing

Spec == Init /\ [][Next]_<<rs, listing, nextRow>>

-----------------------------------------------------------------------------

Plan == ProviderPreview(p1, rs, listing)

Of(op) == {d \in Plan : d.op = op}

\* The provider after a push of the plan that ignores drift.
Pushed ==
    (listing \ {OldRecord(d) : d \in Of("update") \cup Of("delete")})
    \cup {NewRecord(d) : d \in Of("update") \cup Of("add")}

\* The engine's purpose: once the plan is executed and the pending rows are
\* purged, a new preview shows the drift of the first one and nothing else.
PushSettles == ProviderPreview(p1, HardDeletePending(rs), Pushed) = Of("drift")

\* No two diffs name one live record, and none writes one row twice.
OneDiffEach ==
    \A d, e \in Plan : d # e =>
      /\ d.op # "add" /\ e.op # "add" => OldRecord(d) # OldRecord(e)
      /\ d.id # 0 => d.id # e.id

\* A key never has a record to add and a drifted one: the missing row takes
\* the drifted record over, so drift is reported for surplus records only.
NoAddBesideDrift == \A d \in Of("add"), e \in Of("drift") : d.key # e.key

\* What the loop of computeDiff pairs up one row after the other is what the
\* ranks of Pairs say: no desired row steals the record of another.
LoopAgrees ==
    LET want == Desired(p1, rs)
        rest == FilterTypes(listing) \ Claimed(FilterTypes(Pending(rs)), FilterTypes(listing))
    IN  LoopPairs(want, rest) = Pairs(want, rest)

\* The pending rows of a key take away at most one record each, and never
\* leave a record with a pending row's own value behind.
DeletesAreAskedFor ==
    LET marked == FilterTypes(Pending(rs))
    IN  /\ \A k \in Keys : Cardinality({d \in Of("delete") : d.key = k})
                             <= Cardinality({r \in marked : r.key = k})
        /\ \A r \in marked : \A x \in listing :
             x.key = r.key /\ Text[x.content] = Text[r.content]
               => \E d \in Of("delete") : OldRecord(d) = x

\* A plan names every record and every row once, adds nothing it could have taken over,
\* deletes what is marked and no more, and pairs as computeDiff does.
PlanIsSound == OneDiffEach /\ NoAddBesideDrift /\ LoopAgrees /\ DeletesAreAskedFor

\* CHANGELOG.md 97, "Bulk TTL Update": after a push the provider serves every
\* desired row, its TTL and priority included.
PushServesContent == \A r \in Desired(p1, rs) : RecordOf(r) \in Pushed
=============================================================================
