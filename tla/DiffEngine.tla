------------------------------- MODULE DiffEngine -------------------------------
(***************************************************************************)
(* DiffEngine: what has to change at each provider for it to serve the     *)
(* zone's rows.  A live record is [key, content]; a provider's listing is  *)
(* a set of them, read in the order of their contents.                     *)
(*                                                                         *)
(* Two records are compared on less than their content:                    *)
(*   Text  - the value as written: drops TTL and priority;                 *)
(*   Canon - the value without its presentation dot: coarser still.        *)
(* Each maps a content to the least content it cannot be told from.        *)
(***************************************************************************)
EXTENDS Records

CONSTANTS
    Providers,  \* provider ids, in the order the std::map visits them
    Carried,    \* Carried[p]: the keys prepareDesiredRecords keeps for p
    Unmanaged,  \* keys of SOA/NS records the zone does not manage
    Text,       \* the sValue of a content
    Canon       \* canonicalValue of a content

\* canonicalValue is computed from the value.
ASSUME DiffAssumption ==
    /\ Providers \subseteq Nat
    /\ Carried \in [Providers -> SUBSET Keys]
    /\ Unmanaged \subseteq Keys
    /\ Text \in [Contents -> Contents]
    /\ Canon \in [Contents -> Contents]
    /\ \A c, d \in Contents : Text[c] = Text[d] => Canon[c] = Canon[d]

Record == [key : Keys, content : Contents]

\* A RecordDiff with its provider.  `old' is the live content an update or a
\* removal names, `new' the content an add or an update writes, `id' the row
\* behind an add or an update (0 for the others); a field the action has no
\* use for repeats the other one.
Diff == [prov : Providers, op : {"add", "update", "delete", "drift"},
         key : Keys, old : Contents, new : Contents, id : Ids \cup {0}]

RecordOf(r)   == [key |-> r.key, content |-> r.content]
OldRecord(d)  == [key |-> d.key, content |-> d.old]
NewRecord(d)  == [key |-> d.key, content |-> d.new]

\* makeKey: equality of the canonical name, type and value.
Same(x, y) == x.key = y.key /\ Canon[x.content] = Canon[y.content]

\* filterRecordTypes
FilterTypes(xs) == {x \in xs : x.key \notin Unmanaged}

\* The first of a set of live records in the order of the listing.
First(xs) == {x \in xs : \A y \in xs : x.content <= y.content}

\* Mutants of Claim: no preference for the row's own value; no stop at the first.
ClaimAnyValue(r, free) == First({x \in free : x.key = r.key})
ClaimAll(r, free) == {x \in free : x.key = r.key}

\* The live record a pending-delete row claims: one with the same value if
\* there is one, otherwise the first of the same name and type.
Claim(r, free) ==
    LET sameKey  == {x \in free : x.key = r.key}
        sameText == {x \in sameKey : Text[x.content] = Text[r.content]}
    IN  First(IF sameText # {} THEN sameText ELSE sameKey)

\* The live records claimed by the pending rows, which choose in id order.
Claimed(pend, live) ==
    LET marked == {x \in live : \E r \in pend : r.key = x.key}
        upTo[i \in 0..MaxId] ==
          IF i = 0 THEN {}
          ELSE upTo[i - 1] \cup
               UNION {Claim(r, marked \ upTo[i - 1]) : r \in {q \in pend : q.id = i}}
    IN  marked \cap upTo[MaxId]

-----------------------------------------------------------------------------
(* computeDiff *)

\* Desired rows with no live counterpart.
Missing(want, live) == {r \in want : \A x \in live : ~Same(r, x)}

\* Mutant of Free: the pass that sets aside what desired rows match is dropped.
FreeAll(want, live) ==
    {x \in live : \A y \in live : Same(x, y) => x.content <= y.content}

\* Live records an update may overwrite: no desired row has their value (a
\* value listed in two spellings is represented by the first).
Free(want, live) ==
    {x \in live : /\ \A r \in want : ~Same(r, x)
                  /\ \A y \in live : Same(x, y) => x.content <= y.content}

\* The nth missing row of a key overwrites the nth free record of that key.
RowRank(r, rs)    == Cardinality({q \in rs : q.key = r.key /\ q.id <= r.id})
RecordRank(x, xs) == Cardinality({y \in xs : y.key = x.key /\ y.content <= x.content})

Pairs(want, live) ==
    LET miss == Missing(want, live)
        free == Free(want, live)
    IN  {m \in miss \X free : /\ m[1].key = m[2].key
                              /\ RowRank(m[1], miss) = RecordRank(m[2], free)}

\* The loop computeDiff runs over the desired rows, in id order: `used' holds
\* the live records the earlier rows took.  Pairs says the same without the
\* order: LoopAgrees (MCDiffEngine) compares the two.
LoopPairs(want, live) ==
    LET free == Free(want, live)
        miss == Missing(want, live)
        upTo[i \in 0..MaxId] ==
          IF i = 0 THEN {}
          ELSE LET used == {m[2] : m \in upTo[i - 1]}
               IN  upTo[i - 1] \cup
                   UNION {{r} \X First({x \in free \ used : x.key = r.key}) :
                            r \in {q \in miss : q.id = i}}
    IN  upTo[MaxId]

ComputeDiff(p, want, live) ==
    LET pairs == Pairs(want, live)
        alone == {r \in Missing(want, live) : \A m \in pairs : m[1] # r}
        drift == {x \in live : /\ \A r \in want : ~Same(r, x)
                               /\ \A m \in pairs : ~Same(m[2], x)}
    IN  {[prov |-> p, op |-> "update", key |-> m[1].key,
          old |-> m[2].content, new |-> m[1].content, id |-> m[1].id] : m \in pairs}
        \cup {[prov |-> p, op |-> "add", key |-> r.key,
               old |-> r.content, new |-> r.content, id |-> r.id] : r \in alone}
        \cup {[prov |-> p, op |-> "drift", key |-> x.key,
               old |-> x.content, new |-> x.content, id |-> 0] : x \in drift}

-----------------------------------------------------------------------------
(* preview *)

\* prepareDesiredRecords: the rows provider p serves.  Pending rows do not
\* pass through it.
Desired(p, rs) == {r \in FilterTypes(Active(rs)) : r.key \in Carried[p]}

ProviderPreview(p, rs, listing) ==
    LET live    == FilterTypes(listing)
        claimed == Claimed(FilterTypes(Pending(rs)), live)
    IN  ComputeDiff(p, Desired(p, rs), live \ claimed)
        \cup {[prov |-> p, op |-> "delete", key |-> x.key,
               old |-> x.content, new |-> x.content, id |-> 0] : x \in claimed}

Preview(rs, live) == UNION {ProviderPreview(p, rs, live[p]) : p \in Providers}

HasDrift(ds) == \E d \in ds : d.op = "drift"
=============================================================================
