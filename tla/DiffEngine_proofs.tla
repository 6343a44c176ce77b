--------------------------- MODULE DiffEngine_proofs ---------------------------
(***************************************************************************)
(* What a preview is, for any rows and any listings: the lemmas that the   *)
(* proofs about plans and about pushes share.                              *)
(***************************************************************************)
EXTENDS DiffEngine, FiniteSetTheorems, TLAPS

-----------------------------------------------------------------------------
(* The diffs of a preview *)

\* A preview is a set of diffs, whatever the rows and the listings are.
LEMMA PreviewType ==
    ASSUME NEW rs \in SUBSET Row, NEW lv \in [Providers -> SUBSET Record]
    PROVE  Preview(rs, lv) \subseteq Diff
<1> SUFFICES ASSUME NEW p \in Providers
             PROVE  ProviderPreview(p, rs, lv[p]) \subseteq Diff
    BY DEF Preview
<1> DEFINE shown == FilterTypes(lv[p])
           taken == Claimed(FilterTypes(Pending(rs)), shown)
           want  == Desired(p, rs)
           rest  == shown \ taken
<1>1. shown \subseteq Record /\ rest \subseteq Record
      BY DEF FilterTypes
<1>2. taken \subseteq Record
      BY <1>1 DEF Claimed
<1>3. want \subseteq Row
      BY DEF Desired, FilterTypes, Active
<1>4. Missing(want, rest) \subseteq Row
      BY <1>3 DEF Missing
<1>5. Free(want, rest) \subseteq Record
      BY <1>1 DEF Free
<1>6. Pairs(want, rest) \subseteq Row \X Record
      BY <1>4, <1>5 DEF Pairs
<1> HIDE DEF shown, taken, want, rest
<1>7. ComputeDiff(p, want, rest) \subseteq Diff
  <2> DEFINE pairs == Pairs(want, rest)
             alone == {r \in Missing(want, rest) : \A m \in pairs : m[1] # r}
             drift == {x \in rest : /\ \A r \in want : ~Same(r, x)
                                    /\ \A m \in pairs : ~Same(m[2], x)}
  <2>1. \A m \in pairs :
          [prov |-> p, op |-> "update", key |-> m[1].key, old |-> m[2].content,
           new |-> m[1].content, id |-> m[1].id] \in Diff
        BY <1>6 DEF Diff, Row, Record
  <2>2. \A r \in alone :
          [prov |-> p, op |-> "add", key |-> r.key, old |-> r.content,
           new |-> r.content, id |-> r.id] \in Diff
        BY <1>4 DEF Diff, Row
  <2>3. \A x \in drift :
          [prov |-> p, op |-> "drift", key |-> x.key, old |-> x.content,
           new |-> x.content, id |-> 0] \in Diff
        BY <1>1 DEF Diff, Record
  <2> QED
      BY <2>1, <2>2, <2>3 DEF ComputeDiff
<1>8. \A x \in taken :
        [prov |-> p, op |-> "delete", key |-> x.key, old |-> x.content,
         new |-> x.content, id |-> 0] \in Diff
      BY <1>2 DEF Diff, Record
<1> QED
    BY <1>7, <1>8 DEF ProviderPreview, shown, taken, want, rest

\* A diff of a preview is never of an unmanaged key, and one that overwrites or
\* deletes a live record has a row of the zone behind it.
Justified(d, rs) ==
    /\ d.key \notin Unmanaged
    /\ d.op \in {"update", "delete"} =>
         \E r \in rs : r.key = d.key /\ (r.pending \/ d.key \in Carried[d.prov])

LEMMA PreviewJustified ==
    ASSUME NEW rs \in SUBSET Row, NEW lv \in [Providers -> SUBSET Record],
           NEW d \in Preview(rs, lv)
    PROVE  Justified(d, rs)
<1>1. PICK p \in Providers : d \in ProviderPreview(p, rs, lv[p])
      BY DEF Preview
<1> DEFINE shown == FilterTypes(lv[p])
           marks == FilterTypes(Pending(rs))
           taken == Claimed(marks, shown)
           want  == Desired(p, rs)
           rest  == shown \ taken
           pairs == Pairs(want, rest)
<1>2. \A x \in shown : x.key \notin Unmanaged
      BY DEF FilterTypes
<1>3. \A x \in taken : x \in shown /\ \E r \in rs : r.pending /\ r.key = x.key
      BY DEF Claimed, FilterTypes, Pending
<1>4. \A r \in want : r \in rs /\ r.key \notin Unmanaged /\ r.key \in Carried[p]
      BY DEF Desired, FilterTypes, Active
<1>5. \A m \in pairs : m[1] \in want
      BY DEF Pairs, Missing
<1>6. Missing(want, rest) \subseteq want
      BY DEF Missing
<1> HIDE DEF shown, marks, taken, want, rest, pairs
<1>7. \/ \E m \in pairs : d = [prov |-> p, op |-> "update", key |-> m[1].key,
                              old |-> m[2].content, new |-> m[1].content, id |-> m[1].id]
      \/ \E r \in Missing(want, rest) :
            d = [prov |-> p, op |-> "add", key |-> r.key,
                 old |-> r.content, new |-> r.content, id |-> r.id]
      \/ \E x \in rest : d = [prov |-> p, op |-> "drift", key |-> x.key,
                             old |-> x.content, new |-> x.content, id |-> 0]
      \/ \E x \in taken : d = [prov |-> p, op |-> "delete", key |-> x.key,
                              old |-> x.content, new |-> x.content, id |-> 0]
      BY <1>1 DEF ProviderPreview, ComputeDiff, shown, marks, taken, want, rest, pairs
<1>8. CASE \E m \in pairs :
             d = [prov |-> p, op |-> "update", key |-> m[1].key,
                  old |-> m[2].content, new |-> m[1].content, id |-> m[1].id]
  <2>1. PICK m \in pairs :
             d = [prov |-> p, op |-> "update", key |-> m[1].key,
                  old |-> m[2].content, new |-> m[1].content, id |-> m[1].id]
        BY <1>8
  <2> QED
      BY <2>1, <1>4, <1>5 DEF Justified
<1>9. CASE \E r \in Missing(want, rest) :
            d = [prov |-> p, op |-> "add", key |-> r.key,
                 old |-> r.content, new |-> r.content, id |-> r.id]
      BY <1>9, <1>4, <1>6 DEF Justified
<1>10. CASE \E x \in rest : d = [prov |-> p, op |-> "drift", key |-> x.key,
                                old |-> x.content, new |-> x.content, id |-> 0]
       BY <1>10, <1>2 DEF Justified, rest
<1>11. CASE \E x \in taken : d = [prov |-> p, op |-> "delete", key |-> x.key,
                                 old |-> x.content, new |-> x.content, id |-> 0]
       BY <1>11, <1>2, <1>3 DEF Justified
<1> QED
    BY <1>7, <1>8, <1>9, <1>10, <1>11

-----------------------------------------------------------------------------
(* Induction over an interval *)

\* An interval with a member of a set that is closed under going on is in it.
LEMMA IntervalInduction ==
    ASSUME NEW n \in Nat, NEW S, 0 \in S, \A i \in 0..n : i < n /\ i \in S => i + 1 \in S
    PROVE  0..n \subseteq S
<1> SUFFICES ASSUME NEW m \in 0..n, m \notin S PROVE FALSE
    OBVIOUS
<1> DEFINE F == {i \in 0..m : i \notin S}
           G == F \ {m}
           f == [i \in F |-> i - 1]
<1>1. IsFiniteSet(F)
  <2>1. IsFiniteSet(0..m)
      BY FS_Interval
  <2> QED BY <2>1, FS_Subset
<1>2. m \in F
    OBVIOUS
<1>3. IsFiniteSet(G) /\ Cardinality(G) = Cardinality(F) - 1 /\ Cardinality(F) \in Nat
    BY <1>1, <1>2, FS_RemoveElement, FS_CardinalityType
<1>4. \A i \in F : i - 1 \in G
    OBVIOUS
<1>5. f \in [F -> G]
    BY <1>4
<1>6. \A i, j \in F : f[i] = f[j] => i = j
    OBVIOUS
<1> HIDE DEF F, G, f
<1>7. Cardinality(G) < Cardinality(F)
    BY <1>3
<1>8. \E i, j \in F : i # j /\ f[i] = f[j]
    BY <1>1, <1>3, <1>5, <1>7, FS_PigeonHole
<1> QED BY <1>6, <1>8

\* A set of numbers has a least one, and a finite one a greatest.
LEMMA LeastOf ==
    ASSUME NEW S \in SUBSET Nat, S # {}
    PROVE  \E m \in S : \A n \in S : m <= n
<1> SUFFICES ASSUME \A m \in S : \E n \in S : n < m PROVE FALSE
    OBVIOUS
<1>1. PICK m \in S : TRUE
      OBVIOUS
<1> DEFINE T == {i \in 0..m : \A n \in S : i <= n}
<1>2. 0 \in T
      OBVIOUS
<1>3. \A i \in 0..m : i < m /\ i \in T => i + 1 \in T
  <2> SUFFICES ASSUME NEW i \in 0..m, i < m, i \in T PROVE i + 1 \in T
      OBVIOUS
  <2>1. i \notin S
        OBVIOUS
  <2>2. \A n \in S : n \in Nat /\ i <= n /\ n # i
        BY <2>1
  <2>3. \A n \in S : i + 1 <= n
        BY <2>2
  <2> QED BY <2>3
<1> HIDE DEF T
<1>4. m \in Nat /\ 0..m \subseteq T
      BY <1>2, <1>3, IntervalInduction
<1>5. m \in T
      BY <1>4
<1> QED BY <1>1, <1>5 DEF T

LEMMA GreatestOf ==
    ASSUME NEW S \in SUBSET Nat, S # {}, IsFiniteSet(S)
    PROVE  \E m \in S : \A n \in S : n <= m
<1>1. PICK n \in Nat : ExistsSurjection(1..n, S)
      BY FS_NatSurjection
<1>2. PICK f : f \in Surjection(1..n, S)
      BY <1>1 DEF ExistsSurjection
<1>3. f \in [1..n -> S] /\ \A x \in S : \E i \in 1..n : f[i] = x
      BY <1>2 DEF Surjection
<1> DEFINE T == {i \in 0..n : \E b \in Nat : \A j \in 1..i : f[j] <= b}
<1>4. 0 \in T
      OBVIOUS
<1>5. \A i \in 0..n : i < n /\ i \in T => i + 1 \in T
  <2> SUFFICES ASSUME NEW i \in 0..n, i < n, i \in T PROVE i + 1 \in T
      OBVIOUS
  <2>1. PICK b \in Nat : \A j \in 1..i : f[j] <= b
        OBVIOUS
  <2>2. i + 1 \in 1..n /\ f[i + 1] \in Nat
    <3>1. i + 1 \in 1..n
          OBVIOUS
    <3> HIDE DEF T
    <3>2. f[i + 1] \in S
          BY <1>3, <3>1
    <3> QED BY <3>1, <3>2
  <2>3. \A j \in 1..n : f[j] \in Nat
        BY <1>3
  <2>4. ASSUME NEW j \in 1..(i + 1) PROVE f[j] <= b + f[i + 1]
    <3>1. j \in 1..i \/ j = i + 1
          OBVIOUS
    <3>2. f[j] \in Nat
          BY <2>2, <2>3, <3>1
    <3>3. f[j] <= b \/ f[j] = f[i + 1]
          BY <2>1, <3>1
    <3> QED BY <2>2, <3>2, <3>3
  <2>5. b + f[i + 1] \in Nat
        BY <2>2
  <2> QED BY <2>4, <2>5
<1> HIDE DEF T
<1>6. n \in T
  <2>1. 0..n \subseteq T
        BY <1>4, <1>5, IntervalInduction
  <2> QED BY <2>1
<1>7. PICK b \in Nat : \A j \in 1..n : f[j] <= b
      BY <1>6 DEF T
<1>8. \A x \in S : x \in Nat /\ x <= b
      BY <1>3, <1>7
<1> DEFINE D == {b - x : x \in S}
<1>9. D \in SUBSET Nat /\ D # {}
  <2>1. \A x \in S : b - x \in Nat
        BY <1>8
  <2>2. D # {}
        OBVIOUS
  <2> QED BY <2>1, <2>2
<1>10. PICK d \in D : \A e \in D : d <= e
  <2> HIDE DEF D
  <2> QED BY <1>9, LeastOf
<1>11. PICK m \in S : d = b - m
       OBVIOUS
<1>12. ASSUME NEW x \in S PROVE x <= m
  <2>1. b - m <= b - x
        BY <1>10, <1>11
  <2>2. x \in Nat /\ m \in Nat
        OBVIOUS
  <2> HIDE DEF D
  <2> QED BY <2>1, <2>2
<1> QED BY <1>12

-----------------------------------------------------------------------------
(* The record a pending row claims *)

\* The function Claimed computes, row id after row id.
ClaimedUpTo(pend, marked, f, n) ==
    f = [i \in 0..n |->
           IF i = 0 THEN {}
           ELSE f[i - 1] \cup
                UNION {Claim(r, marked \ f[i - 1]) : r \in {q \in pend : q.id = i}}]

LEMMA ClaimedUpToExists ==
    ASSUME NEW pend, NEW marked
    PROVE  \E f : ClaimedUpTo(pend, marked, f, MaxId)
<1> DEFINE more(s, i) == s \cup UNION {Claim(r, marked \ s) : r \in {q \in pend : q.id = i}}
           S == {n \in 0..MaxId :
                   \E f : f = [i \in 0..n |-> IF i = 0 THEN {} ELSE more(f[i - 1], i)]}
<1> HIDE DEF more
<1>1. MaxId \in Nat
      BY RecordsAssumption
<1>2. 0 \in S
  <2> DEFINE f == [i \in 0..0 |-> {}]
  <2>1. f = [i \in 0..0 |-> IF i = 0 THEN {} ELSE more(f[i - 1], i)]
        OBVIOUS
  <2> HIDE DEF f
  <2>2. 0 \in 0..MaxId
        BY <1>1
  <2> QED
      BY <2>1, <2>2
<1>3. ASSUME NEW n \in 0..MaxId, n < MaxId, n \in S PROVE n + 1 \in S
  <2>1. PICK f : f = [i \in 0..n |-> IF i = 0 THEN {} ELSE more(f[i - 1], i)]
        BY <1>3
  <2> DEFINE g == [i \in 0..(n + 1) |-> IF i <= n THEN f[i] ELSE more(f[n], i)]
  <2>2. \A i \in 0..(n + 1) : g[i] = IF i = 0 THEN {} ELSE more(g[i - 1], i)
    <3> SUFFICES ASSUME NEW i \in 0..(n + 1)
                 PROVE  g[i] = IF i = 0 THEN {} ELSE more(g[i - 1], i)
        OBVIOUS
    <3>1. CASE i = 0
      <4>1. f[0] = {} /\ g[0] = f[0]
            BY <2>1, <1>1
      <4> QED BY <4>1, <3>1
    <3>2. CASE i # 0 /\ i <= n
      <4>1. i \in 0..n /\ i - 1 \in 0..n
            BY <3>2
      <4>2. g[i] = f[i] /\ g[i - 1] = f[i - 1]
            BY <4>1
      <4>3. f[i] = more(f[i - 1], i)
            BY <2>1, <4>1, <3>2
      <4> QED BY <4>2, <4>3, <3>2
    <3>3. CASE i = n + 1
      <4>1. n \in 0..n /\ i - 1 = n /\ ~(i <= n) /\ i # 0
            BY <3>3
      <4>2. g[n] = f[n] /\ g[i] = more(f[n], i)
            BY <4>1
      <4> QED BY <4>1, <4>2
    <3> QED BY <3>1, <3>2, <3>3
  <2>3. g = [i \in 0..(n + 1) |-> IF i = 0 THEN {} ELSE more(g[i - 1], i)]
        BY <2>2
  <2> HIDE DEF g
  <2>4. n + 1 \in 0..MaxId
        BY <1>1, <1>3
  <2> QED BY <2>3, <2>4
<1> HIDE DEF S
<1>4. MaxId \in S
      BY <1>1, <1>2, <1>3, IntervalInduction
<1> QED
    BY <1>4 DEF S, more, ClaimedUpTo

LEMMA ClaimedIs ==
    ASSUME NEW pend, NEW lv, NEW marked,
           \A x : x \in marked <=> x \in lv /\ \E r \in pend : r.key = x.key
    PROVE  \E f : /\ ClaimedUpTo(pend, marked, f, MaxId)
                  /\ Claimed(pend, lv) = marked \cap f[MaxId]
<1> DEFINE F == CHOOSE f : ClaimedUpTo(pend, marked, f, MaxId)
<1>1. Claimed(pend, lv) = marked \cap F[MaxId]
  <2>1. marked = {x \in lv : \E r \in pend : r.key = x.key}
        OBVIOUS
  <2> QED BY <2>1 DEF Claimed, ClaimedUpTo
<1>2. ClaimedUpTo(pend, marked, F, MaxId)
      BY ClaimedUpToExists
<1> QED BY <1>1, <1>2

\* It only grows, by what the rows of each id claim.
LEMMA ClaimedStep ==
    ASSUME NEW pend, NEW marked, NEW f, ClaimedUpTo(pend, marked, f, MaxId),
           NEW i \in 1..MaxId
    PROVE  /\ f[i - 1] \subseteq f[i]
           /\ \A r \in pend : r.id = i => Claim(r, marked \ f[i - 1]) \subseteq f[i]
<1> DEFINE claims == {Claim(r, marked \ f[i - 1]) : r \in {q \in pend : q.id = i}}
<1>1. i \in 0..MaxId /\ i # 0
      BY RecordsAssumption
<1>2. f[i] = f[i - 1] \cup UNION claims
      BY <1>1, Zenon DEF ClaimedUpTo
<1>3. \A r \in pend : r.id = i => Claim(r, marked \ f[i - 1]) \in claims
      OBVIOUS
<1> HIDE DEF claims
<1> QED BY <1>2, <1>3

\* A row that is to go claims every record with its value, if no value is listed
\* twice.
LEMMA ClaimsItsValue ==
    ASSUME NEW pend \in SUBSET Row, NEW lv \in SUBSET Record,
           \A x, y \in lv : Same(x, y) => x = y,
           NEW r \in pend, NEW x \in lv,
           x.key = r.key, Text[x.content] = Text[r.content]
    PROVE  x \in Claimed(pend, lv)
<1> DEFINE marked == {y \in lv : \E q \in pend : q.key = y.key}
<1>0. \A y : y \in marked <=> y \in lv /\ \E q \in pend : q.key = y.key
      OBVIOUS
<1> HIDE DEF marked
<1>1. PICK f : /\ ClaimedUpTo(pend, marked, f, MaxId)
               /\ Claimed(pend, lv) = marked \cap f[MaxId]
      BY <1>0, ClaimedIs
<1>2. x \in marked
      BY <1>0
<1>3. r.id \in 1..MaxId /\ MaxId \in Nat
      BY RecordsAssumption DEF Row, Ids
<1>4. \A i \in 1..MaxId :
         /\ f[i - 1] \subseteq f[i]
         /\ \A q \in pend : q.id = i => Claim(q, marked \ f[i - 1]) \subseteq f[i]
      BY <1>1, ClaimedStep
<1>5. x \in f[r.id]
  <2>1. CASE x \in f[r.id - 1]
        BY <2>1, <1>3, <1>4
  <2>2. CASE x \notin f[r.id - 1]
    <3> DEFINE free == marked \ f[r.id - 1]
               sameKey == {y \in free : y.key = r.key}
               sameText == {y \in sameKey : Text[y.content] = Text[r.content]}
    <3>1. \A y \in sameText : y = x
      <4> SUFFICES ASSUME NEW y \in sameText PROVE y = x
          OBVIOUS
      <4>1. y \in lv /\ y.key = x.key /\ Text[y.content] = Text[x.content]
            BY <1>0
      <4>2. y.content \in Contents /\ x.content \in Contents
            BY <4>1 DEF Record
      <4>3. Canon[y.content] = Canon[x.content]
            BY <4>1, <4>2, DiffAssumption
      <4> QED BY <4>1, <4>3 DEF Same
    <3>2. x \in sameText
          BY <1>2, <2>2
    <3>3. sameText = {x}
          BY <3>1, <3>2
    <3>7. x.content \in Contents /\ \A n \in Contents : n <= n
          BY RecordsAssumption DEF Record
    <3>4. x.content <= x.content
          BY <3>7, Zenon
    <3>5. Claim(r, free) = First(sameText)
          BY <3>2 DEF Claim
    <3>6. x \in Claim(r, free)
          BY <3>3, <3>4, <3>5 DEF First
    <3> QED BY <3>6, <1>3, <1>4
  <2> QED BY <2>1, <2>2
<1>6. x \in f[MaxId]
  <2> DEFINE S == {i \in 0..MaxId : r.id <= i => x \in f[i]}
  <2>1. 0 \in S
        BY <1>3
  <2>2. \A i \in 0..MaxId : i < MaxId /\ i \in S => i + 1 \in S
    <3> SUFFICES ASSUME NEW i \in 0..MaxId, i < MaxId, i \in S, r.id <= i + 1
                 PROVE  x \in f[i + 1]
        BY <1>3
    <3>1. CASE r.id = i + 1
          BY <3>1, <1>5
    <3>2. CASE r.id # i + 1
      <4>1. r.id <= i /\ i + 1 \in 1..MaxId /\ (i + 1) - 1 = i
            BY <3>2, <1>3
      <4>2. x \in f[i]
            BY <4>1
      <4>3. f[i] \subseteq f[i + 1]
            BY <4>1, <1>4
      <4> QED BY <4>2, <4>3
    <3> QED BY <3>1, <3>2
  <2> HIDE DEF S
  <2>3. MaxId \in S
        BY <1>3, <2>1, <2>2, IntervalInduction
  <2> QED BY <2>3, <1>3 DEF S
<1> QED BY <1>1, <1>2, <1>6

-----------------------------------------------------------------------------
(* What a preview says of one provider *)

Taken(p, rs, lv)     == Claimed(FilterTypes(Pending(rs)), FilterTypes(lv[p]))
Unclaimed(p, rs, lv) == FilterTypes(lv[p]) \ Taken(p, rs, lv)
Changed(p, rs, lv)   == Pairs(Desired(p, rs), Unclaimed(p, rs, lv))
Added(p, rs, lv)     == {r \in Missing(Desired(p, rs), Unclaimed(p, rs, lv)) :
                          \A m \in Changed(p, rs, lv) : m[1] # r}
Drifted(p, rs, lv)   == {x \in Unclaimed(p, rs, lv) :
                          /\ \A r \in Desired(p, rs) : ~Same(r, x)
                          /\ \A m \in Changed(p, rs, lv) : ~Same(m[2], x)}

\* Where each of its diffs comes from.
LEMMA PreviewCases ==
    ASSUME NEW rs \in SUBSET Row, NEW lv \in [Providers -> SUBSET Record],
           NEW d \in Preview(rs, lv)
    PROVE  /\ d.prov \in Providers
           /\ \/ /\ d.op = "update"
                 /\ \E m \in Changed(d.prov, rs, lv) :
                       /\ OldRecord(d) = m[2] /\ NewRecord(d) = RecordOf(m[1])
                       /\ d = [prov |-> d.prov, op |-> "update", key |-> m[1].key,
                               old |-> m[2].content, new |-> m[1].content, id |-> m[1].id]
              \/ /\ d.op = "add"
                 /\ \E r \in Added(d.prov, rs, lv) : NewRecord(d) = RecordOf(r)
              \/ d.op = "drift" /\ OldRecord(d) \in Drifted(d.prov, rs, lv)
              \/ d.op = "delete" /\ OldRecord(d) \in Taken(d.prov, rs, lv)
<1>1. PICK p \in Providers : d \in ProviderPreview(p, rs, lv[p])
      BY DEF Preview
<1>2. \/ \E m \in Changed(p, rs, lv) :
            d = [prov |-> p, op |-> "update", key |-> m[1].key,
                 old |-> m[2].content, new |-> m[1].content, id |-> m[1].id]
      \/ \E r \in Added(p, rs, lv) :
            d = [prov |-> p, op |-> "add", key |-> r.key,
                 old |-> r.content, new |-> r.content, id |-> r.id]
      \/ \E x \in Drifted(p, rs, lv) :
            d = [prov |-> p, op |-> "drift", key |-> x.key,
                 old |-> x.content, new |-> x.content, id |-> 0]
      \/ \E x \in Taken(p, rs, lv) :
            d = [prov |-> p, op |-> "delete", key |-> x.key,
                 old |-> x.content, new |-> x.content, id |-> 0]
      BY <1>1 DEF ProviderPreview, ComputeDiff, Taken, Unclaimed, Changed, Added, Drifted
<1>3. Taken(p, rs, lv) \subseteq Record /\ Unclaimed(p, rs, lv) \subseteq Record
      BY DEF Taken, Unclaimed, Claimed, FilterTypes
<1>4. Drifted(p, rs, lv) \subseteq Record
      BY <1>3 DEF Drifted
<1>5. \A m \in Changed(p, rs, lv) : m[2] \in Record /\ m[1].key = m[2].key
      BY <1>3 DEF Changed, Pairs, Free
<1>6. \A x \in Record : [key |-> x.key, content |-> x.content] = x
      BY DEF Record
<1>7. CASE \E m \in Changed(p, rs, lv) :
            d = [prov |-> p, op |-> "update", key |-> m[1].key,
                 old |-> m[2].content, new |-> m[1].content, id |-> m[1].id]
  <2>1. PICK m \in Changed(p, rs, lv) :
            d = [prov |-> p, op |-> "update", key |-> m[1].key,
                 old |-> m[2].content, new |-> m[1].content, id |-> m[1].id]
        BY <1>7
  <2>2. d.prov = p /\ d.op = "update" /\ d.key = m[1].key /\ d.old = m[2].content
        /\ d.new = m[1].content
        BY <2>1
  <2>3. OldRecord(d) = m[2] /\ NewRecord(d) = RecordOf(m[1])
        BY <2>2, <1>5, <1>6 DEF OldRecord, NewRecord, RecordOf
  <2> QED BY <2>1, <2>2, <2>3
<1>8. CASE \E r \in Added(p, rs, lv) :
            d = [prov |-> p, op |-> "add", key |-> r.key,
                 old |-> r.content, new |-> r.content, id |-> r.id]
      BY <1>8 DEF NewRecord, RecordOf
<1>9. CASE \E x \in Drifted(p, rs, lv) :
            d = [prov |-> p, op |-> "drift", key |-> x.key,
                 old |-> x.content, new |-> x.content, id |-> 0]
      BY <1>9, <1>4, <1>6 DEF OldRecord
<1>10. CASE \E x \in Taken(p, rs, lv) :
            d = [prov |-> p, op |-> "delete", key |-> x.key,
                 old |-> x.content, new |-> x.content, id |-> 0]
      BY <1>10, <1>3, <1>6 DEF OldRecord
<1> QED BY <1>2, <1>7, <1>8, <1>9, <1>10

\* Nothing of it is left out of ds.
HasAll(ds, p, rs, lv) ==
    /\ \A m \in Changed(p, rs, lv) : \E d \in ds :
         /\ d.op = "update" /\ d.prov = p
         /\ OldRecord(d) = m[2] /\ NewRecord(d) = RecordOf(m[1])
    /\ \A r \in Added(p, rs, lv) : \E d \in ds :
         d.op = "add" /\ d.prov = p /\ NewRecord(d) = RecordOf(r)
    /\ \A x \in Drifted(p, rs, lv) : \E d \in ds :
         d.op = "drift" /\ d.prov = p /\ OldRecord(d) = x
    /\ \A x \in Taken(p, rs, lv) : \E d \in ds :
         d.op = "delete" /\ d.prov = p /\ OldRecord(d) = x

LEMMA PreviewHas ==
    ASSUME NEW rs \in SUBSET Row, NEW lv \in [Providers -> SUBSET Record],
           NEW p \in Providers
    PROVE  HasAll(Preview(rs, lv), p, rs, lv)
<1> DEFINE update(m) == [prov |-> p, op |-> "update", key |-> m[1].key,
                         old |-> m[2].content, new |-> m[1].content, id |-> m[1].id]
           add(r)    == [prov |-> p, op |-> "add", key |-> r.key,
                         old |-> r.content, new |-> r.content, id |-> r.id]
           drift(x)  == [prov |-> p, op |-> "drift", key |-> x.key,
                         old |-> x.content, new |-> x.content, id |-> 0]
           delete(x) == [prov |-> p, op |-> "delete", key |-> x.key,
                         old |-> x.content, new |-> x.content, id |-> 0]
<1>1. /\ \A m \in Changed(p, rs, lv) : update(m) \in Preview(rs, lv)
      /\ \A r \in Added(p, rs, lv) : add(r) \in Preview(rs, lv)
      /\ \A x \in Drifted(p, rs, lv) : drift(x) \in Preview(rs, lv)
      /\ \A x \in Taken(p, rs, lv) : delete(x) \in Preview(rs, lv)
  <2>1. ProviderPreview(p, rs, lv[p]) \subseteq Preview(rs, lv)
        BY DEF Preview
  <2>2. ProviderPreview(p, rs, lv[p]) =
           ({update(m) : m \in Changed(p, rs, lv)} \cup {add(r) : r \in Added(p, rs, lv)}
            \cup {drift(x) : x \in Drifted(p, rs, lv)})
           \cup {delete(x) : x \in Taken(p, rs, lv)}
        BY DEF ProviderPreview, ComputeDiff, Taken, Unclaimed, Changed, Added, Drifted
  <2> HIDE DEF update, add, drift, delete
  <2> QED BY <2>1, <2>2
<1>2. Taken(p, rs, lv) \subseteq Record /\ Unclaimed(p, rs, lv) \subseteq Record
      BY DEF Taken, Unclaimed, Claimed, FilterTypes
<1>3. Drifted(p, rs, lv) \subseteq Record
      BY <1>2 DEF Drifted
<1>4. \A m \in Changed(p, rs, lv) : m[2] \in Record /\ m[1].key = m[2].key
      BY <1>2 DEF Changed, Pairs, Free
<1>5. \A x \in Record : [key |-> x.key, content |-> x.content] = x
      BY DEF Record
<1>6. \A m \in Changed(p, rs, lv) :
         /\ update(m).op = "update" /\ update(m).prov = p
         /\ OldRecord(update(m)) = m[2] /\ NewRecord(update(m)) = RecordOf(m[1])
      BY <1>4, <1>5 DEF OldRecord, NewRecord, RecordOf
<1>7. \A r : add(r).op = "add" /\ add(r).prov = p /\ NewRecord(add(r)) = RecordOf(r)
      BY DEF NewRecord, RecordOf
<1>8. \A x \in Record : /\ drift(x).op = "drift" /\ drift(x).prov = p /\ OldRecord(drift(x)) = x
                        /\ delete(x).op = "delete" /\ delete(x).prov = p /\ OldRecord(delete(x)) = x
      BY <1>5 DEF OldRecord
<1> HIDE DEF update, add, drift, delete
<1> QED BY <1>1, <1>2, <1>3, <1>6, <1>7, <1>8 DEF HasAll

\* Two rows of a key have different ranks.
LEMMA RowRanks ==
    ASSUME NEW rs \in SUBSET Row, \A r, q \in rs : r.id = q.id => r = q,
           NEW r \in rs, NEW q \in rs, r.key = q.key, r # q
    PROVE  RowRank(r, rs) # RowRank(q, rs)
<1>1. \A x \in rs : x.id \in 1..MaxId
      BY DEF Row, Ids
<1>2. MaxId \in Nat
      BY RecordsAssumption
<1>3. IsFiniteSet(rs)
  <2> DEFINE f == [x \in rs |-> x.id]
  <2>1. f \in Injection(rs, 1..MaxId)
        BY <1>1 DEF Injection, IsInjective
  <2>2. IsFiniteSet(1..MaxId)
        BY <1>2, FS_Interval
  <2> HIDE DEF f
  <2> QED BY <2>1, <2>2, FS_Injection
<1>4. ASSUME NEW a \in rs, NEW b \in rs, a.key = b.key, a.id < b.id
      PROVE  RowRank(a, rs) < RowRank(b, rs)
  <2> DEFINE A == {x \in rs : x.key = a.key /\ x.id <= a.id}
             B == {x \in rs : x.key = b.key /\ x.id <= b.id}
  <2>1. A \subseteq B /\ b \in B /\ b \notin A
        BY <1>1, <1>4
  <2>2. IsFiniteSet(A) /\ IsFiniteSet(B)
        BY <1>3, FS_Subset
  <2>3. RowRank(a, rs) = Cardinality(A) /\ RowRank(b, rs) = Cardinality(B)
        BY DEF RowRank
  <2> HIDE DEF A, B
  <2>4. IsFiniteSet(B \ {b}) /\ Cardinality(B \ {b}) = Cardinality(B) - 1
        BY <2>1, <2>2, FS_RemoveElement
  <2>5. A \subseteq B \ {b}
        BY <2>1
  <2>6. Cardinality(A) <= Cardinality(B \ {b})
        BY <2>4, <2>5, FS_Subset
  <2>7. Cardinality(A) \in Nat /\ Cardinality(B) \in Nat
        BY <2>2, FS_CardinalityType
  <2> QED BY <2>3, <2>4, <2>6, <2>7
<1>5. \A x \in rs : RowRank(x, rs) \in Nat
  <2> SUFFICES ASSUME NEW x \in rs PROVE RowRank(x, rs) \in Nat
      OBVIOUS
  <2>1. IsFiniteSet({y \in rs : y.key = x.key /\ y.id <= x.id})
        BY <1>3, FS_Subset
  <2> QED BY <2>1, FS_CardinalityType DEF RowRank
<1>6. r.id < q.id \/ q.id < r.id
      BY <1>1
<1> QED BY <1>4, <1>5, <1>6

-----------------------------------------------------------------------------
(* Ranks, and the loop of computeDiff they stand for *)

\* How many members of S have no greater number than x.
RankIn(S, num, x) == Cardinality({y \in S : num[y] <= num[x]})

\* The ranks of n members with different numbers are 1..n, in the order of the numbers.
LEMMA Ranks ==
    ASSUME NEW S, IsFiniteSet(S), NEW num \in [S -> Int],
           \A x, y \in S : num[x] = num[y] => x = y
    PROVE  /\ \A x \in S : RankIn(S, num, x) \in 1..Cardinality(S)
           /\ \A x, y \in S : num[x] < num[y] <=> RankIn(S, num, x) < RankIn(S, num, y)
           /\ \A i \in 1..Cardinality(S) : \E x \in S : RankIn(S, num, x) = i
<1> DEFINE below(x) == {y \in S : num[y] <= num[x]}
           n == Cardinality(S)
           f == [x \in S |-> RankIn(S, num, x)]
<1>1. \A x \in S : RankIn(S, num, x) = Cardinality(below(x))
      BY DEF RankIn
<1>2. \A x \in S : /\ IsFiniteSet(below(x)) /\ below(x) \in SUBSET S
                   /\ x \in below(x) /\ Cardinality(below(x)) \in Nat
  <2> SUFFICES ASSUME NEW x \in S
               PROVE  /\ IsFiniteSet(below(x)) /\ below(x) \in SUBSET S
                      /\ x \in below(x) /\ Cardinality(below(x)) \in Nat
      OBVIOUS
  <2>1. below(x) \in SUBSET S /\ x \in below(x)
        OBVIOUS
  <2> HIDE DEF below
  <2> QED BY <2>1, FS_Subset, FS_CardinalityType
<1>3. n \in Nat
      BY FS_CardinalityType
<1>4. \A x \in S : RankIn(S, num, x) \in 1..n
  <2> SUFFICES ASSUME NEW x \in S PROVE RankIn(S, num, x) \in 1..n
      OBVIOUS
  <2> HIDE DEF below, n
  <2>1. Cardinality(below(x)) <= n
        BY <1>2, FS_Subset DEF n
  <2>2. Cardinality(below(x)) # 0
        BY <1>2, FS_EmptySet
  <2> QED BY <1>1, <1>2, <1>3, <2>1, <2>2
<1>5. ASSUME NEW x \in S, NEW y \in S, num[x] < num[y]
      PROVE  RankIn(S, num, x) < RankIn(S, num, y)
  <2>1. below(x) \subseteq below(y) \ {y}
        BY <1>5
  <2> HIDE DEF below
  <2>2. /\ IsFiniteSet(below(y) \ {y})
        /\ Cardinality(below(y) \ {y}) = Cardinality(below(y)) - 1
        BY <1>2, FS_RemoveElement
  <2>3. Cardinality(below(x)) <= Cardinality(below(y) \ {y})
        BY <2>1, <2>2, FS_Subset
  <2> QED BY <1>1, <1>2, <2>2, <2>3
<1>6. \A x, y \in S : num[x] < num[y] <=> RankIn(S, num, x) < RankIn(S, num, y)
  <2> SUFFICES ASSUME NEW x \in S, NEW y \in S, ~(num[x] < num[y])
               PROVE  ~(RankIn(S, num, x) < RankIn(S, num, y))
      BY <1>5
  <2>1. num[x] \in Int /\ num[y] \in Int
        OBVIOUS
  <2>2. CASE num[x] = num[y]
        BY <2>2, <1>3, <1>4
  <2>3. CASE num[y] < num[x]
    <3>1. RankIn(S, num, y) < RankIn(S, num, x)
          BY <1>5, <2>3
    <3>2. RankIn(S, num, x) \in 1..n /\ RankIn(S, num, y) \in 1..n
          BY <1>4
    <3> QED BY <1>3, <3>1, <3>2
  <2> QED BY <2>1, <2>2, <2>3
<1>7. f \in Injection(S, 1..n)
  <2>1. f \in [S -> 1..n]
        BY <1>4
  <2>2. \A x, y \in S : f[x] = f[y] => x = y
    <3> SUFFICES ASSUME NEW x \in S, NEW y \in S, x # y PROVE f[x] # f[y]
        OBVIOUS
    <3>1. num[x] < num[y] \/ num[y] < num[x]
          OBVIOUS
    <3>2. RankIn(S, num, x) \in 1..n /\ RankIn(S, num, y) \in 1..n
          BY <1>4
    <3> QED BY <1>3, <1>6, <3>1, <3>2
  <2> QED BY <2>1, <2>2 DEF Injection, IsInjective
<1>8. f \in Surjection(S, 1..n)
  <2>1. IsFiniteSet(1..n) /\ Cardinality(1..n) = n
        BY <1>3, FS_Interval
  <2> HIDE DEF f, n
  <2> QED BY <1>7, <2>1, FS_Injection DEF n
<1>9. \A i \in 1..n : \E x \in S : f[x] = i
      BY <1>8 DEF Surjection
<1> QED BY <1>4, <1>6, <1>9

\* The rows of a table are as few as the ids.
LEMMA RowsFinite ==
    ASSUME NEW rs \in SUBSET Row, \A r, q \in rs : r.id = q.id => r = q
    PROVE  IsFiniteSet(rs)
<1> DEFINE f == [x \in rs |-> x.id]
<1>1. f \in Injection(rs, 1..MaxId)
      BY DEF Injection, IsInjective, Row, Ids
<1>2. IsFiniteSet(1..MaxId)
      BY RecordsAssumption, FS_Interval
<1> HIDE DEF f
<1> QED BY <1>1, <1>2, FS_Injection

\* The rows, or the live records, of one key.
OfKey(xs, k) == {x \in xs : x.key = k}

\* The ranks of the rows of one key.
LEMMA RanksOfRows ==
    ASSUME NEW rs \in SUBSET Row, \A r, q \in rs : r.id = q.id => r = q,
           NEW k
    PROVE  /\ Cardinality(OfKey(rs, k)) \in Nat
           /\ \A r \in OfKey(rs, k) : RowRank(r, rs) \in 1..Cardinality(OfKey(rs, k))
           /\ \A r, q \in OfKey(rs, k) : r.id < q.id <=> RowRank(r, rs) < RowRank(q, rs)
           /\ \A i \in 1..Cardinality(OfKey(rs, k)) : \E r \in OfKey(rs, k) : RowRank(r, rs) = i
<1> DEFINE S == OfKey(rs, k)
           num == [r \in S |-> r.id]
<1>0. \A r : r \in S <=> r \in rs /\ r.key = k
      BY DEF OfKey
<1> HIDE DEF S
<1>1. IsFiniteSet(S) /\ Cardinality(S) \in Nat
      BY <1>0, RowsFinite, FS_Subset, FS_CardinalityType
<1>2. num \in [S -> Int] /\ \A r, q \in S : num[r] = num[q] => r = q
      BY <1>0 DEF Row, Ids
<1>3. \A r \in S : RankIn(S, num, r) = RowRank(r, rs)
  <2> SUFFICES ASSUME NEW r \in S PROVE RankIn(S, num, r) = RowRank(r, rs)
      OBVIOUS
  <2>1. {q \in S : num[q] <= num[r]} = {q \in rs : q.key = r.key /\ q.id <= r.id}
        BY <1>0
  <2> QED BY <2>1 DEF RankIn, RowRank
<1>4. \A r \in S : num[r] = r.id
      OBVIOUS
<1> HIDE DEF num
<1>5. /\ \A r \in S : RankIn(S, num, r) \in 1..Cardinality(S)
      /\ \A r, q \in S : num[r] < num[q] <=> RankIn(S, num, r) < RankIn(S, num, q)
      /\ \A i \in 1..Cardinality(S) : \E r \in S : RankIn(S, num, r) = i
      BY <1>1, <1>2, Ranks
<1>6. /\ \A r \in S : RowRank(r, rs) \in 1..Cardinality(S)
      /\ \A r, q \in S : r.id < q.id <=> RowRank(r, rs) < RowRank(q, rs)
      /\ \A i \in 1..Cardinality(S) : \E r \in S : RowRank(r, rs) = i
      BY <1>3, <1>4, <1>5
<1> QED BY <1>1, <1>6 DEF S

\* The same of the live records of one key.
LEMMA RanksOfRecords ==
    ASSUME NEW xs \in SUBSET Record, IsFiniteSet(xs),
           NEW k
    PROVE  /\ Cardinality(OfKey(xs, k)) \in Nat
           /\ \A x \in OfKey(xs, k) : RecordRank(x, xs) \in 1..Cardinality(OfKey(xs, k))
           /\ \A x, y \in OfKey(xs, k) : x.content < y.content <=> RecordRank(x, xs) < RecordRank(y, xs)
           /\ \A i \in 1..Cardinality(OfKey(xs, k)) : \E x \in OfKey(xs, k) : RecordRank(x, xs) = i
<1> DEFINE S == OfKey(xs, k)
           num == [x \in S |-> x.content]
<1>0. \A x : x \in S <=> x \in xs /\ x.key = k
      BY DEF OfKey
<1> HIDE DEF S
<1>1. IsFiniteSet(S) /\ Cardinality(S) \in Nat
      BY <1>0, FS_Subset, FS_CardinalityType
<1>2. num \in [S -> Int] /\ \A x, y \in S : num[x] = num[y] => x = y
  <2>0. \A c \in Contents : c \in Int
        BY RecordsAssumption
  <2>1. \A x \in S : x.content \in Int
        BY <1>0, <2>0 DEF Record
  <2>2. \A x \in S : x = [key |-> k, content |-> x.content]
        BY <1>0 DEF Record
  <2> QED BY <2>1, <2>2
<1>3. \A x \in S : RankIn(S, num, x) = RecordRank(x, xs)
  <2> SUFFICES ASSUME NEW x \in S PROVE RankIn(S, num, x) = RecordRank(x, xs)
      OBVIOUS
  <2>1. {y \in S : num[y] <= num[x]} = {y \in xs : y.key = x.key /\ y.content <= x.content}
        BY <1>0
  <2> QED BY <2>1 DEF RankIn, RecordRank
<1>4. \A x \in S : num[x] = x.content
      OBVIOUS
<1> HIDE DEF num
<1>5. /\ \A x \in S : RankIn(S, num, x) \in 1..Cardinality(S)
      /\ \A x, y \in S : num[x] < num[y] <=> RankIn(S, num, x) < RankIn(S, num, y)
      /\ \A i \in 1..Cardinality(S) : \E x \in S : RankIn(S, num, x) = i
      BY <1>1, <1>2, Ranks
<1>6. /\ \A x \in S : RecordRank(x, xs) \in 1..Cardinality(S)
      /\ \A x, y \in S : x.content < y.content <=> RecordRank(x, xs) < RecordRank(y, xs)
      /\ \A i \in 1..Cardinality(S) : \E x \in S : RecordRank(x, xs) = i
      BY <1>3, <1>4, <1>5
<1> QED BY <1>1, <1>6 DEF S

\* What becomes of a missing row and of a free record of its key depends on their
\* ranks: the row with the rank of a record takes it over.  So there is never a row
\* left without a record, to be added, beside a record left without a row.
LEMMA NoneLeftBesideAnother ==
    ASSUME NEW want \in SUBSET Row, \A r, q \in want : r.id = q.id => r = q,
           NEW lv \in SUBSET Record, IsFiniteSet(lv),
           NEW r \in Missing(want, lv), \A m \in Pairs(want, lv) : m[1] # r,
           NEW x \in Free(want, lv), \A m \in Pairs(want, lv) : m[2] # x
    PROVE  r.key # x.key
<1> SUFFICES ASSUME r.key = x.key PROVE FALSE
    OBVIOUS
<1> DEFINE miss == Missing(want, lv)
           free == Free(want, lv)
           M == OfKey(miss, r.key)
           F == OfKey(free, r.key)
<1>1. miss \in SUBSET Row /\ \A p, q \in miss : p.id = q.id => p = q
      BY DEF Missing
<1>2. free \in SUBSET Record /\ IsFiniteSet(free)
      BY FS_Subset DEF Free
<1>3. \A q \in miss, y \in free :
        q.key = y.key /\ RowRank(q, miss) = RecordRank(y, free) => <<q, y>> \in Pairs(want, lv)
      BY DEF Pairs
<1>4. r \in M /\ x \in F
      BY DEF OfKey
<1>a. /\ \A q : q \in M <=> q \in miss /\ q.key = r.key
      /\ \A y : y \in F <=> y \in free /\ y.key = r.key
      BY DEF OfKey
<1> HIDE DEF miss, free
<1>5. /\ Cardinality(M) \in Nat
      /\ RowRank(r, miss) \in 1..Cardinality(M)
      /\ \A i \in 1..Cardinality(M) : \E q \in M : RowRank(q, miss) = i
      BY <1>1, <1>4, RanksOfRows
<1>6. /\ Cardinality(F) \in Nat
      /\ RecordRank(x, free) \in 1..Cardinality(F)
      /\ \A i \in 1..Cardinality(F) : \E y \in F : RecordRank(y, free) = i
      BY <1>2, <1>4, RanksOfRecords
<1>7. RowRank(r, miss) \notin 1..Cardinality(F)
  <2> SUFFICES ASSUME NEW y \in F, RecordRank(y, free) = RowRank(r, miss) PROVE FALSE
      BY <1>6
  <2>1. <<r, y>> \in Pairs(want, lv)
        BY <1>3, <1>4, <1>a
  <2> QED BY <2>1
<1>8. RecordRank(x, free) \notin 1..Cardinality(M)
  <2> SUFFICES ASSUME NEW q \in M, RowRank(q, miss) = RecordRank(x, free) PROVE FALSE
      BY <1>5
  <2>1. <<q, x>> \in Pairs(want, lv)
        BY <1>3, <1>4, <1>a
  <2> QED BY <2>1
<1> QED BY <1>5, <1>6, <1>7, <1>8

\* The record the loop gives to a row when the rows before it have taken theirs is
\* the one with the row's rank.
LEMMA LoopTakes ==
    ASSUME NEW want \in SUBSET Row, \A r, q \in want : r.id = q.id => r = q,
           NEW lv \in SUBSET Record, IsFiniteSet(lv),
           NEW r \in Missing(want, lv),
           NEW used, \A x : x \in used <=> \E m \in Pairs(want, lv) : m[1].id < r.id /\ m[2] = x,
           NEW x
    PROVE  x \in First({y \in Free(want, lv) \ used : y.key = r.key})
             <=> <<r, x>> \in Pairs(want, lv)
<1> DEFINE miss == Missing(want, lv)
           free == Free(want, lv)
           M == OfKey(miss, r.key)
           F == OfKey(free, r.key)
           left == {y \in free \ used : y.key = r.key}
           rank == RowRank(r, miss)
<1>1. miss \in SUBSET Row /\ \A p, q \in miss : p.id = q.id => p = q
      BY DEF Missing
<1>2. free \in SUBSET Record /\ IsFiniteSet(free)
      BY FS_Subset DEF Free
<1>3. \A m : m \in Pairs(want, lv) <=>
          /\ m \in miss \X free /\ m[1].key = m[2].key
          /\ RowRank(m[1], miss) = RecordRank(m[2], free)
      BY DEF Pairs
<1>4. r \in M
      BY DEF OfKey
<1>a. /\ \A q : q \in M <=> q \in miss /\ q.key = r.key
      /\ \A y : y \in F <=> y \in free /\ y.key = r.key
      BY DEF OfKey
<1> HIDE DEF miss, free
<1>5. /\ Cardinality(M) \in Nat
      /\ \A q \in M : RowRank(q, miss) \in 1..Cardinality(M)
      /\ \A p, q \in M : p.id < q.id <=> RowRank(p, miss) < RowRank(q, miss)
      /\ \A i \in 1..Cardinality(M) : \E q \in M : RowRank(q, miss) = i
      BY <1>1, RanksOfRows
<1>6. /\ Cardinality(F) \in Nat
      /\ \A y \in F : RecordRank(y, free) \in 1..Cardinality(F)
      /\ \A y, z \in F : y.content < z.content <=> RecordRank(y, free) < RecordRank(z, free)
      /\ \A i \in 1..Cardinality(F) : \E y \in F : RecordRank(y, free) = i
      BY <1>2, RanksOfRecords
<1>7. \A y \in F : y \in used <=> RecordRank(y, free) < rank
  <2> SUFFICES ASSUME NEW y \in F PROVE y \in used <=> RecordRank(y, free) < rank
      OBVIOUS
  <2>1. ASSUME y \in used PROVE RecordRank(y, free) < rank
    <3>1. PICK m \in Pairs(want, lv) : m[1].id < r.id /\ m[2] = y
          BY <2>1
    <3>2. m[1] \in M /\ RowRank(m[1], miss) = RecordRank(y, free)
          BY <1>3, <1>a, <3>1
    <3> QED BY <1>4, <1>5, <3>1, <3>2
  <2>2. ASSUME RecordRank(y, free) < rank PROVE y \in used
    <3>1. RecordRank(y, free) \in 1..Cardinality(M)
          BY <1>4, <1>5, <1>6, <2>2
    <3>2. PICK q \in M : RowRank(q, miss) = RecordRank(y, free)
          BY <1>5, <3>1
    <3>3. q.id < r.id
          BY <1>4, <1>5, <2>2, <3>2
    <3>4. <<q, y>> \in Pairs(want, lv)
          BY <1>3, <1>a, <3>2
    <3>5. <<q, y>>[1].id < r.id /\ <<q, y>>[2] = y
          BY <3>3
    <3> QED BY <3>4, <3>5
  <2> QED BY <2>1, <2>2
<1>8. \A y : y \in left <=> y \in F /\ rank <= RecordRank(y, free)
      BY <1>4, <1>5, <1>6, <1>7, <1>a
<1>9. \A y \in F : y.content \in Nat
  <2>1. \A c \in Contents : c \in Nat
        BY RecordsAssumption
  <2> QED BY <1>2, <1>a, <2>1 DEF Record
<1>10. x \in First(left) <=> x \in left /\ \A y \in left : x.content <= y.content
      BY DEF First
<1>11. <<r, x>> \in Pairs(want, lv) <=> x \in F /\ rank = RecordRank(x, free)
      BY <1>3, <1>4, <1>a
<1> HIDE DEF left
<1>12. rank \in 1..Cardinality(M)
      BY <1>4, <1>5
<1> HIDE DEF rank
<1>13. ASSUME x \in First(left) PROVE <<r, x>> \in Pairs(want, lv)
  <2>1. x \in F /\ rank <= RecordRank(x, free)
        BY <1>8, <1>10, <1>13
  <2>2. CASE rank = RecordRank(x, free)
        BY <1>11, <2>1, <2>2
  <2>3. CASE rank < RecordRank(x, free)
    <3>1. rank \in 1..Cardinality(F)
          BY <1>5, <1>6, <1>12, <2>1, <2>3
    <3>2. PICK y \in F : RecordRank(y, free) = rank
          BY <1>6, <3>1
    <3>3. y.content < x.content
          BY <1>6, <2>1, <2>3, <3>2
    <3>4. y \in left
          BY <1>8, <1>12, <3>2
    <3> QED BY <1>9, <1>10, <1>13, <2>1, <3>3, <3>4
  <2>4. RecordRank(x, free) \in 1..Cardinality(F)
        BY <1>6, <2>1
  <2> QED BY <1>5, <1>6, <1>12, <2>1, <2>2, <2>3, <2>4
<1>14. ASSUME <<r, x>> \in Pairs(want, lv) PROVE x \in First(left)
  <2>1. x \in F /\ rank = RecordRank(x, free) /\ x \in left
        BY <1>8, <1>11, <1>12, <1>14
  <2>2. ASSUME NEW y \in left PROVE x.content <= y.content
    <3>1. y \in F /\ ~(RecordRank(y, free) < RecordRank(x, free))
          BY <1>6, <1>8, <2>1
    <3>2. ~(y.content < x.content)
          BY <1>6, <2>1, <3>1
    <3> QED BY <1>9, <2>1, <3>1, <3>2
  <2> QED BY <1>10, <2>1, <2>2
<1> QED BY <1>13, <1>14 DEF left, free

\* One row after the other, computeDiff pairs what the ranks of Pairs pair.
LEMMA LoopIsPairs ==
    ASSUME NEW want \in SUBSET Row, \A r, q \in want : r.id = q.id => r = q,
           NEW lv \in SUBSET Record, IsFiniteSet(lv)
    PROVE  LoopPairs(want, lv) = Pairs(want, lv)
<1> DEFINE free == Free(want, lv)
           miss == Missing(want, lv)
           P == Pairs(want, lv)
           Took(s) == {m[2] : m \in s}
           Turn(s, i) == UNION {{r} \X First({x \in free \ Took(s) : x.key = r.key}) :
                                  r \in {q \in miss : q.id = i}}
           upTo(f) == f = [i \in 0..MaxId |-> IF i = 0 THEN {} ELSE f[i - 1] \cup Turn(f[i - 1], i)]
           F == CHOOSE f : upTo(f)
           g == [i \in 0..MaxId |-> {m \in P : m[1].id <= i}]
<1>1. MaxId \in Nat
      BY RecordsAssumption
<1>2. LoopPairs(want, lv) = F[MaxId]
      BY DEF LoopPairs
<1>3. \A m \in P : /\ m \in miss \X free /\ m = <<m[1], m[2]>> /\ m[1] \in miss
                   /\ m[1].id \in 1..MaxId
      BY DEF Pairs, Missing, Row, Ids
<1>4. ASSUME NEW i \in 1..MaxId
      PROVE  g[i] = g[i - 1] \cup Turn(g[i - 1], i)
  <2> DEFINE S == {m \in P : m[1].id <= i - 1}
             used == Took(S)
  <2>1. i \in 0..MaxId /\ i - 1 \in 0..MaxId /\ i \in Nat
        BY <1>1
  <2>2. g[i - 1] = S /\ g[i] = {m \in P : m[1].id <= i}
        BY <2>1
  <2>3. \A r \in miss : r.id = i =>
          \A x : x \in First({y \in free \ used : y.key = r.key}) <=> <<r, x>> \in P
    <3> SUFFICES ASSUME NEW r \in miss, r.id = i, NEW x
                 PROVE  x \in First({y \in free \ used : y.key = r.key}) <=> <<r, x>> \in P
        OBVIOUS
    <3>1. \A y : y \in used <=> \E m \in Pairs(want, lv) : m[1].id < r.id /\ m[2] = y
          BY <1>3, <2>1
    <3> HIDE DEF used
    <3> QED BY <3>1, LoopTakes
  <2>4. \A m : m \in Turn(S, i) <=> m \in P /\ m[1].id = i
    <3> SUFFICES ASSUME NEW m PROVE m \in Turn(S, i) <=> m \in P /\ m[1].id = i
        OBVIOUS
    <3> DEFINE got(r) == First({y \in free \ used : y.key = r.key})
    <3>1. m \in Turn(S, i) <=> \E r \in miss : r.id = i /\ m \in {r} \X got(r)
      <4>1. Turn(S, i) = UNION {{r} \X got(r) : r \in {q \in miss : q.id = i}}
            BY Zenon
      <4> HIDE DEF Turn, got, miss, P
      <4> QED BY <4>1
    <3>2. \A r \in miss : r.id = i => \A x : x \in got(r) <=> <<r, x>> \in P
          BY <2>3
    <3> HIDE DEF P, miss, free, used, got, Turn
    <3>3. ASSUME m \in Turn(S, i) PROVE m \in P /\ m[1].id = i
      <4>1. PICK r \in miss : r.id = i /\ m \in {r} \X got(r)
            BY <3>1, <3>3
      <4>2. PICK x \in got(r) : m = <<r, x>>
            BY <4>1
      <4> QED BY <3>2, <4>1, <4>2
    <3>4. ASSUME m \in P, m[1].id = i PROVE m \in Turn(S, i)
      <4>1. m = <<m[1], m[2]>> /\ m[1] \in miss
            BY <1>3, <3>4
      <4>2. m[2] \in got(m[1])
            BY <3>2, <3>4, <4>1
      <4>3. m \in {m[1]} \X got(m[1])
            BY <4>1, <4>2
      <4> QED BY <3>1, <3>4, <4>1, <4>3
    <3> QED BY <3>3, <3>4
  <2> HIDE DEF Turn
  <2>5. \A m : m \in g[i] <=> m \in S \/ m \in Turn(S, i)
    <3> HIDE DEF P
    <3> QED BY <1>3, <2>1, <2>2, <2>4
  <2> HIDE DEF S, g
  <2> QED BY <2>2, <2>5
<1>5. upTo(g)
  <2>1. \A i \in 0..MaxId : g[i] = IF i = 0 THEN {} ELSE g[i - 1] \cup Turn(g[i - 1], i)
    <3>1. g[0] = {}
      <4> HIDE DEF P
      <4> QED BY <1>1, <1>3
    <3> HIDE DEF Turn, g
    <3> QED BY <1>1, <1>4, <3>1
  <2>2. g = [i \in 0..MaxId |-> g[i]]
        OBVIOUS
  <2> HIDE DEF Turn, g
  <2> QED BY <2>1, <2>2
<1> HIDE DEF g, Turn
<1>6. upTo(F)
      BY <1>5
<1> HIDE DEF F
<1>7. F[MaxId] = g[MaxId]
  <2> DEFINE S == {i \in 0..MaxId : F[i] = g[i]}
  <2>1. 0 \in S
        BY <1>1, <1>5, <1>6
  <2>2. ASSUME NEW i \in 0..MaxId, i < MaxId, i \in S PROVE i + 1 \in S
    <3>1. i + 1 \in 0..MaxId /\ i + 1 # 0 /\ (i + 1) - 1 = i
          BY <1>1, <2>2
    <3>2. F[i + 1] = F[i] \cup Turn(F[i], i + 1)
          BY <1>6, <3>1
    <3>3. g[i + 1] = g[i] \cup Turn(g[i], i + 1)
          BY <1>5, <3>1
    <3> QED BY <2>2, <3>1, <3>2, <3>3
  <2> HIDE DEF S
  <2>3. MaxId \in S
        BY <1>1, <2>1, <2>2, IntervalInduction
  <2> QED BY <2>3 DEF S
<1>8. g[MaxId] = P
  <2>1. MaxId \in 0..MaxId
        BY <1>1
  <2>2. \A m \in P : m[1].id <= MaxId
        BY <1>1, <1>3
  <2> HIDE DEF P
  <2> QED BY <2>1, <2>2 DEF g
<1> QED BY <1>2, <1>7, <1>8

\* Every record that is claimed is the one a row of its key has claimed, and no row
\* claims two.
LEMMA ClaimedByOne ==
    ASSUME NEW pend \in SUBSET Row, NEW lv \in SUBSET Record
    PROVE  \E by \in [Claimed(pend, lv) -> pend] :
              /\ \A x \in Claimed(pend, lv) : by[x].key = x.key
              /\ \A x, y \in Claimed(pend, lv) : by[x] = by[y] => x = y
<1> DEFINE marked == {y \in lv : \E q \in pend : q.key = y.key}
           taken == Claimed(pend, lv)
<1>0. \A y : y \in marked <=> y \in lv /\ \E q \in pend : q.key = y.key
      OBVIOUS
<1> HIDE DEF marked
<1>1. PICK f : /\ ClaimedUpTo(pend, marked, f, MaxId)
               /\ taken = marked \cap f[MaxId]
      BY <1>0, ClaimedIs
<1> HIDE DEF taken
<1>2. MaxId \in Nat
      BY RecordsAssumption
<1> DEFINE Claims(r) == Claim(r, marked \ f[r.id - 1])
<1>3. \A r \in pend : \A x, y \in Claims(r) : x.key = r.key /\ x = y
  <2> SUFFICES ASSUME NEW r \in pend, NEW x \in Claims(r), NEW y \in Claims(r)
               PROVE  x.key = r.key /\ x = y
      OBVIOUS
  <2>1. /\ x \in lv /\ x.key = r.key /\ y \in lv /\ y.key = r.key
        /\ x.content <= y.content /\ y.content <= x.content
        BY <1>0 DEF Claim, First
  <2>2. \A c, d \in Contents : c <= d /\ d <= c => c = d
        BY RecordsAssumption
  <2>3. x.content = y.content
        BY <2>1, <2>2 DEF Record
  <2>4. x = [key |-> r.key, content |-> x.content] /\ y = [key |-> r.key, content |-> y.content]
        BY <2>1 DEF Record
  <2> QED BY <2>1, <2>3, <2>4
<1>a. ASSUME NEW i \in 0..MaxId, i # 0, NEW x \in f[i]
      PROVE  x \in f[i - 1] \/ \E r \in pend : x \in Claims(r)
  <2> DEFINE claims == {Claim(r, marked \ f[i - 1]) : r \in {q \in pend : q.id = i}}
  <2>1. f[i] = f[i - 1] \cup UNION claims
        BY <1>1, <1>a, Zenon DEF ClaimedUpTo
  <2>2. \A c \in claims : \E r \in pend : c = Claims(r)
        OBVIOUS
  <2> HIDE DEF claims, Claims
  <2> QED BY <2>1, <2>2
<1>4. \A x \in taken : \E r \in pend : x \in Claims(r)
  <2> DEFINE S == {i \in 0..MaxId : \A x \in f[i] : \E r \in pend : x \in Claims(r)}
  <2>1. 0 \in S
    <3>1. f[0] = {} /\ 0 \in 0..MaxId
          BY <1>1, <1>2 DEF ClaimedUpTo
    <3> QED BY <3>1
  <2>2. ASSUME NEW i \in 0..MaxId, i < MaxId, i \in S PROVE i + 1 \in S
    <3>1. i + 1 \in 0..MaxId /\ i + 1 # 0 /\ (i + 1) - 1 = i
          BY <1>2, <2>2
    <3>2. \A x \in f[i + 1] : x \in f[i] \/ \E r \in pend : x \in Claims(r)
          BY <1>a, <3>1
    <3> QED BY <2>2, <3>1, <3>2
  <2> HIDE DEF S, Claims
  <2>3. MaxId \in S
        BY <1>2, <2>1, <2>2, IntervalInduction
  <2> QED BY <1>1, <2>3 DEF S
<1> HIDE DEF Claims
<1> DEFINE by == [x \in taken |-> CHOOSE r \in pend : x \in Claims(r)]
<1>5. \A x \in taken : by[x] \in pend /\ x \in Claims(by[x])
      BY <1>4
<1>6. by \in [taken -> pend]
      BY <1>5
<1> HIDE DEF by
<1>7. /\ \A x \in taken : by[x].key = x.key
      /\ \A x, y \in taken : by[x] = by[y] => x = y
      BY <1>3, <1>5
<1> QED BY <1>6, <1>7 DEF taken
=============================================================================
