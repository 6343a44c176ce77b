---------------------------- MODULE Providers_proofs ----------------------------
(***************************************************************************)
(* What is proved of the two halves of a push towards a provider.          *)
(*                                                                         *)
(* The calls (ProviderApi): for any number of clients, keys, values, pages *)
(* and ids, a call takes nothing away but what it is about, and one that   *)
(* nobody disturbs does what it says.  keep[c] is what others have left of *)
(* the records c found; all but the record c is about are served until c   *)
(* returns (KeepInv), which at PowerDNS needs the listing c took them      *)
(* from; while nobody disturbs c they are all there is (CleanInv).         *)
(*                                                                         *)
(* The plan (DiffEngine, over the inputs of MCDiffEngine): for any rows    *)
(* and any listing that has a value once, it is sound and settles.         *)
(***************************************************************************)
EXTENDS MCDiffEngine, ProviderApi, DiffEngine_proofs

-----------------------------------------------------------------------------
(* The inductive invariant *)

\* A record of a server without ids of its own is known by its key and value; one that
\* was handed out an id has one below the next.
ServerInv ==
    /\ \A r \in served :
         /\ IF ById THEN r.id < nextId ELSE r.id = <<r.key, r.val>>
         /\ r.off => kind = "powerdns"
         /\ kind = "adguardhome" => r.ttl = 0
    /\ kind \in AllKinds

\* Which calls reach which step, and with what in hand.
StepInv(c) ==
    /\ pc[c] = "resolve" => Resolves
    /\ pc[c] = "page" => call[c].op = "list"
    /\ pc[c] = "list" => kind = "powerdns" /\ call[c].op # "list"
    /\ pc[c] = "remove" => kind = "adguardhome" /\ call[c].op = "update"
    /\ pc[c] = "request" => call[c].op # "list"
    /\ pc[c] \in {"idle", "resolve"} => page[c] = 1
    /\ pc[c] = "resolve" => listed[c] = {}
    /\ \A r \in listed[c] : ~r.off

\* What others have left of the records there were is there, or was when PowerDNS told it.
KeepInv(c) ==
    /\ pc[c] # "idle" => Rest(c, keep[c]) \subseteq View(served)
    /\ pc[c] = "list" => keep[c] \subseteq View(served)
    /\ kind = "powerdns" /\ pc[c] = "request" /\ heard[c] => keep[c] \subseteq View(listed[c])

\* The first half of an update at AdGuard Home is done.
Halfway(c) == kind = "adguardhome" /\ pc[c] = "request" /\ call[c].op = "update"

\* The pages below page n.
Before(recs, n) ==
    {r \in recs : Cardinality({s \in recs : s.id < r.id}) \div PageSize < n - 1}

\* What a call that nobody has disturbed knows.
CleanInv(c) ==
    pc[c] # "idle" /\ clean[c] =>
        /\ View(served) = IF Halfway(c) THEN Rest(c, keep[c]) ELSE keep[c]
        /\ kind = "powerdns" /\ pc[c] = "request" /\ heard[c] => View(listed[c]) = keep[c]
        /\ kind = "powerdns" /\ call[c].op \in {"update", "delete"} =>
             \E q \in keep[c] : q.id = call[c].id /\ q.key = call[c].key
        /\ Paged /\ pc[c] = "page" => listed[c] = Before(served, page[c])

ApiIInv ==
    /\ ApiTypeOK /\ ServerInv /\ call = [c \in Clients |-> call[c]]
    /\ \A c \in Clients : StepInv(c) /\ KeepInv(c) /\ CleanInv(c)

-----------------------------------------------------------------------------
(* Records and their view *)

Steps == {"idle", "resolve", "page", "list", "remove", "request", "hung"}

\* The records of a server, as a table.
Table(recs, n) ==
    /\ recs \subseteq ServerRecord
    /\ \A r, s \in recs : r.id = s.id => r = s
    /\ n \in 1..(MaxServerId + 1)
    /\ \A r \in recs :
         /\ IF ById THEN r.id < n ELSE r.id = <<r.key, r.val>>
         /\ r.off => kind = "powerdns"
         /\ kind = "adguardhome" => r.ttl = 0

Shown(r) == [id |-> r.id, key |-> r.key, val |-> r.val]

LEMMA NumbersAre ==
    /\ PageSize \in Nat \ {0} /\ MaxServerId \in Nat /\ Ttls \subseteq Nat /\ 0 \in Ttls
BY ApiAssumption

LEMMA RecordIs ==
    ASSUME NEW r \in ServerRecord
    PROVE  /\ r.id \in ServerIds /\ r.key \in Names /\ r.val \in Vals /\ r.ttl \in Ttls
           /\ r.off \in BOOLEAN
BY DEF ServerRecord

LEMMA ShownIs ==
    /\ \A r : Shown(r).id = r.id /\ Shown(r).key = r.key /\ Shown(r).val = r.val
    /\ \A r, s : Shown(r) = Shown(s) <=> r.id = s.id /\ r.key = s.key /\ r.val = s.val
<1>1. \A r : Shown(r).id = r.id /\ Shown(r).key = r.key /\ Shown(r).val = r.val
    BY DEF Shown
<1>2. \A r, s : Shown(r) = Shown(s) => r.id = s.id /\ r.key = s.key /\ r.val = s.val
    BY <1>1
<1>3. \A r, s : r.id = s.id /\ r.key = s.key /\ r.val = s.val => Shown(r) = Shown(s)
    BY DEF Shown
<1> QED BY <1>1, <1>2, <1>3

LEMMA ViewIs ==
    ASSUME NEW recs
    PROVE  /\ \A x : x \in View(recs) <=> \E r \in recs : ~r.off /\ x = Shown(r)
           /\ \A r \in recs : ~r.off => Shown(r) \in View(recs)
<1>1. View(recs) = {Shown(r) : r \in {y \in recs : ~y.off}}
    BY DEF View, Shown
<1> QED BY <1>1

LEMMA ViewType ==
    ASSUME NEW recs \in SUBSET ServerRecord
    PROVE  View(recs) \subseteq [id : ServerIds, key : Names, val : Vals]
<1>1. \A r \in recs : Shown(r) \in [id : ServerIds, key : Names, val : Vals]
    BY RecordIs DEF Shown
<1> QED BY <1>1, ViewIs

\* What the view shows of disabled records is nothing.
LEMMA ViewEnabled ==
    ASSUME NEW recs
    PROVE  /\ View(Enabled(recs)) = View(recs) /\ Enabled(recs) \subseteq recs
           /\ \A r \in Enabled(recs) : ~r.off
<1>1. \A r : r \in Enabled(recs) <=> r \in recs /\ ~r.off
    BY DEF Enabled
<1>2. \A x : x \in View(Enabled(recs)) <=> x \in View(recs)
    BY <1>1, ViewIs
<1> QED BY <1>1, <1>2

LEMMA ServerTable ==
    ASSUME ApiIInv
    PROVE  /\ Table(served, nextId) /\ kind \in AllKinds
           /\ served \in SUBSET ServerRecord
BY DEF ApiIInv, ApiTypeOK, ServerInv, Table

LEMMA CallIs ==
    ASSUME ApiIInv, NEW c \in Clients, pc[c] # "idle"
    PROVE  /\ call[c].op \in {"list", "create", "update", "delete"}
           /\ call[c].op # "list" => /\ call[c].key \in Names /\ call[c].val \in Vals
                                     /\ call[c].ttl \in Ttls
           /\ call[c].op \in {"update", "delete"} => call[c].id \in ServerIds
<1>1. call[c] \in Call
    BY DEF ApiIInv, ApiTypeOK
<1> DEFINE m == call[c]
<1>2. m \in Call
    BY <1>1
<1> HIDE DEF m
<1>3. /\ m.op \in {"list", "create", "update", "delete"}
      /\ m.op # "list" => m.key \in Names /\ m.val \in Vals /\ m.ttl \in Ttls
      /\ m.op \in {"update", "delete"} => m.id \in ServerIds
  <2>1. CASE m \in [op : {"list"}]
      BY <2>1
  <2>2. CASE m \in [op : {"create"}, key : Names, val : Vals, ttl : Ttls]
      BY <2>2
  <2>3. CASE m \in [op : {"update", "delete"}, id : ServerIds, key : Names, val : Vals, ttl : Ttls]
      BY <2>3
  <2> QED BY <1>2, <2>1, <2>2, <2>3 DEF Call
<1> QED BY <1>3 DEF m

LEMMA KindsAre ==
    ASSUME kind \in AllKinds
    PROVE  /\ ById <=> kind \in {"cloudflare", "digitalocean", "generic_rest", "subprocess"}
           /\ kind \in {"powerdns", "adguardhome"} <=> ~ById
           /\ Paged => ById /\ kind # "powerdns" /\ kind # "adguardhome"
           /\ Resolves => ById
           /\ ById => ServerIds = 1..MaxServerId
           /\ ~ById => ServerIds = Names \X Vals
BY DEF AllKinds, ById, Paged, Resolves, ServerIds

\* Nothing but a client's own record is missing from the rest.
LEMMA RestIs ==
    ASSUME NEW c, NEW recs
    PROVE  /\ Rest(c, recs) \subseteq recs
           /\ \A x \in recs : x \in Rest(c, recs) <=>
                                (call[c].op \in {"update", "delete"} => x.id # call[c].id)
           /\ call[c].op \notin {"update", "delete"} => Rest(c, recs) = recs
BY DEF Rest

LEMMA RestAgain ==
    ASSUME NEW c, NEW recs
    PROVE  Rest(c, Rest(c, recs)) = Rest(c, recs)
BY DEF Rest

-----------------------------------------------------------------------------
(* Clients *)

\* The parts of the two properties that are about one client.
Promise(c) ==
    pc[c] # "idle" /\ pc'[c] = "idle" /\ clean[c] /\ heard'[c] =>
       /\ \/ Done(c, keep[c], View(served'))
          \/ /\ answer'[c] = "failed"
             /\ View(served') \in {keep[c], Rest(c, keep[c])}
       /\ call[c].op = "list" /\ answer'[c] = "ok" => View(listed'[c]) = keep[c]

Harmless(c) ==
    pc[c] # "idle" /\ pc'[c] # pc[c] /\ heard[c] => Rest(c, keep[c]) \subseteq View(served')

Unmoved(d) ==
    /\ pc'[d] = pc[d] /\ call'[d] = call[d] /\ listed'[d] = listed[d]
    /\ page'[d] = page[d] /\ heard'[d] = heard[d]

\* A step of c alone, or of nobody.
Typed ==
    /\ kind' = kind
    /\ pc' \in [Clients -> Steps]
    /\ \A d \in Clients : pc'[d] # "idle" => call'[d] \in Call
    /\ call' = [d \in Clients |-> call'[d]]
    /\ listed' \in [Clients -> SUBSET ServerRecord]
    /\ page' \in [Clients -> 1..(MaxServerId + 1)]
    /\ answer' \in [Clients -> {"none", "ok", "failed"}]
    /\ heard' \in [Clients -> BOOLEAN]

Own(c) == Typed /\ \A d \in Clients : d # c => Unmoved(d)

LEMMA TypesAre ==
    ASSUME ApiIInv
    PROVE  /\ pc \in [Clients -> Steps]
           /\ \A d \in Clients : pc[d] # "idle" => call[d] \in Call
           /\ call = [d \in Clients |-> call[d]]
           /\ listed \in [Clients -> SUBSET ServerRecord]
           /\ page \in [Clients -> 1..(MaxServerId + 1)] /\ 1 \in 1..(MaxServerId + 1)
           /\ answer \in [Clients -> {"none", "ok", "failed"}]
           /\ heard \in [Clients -> BOOLEAN]
           /\ clean \in [Clients -> BOOLEAN]
           /\ keep \in [Clients -> SUBSET [id : ServerIds, key : Names, val : Vals]]
BY NumbersAre DEF ApiIInv, ApiTypeOK, Steps

LEMMA KindStays ==
    ASSUME kind' = kind
    PROVE  /\ ServerIds' = ServerIds /\ ServerRecord' = ServerRecord /\ Call' = Call
           /\ ById' = ById /\ Paged' = Paged /\ Resolves' = Resolves
           /\ \A recs, n : Table(recs, n)' = Table(recs, n)
<1>1. ById' = ById /\ Paged' = Paged /\ Resolves' = Resolves
    BY DEF ById, Paged, Resolves
<1>2. ServerIds' = ServerIds
    BY <1>1 DEF ServerIds
<1>3. ServerRecord' = ServerRecord /\ Call' = Call
    BY <1>2 DEF ServerRecord, Call
<1>4. \A recs, n : Table(recs, n)' = Table(recs, n)
    BY <1>1, <1>3 DEF Table
<1> QED BY <1>1, <1>2, <1>3, <1>4

LEMMA Remembered ==
    ASSUME Remember, NEW d \in Clients
    PROVE  /\ keep'[d] = IF pc'[d] = "idle" THEN {}
                         ELSE IF pc[d] = "idle" THEN View(served)
                         ELSE IF pc[d] = pc'[d] THEN keep[d] \cap View(served')
                         ELSE keep[d]
           /\ clean'[d] <=> /\ pc'[d] # "idle"
                            /\ pc[d] # "idle" => clean[d] /\ (pc[d] = pc'[d] => served' = served)
BY DEF Remember

\* Whom a step does not move it only disturbs.
LEMMA OthersKeep ==
    ASSUME ApiIInv, Remember, kind' = kind, NEW d \in Clients, Unmoved(d)
    PROVE  /\ StepInv(d)' /\ KeepInv(d)' /\ CleanInv(d)'
           /\ Promise(d) /\ Harmless(d)
<1>0. StepInv(d) /\ KeepInv(d) /\ CleanInv(d)
    BY DEF ApiIInv
<1>1. /\ pc'[d] = pc[d] /\ call'[d] = call[d] /\ listed'[d] = listed[d]
      /\ page'[d] = page[d] /\ heard'[d] = heard[d]
      /\ Paged' = Paged /\ Resolves' = Resolves
    BY KindStays DEF Unmoved
<1>2. StepInv(d)'
    BY <1>0, <1>1 DEF StepInv
<1>3. Promise(d) /\ Harmless(d)
    BY <1>1 DEF Promise, Harmless
<1>4. \A recs : Rest(d, recs)' = Rest(d, recs)
    BY <1>1 DEF Rest
<1>5. pc[d] # "idle" => keep'[d] = keep[d] \cap View(served')
    BY <1>1, Remembered
<1>6. KeepInv(d)'
  <2>1. pc[d] # "idle" => Rest(d, keep'[d]) \subseteq View(served')
      BY <1>5, RestIs
  <2>2. pc[d] = "list" => keep'[d] \subseteq View(served')
      BY <1>5
  <2>3. kind = "powerdns" /\ pc[d] = "request" /\ heard[d] => keep'[d] \subseteq View(listed[d])
      BY <1>0, <1>5 DEF KeepInv
  <2>4. Rest(d, keep[d])' = Rest(d, keep'[d])
      BY <1>4
  <2> QED BY <1>1, <2>1, <2>2, <2>3, <2>4 DEF KeepInv
<1>7. CleanInv(d)'
  <2> SUFFICES ASSUME pc[d] # "idle", clean'[d]
               PROVE  CleanInv(d)'
      BY <1>1 DEF CleanInv
  <2>1. clean[d] /\ served' = served
      BY <1>1, Remembered
  <2>2. /\ View(served) = IF Halfway(d) THEN Rest(d, keep[d]) ELSE keep[d]
        /\ kind = "powerdns" /\ pc[d] = "request" /\ heard[d] => View(listed[d]) = keep[d]
        /\ kind = "powerdns" /\ call[d].op \in {"update", "delete"} =>
             \E q \in keep[d] : q.id = call[d].id /\ q.key = call[d].key
        /\ Paged /\ pc[d] = "page" => listed[d] = Before(served, page[d])
      BY <1>0, <2>1 DEF CleanInv
  <2>3. Halfway(d)' = Halfway(d)
      BY <1>1 DEF Halfway
  <2>4. CASE ~Halfway(d)
    <3>1. keep'[d] = keep[d]
        BY <1>5, <2>1, <2>2, <2>4
    <3>2. View(served') = IF Halfway(d) THEN Rest(d, keep'[d]) ELSE keep'[d]
        BY <2>1, <2>2, <2>4, <3>1
    <3>3. Before(served, page[d])' = Before(served, page[d])
        BY <1>1, <2>1 DEF Before
    <3> QED BY <1>1, <2>1, <2>2, <2>3, <2>4, <3>1, <3>2, <3>3 DEF CleanInv
  <2>5. CASE Halfway(d)
    <3>0. View(served) = Rest(d, keep[d]) /\ Rest(d, keep[d]) \subseteq keep[d]
        BY <2>2, <2>5, RestIs
    <3>1. keep'[d] = Rest(d, keep[d])
        BY <1>5, <2>1, <3>0
    <3>2. Rest(d, keep'[d]) = Rest(d, keep[d])
        BY <3>1, RestAgain
    <3>3. View(served') = Rest(d, keep'[d])
        BY <2>1, <2>2, <2>5, <3>2
    <3>4. kind # "powerdns" /\ ~(Paged /\ pc[d] = "page")
        BY <2>5 DEF Halfway
    <3>5. Rest(d, keep[d])' = Rest(d, keep'[d])
        BY <1>4
    <3> QED BY <1>1, <2>3, <2>5, <3>3, <3>4, <3>5 DEF CleanInv
  <2> QED BY <2>4, <2>5
<1> QED BY <1>2, <1>3, <1>6, <1>7

\* What is left to show of a step.
LEMMA TypeKept ==
    ASSUME ApiIInv, Remember, Typed, Table(served', nextId'),
           \A c \in Clients : StepInv(c)' /\ KeepInv(c)' /\ CleanInv(c)'
    PROVE  ApiIInv'
<1>1. /\ kind' = kind /\ ServerIds' = ServerIds /\ ServerRecord' = ServerRecord /\ Call' = Call
      /\ ById' = ById
    BY KindStays DEF Typed
<1>2. kind \in Kinds /\ kind \in AllKinds
    BY DEF ApiIInv, ApiTypeOK, ServerInv
<1> DEFINE Shapes == [id : ServerIds, key : Names, val : Vals]
<1>3. keep' \in [Clients -> SUBSET Shapes]
  <2>1. View(served) \subseteq Shapes /\ View(served') \subseteq Shapes
      BY ServerTable, ViewType DEF Table
  <2>2. \A d \in Clients : keep[d] \subseteq Shapes
      BY TypesAre
  <2> HIDE DEF Shapes
  <2>3. \A d \in Clients : keep'[d] \subseteq Shapes
      BY <2>1, <2>2, Remembered
  <2>4. keep' = [d \in Clients |-> keep'[d]]
      BY DEF Remember
  <2> QED BY <2>3, <2>4
<1>4. clean' \in [Clients -> BOOLEAN]
  <2>1. clean' = [d \in Clients |->
           /\ pc'[d] # "idle"
           /\ pc[d] # "idle" => clean[d] /\ (pc[d] = pc'[d] => served' = served)]
      BY DEF Remember
  <2> QED BY <2>1
<1>5. ApiTypeOK'
    BY <1>1, <1>2, <1>3, <1>4 DEF ApiTypeOK, Typed, Table, Steps
<1>6. ServerInv'
    BY <1>1, <1>2 DEF ServerInv, Table
<1>7. call' = [c \in Clients |-> call'[c]]
    BY DEF Typed
<1> QED BY <1>5, <1>6, <1>7 DEF ApiIInv

\* What is left to show of a client's step.
Kept(c) ==
    /\ Own(c) /\ Table(served', nextId')
    /\ StepInv(c)' /\ KeepInv(c)' /\ CleanInv(c)' /\ Promise(c) /\ Harmless(c)

LEMMA KeptKeeps ==
    ASSUME ApiIInv, Remember, NEW c \in Clients, Kept(c)
    PROVE  ApiIInv' /\ \A d \in Clients : Promise(d) /\ Harmless(d)
<1>1. \A d \in Clients : d # c => /\ StepInv(d)' /\ KeepInv(d)' /\ CleanInv(d)'
                                  /\ Promise(d) /\ Harmless(d)
    BY OthersKeep DEF Kept, Own, Typed
<1>2. /\ StepInv(c)' /\ KeepInv(c)' /\ CleanInv(c)'
      /\ Promise(c) /\ Harmless(c) /\ Typed /\ Table(served', nextId')
    BY DEF Kept, Own
<1>3. \A d \in Clients : StepInv(d)' /\ KeepInv(d)' /\ CleanInv(d)'
  <2> SUFFICES ASSUME NEW d \in Clients PROVE StepInv(d)' /\ KeepInv(d)' /\ CleanInv(d)'
      OBVIOUS
  <2>1. CASE d = c
      BY <1>2, <2>1
  <2>2. CASE d # c
      BY <1>1, <2>2
  <2> QED BY <2>1, <2>2
<1>4. \A d \in Clients : Promise(d) /\ Harmless(d)
    BY <1>1, <1>2
<1> QED BY <1>2, <1>3, <1>4, TypeKept

-----------------------------------------------------------------------------
(* What the steps are made of *)

\* What a step leaves of the listings and of what was heard.
Told(c) ==
    /\ listed' \in [Clients -> SUBSET ServerRecord] /\ heard' \in [Clients -> BOOLEAN]
    /\ \A d \in Clients : d # c => listed'[d] = listed[d] /\ heard'[d] = heard[d]

LEMMA ToldNothing ==
    ASSUME ApiIInv, NEW c \in Clients, listed' = listed, heard' = heard
    PROVE  Told(c)
BY TypesAre DEF Told

LEMMA ToldList ==
    ASSUME ApiIInv, NEW c \in Clients, NEW recs \in SUBSET ServerRecord,
           listed' = [listed EXCEPT ![c] = recs], heard' = heard
    PROVE  Told(c) /\ listed'[c] = recs
<1>1. /\ listed \in [Clients -> SUBSET ServerRecord] /\ heard \in [Clients -> BOOLEAN]
    BY TypesAre
<1>2. /\ listed' \in [Clients -> SUBSET ServerRecord] /\ listed'[c] = recs
      /\ \A d \in Clients : d # c => listed'[d] = listed[d]
    BY <1>1
<1> QED BY <1>1, <1>2 DEF Told

LEMMA ReturnOwn ==
    ASSUME ApiIInv, Remember, NEW c \in Clients, NEW a \in {"ok", "failed"},
           pc[c] # "idle", Return(c, a), kind' = kind, Told(c), \A r \in listed'[c] : ~r.off
    PROVE  /\ Own(c) /\ pc'[c] = "idle" /\ answer'[c] = a
           /\ StepInv(c)' /\ KeepInv(c)' /\ CleanInv(c)'
<1>1. /\ pc' = [pc EXCEPT ![c] = "idle"] /\ answer' = [answer EXCEPT ![c] = a]
      /\ call' = [call EXCEPT ![c] = NoCall] /\ page' = [page EXCEPT ![c] = 1]
    BY DEF Return
<1>2. /\ pc' \in [Clients -> Steps] /\ pc'[c] = "idle"
      /\ \A d \in Clients : d # c => pc'[d] = pc[d]
    BY <1>1, TypesAre DEF Steps
<1>3. /\ answer' \in [Clients -> {"none", "ok", "failed"}] /\ answer'[c] = a
    BY <1>1, TypesAre
<1>4. /\ page' \in [Clients -> 1..(MaxServerId + 1)] /\ page'[c] = 1
      /\ \A d \in Clients : d # c => page'[d] = page[d]
    BY <1>1, TypesAre
<1>5. /\ \A d \in Clients : d # c => call'[d] = call[d]
      /\ call' = [d \in Clients |-> call'[d]]
    BY <1>1, TypesAre
<1>6. \A d \in Clients : pc'[d] # "idle" => call'[d] \in Call
    BY <1>2, <1>5, TypesAre
<1>7. Own(c)
    BY <1>2, <1>3, <1>4, <1>5, <1>6 DEF Own, Typed, Unmoved, Told
<1>8. keep'[c] = {} /\ ~clean'[c]
    BY <1>2, Remembered
<1>9. StepInv(c)' /\ KeepInv(c)' /\ CleanInv(c)'
    BY <1>2, <1>4, <1>8 DEF StepInv, KeepInv, CleanInv
<1> QED BY <1>2, <1>3, <1>7, <1>9

LEMMA GotoOwn ==
    ASSUME ApiIInv, Remember, NEW c \in Clients, NEW s \in Steps,
           pc[c] # "idle", s # "idle", s # pc[c], Goto(c, s), kind' = kind, Told(c)
    PROVE  /\ Own(c) /\ pc'[c] = s /\ call'[c] = call[c] /\ page'[c] = page[c]
           /\ keep'[c] = keep[c] /\ clean'[c] = clean[c] /\ Promise(c)
<1>1. /\ pc' = [pc EXCEPT ![c] = s] /\ answer' = answer /\ call' = call /\ page' = page
    BY DEF Goto
<1>2. /\ pc' \in [Clients -> Steps] /\ pc'[c] = s
      /\ \A d \in Clients : d # c => pc'[d] = pc[d]
    BY <1>1, TypesAre
<1>3. \A d \in Clients : pc'[d] # "idle" => call'[d] \in Call
  <2>1. \A d \in Clients : pc'[d] # "idle" => pc[d] # "idle"
      BY <1>2
  <2> QED BY <1>1, <2>1, TypesAre
<1>4. Own(c)
    BY <1>1, <1>2, <1>3, TypesAre DEF Own, Typed, Unmoved, Told
<1>5. keep'[c] = keep[c]
    BY <1>2, Remembered
<1>6. clean'[c] <=> clean[c]
    BY <1>2, Remembered
<1>7. clean'[c] \in BOOLEAN /\ clean[c] \in BOOLEAN
  <2>1. clean' = [d \in Clients |->
           /\ pc'[d] # "idle"
           /\ pc[d] # "idle" => clean[d] /\ (pc[d] = pc'[d] => served' = served)]
      BY DEF Remember
  <2> QED BY <2>1, TypesAre
<1>8. Promise(c)
    BY <1>2 DEF Promise
<1> QED BY <1>1, <1>2, <1>4, <1>5, <1>6, <1>7, <1>8

\* A call that fails without having done anything.
LEMMA FailKept ==
    ASSUME ApiIInv, Remember, NEW c \in Clients, pc[c] # "idle", Return(c, "failed"),
           kind' = kind, served' = served, nextId' = nextId,
           Told(c), \A r \in listed'[c] : ~r.off
    PROVE  Kept(c)
<1>1. /\ Own(c) /\ pc'[c] = "idle" /\ answer'[c] = "failed"
      /\ StepInv(c)' /\ KeepInv(c)' /\ CleanInv(c)'
    BY ReturnOwn
<1>2. KeepInv(c) /\ CleanInv(c)
    BY DEF ApiIInv
<1>3. Harmless(c)
    BY <1>2 DEF Harmless, KeepInv
<1>4. clean[c] => View(served) \in {keep[c], Rest(c, keep[c])}
    BY <1>2 DEF CleanInv
<1>5. Promise(c)
    BY <1>1, <1>4 DEF Promise
<1>6. Table(served', nextId')
    BY ServerTable
<1> QED BY <1>1, <1>3, <1>5, <1>6 DEF Kept

LEMMA FailsKept ==
    ASSUME ApiIInv, Remember, NEW c \in Clients, Fails(c)
    PROVE  Kept(c)
<1>1. /\ pc[c] # "idle" /\ Return(c, "failed") /\ listed' = [listed EXCEPT ![c] = {}]
      /\ UNCHANGED <<kind, served, nextId, heard>>
    BY DEF Fails, server
<1>2. Told(c) /\ listed'[c] = {}
    BY <1>1, ToldList
<1> QED BY <1>1, <1>2, FailKept

LEMMA HangKept ==
    ASSUME ApiIInv, Remember, NEW c \in Clients, ChildHangs(c) \/ ChildKilled(c)
    PROVE  Kept(c)
<1>0. StepInv(c) /\ KeepInv(c) /\ CleanInv(c) /\ UNCHANGED <<kind, served, nextId, listed, heard>>
    BY DEF ApiIInv, ChildHangs, ChildKilled, server
<1>1. Told(c) /\ \A r \in listed'[c] : ~r.off
    BY <1>0, ToldNothing DEF StepInv
<1>2. CASE ChildKilled(c)
  <2>1. pc[c] # "idle" /\ Return(c, "failed")
      BY <1>2 DEF ChildKilled
  <2> QED BY <1>0, <1>1, <2>1, FailKept
<1>3. CASE ChildHangs(c)
  <2>1. /\ kind = "subprocess" /\ pc[c] \in {"page", "request"} /\ Goto(c, "hung")
        /\ "hung" \in Steps
      BY <1>3 DEF ChildHangs, Steps
  <2>2. /\ Own(c) /\ pc'[c] = "hung" /\ call'[c] = call[c] /\ page'[c] = page[c]
        /\ keep'[c] = keep[c] /\ clean'[c] = clean[c] /\ Promise(c)
      BY <1>0, <1>1, <2>1, GotoOwn
  <2>3. Rest(c, keep[c])' = Rest(c, keep[c])
      BY <2>2 DEF Rest
  <2>4. StepInv(c)'
      BY <1>0, <2>2 DEF StepInv
  <2>5. KeepInv(c)'
      BY <1>0, <2>1, <2>2, <2>3 DEF KeepInv
  <2>6. CleanInv(c)'
      BY <1>0, <2>1, <2>2, <2>3 DEF CleanInv, Halfway
  <2>7. Harmless(c)
      BY <1>0, <2>1 DEF Harmless, KeepInv
  <2> QED BY <1>0, <2>2, <2>4, <2>5, <2>6, <2>7, ServerTable DEF Kept
<1> QED BY <1>2, <1>3

-----------------------------------------------------------------------------
(* A call begins *)

\* No record is on a page before the first.
LEMMA PlacesAre ==
    ASSUME ApiIInv, Paged
    PROVE  /\ IsFiniteSet(served) /\ Cardinality(served) \in 0..MaxServerId
           /\ \A r \in served :
                Cardinality({s \in served : s.id < r.id}) \in 0..(Cardinality(served) - 1)
           /\ Before(served, 1) = {}
<1>1. /\ served \subseteq ServerRecord /\ \A r, s \in served : r.id = s.id => r = s
      /\ \A r \in served : r.id \in 1..MaxServerId
    BY ServerTable, RecordIs, KindsAre DEF Table
<1> DEFINE f == [r \in served |-> r.id]
<1>2. f \in Injection(served, 1..MaxServerId)
    BY <1>1 DEF Injection, IsInjective
<1>3. IsFiniteSet(1..MaxServerId) /\ Cardinality(1..MaxServerId) = MaxServerId
    BY NumbersAre, FS_Interval
<1>4. IsFiniteSet(served) /\ Cardinality(served) <= MaxServerId
    BY <1>2, <1>3, FS_Injection
<1>5. Cardinality(served) \in 0..MaxServerId
    BY <1>4, NumbersAre, FS_CardinalityType
<1>6. ASSUME NEW r \in served
      PROVE  Cardinality({s \in served : s.id < r.id}) \in 0..(Cardinality(served) - 1)
  <2> DEFINE T == {s \in served : s.id < r.id}
  <2>1. T \in SUBSET served /\ r \notin T
      BY <1>1
  <2>2. /\ IsFiniteSet(T) /\ Cardinality(T) <= Cardinality(served)
        /\ Cardinality(served) = Cardinality(T) => served = T
      BY <1>4, <2>1, FS_Subset
  <2>3. Cardinality(T) \in Nat
      BY <2>2, FS_CardinalityType
  <2>4. Cardinality(T) # Cardinality(served)
      BY <2>1, <2>2
  <2> HIDE DEF T
  <2>5. Cardinality(T) \in 0..(Cardinality(served) - 1)
      BY <1>5, <2>2, <2>3, <2>4
  <2> QED BY <2>5 DEF T
<1>7. Before(served, 1) = {}
  <2>1. \A m \in Nat : m \div PageSize \in Nat
      BY NumbersAre
  <2> DEFINE place(r) == Cardinality({s \in served : s.id < r.id})
  <2>2. \A r \in served : place(r) \in 0..(Cardinality(served) - 1)
      BY <1>6
  <2>3. Before(served, 1) = {r \in served : place(r) \div PageSize < 1 - 1}
      BY DEF Before
  <2> HIDE DEF place
  <2>4. \A r \in served : place(r) \div PageSize \in Nat
      BY <1>5, <2>1, <2>2
  <2> QED BY <2>3, <2>4
<1> QED BY <1>4, <1>5, <1>6, <1>7

LEMMA BeginKept ==
    ASSUME ApiIInv, Remember, NEW c \in Clients, Begin(c)
    PROVE  Kept(c)
<1>0. /\ pc[c] = "idle" /\ UNCHANGED <<kind, served, nextId, page>>
      /\ pc' = [pc EXCEPT ![c] = FirstStep(call'[c].op)]
      /\ answer' = [answer EXCEPT ![c] = "none"] /\ listed' = [listed EXCEPT ![c] = {}]
      /\ heard' = [heard EXCEPT ![c] = TRUE]
      /\ StepInv(c) /\ kind \in AllKinds
    BY DEF Begin, server, ApiIInv, ServerInv
<1>1. \A op : FirstStep(op) \in Steps \ {"idle"}
    BY DEF FirstStep, Steps
<1>2. PICK k \in Names, v \in Vals, t \in Ttls :
         \/ call' = [call EXCEPT ![c] = [op |-> "list"]]
         \/ call' = [call EXCEPT ![c] = [op |-> "create", key |-> k, val |-> v, ttl |-> t]]
         \/ \E op \in {"update", "delete"}, r \in Enabled(served) :
               /\ r.key = k
               /\ op = "update" => r.val # v
               /\ call' = [call EXCEPT ![c] = [op |-> op, id |-> r.id, key |-> k, val |-> v, ttl |-> t]]
    BY DEF Begin
<1> DEFINE m == call'[c]
<1>3. \/ m = [op |-> "list"]
      \/ m = [op |-> "create", key |-> k, val |-> v, ttl |-> t]
      \/ \E op \in {"update", "delete"}, r \in Enabled(served) :
            r.key = k /\ m = [op |-> op, id |-> r.id, key |-> k, val |-> v, ttl |-> t]
    BY <1>2, TypesAre
<1>4. /\ \A d \in Clients : d # c => call'[d] = call[d]
      /\ call' = [d \in Clients |-> call'[d]]
    BY <1>2, TypesAre
<1>5. \A r \in Enabled(served) : r.id \in ServerIds /\ Shown(r) \in View(served)
    BY ServerTable, RecordIs, ViewEnabled, ViewIs
<1>6. m \in Call /\ m.op \in {"list", "create", "update", "delete"}
  <2>1. CASE m = [op |-> "list"]
    <3>1. m \in [op : {"list"}]
        BY <2>1
    <3> QED BY <2>1, <3>1 DEF Call
  <2>2. CASE m = [op |-> "create", key |-> k, val |-> v, ttl |-> t]
    <3>1. m \in [op : {"create"}, key : Names, val : Vals, ttl : Ttls]
        BY <2>2
    <3> QED BY <2>2, <3>1 DEF Call
  <2>3. ASSUME NEW op \in {"update", "delete"}, NEW r \in Enabled(served),
               m = [op |-> op, id |-> r.id, key |-> k, val |-> v, ttl |-> t]
        PROVE  m \in Call /\ m.op \in {"list", "create", "update", "delete"}
    <3>1. m \in [op : {"update", "delete"}, id : ServerIds, key : Names, val : Vals, ttl : Ttls]
        BY <1>5, <2>3
    <3> QED BY <2>3, <3>1 DEF Call
  <2> QED BY <1>3, <2>1, <2>2, <2>3
<1>7. m.op \in {"update", "delete"} =>
        \E q \in View(served) : q.id = m.id /\ q.key = m.key
  <2>1. ASSUME NEW op \in {"update", "delete"}, NEW r \in Enabled(served), r.key = k,
               m = [op |-> op, id |-> r.id, key |-> k, val |-> v, ttl |-> t]
        PROVE  \E q \in View(served) : q.id = m.id /\ q.key = m.key
    <3>1. m.id = r.id /\ m.key = r.key
        BY <2>1
    <3> QED BY <1>5, <3>1, ShownIs
  <2>2. CASE m = [op |-> "list"]
      BY <2>2
  <2>3. CASE m = [op |-> "create", key |-> k, val |-> v, ttl |-> t]
      BY <2>3
  <2> HIDE DEF m
  <2> QED BY <1>3, <2>1, <2>2, <2>3
<1> HIDE DEF m
<1>8. /\ pc' \in [Clients -> Steps] /\ pc'[c] = FirstStep(m.op) /\ pc'[c] # "idle"
      /\ \A d \in Clients : d # c => pc'[d] = pc[d]
    BY <1>0, <1>1, TypesAre DEF m
<1>9. \A d \in Clients : pc'[d] # "idle" => call'[d] \in Call
    BY <1>4, <1>6, <1>8, TypesAre DEF m
<1>10. /\ answer' \in [Clients -> {"none", "ok", "failed"}]
       /\ page' \in [Clients -> 1..(MaxServerId + 1)] /\ page' = page
    BY <1>0, TypesAre
<1>11. /\ heard' \in [Clients -> BOOLEAN]
       /\ \A d \in Clients : d # c => heard'[d] = heard[d]
    BY <1>0, TypesAre
<1>12. /\ listed' \in [Clients -> SUBSET ServerRecord] /\ listed'[c] = {}
       /\ \A d \in Clients : d # c => listed'[d] = listed[d]
    BY <1>0, TypesAre
<1>13. Own(c)
    BY <1>0, <1>4, <1>8, <1>9, <1>10, <1>11, <1>12 DEF Own, Typed, Unmoved
<1>14. keep'[c] = View(served) /\ page[c] = 1
    BY <1>0, <1>8, Remembered DEF StepInv
<1>15. /\ pc'[c] = "resolve" => Resolves
       /\ pc'[c] = "page" => m.op = "list"
       /\ pc'[c] = "list" => kind = "powerdns" /\ m.op # "list"
       /\ pc'[c] = "remove" => kind = "adguardhome" /\ m.op = "update"
       /\ pc'[c] = "request" => m.op # "list" /\ kind # "powerdns"
                                /\ ~(kind = "adguardhome" /\ m.op = "update")
    BY <1>8 DEF FirstStep
<1>16. StepInv(c)'
    BY <1>0, <1>8, <1>10, <1>12, <1>14, <1>15, KindStays DEF StepInv, m
<1>17. KeepInv(c)'
  <2>1. Rest(c, keep[c])' \subseteq View(served)
      BY <1>14 DEF Rest
  <2> QED BY <1>0, <1>14, <1>15, <2>1 DEF KeepInv
<1>18. CleanInv(c)'
  <2>1. ~Halfway(c)'
      BY <1>0, <1>15 DEF Halfway, m
  <2>2. Paged /\ pc'[c] = "page" => listed'[c] = Before(served, page[c])
      BY <1>12, <1>14, PlacesAre
  <2>3. Before(served, page[c])' = Before(served, page[c]) /\ Paged' = Paged
      BY <1>0, KindStays DEF Before
  <2> QED BY <1>0, <1>7, <1>14, <1>15, <2>1, <2>2, <2>3 DEF CleanInv, m
<1>19. Promise(c) /\ Harmless(c)
    BY <1>0 DEF Promise, Harmless
<1> QED BY <1>0, <1>13, <1>16, <1>17, <1>18, <1>19, ServerTable DEF Kept

-----------------------------------------------------------------------------
(* Steps that read *)

\* What a step that changes nothing at the server leaves of what its client knows.
LEMMA ReadKept ==
    ASSUME ApiIInv, Remember, NEW c \in Clients, NEW s \in Steps,
           pc[c] # "idle", s # "idle", s # pc[c], Goto(c, s), Told(c),
           kind' = kind, served' = served, nextId' = nextId,
           StepInv(c)', KeepInv(c)', CleanInv(c)'
    PROVE  Kept(c)
<1>1. Own(c) /\ Promise(c)
    BY GotoOwn
<1>2. Harmless(c)
    BY DEF Harmless, KeepInv, ApiIInv
<1> QED BY <1>1, <1>2, ServerTable DEF Kept

LEMMA ResolveKept ==
    ASSUME ApiIInv, Remember, NEW c \in Clients, Resolve(c)
    PROVE  Kept(c)
<1> DEFINE s == IF call[c].op = "list" THEN "page" ELSE "request"
<1>1. /\ pc[c] = "resolve" /\ Goto(c, s) /\ s \in Steps /\ s \in {"page", "request"}
      /\ s = "page" <=> call[c].op = "list"
      /\ UNCHANGED <<kind, served, nextId, listed, heard>>
    BY DEF Resolve, server, Steps
<1> HIDE DEF s
<1>2. StepInv(c) /\ KeepInv(c) /\ CleanInv(c) /\ Told(c) /\ kind \in AllKinds
    BY <1>1, ToldNothing DEF ApiIInv, ServerInv
<1>3. /\ Own(c) /\ pc'[c] = s /\ call'[c] = call[c] /\ page'[c] = page[c]
      /\ keep'[c] = keep[c] /\ clean'[c] = clean[c]
    BY <1>1, <1>2, GotoOwn
<1>4. kind # "powerdns" /\ kind # "adguardhome" /\ listed[c] = {} /\ page[c] = 1
    BY <1>1, <1>2, KindsAre DEF StepInv
<1>5. Rest(c, keep[c])' = Rest(c, keep[c])
    BY <1>3 DEF Rest
<1>6. StepInv(c)'
    BY <1>1, <1>2, <1>3, <1>4 DEF StepInv
<1>7. KeepInv(c)'
    BY <1>1, <1>2, <1>3, <1>4, <1>5 DEF KeepInv
<1>8. CleanInv(c)'
  <2>1. Paged => listed[c] = Before(served, page[c])
      BY <1>4, PlacesAre
  <2>2. Before(served, page[c])' = Before(served, page[c]) /\ Paged' = Paged
      BY <1>1, <1>3, KindStays DEF Before
  <2>3. ~Halfway(c) /\ ~Halfway(c)'
      BY <1>1, <1>4 DEF Halfway
  <2> QED BY <1>1, <1>2, <1>3, <1>4, <2>1, <2>2, <2>3 DEF CleanInv
<1> QED BY <1>1, <1>2, <1>6, <1>7, <1>8, ReadKept

\* PowerDNS tells the zone to a call that will replace a key of it.
LEMMA FetchKept ==
    ASSUME ApiIInv, Remember, NEW c \in Clients, PdnsFetch(c)
    PROVE  Kept(c)
<1>1. /\ pc[c] = "list" /\ listed' = [listed EXCEPT ![c] = Enabled(served)]
      /\ UNCHANGED <<kind, served, nextId, heard>>
      /\ StepInv(c) /\ KeepInv(c) /\ CleanInv(c)
    BY DEF PdnsFetch, server, ApiIInv
<1>2. Enabled(served) \in SUBSET ServerRecord
    BY ServerTable, ViewEnabled
<1>3. Told(c) /\ listed'[c] = Enabled(served)
    BY <1>1, <1>2, ToldList
<1>4. /\ \A r \in listed'[c] : ~r.off
      /\ View(listed'[c]) = View(served)
    BY <1>3, ViewEnabled
<1>5. CASE Return(c, "failed")
    BY <1>1, <1>3, <1>4, <1>5, FailKept
<1>6. CASE Goto(c, "request")
  <2>1. "request" \in Steps /\ kind = "powerdns" /\ call[c].op # "list"
      BY <1>1 DEF Steps, StepInv
  <2>2. /\ Own(c) /\ pc'[c] = "request" /\ call'[c] = call[c] /\ page'[c] = page[c]
        /\ keep'[c] = keep[c] /\ clean'[c] = clean[c]
      BY <1>1, <1>3, <1>6, <2>1, GotoOwn
  <2>3. Rest(c, keep[c])' = Rest(c, keep[c])
      BY <2>2 DEF Rest
  <2>4. StepInv(c)'
      BY <1>1, <1>4, <2>1, <2>2 DEF StepInv
  <2>5. KeepInv(c)'
      BY <1>1, <1>4, <2>1, <2>2, <2>3 DEF KeepInv
  <2>6. CleanInv(c)'
    <3>1. ~Halfway(c) /\ ~Halfway(c)'
        BY <1>1, <2>1 DEF Halfway
    <3> QED BY <1>1, <1>4, <2>1, <2>2, <3>1 DEF CleanInv
  <2> QED BY <1>1, <1>3, <1>6, <2>1, <2>4, <2>5, <2>6, ReadKept
<1> QED BY <1>5, <1>6 DEF PdnsFetch

LEMMA UnlistedKept ==
    ASSUME ApiIInv, Remember, NEW c \in Clients, PdnsUnlisted(c)
    PROVE  Kept(c)
<1>1. /\ pc[c] = "list" /\ call[c].op = "create" /\ Goto(c, "request") /\ "request" \in Steps
      /\ heard' = [heard EXCEPT ![c] = FALSE] /\ UNCHANGED <<kind, served, nextId, listed>>
      /\ StepInv(c) /\ KeepInv(c) /\ CleanInv(c) /\ kind = "powerdns"
    BY DEF PdnsUnlisted, server, ApiIInv, Steps, StepInv
<1>2. Told(c) /\ ~heard'[c]
    BY <1>1, TypesAre DEF Told
<1>3. /\ Own(c) /\ pc'[c] = "request" /\ call'[c] = call[c] /\ page'[c] = page[c]
      /\ keep'[c] = keep[c] /\ clean'[c] = clean[c]
    BY <1>1, <1>2, GotoOwn
<1>4. Rest(c, keep[c])' = Rest(c, keep[c])
    BY <1>3 DEF Rest
<1>5. StepInv(c)'
    BY <1>1, <1>3 DEF StepInv
<1>6. KeepInv(c)'
    BY <1>1, <1>2, <1>3, <1>4 DEF KeepInv
<1>7. CleanInv(c)'
  <2>1. ~Halfway(c) /\ ~Halfway(c)'
      BY <1>1 DEF Halfway
  <2> QED BY <1>1, <1>2, <1>3, <2>1 DEF CleanInv
<1> QED BY <1>1, <1>2, <1>5, <1>6, <1>7, ReadKept

-----------------------------------------------------------------------------
(* Listings *)

\* A listing that returns what is served, if nobody disturbed it or failed it.
LEMMA ListedKept ==
    ASSUME ApiIInv, Remember, NEW c \in Clients, pc[c] = "page", Return(c, "ok"),
           UNCHANGED <<kind, served, nextId>>, Told(c), \A r \in listed'[c] : ~r.off,
           clean[c] /\ heard'[c] => View(listed'[c]) = View(served)
    PROVE  Kept(c)
<1>0. StepInv(c) /\ KeepInv(c) /\ CleanInv(c)
    BY DEF ApiIInv
<1>1. /\ Own(c) /\ pc'[c] = "idle" /\ answer'[c] = "ok"
      /\ StepInv(c)' /\ KeepInv(c)' /\ CleanInv(c)'
    BY ReturnOwn
<1>2. call[c].op = "list"
    BY <1>0 DEF StepInv
<1>3. Harmless(c)
    BY <1>0 DEF Harmless, KeepInv
<1>4. clean[c] => View(served) = keep[c]
    BY <1>0 DEF CleanInv, Halfway
<1>5. Rest(c, keep[c]) = keep[c]
    BY <1>2, RestIs
<1>6. Promise(c)
    BY <1>1, <1>2, <1>4, <1>5 DEF Promise, Done
<1> QED BY <1>1, <1>3, <1>6, ServerTable DEF Kept

LEMMA ListAllKept ==
    ASSUME ApiIInv, Remember, NEW c \in Clients, ListAll(c) \/ ListNothing(c)
    PROVE  Kept(c)
<1>1. pc[c] = "page" /\ Return(c, "ok") /\ UNCHANGED <<kind, served, nextId>>
    BY DEF ListAll, ListNothing, server
<1>2. CASE ListAll(c)
  <2>1. Enabled(served) \in SUBSET ServerRecord
      BY ServerTable, ViewEnabled
  <2>2. Told(c) /\ listed'[c] = Enabled(served)
      BY <1>2, <2>1, ToldList DEF ListAll
  <2>3. (\A r \in listed'[c] : ~r.off) /\ View(listed'[c]) = View(served)
      BY <2>2, ViewEnabled
  <2> QED BY <1>1, <2>2, <2>3, ListedKept
<1>3. CASE ListNothing(c)
  <2>1. /\ listed' = [listed EXCEPT ![c] = {}] /\ heard' = [heard EXCEPT ![c] = FALSE]
      BY <1>3 DEF ListNothing
  <2>2. Told(c) /\ listed'[c] = {} /\ ~heard'[c]
      BY <2>1, TypesAre DEF Told
  <2> QED BY <1>1, <2>2, ListedKept
<1> QED BY <1>2, <1>3

\* The pages of a listing.
LEMMA PagesAre ==
    ASSUME ApiIInv, Paged, NEW n \in Nat \ {0}
    PROVE  /\ Before(served, n) \cup OnPage(served, n) = Before(served, n + 1)
           /\ n < Pages(Cardinality(served)) => n + 1 \in 1..(MaxServerId + 1)
           /\ ~(n < Pages(Cardinality(served))) => Before(served, n + 1) = served
<1> DEFINE place(r) == Cardinality({s \in served : s.id < r.id})
           size     == Cardinality(served)
<1>1. size \in 0..MaxServerId /\ \A r \in served : place(r) \in 0..(size - 1)
    BY PlacesAre
<1>2. Before(served, n) = {r \in served : place(r) \div PageSize < n - 1}
    BY DEF Before
<1>3. Before(served, n + 1) = {r \in served : place(r) \div PageSize < (n + 1) - 1}
    BY DEF Before
<1>4. OnPage(served, n) = {r \in served : place(r) \div PageSize = n - 1}
    BY DEF OnPage
<1>5. Pages(size) = (size + PageSize - 1) \div PageSize
    BY DEF Pages
<1>6. PageSize \in Nat \ {0} /\ MaxServerId \in Nat
    BY NumbersAre
<1> HIDE DEF place
<1>7. \A r \in served : place(r) \div PageSize \in Nat
  <2>1. \A m \in Nat : m \div PageSize \in Nat
      BY <1>6
  <2> QED BY <1>1, <1>6, <2>1
<1>8. Before(served, n) \cup OnPage(served, n) = Before(served, n + 1)
  <2>1. \A r \in served : place(r) \div PageSize < (n + 1) - 1 <=>
           place(r) \div PageSize < n - 1 \/ place(r) \div PageSize = n - 1
      BY <1>7
  <2> QED BY <1>2, <1>3, <1>4, <2>1
<1> HIDE DEF size
<1>9. size \in Nat
    BY <1>1
<1>10. n < Pages(size) => n + 1 \in 1..(MaxServerId + 1)
  <2>1. size = 0 => Pages(size) = 0
      BY <1>5, <1>6
  <2>2. size # 0 => (size + PageSize - 1) \div PageSize <= size
      BY <1>6, <1>9
  <2>3. Pages(size) <= size /\ Pages(size) \in Nat
      BY <1>5, <1>6, <1>9, <2>1, <2>2
  <2> QED BY <1>1, <1>6, <2>3
<1>11. ~(n < Pages(size)) => Before(served, n + 1) = served
  <2>1. \A m \in Nat : m < size => (m \div PageSize) + 1 <= (size + PageSize - 1) \div PageSize
      BY <1>6, <1>9
  <2>2. \A r \in served : (place(r) \div PageSize) + 1 <= Pages(size)
      BY <1>1, <1>5, <1>9, <2>1
  <2>3. Pages(size) \in Nat
      BY <1>5, <1>6, <1>9
  <2>4. ~(n < Pages(size)) => \A r \in served : place(r) \div PageSize < (n + 1) - 1
      BY <1>7, <2>2, <2>3
  <2> QED BY <1>3, <2>4
<1> QED BY <1>8, <1>10, <1>11 DEF size

LEMMA ListPageKept ==
    ASSUME ApiIInv, Remember, NEW c \in Clients, Paged, ListPage(c)
    PROVE  Kept(c)
<1> DEFINE n == page[c]
           page1 == OnPage(served, n)
<1>1. /\ pc[c] = "page" /\ listed' = [listed EXCEPT ![c] = listed[c] \cup page1]
      /\ UNCHANGED <<kind, served, nextId, heard>>
      /\ StepInv(c) /\ KeepInv(c) /\ CleanInv(c) /\ kind \in AllKinds
      /\ IF n < Pages(Cardinality(served))
         THEN page' = [page EXCEPT ![c] = NextPage(n)] /\ UNCHANGED <<pc, call, answer>>
         ELSE Return(c, "ok")
    BY TypesAre DEF ListPage, server, ApiIInv, ServerInv
<1>2. n \in 1..(MaxServerId + 1) /\ n \in Nat \ {0}
    BY TypesAre, NumbersAre
<1>3. page1 \subseteq served /\ \A r \in page1 : ~r.off
    BY <1>1, ServerTable, KindsAre DEF OnPage, Table
<1>4. /\ Before(served, n) \cup page1 = Before(served, n + 1)
      /\ n < Pages(Cardinality(served)) => n + 1 \in 1..(MaxServerId + 1)
      /\ ~(n < Pages(Cardinality(served))) => Before(served, n + 1) = served
    BY <1>2, PagesAre
<1> HIDE DEF page1
<1>5. listed[c] \cup page1 \in SUBSET ServerRecord
    BY <1>3, TypesAre, ServerTable
<1>6. Told(c) /\ listed'[c] = listed[c] \cup page1
    BY <1>1, <1>5, ToldList
<1>7. \A r \in listed'[c] : ~r.off
    BY <1>1, <1>3, <1>6 DEF StepInv
<1>8. clean[c] => listed'[c] = Before(served, n + 1)
    BY <1>1, <1>4, <1>6 DEF CleanInv
<1>9. CASE ~(n < Pages(Cardinality(served)))
  <2>1. clean[c] => View(listed'[c]) = View(served)
      BY <1>4, <1>8, <1>9
  <2> QED BY <1>1, <1>6, <1>7, <1>9, <2>1, ListedKept
<1>10. CASE n < Pages(Cardinality(served))
  <2>1. page' = [page EXCEPT ![c] = n + 1] /\ UNCHANGED <<pc, call, answer>>
      BY <1>1, <1>10 DEF NextPage
  <2>2. /\ page' \in [Clients -> 1..(MaxServerId + 1)] /\ page'[c] = n + 1
        /\ \A d \in Clients : d # c => page'[d] = page[d]
      BY <1>4, <1>10, <2>1, TypesAre
  <2>3. Own(c)
      BY <1>1, <1>6, <2>1, <2>2, TypesAre DEF Own, Typed, Unmoved, Told
  <2>4. Promise(c) /\ Harmless(c)
      BY <2>1 DEF Promise, Harmless
  <2>5. /\ keep'[c] = keep[c] \cap View(served)
        /\ clean'[c] <=> clean[c]
      BY <1>1, <2>1, Remembered
  <2>6. StepInv(c)'
      BY <1>1, <1>7, <2>1 DEF StepInv
  <2>7. KeepInv(c)'
    <3>1. Rest(c, keep'[c]) \subseteq View(served)
        BY <2>5, RestIs
    <3>2. Rest(c, keep[c])' = Rest(c, keep'[c])
        BY <2>1 DEF Rest
    <3> QED BY <1>1, <2>1, <3>1, <3>2 DEF KeepInv
  <2>8. CleanInv(c)'
    <3> SUFFICES ASSUME clean'[c] PROVE CleanInv(c)'
        BY DEF CleanInv
    <3>1. clean[c] /\ View(served) = keep[c]
        BY <1>1, <2>5 DEF CleanInv, Halfway
    <3>2. keep'[c] = keep[c] /\ ~Halfway(c)' /\ kind # "powerdns"
        BY <1>1, <2>1, <2>5, <3>1, KindsAre DEF Halfway
    <3>3. Before(served, page[c])' = Before(served, n + 1)
        BY <1>1, <2>2 DEF Before
    <3> QED BY <1>1, <1>8, <2>1, <3>1, <3>2, <3>3 DEF CleanInv
  <2> QED BY <1>1, <2>3, <2>4, <2>6, <2>7, <2>8, ServerTable DEF Kept
<1> QED BY <1>9, <1>10

-----------------------------------------------------------------------------
(* Writes *)

\* The record a call asks for, as a view shows it.
Asked(c, id) == [id |-> id, key |-> call[c].key, val |-> call[c].val]

LEMMA RestGrows ==
    ASSUME NEW c, NEW recs, NEW more, recs \subseteq more
    PROVE  Rest(c, recs) \subseteq Rest(c, more)
BY DEF Rest

LEMMA ViewGrows ==
    ASSUME NEW recs, NEW more, recs \subseteq more
    PROVE  View(recs) \subseteq View(more)
BY ViewIs

LEMMA ViewPlus ==
    ASSUME NEW recs, NEW r, ~r.off
    PROVE  View(recs \cup {r}) = View(recs) \cup {Shown(r)}
BY ViewIs

\* Taking the record away from the server is taking it away from the view.
LEMMA OthersView ==
    ASSUME NEW c, call[c].op \in {"update", "delete"}
    PROVE  View(Others(c)) = Rest(c, View(served))
<1>1. \A r : r \in Others(c) <=> r \in served /\ r.id # call[c].id
    BY DEF Others, Named
<1>0. \A x \in View(served) : x \in Rest(c, View(served)) <=> x.id # call[c].id
    BY RestIs
<1>2. ASSUME NEW x \in View(Others(c))
      PROVE  x \in Rest(c, View(served))
  <2>1. PICK r \in Others(c) : ~r.off /\ x = Shown(r)
      BY ViewIs
  <2>2. x \in View(served) /\ x.id # call[c].id
      BY <1>1, <2>1, ViewIs, ShownIs
  <2> QED BY <1>0, <2>2
<1>3. ASSUME NEW x \in Rest(c, View(served))
      PROVE  x \in View(Others(c))
  <2>1. x \in View(served) /\ x.id # call[c].id
      BY <1>0, RestIs
  <2>2. PICK r \in served : ~r.off /\ x = Shown(r)
      BY <2>1, ViewIs
  <2>3. r \in Others(c)
      BY <1>1, <2>1, <2>2, ShownIs
  <2> QED BY <2>2, <2>3, ViewIs
<1> QED BY <1>2, <1>3

LEMMA TableShrinks ==
    ASSUME NEW recs, NEW n, Table(recs, n), NEW less, less \subseteq recs
    PROVE  Table(less, n)
BY DEF Table

\* Two records of a server without ids that have one key and one value.
LEMMA SameRecord ==
    ASSUME NEW r \in ServerRecord, NEW s \in ServerRecord, r.id = s.id, r.key = s.key,
           r.val = s.val, r.ttl = s.ttl, r.off = s.off
    PROVE  r = s
BY DEF ServerRecord

LEMMA TypedRecord ==
    ASSUME NEW id \in ServerIds, NEW k \in Names, NEW v \in Vals, NEW t \in Ttls
    PROVE  [id |-> id, key |-> k, val |-> v, ttl |-> t, off |-> FALSE] \in ServerRecord
BY DEF ServerRecord

\* A call that has written, and whose answer may be lost.
LEMMA WriteKept ==
    ASSUME ApiIInv, Remember, NEW c \in Clients, NEW a \in {"ok", "failed"},
           pc[c] # "idle", call[c].op # "list", Return(c, a), kind' = kind,
           Table(served', nextId'), Told(c), heard'[c] = heard[c],
           \A r \in listed'[c] : ~r.off,
           heard[c] => Rest(c, keep[c]) \subseteq View(served'),
           clean[c] /\ heard[c] =>
              \/ Done(c, keep[c], View(served'))
              \/ a = "failed" /\ View(served') \in {keep[c], Rest(c, keep[c])}
    PROVE  Kept(c)
<1>1. /\ Own(c) /\ pc'[c] = "idle" /\ answer'[c] = a
      /\ StepInv(c)' /\ KeepInv(c)' /\ CleanInv(c)'
    BY ReturnOwn
<1>2. Harmless(c)
    BY DEF Harmless
<1>3. Promise(c)
    BY <1>1 DEF Promise
<1> QED BY <1>1, <1>2, <1>3 DEF Kept

LEMMA NewIs ==
    ASSUME ApiIInv, NEW c \in Clients, pc[c] # "idle", call[c].op # "list",
           NEW id \in ServerIds
    PROVE  /\ New(c, id) \in ServerRecord /\ New(c, id).id = id /\ ~New(c, id).off
           /\ Shown(New(c, id)) = Asked(c, id)
<1>1. call[c].key \in Names /\ call[c].val \in Vals /\ call[c].ttl \in Ttls
    BY CallIs
<1>2. New(c, id) \in ServerRecord
    BY <1>1, TypedRecord DEF New
<1>3. /\ New(c, id).id = id /\ ~New(c, id).off
      /\ New(c, id).key = call[c].key /\ New(c, id).val = call[c].val
    BY DEF New
<1>4. Shown(New(c, id)) = Asked(c, id)
    BY <1>3 DEF Shown, Asked
<1> QED BY <1>2, <1>3, <1>4

LEMMA CreateByIdKept ==
    ASSUME ApiIInv, Remember, NEW c \in Clients, ById, pc[c] = "request", CreateById(c),
           UNCHANGED <<kind, listed, heard>>
    PROVE  Kept(c)
<1>0. /\ call[c].op = "create" /\ nextId <= MaxServerId /\ nextId' = nextId + 1
      /\ served' = served \cup {New(c, nextId)}
      /\ StepInv(c) /\ KeepInv(c) /\ CleanInv(c) /\ kind \in AllKinds
    BY DEF CreateById, Reply, ApiIInv, ServerInv
<1>1. PICK a \in {"ok", "failed"} : Return(c, a)
    BY DEF CreateById, Reply
<1>2. Table(served, nextId) /\ nextId \in 1..(MaxServerId + 1) /\ ServerIds = 1..MaxServerId
    BY <1>0, ServerTable, KindsAre DEF Table
<1>3. nextId \in ServerIds /\ nextId' \in 1..(MaxServerId + 1)
    BY <1>0, <1>2, NumbersAre
<1> DEFINE new == New(c, nextId)
<1>4. /\ new \in ServerRecord /\ new.id = nextId /\ ~new.off
      /\ Shown(new) = Asked(c, nextId)
    BY <1>0, <1>3, NewIs
<1> HIDE DEF new
<1>5. Table(served', nextId')
  <2>1. \A r \in served : r \in ServerRecord /\ r.id \in 1..MaxServerId /\ r.id < nextId
      BY <1>2, RecordIs DEF Table
  <2>2. \A r \in served' : r.id < nextId'
      BY <1>0, <1>2, <1>4, <2>1, NumbersAre DEF new
  <2>3. \A r, s \in served' : r.id = s.id => r = s
      BY <1>0, <1>2, <1>4, <2>1 DEF Table, new
  <2>4. kind # "adguardhome"
      BY <1>0, KindsAre
  <2> QED BY <1>0, <1>2, <1>3, <1>4, <2>2, <2>3, <2>4 DEF Table, new
<1>6. View(served') = View(served) \cup {Asked(c, nextId)}
    BY <1>0, <1>4, ViewPlus DEF new
<1>7. Rest(c, keep[c]) \subseteq View(served')
    BY <1>0, <1>6 DEF KeepInv
<1>8. clean[c] => Done(c, keep[c], View(served'))
  <2>1. clean[c] => View(served) = keep[c]
      BY <1>0 DEF CleanInv, Halfway
  <2>2. Rest(c, keep[c]) = keep[c]
      BY <1>0, RestIs
  <2> QED BY <1>0, <1>3, <1>6, <2>1, <2>2 DEF Done, Asked
<1>9. Told(c) /\ \A r \in listed'[c] : ~r.off
    BY <1>0, ToldNothing DEF StepInv
<1> QED BY <1>0, <1>1, <1>5, <1>7, <1>8, <1>9, WriteKept

LEMMA ChangeByIdKept ==
    ASSUME ApiIInv, Remember, NEW c \in Clients, ById, pc[c] = "request", ChangeById(c),
           UNCHANGED <<kind, listed, heard>>
    PROVE  Kept(c)
<1> DEFINE id   == call[c].id
           more == IF call[c].op = "update" THEN {New(c, id)} ELSE {}
<1>0. /\ call[c].op \in {"update", "delete"} /\ nextId' = nextId
      /\ served' = Others(c) \cup more
      /\ StepInv(c) /\ KeepInv(c) /\ CleanInv(c) /\ kind \in AllKinds
    BY DEF ChangeById, Reply, ApiIInv, ServerInv, Others
<1>1. PICK a \in {"ok", "failed"} : Return(c, a)
    BY DEF ChangeById, Reply
<1>2. PICK old \in served : old.id = id
    BY DEF ChangeById, Named
<1>3. Table(served, nextId) /\ id \in ServerIds /\ id < nextId
    BY <1>0, <1>2, ServerTable, CallIs DEF Table
<1>4. /\ New(c, id) \in ServerRecord /\ New(c, id).id = id /\ ~New(c, id).off
      /\ Shown(New(c, id)) = Asked(c, id)
    BY <1>0, <1>3, NewIs
<1>5. \A r : r \in Others(c) <=> r \in served /\ r.id # id
    BY DEF Others, Named
<1>6. \A r \in more : r = New(c, id)
    OBVIOUS
<1> HIDE DEF id
<1>7. Table(served', nextId')
  <2>1. \A r \in served' : r \in Others(c) \/ r = New(c, id)
      BY <1>0, <1>6
  <2> HIDE DEF more
  <2>2. \A r, s \in served' : r.id = s.id => r = s
      BY <1>3, <1>4, <1>5, <2>1 DEF Table
  <2>3. kind # "adguardhome"
      BY <1>0, KindsAre
  <2>4. \A r \in served' : /\ r \in ServerRecord /\ r.id < nextId
                           /\ r.off => kind = "powerdns"
      BY <1>3, <1>4, <1>5, <2>1 DEF Table
  <2> QED BY <1>0, <1>3, <2>2, <2>3, <2>4 DEF Table
<1>8. View(served') = Rest(c, View(served)) \cup {Asked(c, x) : x \in IF call[c].op = "update" THEN {id} ELSE {}}
  <2>1. View(Others(c)) = Rest(c, View(served))
      BY <1>0, OthersView
  <2>2. CASE call[c].op = "update"
      BY <1>0, <1>4, <2>1, <2>2, ViewPlus
  <2>3. CASE call[c].op # "update"
      BY <1>0, <2>1, <2>3
  <2> QED BY <2>2, <2>3
<1> HIDE DEF more
<1>9. Rest(c, keep[c]) \subseteq View(served')
  <2>1. Rest(c, Rest(c, keep[c])) \subseteq Rest(c, View(served))
      BY <1>0, RestGrows DEF KeepInv
  <2> QED BY <1>8, <2>1, RestAgain
<1>10. clean[c] => Done(c, keep[c], View(served'))
  <2> SUFFICES ASSUME clean[c] PROVE Done(c, keep[c], View(served'))
      OBVIOUS
  <2>1. kind # "adguardhome"
      BY <1>0, KindsAre
  <2>2. View(served) = keep[c]
      BY <1>0, <2>1 DEF CleanInv, Halfway
  <2>3. CASE call[c].op = "update"
      BY <1>3, <1>8, <2>2, <2>3 DEF Done, Asked
  <2>4. CASE call[c].op # "update"
      BY <1>0, <1>8, <2>2, <2>4 DEF Done
  <2> QED BY <2>3, <2>4
<1>11. Told(c) /\ \A r \in listed'[c] : ~r.off
    BY <1>0, ToldNothing DEF StepInv
<1> QED BY <1>0, <1>1, <1>7, <1>9, <1>10, <1>11, WriteKept

LEMMA RequestByIdKept ==
    ASSUME ApiIInv, Remember, NEW c \in Clients, ById, RequestById(c)
    PROVE  Kept(c)
<1>1. pc[c] = "request" /\ UNCHANGED <<kind, listed, heard>>
    BY DEF RequestById
<1>2. CASE NotFound(c)
  <2>1. Return(c, "failed") /\ served' = served /\ nextId' = nextId
      BY <1>2 DEF NotFound
  <2>2. Told(c) /\ \A r \in listed'[c] : ~r.off
      BY <1>1, ToldNothing DEF StepInv, ApiIInv
  <2> QED BY <1>1, <2>1, <2>2, FailKept
<1> QED BY <1>1, <1>2, CreateByIdKept, ChangeByIdKept DEF RequestById

-----------------------------------------------------------------------------
(* AdGuard Home *)

LEMMA AghRemoveKept ==
    ASSUME ApiIInv, Remember, NEW c \in Clients, AghRemove(c)
    PROVE  Kept(c)
<1>0. /\ pc[c] = "remove" /\ served' = Others(c) /\ UNCHANGED <<kind, nextId, listed, heard>>
      /\ StepInv(c) /\ KeepInv(c) /\ CleanInv(c)
    BY DEF AghRemove, ApiIInv
<1>1. kind = "adguardhome" /\ call[c].op = "update"
    BY <1>0 DEF StepInv
<1>2. Table(served', nextId')
  <2>1. Others(c) \subseteq served
      BY DEF Others
  <2> QED BY <1>0, <2>1, ServerTable, TableShrinks
<1>3. View(served') = Rest(c, View(served))
    BY <1>0, <1>1, OthersView
<1>4. Rest(c, keep[c]) \subseteq View(served')
  <2>1. Rest(c, Rest(c, keep[c])) \subseteq Rest(c, View(served))
      BY <1>0, RestGrows DEF KeepInv
  <2> QED BY <1>3, <2>1, RestAgain
<1>5. clean[c] => View(served') = Rest(c, keep[c])
    BY <1>0, <1>3 DEF CleanInv, Halfway
<1>6. Told(c) /\ \A r \in listed'[c] : ~r.off
    BY <1>0, ToldNothing DEF StepInv
<1>7. CASE Return(c, "failed")
    BY <1>0, <1>1, <1>2, <1>4, <1>5, <1>6, <1>7, WriteKept
<1>8. CASE Goto(c, "request")
  <2>1. "request" \in Steps
      BY DEF Steps
  <2>2. /\ Own(c) /\ pc'[c] = "request" /\ call'[c] = call[c] /\ page'[c] = page[c]
        /\ keep'[c] = keep[c] /\ clean'[c] = clean[c] /\ Promise(c)
      BY <1>0, <1>6, <1>8, <2>1, GotoOwn
  <2>3. Rest(c, keep[c])' = Rest(c, keep[c])
      BY <2>2 DEF Rest
  <2>4. StepInv(c)'
      BY <1>0, <1>1, <2>2 DEF StepInv
  <2>5. KeepInv(c)'
      BY <1>0, <1>1, <1>4, <2>2, <2>3 DEF KeepInv
  <2>6. CleanInv(c)'
    <3>1. Halfway(c)'
        BY <1>0, <1>1, <2>2 DEF Halfway
    <3> QED BY <1>0, <1>1, <1>5, <2>2, <2>3, <3>1 DEF CleanInv
  <2>7. Harmless(c)
      BY <1>4 DEF Harmless
  <2> QED BY <1>2, <2>2, <2>4, <2>5, <2>6, <2>7 DEF Kept
<1> QED BY <1>7, <1>8 DEF AghRemove

\* A record of a server that knows it by its key and value.
Line(k, v, t) == [id |-> <<k, v>>, key |-> k, val |-> v, ttl |-> t, off |-> FALSE]

LEMMA LineIs ==
    ASSUME ~ById, kind \in AllKinds, NEW k \in Names, NEW v \in Vals, NEW t \in Ttls
    PROVE  /\ Line(k, v, t) \in ServerRecord /\ Line(k, v, t).id = <<k, v>>
           /\ Line(k, v, t).key = k /\ Line(k, v, t).val = v /\ Line(k, v, t).ttl = t
           /\ Line(k, v, t).off = FALSE
           /\ <<k, v>> \in ServerIds
<1>1. <<k, v>> \in ServerIds
    BY KindsAre
<1>2. Line(k, v, t) \in ServerRecord
    BY <1>1, TypedRecord DEF Line
<1> QED BY <1>1, <1>2 DEF Line

LEMMA LinesAre ==
    ASSUME ~ById, kind \in AllKinds, NEW k \in Names, NEW t \in Ttls
    PROVE  \A v \in Vals :
              /\ Line(k, v, t) \in ServerRecord /\ Line(k, v, t).id = <<k, v>>
              /\ Line(k, v, t).key = k /\ Line(k, v, t).val = v
              /\ Line(k, v, t).off = FALSE /\ <<k, v>> \in ServerIds
<1> SUFFICES ASSUME NEW v \in Vals
             PROVE  /\ Line(k, v, t) \in ServerRecord /\ Line(k, v, t).id = <<k, v>>
                    /\ Line(k, v, t).key = k /\ Line(k, v, t).val = v
                    /\ Line(k, v, t).off = FALSE /\ <<k, v>> \in ServerIds
    OBVIOUS
<1>1. /\ Line(k, v, t).id = <<k, v>> /\ Line(k, v, t).key = k /\ Line(k, v, t).val = v
      /\ Line(k, v, t).off = FALSE
    BY DEF Line
<1>2. Line(k, v, t) \in ServerRecord /\ <<k, v>> \in ServerIds
    BY LineIs
<1> QED BY <1>1, <1>2

\* A view of such a server names its records by their keys and values.
LEMMA NamedByContent ==
    ASSUME ApiIInv, ~ById, NEW x \in View(served)
    PROVE  x.id = <<x.key, x.val>>
<1>1. PICK r \in served : ~r.off /\ x = Shown(r)
    BY ViewIs
<1>2. r.id = <<r.key, r.val>>
    BY ServerTable DEF Table
<1> QED BY <1>1, <1>2, ShownIs

LEMMA AghCreateKept ==
    ASSUME ApiIInv, Remember, NEW c \in Clients, AghCreate(c)
    PROVE  Kept(c)
<1>a. PICK k \in Names, v \in Vals : k = call[c].key /\ v = call[c].val
    BY CallIs DEF AghCreate, StepInv, ApiIInv
<1> DEFINE new == Line(k, v, 0)
<1>0. /\ kind = "adguardhome" /\ pc[c] = "request" /\ call[c].op # "delete"
      /\ served' = served \cup {new} /\ UNCHANGED <<kind, nextId, listed, heard>>
      /\ StepInv(c) /\ KeepInv(c) /\ CleanInv(c) /\ kind \in AllKinds
    BY <1>a DEF AghCreate, Reply, ApiIInv, ServerInv, Line
<1>1. PICK a \in {"ok", "failed"} : Return(c, a)
    BY DEF AghCreate, Reply
<1>2. /\ ~ById /\ call[c].op \in {"create", "update"} /\ 0 \in Ttls
    BY <1>0, KindsAre, CallIs, NumbersAre DEF StepInv
<1>3. /\ new \in ServerRecord /\ new.id = <<k, v>> /\ new.key = k /\ new.val = v
      /\ new.ttl = 0 /\ new.off = FALSE /\ <<k, v>> \in ServerIds
  <2>1. ~ById /\ kind \in AllKinds /\ 0 \in Ttls
      BY <1>0, <1>2
  <2>2. /\ Line(k, v, 0) \in ServerRecord /\ Line(k, v, 0).id = <<k, v>>
        /\ Line(k, v, 0).key = k /\ Line(k, v, 0).val = v /\ Line(k, v, 0).ttl = 0
        /\ Line(k, v, 0).off = FALSE /\ <<k, v>> \in ServerIds
      BY <2>1, LineIs
  <2> QED BY <2>2
<1>4. Shown(new) = Asked(c, <<k, v>>)
    BY <1>a, <1>3 DEF Shown, Asked
<1> HIDE DEF new
<1>5. Table(served, nextId)
    BY ServerTable
<1>6. Table(served', nextId')
  <2>1. ASSUME NEW r \in served, r.id = new.id PROVE r = new
    <3>1. /\ r \in ServerRecord /\ r.id = <<r.key, r.val>> /\ r.ttl = 0 /\ r.off = FALSE
        BY <1>0, <1>2, <1>5, RecordIs DEF Table
    <3>2. r.key = new.key /\ r.val = new.val
        BY <1>3, <2>1, <3>1
    <3> QED BY <1>3, <2>1, <3>1, <3>2, SameRecord
  <2>2. \A r, s \in served' : r.id = s.id => r = s
      BY <1>0, <1>5, <2>1 DEF Table
  <2>3. \A r \in served' : /\ r \in ServerRecord /\ r.id = <<r.key, r.val>> /\ r.ttl = 0
                           /\ r.off => kind = "powerdns"
      BY <1>0, <1>2, <1>3, <1>5 DEF Table
  <2> QED BY <1>0, <1>2, <1>5, <2>2, <2>3 DEF Table
<1>7. View(served') = View(served) \cup {Asked(c, <<k, v>>)}
    BY <1>0, <1>3, <1>4, ViewPlus
<1>8. Rest(c, keep[c]) \subseteq View(served')
    BY <1>0, <1>7 DEF KeepInv
<1>9. clean[c] => Done(c, keep[c], View(served'))
  <2>1. clean[c] => View(served) = Rest(c, keep[c])
      BY <1>0, <1>2, RestIs DEF CleanInv, Halfway
  <2> QED BY <1>a, <1>2, <1>3, <1>7, <2>1 DEF Done, Asked
<1>10. Told(c) /\ \A r \in listed'[c] : ~r.off
    BY <1>0, ToldNothing DEF StepInv
<1> QED BY <1>0, <1>1, <1>2, <1>6, <1>8, <1>9, <1>10, WriteKept

LEMMA AghDeleteKept ==
    ASSUME ApiIInv, Remember, NEW c \in Clients, AghDelete(c)
    PROVE  Kept(c)
<1>0. /\ kind = "adguardhome" /\ pc[c] = "request" /\ call[c].op = "delete"
      /\ served' = Others(c) /\ UNCHANGED <<kind, nextId, listed, heard>>
      /\ StepInv(c) /\ KeepInv(c) /\ CleanInv(c)
    BY DEF AghDelete, Reply, ApiIInv
<1>1. PICK a \in {"ok", "failed"} : Return(c, a)
    BY DEF AghDelete, Reply
<1>2. Table(served', nextId')
  <2>1. Others(c) \subseteq served
      BY DEF Others
  <2> QED BY <1>0, <2>1, ServerTable, TableShrinks
<1>3. View(served') = Rest(c, View(served))
    BY <1>0, OthersView
<1>4. Rest(c, keep[c]) \subseteq View(served')
  <2>1. Rest(c, Rest(c, keep[c])) \subseteq Rest(c, View(served))
      BY <1>0, RestGrows DEF KeepInv
  <2> QED BY <1>3, <2>1, RestAgain
<1>5. clean[c] => Done(c, keep[c], View(served'))
    BY <1>0, <1>3 DEF CleanInv, Halfway, Done
<1>6. Told(c) /\ \A r \in listed'[c] : ~r.off
    BY <1>0, ToldNothing DEF StepInv
<1> QED BY <1>0, <1>1, <1>2, <1>4, <1>5, <1>6, WriteKept

-----------------------------------------------------------------------------
(* PowerDNS *)

\* Replacing the records of a key, where nothing of the rest is forgotten and nothing but
\* what was asked for added.
LEMMA PatchKept ==
    ASSUME ApiIInv, Remember, NEW c \in Clients, NEW op \in {"create", "update", "delete"},
           NEW vals \in SUBSET Vals, NEW t \in Ttls, Patch(c, op, vals, t),
           heard[c] => \A x \in Rest(c, keep[c]) : x.key = call[c].key => x.val \in vals,
           clean[c] /\ heard[c] =>
              /\ op # "delete" => call[c].val \in vals
              /\ \A v \in vals : \/ op # "delete" /\ v = call[c].val
                                 \/ Shown(Line(call[c].key, v, t)) \in Rest(c, keep[c])
    PROVE  Kept(c)
<1>a. PICK k \in Names : k = call[c].key
    BY CallIs DEF Patch
<1> DEFINE new(v) == Line(k, v, t)
           line(v) == Shown(new(v))
<1>0. /\ kind = "powerdns" /\ pc[c] = "request" /\ call[c].op = op
      /\ served' = {r \in served : r.key # k} \cup {new(v) : v \in vals}
      /\ listed' = [listed EXCEPT ![c] = {}] /\ UNCHANGED <<kind, nextId, heard>>
      /\ StepInv(c) /\ KeepInv(c) /\ CleanInv(c) /\ kind \in AllKinds
    BY <1>a DEF Patch, Reply, ApiIInv, ServerInv, Line
<1>1. PICK a \in {"ok", "failed"} : Return(c, a)
    BY DEF Patch, Reply
<1>2. ~ById /\ (op # "delete" => call[c].val \in Vals)
    BY <1>0, KindsAre, CallIs
<1>3. \A v \in Vals : /\ new(v) \in ServerRecord /\ new(v).id = <<k, v>> /\ new(v).key = k
                      /\ new(v).val = v /\ new(v).off = FALSE /\ <<k, v>> \in ServerIds
  <2>1. ~ById /\ kind \in AllKinds
      BY <1>0, <1>2
  <2>2. \A v \in Vals :
           /\ Line(k, v, t) \in ServerRecord /\ Line(k, v, t).id = <<k, v>>
           /\ Line(k, v, t).key = k /\ Line(k, v, t).val = v
           /\ Line(k, v, t).off = FALSE /\ <<k, v>> \in ServerIds
      BY <2>1, LinesAre
  <2> QED BY <2>2
<1>4. \A v : line(v) = Shown(new(v))
    OBVIOUS
<1>5. \A v \in Vals : line(v).id = <<k, v>> /\ line(v).key = k /\ line(v).val = v
  <2> HIDE DEF new, line
  <2>1. \A v : line(v).id = new(v).id /\ line(v).key = new(v).key /\ line(v).val = new(v).val
      BY <1>4, ShownIs
  <2> QED BY <1>3, <2>1
<1>6. \A v \in Vals : line(v) = [id |-> <<k, v>>, key |-> k, val |-> v]
    BY <1>3 DEF Shown
<1>7. Table(served, nextId)
    BY ServerTable
<1>8. \A r : r \in served' <=> (r \in served /\ r.key # k) \/ \E v \in vals : r = new(v)
    BY <1>0
<1>9. Table(served', nextId')
  <2> HIDE DEF new, line
  <2>1. \A r \in served' : /\ r \in ServerRecord /\ r.id = <<r.key, r.val>>
                           /\ r.off => kind = "powerdns"
    <3> SUFFICES ASSUME NEW r \in served'
                 PROVE  /\ r \in ServerRecord /\ r.id = <<r.key, r.val>>
                        /\ r.off => kind = "powerdns"
        OBVIOUS
    <3>1. CASE r \in served
        BY <1>2, <1>7, <3>1 DEF Table
    <3>2. CASE \E v \in vals : r = new(v)
      <4>1. PICK v \in Vals : r = new(v)
          BY <3>2
      <4> QED BY <1>3, <4>1
    <3> QED BY <1>8, <3>1, <3>2
  <2>2. ASSUME NEW r \in served', NEW s \in served', r.id = s.id PROVE r = s
    <3>1. r.key = s.key /\ r.val = s.val
        BY <2>1, <2>2
    <3>2. CASE r \in served /\ s \in served
        BY <1>7, <2>2, <3>2 DEF Table
    <3>3. CASE r.key = k
      <4>1. PICK v \in vals : r = new(v)
          BY <1>8, <3>3
      <4>2. PICK w \in vals : s = new(w)
          BY <1>8, <3>1, <3>3
      <4>3. v = w
        <5>1. v \in Vals /\ w \in Vals
            OBVIOUS
        <5>2. r.val = v /\ s.val = w
            BY <1>3, <4>1, <4>2, <5>1
        <5> QED BY <3>1, <5>2
      <4> QED BY <4>1, <4>2, <4>3
    <3>4. CASE r.key # k
      <4>1. \A v \in vals : new(v).key = k
          BY <1>3
      <4> QED BY <1>8, <3>1, <3>2, <3>4, <4>1
    <3> QED BY <3>3, <3>4
  <2> QED BY <1>0, <1>2, <1>7, <2>1, <2>2 DEF Table
<1>10. \A x : x \in View(served') <=> (x \in View(served) /\ x.key # k) \/ \E v \in vals : x = line(v)
  <2> HIDE DEF new, line
  <2>1. ASSUME NEW x \in View(served')
        PROVE  (x \in View(served) /\ x.key # k) \/ \E v \in vals : x = line(v)
    <3>1. PICK r \in served' : ~r.off /\ x = Shown(r)
        BY ViewIs
    <3>2. CASE r \in served /\ r.key # k
        BY <3>1, <3>2, ViewIs, ShownIs
    <3>3. CASE \E v \in vals : r = new(v)
        BY <1>4, <3>1, <3>3
    <3> QED BY <1>8, <3>2, <3>3
  <2>2. ASSUME NEW x \in View(served), x.key # k
        PROVE  x \in View(served')
    <3>1. PICK r \in served : ~r.off /\ x = Shown(r)
        BY ViewIs
    <3>2. r \in served'
        BY <1>8, <2>2, <3>1, ShownIs
    <3> QED BY <3>1, <3>2, ViewIs
  <2>3. ASSUME NEW v \in vals PROVE line(v) \in View(served')
    <3>1. new(v) \in served' /\ ~new(v).off
        BY <1>3, <1>8
    <3> QED BY <1>4, <3>1, ViewIs
  <2> QED BY <2>1, <2>2, <2>3
<1>11. \A x \in View(served) : x.id = <<x.key, x.val>>
    BY <1>2, NamedByContent
<1>12. /\ Rest(c, keep[c]) \subseteq View(served)
       /\ \A x \in Rest(c, keep[c]) : x = [id |-> x.id, key |-> x.key, val |-> x.val] /\ x.val \in Vals
  <2>1. Rest(c, keep[c]) \subseteq View(served)
      BY <1>0 DEF KeepInv
  <2>2. View(served) \subseteq [id : ServerIds, key : Names, val : Vals]
      BY ServerTable, ViewType
  <2>3. \A x \in [id : ServerIds, key : Names, val : Vals] :
           x = [id |-> x.id, key |-> x.key, val |-> x.val] /\ x.val \in Vals
      OBVIOUS
  <2> QED BY <2>1, <2>2, <2>3
<1>13. \A x \in Rest(c, keep[c]) : x.key = k => x = line(x.val)
  <2> SUFFICES ASSUME NEW x \in Rest(c, keep[c]), x.key = k PROVE x = line(x.val)
      OBVIOUS
  <2>1. x.id = <<k, x.val>> /\ x.val \in Vals /\ x = [id |-> x.id, key |-> x.key, val |-> x.val]
      BY <1>11, <1>12
  <2>2. line(x.val) = [id |-> <<k, x.val>>, key |-> k, val |-> x.val]
      BY <1>6, <2>1
  <2> HIDE DEF line
  <2> QED BY <2>1, <2>2
<1> HIDE DEF new
<1>14. heard[c] => Rest(c, keep[c]) \subseteq View(served')
  <2> SUFFICES ASSUME heard[c], NEW x \in Rest(c, keep[c]) PROVE x \in View(served')
      OBVIOUS
  <2> HIDE DEF line
  <2>1. x \in View(served)
      BY <1>12
  <2>2. CASE x.key = k
    <3>1. x.val \in vals /\ x = line(x.val)
        BY <1>a, <1>13, <2>2
    <3> QED BY <1>10, <3>1
  <2> QED BY <1>10, <2>1, <2>2
<1>15. clean[c] /\ heard[c] => Done(c, keep[c], View(served'))
  <2> SUFFICES ASSUME clean[c], heard[c] PROVE Done(c, keep[c], View(served'))
      OBVIOUS
  <2>1. /\ op # "delete" => call[c].val \in vals
        /\ \A v \in vals : (op # "delete" /\ v = call[c].val) \/ line(v) \in Rest(c, keep[c])
      BY <1>a DEF new
  <2>2. View(served) = keep[c]
      BY <1>0 DEF CleanInv, Halfway
  <2>3. ASSUME NEW x \in keep[c], x.key # k PROVE x \in Rest(c, keep[c])
    <3>1. CASE op \in {"update", "delete"}
      <4>1. PICK q \in keep[c] : q.id = call[c].id /\ q.key = k
          BY <1>0, <1>a, <3>1 DEF CleanInv
      <4>2. q.id = <<q.key, q.val>> /\ x.id = <<x.key, x.val>>
          BY <1>11, <2>2
      <4>3. x.id # call[c].id
        <5>1. <<x.key, x.val>> # <<q.key, q.val>>
            BY <2>3, <4>1
        <5> QED BY <4>1, <4>2, <5>1
      <4> QED BY <4>3, RestIs
    <3>2. CASE op \notin {"update", "delete"}
        BY <1>0, <3>2, RestIs
    <3> QED BY <3>1, <3>2
  <2> HIDE DEF line
  <2>4. CASE op = "delete"
    <3>1. View(served') \subseteq Rest(c, keep[c])
      <4> SUFFICES ASSUME NEW x \in View(served') PROVE x \in Rest(c, keep[c])
          OBVIOUS
      <4> QED BY <1>10, <2>1, <2>2, <2>3, <2>4
    <3>2. View(served') = Rest(c, keep[c])
        BY <1>14, <3>1
    <3> QED BY <1>0, <2>4, <3>2 DEF Done
  <2>5. CASE op # "delete"
    <3>1. View(served') = Rest(c, keep[c]) \cup {line(call[c].val)}
      <4>1. ASSUME NEW x \in View(served')
            PROVE  x \in Rest(c, keep[c]) \cup {line(call[c].val)}
          BY <1>10, <2>1, <2>2, <2>3, <2>5, <4>1
      <4>2. line(call[c].val) \in View(served')
          BY <1>10, <2>1, <2>5
      <4> QED BY <1>14, <4>1, <4>2
    <3>2. /\ <<k, call[c].val>> \in ServerIds
          /\ line(call[c].val) = [id |-> <<k, call[c].val>>, key |-> k, val |-> call[c].val]
        BY <1>2, <1>3, <1>6, <2>5
    <3>3. call[c].op \in {"create", "update"}
        BY <1>0, <2>5
    <3> QED BY <1>a, <3>1, <3>2, <3>3 DEF Done
  <2> QED BY <2>4, <2>5
<1>16. Told(c) /\ listed'[c] = {}
    BY <1>0, ToldList
<1> QED BY <1>0, <1>1, <1>9, <1>14, <1>15, <1>16, WriteKept

\* What a call to PowerDNS knows of the key it replaces, by its listing.
LEMMA SiblingsAre ==
    ASSUME ApiIInv, NEW c \in Clients, kind = "powerdns", pc[c] = "request"
    PROVE  /\ \A r \in Siblings(c) : r.key = call[c].key /\ r.val \in Vals /\ r \in listed[c]
           /\ heard[c] => \A x \in keep[c] : x.key = call[c].key =>
                \E r \in Siblings(c) : r.id = x.id /\ r.val = x.val
           /\ clean[c] /\ heard[c] => \A t : \A r \in Siblings(c) :
                Shown(r) \in keep[c] /\ Shown(r) = Shown(Line(call[c].key, r.val, t))
           /\ clean[c] /\ heard[c] /\ call[c].op = "update" =>
                \E r \in Siblings(c) : Named(c, r)
<1>0. StepInv(c) /\ KeepInv(c) /\ CleanInv(c) /\ kind \in AllKinds
    BY DEF ApiIInv, ServerInv
<1>1. listed[c] \subseteq ServerRecord /\ \A r \in listed[c] : ~r.off
    BY <1>0, TypesAre DEF StepInv
<1>2. \A r \in Siblings(c) : r.key = call[c].key /\ r.val \in Vals /\ r \in listed[c]
    BY <1>1, RecordIs DEF Siblings
<1>3. ASSUME heard[c], NEW x \in keep[c], x.key = call[c].key
      PROVE  \E r \in Siblings(c) : r.id = x.id /\ r.val = x.val
  <2>1. x \in View(listed[c])
      BY <1>0, <1>3 DEF KeepInv
  <2>2. PICK r \in listed[c] : ~r.off /\ x = Shown(r)
      BY <2>1, ViewIs
  <2> QED BY <1>3, <2>2, ShownIs DEF Siblings
<1>4. ASSUME clean[c], heard[c], NEW r \in Siblings(c), NEW t
      PROVE  Shown(r) \in keep[c] /\ Shown(r) = Shown(Line(call[c].key, r.val, t))
  <2>1. Shown(r) \in View(listed[c])
      BY <1>1, <1>2, ViewIs
  <2>2. View(listed[c]) = keep[c] /\ keep[c] = View(served)
      BY <1>0, <1>4 DEF CleanInv, Halfway
  <2>3. Shown(r).id = <<Shown(r).key, Shown(r).val>>
      BY <2>1, <2>2, NamedByContent, KindsAre, <1>0
  <2>4. r.id = <<call[c].key, r.val>> /\ r.key = call[c].key
      BY <1>2, <2>3, ShownIs
  <2>5. /\ Line(call[c].key, r.val, t).id = <<call[c].key, r.val>>
        /\ Line(call[c].key, r.val, t).key = call[c].key
        /\ Line(call[c].key, r.val, t).val = r.val
      BY DEF Line
  <2> QED BY <2>1, <2>2, <2>4, <2>5, ShownIs
<1>5. ASSUME clean[c], heard[c], call[c].op = "update"
      PROVE  \E r \in Siblings(c) : Named(c, r)
  <2>1. PICK q \in keep[c] : q.id = call[c].id /\ q.key = call[c].key
      BY <1>0, <1>5 DEF CleanInv
  <2> QED BY <1>3, <1>5, <2>1 DEF Named
<1> QED BY <1>2, <1>3, <1>4, <1>5

LEMMA PdnsWriteKept ==
    ASSUME ApiIInv, Remember, NEW c \in Clients,
           PdnsCreate(c) \/ PdnsUpdate(c) \/ PdnsDelete(c)
    PROVE  Kept(c)
<1>0. kind = "powerdns" /\ pc[c] = "request"
    BY DEF PdnsCreate, PdnsUpdate, PdnsDelete, Patch
<1>1. /\ \A r \in Siblings(c) : r.key = call[c].key /\ r.val \in Vals /\ r \in listed[c]
      /\ heard[c] => \A x \in keep[c] : x.key = call[c].key =>
           \E r \in Siblings(c) : r.id = x.id /\ r.val = x.val
      /\ clean[c] /\ heard[c] => \A t : \A r \in Siblings(c) :
           Shown(r) \in keep[c] /\ Shown(r) = Shown(Line(call[c].key, r.val, t))
      /\ clean[c] /\ heard[c] /\ call[c].op = "update" =>
           \E r \in Siblings(c) : Named(c, r)
    BY <1>0, SiblingsAre
<1>2. \A x \in Rest(c, keep[c]) : x \in keep[c]
    BY RestIs
<1>3. call[c].op # "list" => call[c].val \in Vals /\ call[c].ttl \in Ttls
    BY <1>0, CallIs
<1>4. CASE PdnsCreate(c)
  <2> DEFINE vals == {r.val : r \in Siblings(c)} \cup {call[c].val}
  <2>1. Patch(c, "create", vals, call[c].ttl) /\ call[c].op = "create"
      BY <1>4 DEF PdnsCreate, Patch
  <2>2. vals \in SUBSET Vals /\ call[c].ttl \in Ttls
      BY <1>1, <1>3, <2>1
  <2>3. Rest(c, keep[c]) = keep[c]
      BY <2>1, RestIs
  <2>4. heard[c] => \A x \in Rest(c, keep[c]) : x.key = call[c].key => x.val \in vals
      BY <1>1, <2>3
  <2>5. clean[c] /\ heard[c] =>
          /\ call[c].val \in vals
          /\ \A v \in vals : \/ v = call[c].val
                             \/ Shown(Line(call[c].key, v, call[c].ttl)) \in Rest(c, keep[c])
      BY <1>1, <2>3
  <2> HIDE DEF vals
  <2> QED BY <2>1, <2>2, <2>4, <2>5, PatchKept
<1>5. CASE PdnsUpdate(c)
  <2> DEFINE vals == {IF Named(c, r) THEN call[c].val ELSE r.val : r \in Siblings(c)}
  <2>1. Patch(c, "update", vals, call[c].ttl) /\ call[c].op = "update"
      BY <1>5 DEF PdnsUpdate, Patch
  <2>2. vals \in SUBSET Vals /\ call[c].ttl \in Ttls
    <3>1. call[c].val \in Vals /\ call[c].ttl \in Ttls
        BY <1>3, <2>1
    <3>2. \A r \in Siblings(c) : (IF Named(c, r) THEN call[c].val ELSE r.val) \in Vals
        BY <1>1, <3>1
    <3>3. \A v \in vals : v \in Vals
        BY <3>2
    <3> QED BY <3>1, <3>3
  <2>3. \A x \in keep[c] : x \in Rest(c, keep[c]) <=> x.id # call[c].id
      BY <2>1, RestIs
  <2>4. heard[c] => \A x \in Rest(c, keep[c]) : x.key = call[c].key => x.val \in vals
      BY <1>1, <1>2, <2>3 DEF Named
  <2>5. clean[c] /\ heard[c] =>
          /\ call[c].val \in vals
          /\ \A v \in vals : \/ v = call[c].val
                             \/ Shown(Line(call[c].key, v, call[c].ttl)) \in Rest(c, keep[c])
    <3> SUFFICES ASSUME clean[c], heard[c]
                 PROVE  /\ call[c].val \in vals
                        /\ \A v \in vals : \/ v = call[c].val
                             \/ Shown(Line(call[c].key, v, call[c].ttl)) \in Rest(c, keep[c])
        OBVIOUS
    <3>1. call[c].val \in vals
        BY <1>1, <2>1
    <3>2. \A r \in Siblings(c) : ~Named(c, r) =>
             Shown(Line(call[c].key, r.val, call[c].ttl)) \in Rest(c, keep[c])
        BY <1>1, <2>3, ShownIs DEF Named
    <3> QED BY <3>1, <3>2
  <2> HIDE DEF vals
  <2> QED BY <2>1, <2>2, <2>4, <2>5, PatchKept
<1>6. CASE PdnsDelete(c)
  <2> DEFINE vals == {r.val : r \in {s \in Siblings(c) : ~Named(c, s)}}
  <2>1. PICK first \in listed[c] : Patch(c, "delete", vals, first.ttl)
      BY <1>6 DEF PdnsDelete
  <2>2. call[c].op = "delete"
      BY <2>1 DEF Patch
  <2>3. vals \in SUBSET Vals /\ first.ttl \in Ttls
    <3>1. first \in ServerRecord
        BY TypesAre
    <3>2. first.ttl \in Ttls
        BY <3>1, RecordIs
    <3>3. \A v \in vals : v \in Vals
        BY <1>1
    <3> QED BY <3>2, <3>3
  <2>4. \A x \in keep[c] : x \in Rest(c, keep[c]) <=> x.id # call[c].id
      BY <2>2, RestIs
  <2>5. heard[c] => \A x \in Rest(c, keep[c]) : x.key = call[c].key => x.val \in vals
      BY <1>1, <1>2, <2>4 DEF Named
  <2>6. clean[c] /\ heard[c] => \A v \in vals :
          Shown(Line(call[c].key, v, first.ttl)) \in Rest(c, keep[c])
      BY <1>1, <2>4, ShownIs DEF Named
  <2> HIDE DEF vals
  <2> QED BY <2>1, <2>3, <2>5, <2>6, PatchKept
<1> QED BY <1>4, <1>5, <1>6

-----------------------------------------------------------------------------
(* Every step *)

\* What others do to the zone at the server.
LEMMA OutsideKeeps ==
    ASSUME ApiIInv, Remember, Outside
    PROVE  ApiIInv' /\ \A c \in Clients : Promise(c) /\ Harmless(c)
<1>0. /\ UNCHANGED <<kind, call, pc, listed, page, answer, heard>>
      /\ Table(served, nextId) /\ kind \in AllKinds
    BY ServerTable DEF Outside, mine
<1>1. Typed /\ \A d \in Clients : Unmoved(d)
    BY <1>0, TypesAre DEF Typed, Unmoved
<1>2. Table(served', nextId')
  <2>1. CASE \E r \in served : served' = served \ {r} /\ UNCHANGED nextId
    <3>1. served' \subseteq served /\ nextId' = nextId
        BY <2>1
    <3> QED BY <1>0, <3>1, TableShrinks
  <2>2. CASE ~\E r \in served : served' = served \ {r} /\ UNCHANGED nextId
    <3>1. ById => nextId <= MaxServerId
        BY <2>2 DEF Outside
    <3>2. PICK k \in Names, v \in Vals, t \in Ttls, off \in BOOLEAN :
                LET id == IF ById THEN nextId ELSE <<k, v>>
                IN  /\ off => kind = "powerdns"
                    /\ kind = "adguardhome" => t = 0
                    /\ \A r \in served : r.id # id /\ (kind = "powerdns" /\ r.key = k => r.ttl = t)
                    /\ served' = served \cup {[id |-> id, key |-> k, val |-> v, ttl |-> t, off |-> off]}
        BY <2>2 DEF Outside
    <3>3. nextId' = IF ById THEN nextId + 1 ELSE nextId
        BY <2>2 DEF Outside
    <3> DEFINE id  == IF ById THEN nextId ELSE <<k, v>>
               new == [id |-> id, key |-> k, val |-> v, ttl |-> t, off |-> off]
    <3>4. /\ off => kind = "powerdns" /\ (kind = "adguardhome" => t = 0)
          /\ \A r \in served : r.id # id
          /\ served' = served \cup {new}
        BY <3>2
    <3>5. id \in ServerIds /\ nextId' \in 1..(MaxServerId + 1)
        BY <1>0, <3>1, <3>3, KindsAre, NumbersAre DEF Table
    <3>6. new \in ServerRecord /\ new.id = id /\ new.key = k /\ new.val = v /\ new.ttl = t
          /\ new.off = off
        BY <3>5 DEF ServerRecord
    <3>7. ~ById => id = <<k, v>>
        OBVIOUS
    <3>8. ById => id = nextId /\ nextId' = nextId + 1 /\ nextId \in Nat
        BY <1>0, <3>3, NumbersAre DEF Table
    <3> HIDE DEF new, id
    <3>9. \A r, s \in served' : r.id = s.id => r = s
        BY <1>0, <3>4, <3>6 DEF Table
    <3>10. \A r \in served' : /\ r \in ServerRecord
                              /\ ~ById => r.id = <<r.key, r.val>>
                              /\ kind = "adguardhome" => r.ttl = 0
        BY <1>0, <3>2, <3>4, <3>6, <3>7 DEF Table
    <3>11. \A r \in served' : r.off => kind = "powerdns"
        BY <1>0, <3>2, <3>4, <3>6 DEF Table
    <3>12. ById => \A r \in served' : r.id < nextId'
      <4>1. ById => \A r \in served : r.id \in Nat /\ r.id < nextId
          BY <1>0, RecordIs, KindsAre, NumbersAre DEF Table
      <4> QED BY <3>4, <3>6, <3>8, <4>1
    <3> QED BY <1>0, <3>5, <3>9, <3>10, <3>11, <3>12 DEF Table
  <2> QED BY <2>1, <2>2
<1>3. \A d \in Clients : /\ StepInv(d)' /\ KeepInv(d)' /\ CleanInv(d)'
                         /\ Promise(d) /\ Harmless(d)
    BY <1>0, <1>1, OthersKeep
<1> QED BY <1>1, <1>2, <1>3, TypeKept

LEMMA WorkKept ==
    ASSUME ApiIInv, Remember, NEW c \in Clients, Work(c)
    PROVE  Kept(c)
<1>1. CASE CloudflareResolve(c) \/ RestResolve(c)
    BY <1>1, ResolveKept DEF CloudflareResolve, RestResolve
<1>2. CASE CloudflareList(c) \/ DigitalOceanList(c)
  <2>1. Paged /\ ListPage(c)
      BY <1>2 DEF CloudflareList, DigitalOceanList, Paged
  <2> QED BY <2>1, ListPageKept
<1>3. CASE \/ CloudflareRequest(c) \/ DigitalOceanRequest(c) \/ RestRequest(c)
           \/ SubprocessRequest(c)
  <2>1. ById /\ RequestById(c)
      BY <1>3 DEF CloudflareRequest, DigitalOceanRequest, RestRequest, SubprocessRequest, ById
  <2> QED BY <2>1, RequestByIdKept
<1>4. CASE RestList(c) \/ SubprocessList(c) \/ AghList(c)
    BY <1>4, ListAllKept DEF RestList, SubprocessList, AghList
<1>5. CASE AghRemove(c) \/ AghCreate(c) \/ AghDelete(c)
    BY <1>5, AghRemoveKept, AghCreateKept, AghDeleteKept
<1>6. CASE PdnsList(c)
    BY <1>6, ListAllKept, FetchKept DEF PdnsList
<1>7. CASE PdnsCreate(c) \/ PdnsUpdate(c) \/ PdnsDelete(c)
    BY <1>7, PdnsWriteKept
<1> QED BY <1>1, <1>2, <1>3, <1>4, <1>5, <1>6, <1>7 DEF Work

LEMMA ApiStep ==
    ASSUME ApiIInv, ApiNext
    PROVE  ApiIInv' /\ \A c \in Clients : Promise(c) /\ Harmless(c)
<1>0. Step /\ Remember
    BY DEF ApiNext
<1>1. CASE Outside
    BY <1>0, <1>1, OutsideKeeps
<1>2. ASSUME NEW c \in Clients,
             \/ Begin(c) \/ Work(c) \/ Fails(c) \/ PdnsUnlisted(c) \/ ChildHangs(c)
             \/ ChildKilled(c)
      PROVE  ApiIInv' /\ \A d \in Clients : Promise(d) /\ Harmless(d)
  <2>1. Kept(c)
      BY <1>0, <1>2, BeginKept, WorkKept, FailsKept, UnlistedKept, HangKept
  <2> QED BY <1>0, <2>1, KeptKeeps
<1> QED BY <1>0, <1>1, <1>2 DEF Step

LEMMA ApiInduction == ApiSpec => []ApiIInv
<1>1. ApiInit => ApiIInv
  <2> SUFFICES ASSUME ApiInit PROVE ApiIInv
      OBVIOUS
  <2>1. /\ kind \in Kinds /\ kind \in AllKinds /\ served = {} /\ nextId = 1
      BY ApiAssumption DEF ApiInit
  <2>2. /\ pc \in [Clients -> {"idle", "resolve", "page", "list", "remove", "request", "hung"}]
        /\ \A c \in Clients : pc[c] = "idle" /\ page[c] = 1 /\ listed[c] = {} /\ keep[c] = {}
      BY DEF ApiInit
  <2>3. call = [c \in Clients |-> call[c]]
      BY DEF ApiInit
  <2>4. /\ listed \in [Clients -> SUBSET ServerRecord]
        /\ page \in [Clients -> 1..(MaxServerId + 1)]
        /\ answer \in [Clients -> {"none", "ok", "failed"}]
        /\ keep \in [Clients -> SUBSET [id : ServerIds, key : Names, val : Vals]]
        /\ clean \in [Clients -> BOOLEAN]
        /\ heard \in [Clients -> BOOLEAN]
        /\ nextId \in 1..(MaxServerId + 1)
      BY NumbersAre DEF ApiInit
  <2>5. ApiTypeOK
      BY <2>1, <2>2, <2>4 DEF ApiTypeOK
  <2>6. ServerInv
      BY <2>1 DEF ServerInv
  <2>7. \A c \in Clients : StepInv(c) /\ KeepInv(c) /\ CleanInv(c)
      BY <2>2 DEF StepInv, KeepInv, CleanInv
  <2> QED BY <2>3, <2>5, <2>6, <2>7 DEF ApiIInv
<1>2. ApiIInv /\ [ApiNext]_apiVars => ApiIInv'
  <2> SUFFICES ASSUME ApiIInv, UNCHANGED apiVars PROVE ApiIInv'
      BY ApiStep
  <2>1. UNCHANGED <<kind, served, nextId, call, pc, listed, page, answer, keep, clean, heard>>
      BY DEF apiVars
  <2>2. ApiTypeOK' /\ ServerInv'
      BY <2>1 DEF ApiIInv, ApiTypeOK, ServerInv, ServerIds, ServerRecord, Call, ById
  <2>3. \A c \in Clients : StepInv(c)' /\ KeepInv(c)' /\ CleanInv(c)'
      BY <2>1 DEF ApiIInv, StepInv, KeepInv, CleanInv, Rest, Halfway, Before, Paged, Resolves
  <2>4. call' = [c \in Clients |-> call'[c]]
      BY <2>1 DEF ApiIInv
  <2> QED BY <2>2, <2>3, <2>4 DEF ApiIInv
<1> QED BY <1>1, <1>2, PTL DEF ApiSpec

\* What a server has is a set of records with ids of their own; a call that nobody has
\* disturbed and that says it succeeded has done its work and nothing else, one that says
\* it failed nothing, all, or the first half of an update; and a listing, page by page or
\* at once, is what is served (IProvider: listRecords, createRecord, updateRecord and
\* deleteRecord of each provider).
THEOREM UndisturbedCallsKeepPromise == ApiSpec => CallsKeepPromise
<1>1. ApiIInv => ApiTypeOK
    BY DEF ApiIInv
<1>2. ApiIInv /\ [ApiNext]_apiVars =>
        [\A c \in Clients :
          pc[c] # "idle" /\ pc'[c] = "idle" /\ clean[c] /\ heard'[c] =>
             /\ \/ Done(c, keep[c], View(served'))
                \/ /\ answer'[c] = "failed"
                   /\ View(served') \in {keep[c], Rest(c, keep[c])}
             /\ call[c].op = "list" /\ answer'[c] = "ok" => View(listed'[c]) = keep[c]]_apiVars
    BY ApiStep DEF Promise
<1> QED BY <1>1, <1>2, ApiInduction, PTL DEF ApiSpec, CallsKeepPromise, KeepsPromise

\* However the calls of any number of clients and strangers interleave, none takes away a
\* record that was there when it began but the one it is about, unless it replaces a key
\* of PowerDNS without its listing (PowerDnsProvider.cpp:197).
THEOREM CallsHarmNothingElse == ApiSpec => NothingElseLost
<1>1. ApiIInv /\ [ApiNext]_apiVars =>
        [\A c \in Clients :
          pc[c] # "idle" /\ pc'[c] # pc[c] /\ heard[c] => Rest(c, keep[c]) \subseteq View(served')]_apiVars
    BY ApiStep DEF Harmless
<1> QED BY <1>1, ApiInduction, PTL DEF ApiSpec, NothingElseLost

-----------------------------------------------------------------------------
(* The inputs of a plan *)

\* Rows with ids of their own, and a finite listing that has a value once.
InputInv ==
    /\ rs \subseteq Row
    /\ nextRow \in Nat
    /\ \A r \in rs : r.id < nextRow
    /\ \A r, q \in rs : r.id = q.id => r = q
    /\ listing \subseteq Record
    /\ IsFiniteSet(listing)
    /\ \A x, y \in listing : Same(x, y) => x = y

LEMMA InputsStay == InputInv /\ [Next]_<<rs, listing, nextRow>> => InputInv'
<1> SUFFICES ASSUME InputInv, [Next]_<<rs, listing, nextRow>> PROVE InputInv'
    OBVIOUS
<1>1. CASE GrowRows
  <2>1. PICK k \in Keys, c \in Contents, b \in BOOLEAN :
          rs' = rs \cup {[NewRow(nextRow, k, c) EXCEPT !.pending = b]}
        BY <1>1 DEF GrowRows
  <2> DEFINE new == [NewRow(nextRow, k, c) EXCEPT !.pending = b]
  <2>2. nextRow \in Ids /\ nextRow \in Nat /\ nextRow' = nextRow + 1 /\ listing' = listing
        BY <1>1 DEF GrowRows, InputInv
  <2>3. new \in Row /\ new.id = nextRow
        BY <2>2 DEF NewRow, Row
  <2>4. \A r \in rs : r.id \in Nat /\ r.id < nextRow
        BY DEF InputInv, Row, Ids
  <2> HIDE DEF new
  <2>5. \A r \in rs' : r = new \/ r \in rs
        BY <2>1 DEF new
  <2>6. rs' \subseteq Row /\ \A r \in rs' : r.id < nextRow'
        BY <2>2, <2>3, <2>4, <2>5 DEF InputInv
  <2>7. \A r, q \in rs' : r.id = q.id => r = q
        BY <2>2, <2>3, <2>4, <2>5 DEF InputInv
  <2> QED BY <2>2, <2>6, <2>7 DEF InputInv
<1>2. CASE GrowListing
  <2>1. PICK x \in Record : /\ \A y \in listing : ~Same(x, y)
                            /\ listing' = listing \cup {x}
        BY <1>2 DEF GrowListing
  <2>2. IsFiniteSet(listing')
        BY <2>1, FS_AddElement DEF InputInv
  <2>3. \A y \in listing : ~Same(y, x)
        BY <2>1 DEF Same
  <2> QED BY <1>2, <2>1, <2>2, <2>3 DEF InputInv, GrowListing
<1>3. CASE UNCHANGED <<rs, listing, nextRow>>
      BY <1>3 DEF InputInv
<1> QED BY <1>1, <1>2, <1>3 DEF Next

LEMMA InputsAreLegal == Spec => []InputInv
<1>1. Init => InputInv
      BY FS_EmptySet DEF Init, InputInv
<1> QED BY <1>1, InputsStay, PTL DEF Spec

-----------------------------------------------------------------------------
(* What a plan is made of *)

PlanWant  == Desired(p1, rs)
PlanTaken == Claimed(FilterTypes(Pending(rs)), FilterTypes(listing))
PlanRest  == FilterTypes(listing) \ PlanTaken
PlanPairs == Pairs(PlanWant, PlanRest)
PlanAlone == {r \in Missing(PlanWant, PlanRest) : \A m \in PlanPairs : m[1] # r}
PlanDrift == {x \in PlanRest : /\ \A r \in PlanWant : ~Same(r, x)
                               /\ \A m \in PlanPairs : ~Same(m[2], x)}

UpdateOf(m) == [prov |-> p1, op |-> "update", key |-> m[1].key,
                old |-> m[2].content, new |-> m[1].content, id |-> m[1].id]
AddOf(r)    == [prov |-> p1, op |-> "add", key |-> r.key,
                old |-> r.content, new |-> r.content, id |-> r.id]
DriftOf(x)  == [prov |-> p1, op |-> "drift", key |-> x.key,
                old |-> x.content, new |-> x.content, id |-> 0]
DeleteOf(x) == [prov |-> p1, op |-> "delete", key |-> x.key,
                old |-> x.content, new |-> x.content, id |-> 0]

LEMMA PlanIs ==
    Plan = ({UpdateOf(m) : m \in PlanPairs} \cup {AddOf(r) : r \in PlanAlone}
            \cup {DriftOf(x) : x \in PlanDrift})
           \cup {DeleteOf(x) : x \in PlanTaken}
BY DEF Plan, ProviderPreview, ComputeDiff, PlanWant, PlanTaken, PlanRest, PlanPairs,
       PlanAlone, PlanDrift, UpdateOf, AddOf, DriftOf, DeleteOf

LEMMA PlanParts ==
    /\ \A d : d \in Of("update") <=> \E m \in PlanPairs : d = UpdateOf(m)
    /\ \A d : d \in Of("add") <=> \E r \in PlanAlone : d = AddOf(r)
    /\ \A d : d \in Of("drift") <=> \E x \in PlanDrift : d = DriftOf(x)
    /\ \A d : d \in Of("delete") <=> \E x \in PlanTaken : d = DeleteOf(x)
    /\ \A d \in Plan : \/ d \in Of("update") \/ d \in Of("add")
                       \/ d \in Of("drift") \/ d \in Of("delete")
<1>1. /\ \A m : UpdateOf(m).op = "update"
      /\ \A r : AddOf(r).op = "add"
      /\ \A x : DriftOf(x).op = "drift"
      /\ \A x : DeleteOf(x).op = "delete"
      BY DEF UpdateOf, AddOf, DriftOf, DeleteOf
<1>2. \A d : d \in Plan <=> \/ \E m \in PlanPairs : d = UpdateOf(m)
                            \/ \E r \in PlanAlone : d = AddOf(r)
                            \/ \E x \in PlanDrift : d = DriftOf(x)
                            \/ \E x \in PlanTaken : d = DeleteOf(x)
      BY PlanIs
<1> QED BY <1>1, <1>2 DEF Of

LEMMA PlanFacts ==
    ASSUME InputInv
    PROVE  /\ PlanWant \in SUBSET Row
           /\ PlanWant \subseteq rs
           /\ \A r, q \in PlanWant : r.id = q.id => r = q
           /\ \A r \in PlanWant : r.key \notin Unmanaged
           /\ PlanTaken \subseteq listing /\ PlanRest \subseteq listing
           /\ PlanTaken \cap PlanRest = {}
           /\ PlanRest \in SUBSET Record /\ IsFiniteSet(PlanRest)
           /\ \A x \in listing : x.key \in Unmanaged \/ x \in PlanTaken \/ x \in PlanRest
           /\ \A x \in PlanRest : x.key \notin Unmanaged
           /\ \A m \in PlanPairs :
                /\ m = <<m[1], m[2]>>
                /\ m[1] \in Missing(PlanWant, PlanRest) /\ m[1] \in PlanWant
                /\ m[2] \in Free(PlanWant, PlanRest) /\ m[2] \in PlanRest
                /\ m[1].key = m[2].key
                /\ RowRank(m[1], Missing(PlanWant, PlanRest))
                     = RecordRank(m[2], Free(PlanWant, PlanRest))
                /\ \A r \in PlanWant : ~Same(r, m[2])
<1>1. /\ PlanWant \subseteq rs /\ PlanWant \in SUBSET Row
      /\ \A r \in PlanWant : r.key \notin Unmanaged
      BY DEF InputInv, PlanWant, Desired, FilterTypes, Active
<1>2. /\ PlanTaken \subseteq listing /\ PlanRest \subseteq listing
      /\ PlanTaken \cap PlanRest = {}
      /\ \A x \in listing : x.key \in Unmanaged \/ x \in PlanTaken \/ x \in PlanRest
      /\ \A x \in PlanRest : x.key \notin Unmanaged
      BY DEF PlanTaken, PlanRest, Claimed, FilterTypes
<1>3. PlanRest \in SUBSET Record /\ IsFiniteSet(PlanRest)
      BY <1>2, FS_Subset DEF InputInv
<1>4. \A m \in PlanPairs :
                /\ m = <<m[1], m[2]>>
                /\ m[1] \in Missing(PlanWant, PlanRest) /\ m[1] \in PlanWant
                /\ m[2] \in Free(PlanWant, PlanRest) /\ m[2] \in PlanRest
                /\ m[1].key = m[2].key
                /\ RowRank(m[1], Missing(PlanWant, PlanRest))
                     = RecordRank(m[2], Free(PlanWant, PlanRest))
                /\ \A r \in PlanWant : ~Same(r, m[2])
      BY DEF PlanPairs, Pairs, Missing, Free
<1>5. \A r, q \in PlanWant : r.id = q.id => r = q
      BY <1>1 DEF InputInv
<1> QED BY <1>1, <1>2, <1>3, <1>4, <1>5

\* What each diff names.
LEMMA DiffNames ==
    ASSUME InputInv
    PROVE  /\ \A m \in PlanPairs : /\ OldRecord(UpdateOf(m)) = m[2]
                                   /\ NewRecord(UpdateOf(m)) = RecordOf(m[1])
           /\ \A r \in PlanAlone : NewRecord(AddOf(r)) = RecordOf(r)
           /\ \A x \in PlanDrift : OldRecord(DriftOf(x)) = x
           /\ \A x \in PlanTaken : OldRecord(DeleteOf(x)) = x
<1>1. \A x \in listing : [key |-> x.key, content |-> x.content] = x
      BY DEF InputInv, Record
<1>2. PlanDrift \subseteq listing /\ PlanTaken \subseteq listing
      BY PlanFacts DEF PlanDrift
<1>3. \A m \in PlanPairs : m[2] \in listing /\ m[1].key = m[2].key
      BY PlanFacts
<1> QED BY <1>1, <1>2, <1>3
        DEF OldRecord, NewRecord, RecordOf, UpdateOf, AddOf, DriftOf, DeleteOf

\* A row overwrites one record, and a record is overwritten by one row.
LEMMA PairsMatch ==
    ASSUME InputInv, NEW m \in PlanPairs, NEW n \in PlanPairs
    PROVE  m[1] = n[1] <=> m[2] = n[2]
<1> DEFINE miss == Missing(PlanWant, PlanRest)
           free == Free(PlanWant, PlanRest)
<1>1. miss \in SUBSET Row /\ \A r, q \in miss : r.id = q.id => r = q
      BY PlanFacts DEF Missing
<1>2. free \in SUBSET Record /\ IsFiniteSet(free)
      BY PlanFacts, FS_Subset DEF Free
<1>3. /\ m[1] \in miss /\ n[1] \in miss /\ m[2] \in free /\ n[2] \in free
      /\ m[1].key = m[2].key /\ n[1].key = n[2].key
      /\ RowRank(m[1], miss) = RecordRank(m[2], free)
      /\ RowRank(n[1], miss) = RecordRank(n[2], free)
      BY PlanFacts
<1> HIDE DEF miss, free
<1>4. ASSUME m[2] = n[2] PROVE m[1] = n[1]
      BY <1>1, <1>3, <1>4, RowRanks
<1>5. ASSUME m[1] = n[1] PROVE m[2] = n[2]
  <2> DEFINE F == OfKey(free, m[2].key)
  <2>1. m[2] \in F /\ n[2] \in F
        BY <1>3, <1>5 DEF OfKey
  <2>2. /\ RecordRank(m[2], free) = RecordRank(n[2], free)
        /\ RecordRank(m[2], free) \in Nat
    <3>1. RecordRank(m[2], free) \in 1..Cardinality(F) /\ Cardinality(F) \in Nat
          BY <1>2, <2>1, RanksOfRecords
    <3> HIDE DEF F
    <3> QED BY <1>3, <1>5, <3>1
  <2>3. \A x, y \in F : x.content < y.content <=> RecordRank(x, free) < RecordRank(y, free)
        BY <1>2, RanksOfRecords
  <2> HIDE DEF F
  <2>4. ~(m[2].content < n[2].content) /\ ~(n[2].content < m[2].content)
        BY <2>1, <2>2, <2>3
  <2>5. \A c, d \in Contents : ~(c < d) /\ ~(d < c) => c = d
        BY RecordsAssumption
  <2>6. m[2].content = n[2].content
        BY <1>2, <1>3, <2>4, <2>5 DEF Record
  <2>7. /\ m[2] = [key |-> m[2].key, content |-> m[2].content]
        /\ n[2] = [key |-> n[2].key, content |-> n[2].content]
        BY <1>2, <1>3 DEF Record
  <2> QED BY <1>3, <1>5, <2>6, <2>7
<1> QED BY <1>4, <1>5

-----------------------------------------------------------------------------
(* A plan is sound *)

LEMMA EachDiffOnce ==
    ASSUME InputInv
    PROVE  OneDiffEach
<1>1. /\ PlanTaken \cap PlanRest = {}
      /\ \A m \in PlanPairs : /\ m = <<m[1], m[2]>> /\ m[1] \in PlanWant /\ m[2] \in PlanRest
                              /\ m[1].key = m[2].key
      /\ \A r, q \in PlanWant : r.id = q.id => r = q
      /\ \A r \in PlanWant : r.id # 0
      BY PlanFacts DEF Row, Ids
<1>2. /\ PlanAlone \subseteq PlanWant
      /\ \A r \in PlanAlone : \A m \in PlanPairs : m[1] # r
      /\ PlanDrift \subseteq PlanRest
      /\ \A x \in PlanDrift : \A m \in PlanPairs : m[2] # x
      BY DEF PlanAlone, Missing, PlanDrift, Same
<1>3. \A m, n \in PlanPairs : m[1] = n[1] <=> m[2] = n[2]
      BY PairsMatch
<1>4. ASSUME NEW d \in Plan, NEW e \in Plan, d.op # "add", e.op # "add",
             OldRecord(d) = OldRecord(e)
      PROVE  d = e
  <2> DEFINE Touched(f, x) == \/ \E m \in PlanPairs : f = UpdateOf(m) /\ x = m[2]
                              \/ x \in PlanDrift /\ f = DriftOf(x)
                              \/ x \in PlanTaken /\ f = DeleteOf(x)
  <2>1. ASSUME NEW f \in Plan, f.op # "add" PROVE Touched(f, OldRecord(f))
    <3>1. f \notin Of("add")
          BY <2>1 DEF Of
    <3>2. CASE f \in Of("update")
          BY <3>2, PlanParts, DiffNames
    <3>3. CASE f \in Of("drift")
          BY <3>3, PlanParts, DiffNames
    <3>4. CASE f \in Of("delete")
          BY <3>4, PlanParts, DiffNames
    <3> HIDE DEF Touched
    <3> QED BY <3>1, <3>2, <3>3, <3>4, PlanParts
  <2>2. Touched(d, OldRecord(d)) /\ Touched(e, OldRecord(d))
        BY <1>4, <2>1
  <2> QED BY <1>1, <1>2, <1>3, <2>2
<1>5. ASSUME NEW d \in Plan, NEW e \in Plan, d.id # 0, d.id = e.id
      PROVE  d = e
  <2> DEFINE Writes(f, r) == \/ \E m \in PlanPairs : f = UpdateOf(m) /\ r = m[1]
                             \/ r \in PlanAlone /\ f = AddOf(r)
  <2>1. ASSUME NEW f \in Plan, f.id # 0
        PROVE  \E r \in PlanWant : r.id = f.id /\ Writes(f, r)
    <3>1. f \notin Of("drift") /\ f \notin Of("delete")
          BY <2>1, PlanParts DEF DriftOf, DeleteOf
    <3>2. CASE f \in Of("update")
      <4>1. PICK m \in PlanPairs : f = UpdateOf(m)
            BY <3>2, PlanParts
      <4>2. m[1] \in PlanWant /\ m[1].id = f.id /\ Writes(f, m[1])
            BY <1>1, <4>1 DEF UpdateOf
      <4> QED BY <4>2
    <3>3. CASE f \in Of("add")
      <4>1. PICK r \in PlanAlone : f = AddOf(r)
            BY <3>3, PlanParts
      <4>2. r \in PlanWant /\ r.id = f.id /\ Writes(f, r)
            BY <1>2, <4>1 DEF AddOf
      <4> QED BY <4>2
    <3> QED BY <3>1, <3>2, <3>3, PlanParts
  <2>2. PICK r \in PlanWant : r.id = d.id /\ Writes(d, r)
        BY <1>5, <2>1
  <2>3. PICK q \in PlanWant : q.id = e.id /\ Writes(e, q)
        BY <1>5, <2>1
  <2>4. r = q
        BY <1>1, <1>5, <2>2, <2>3
  <2>5. Writes(d, r) /\ Writes(e, r)
        BY <2>2, <2>3, <2>4
  <2> QED BY <1>1, <1>2, <1>3, <2>5
<1> QED BY <1>4, <1>5 DEF OneDiffEach

LEMMA NoneLeftOver ==
    ASSUME InputInv
    PROVE  NoAddBesideDrift
<1> SUFFICES ASSUME NEW r \in PlanAlone, NEW x \in PlanDrift PROVE r.key # x.key
  <2>1. ASSUME NEW d \in Of("add"), NEW e \in Of("drift") PROVE d.key # e.key
    <3>1. PICK r \in PlanAlone : d = AddOf(r)
          BY PlanParts
    <3>2. PICK x \in PlanDrift : e = DriftOf(x)
          BY PlanParts
    <3>3. r.key # x.key
          OBVIOUS
    <3> QED BY <3>1, <3>2, <3>3 DEF AddOf, DriftOf
  <2> QED BY <2>1 DEF NoAddBesideDrift
<1>1. r \in Missing(PlanWant, PlanRest) /\ \A m \in PlanPairs : m[1] # r
      BY DEF PlanAlone
<1>2. x \in PlanRest /\ \A q \in PlanWant : ~Same(q, x)
      BY DEF PlanDrift
<1>3. \A m \in PlanPairs : m[2] # x
      BY DEF PlanDrift, Same
<1>4. \A y \in PlanRest : Same(x, y) => x.content <= y.content
  <2>1. \A y \in PlanRest : Same(x, y) => x = y
        BY <1>2, PlanFacts DEF InputInv
  <2>2. x.content \in Contents
        BY <1>2, PlanFacts DEF Record
  <2>3. \A c \in Contents : c <= c
        BY RecordsAssumption
  <2> QED BY <2>1, <2>2, <2>3
<1>5. x \in Free(PlanWant, PlanRest)
      BY <1>2, <1>4 DEF Free
<1> QED BY <1>1, <1>3, <1>5, PlanFacts, NoneLeftBesideAnother DEF PlanPairs

LEMMA MarksAreObeyed ==
    ASSUME InputInv
    PROVE  DeletesAreAskedFor
<1> DEFINE marked == FilterTypes(Pending(rs))
           shown == FilterTypes(listing)
<1>1. /\ marked \in SUBSET Row /\ \A r, q \in marked : r.id = q.id => r = q
      /\ shown \in SUBSET Record /\ \A x, y \in shown : Same(x, y) => x = y
      /\ \A r \in marked : r.key \notin Unmanaged
      BY DEF InputInv, FilterTypes, Pending
<1>2. PlanTaken = Claimed(marked, shown)
      BY DEF PlanTaken
<1>3. \A x \in listing : x.key \notin Unmanaged => x \in shown
      BY DEF FilterTypes
<1>4. /\ \A k \in Keys : Cardinality({d \in Of("delete") : d.key = k})
                            <= Cardinality({r \in marked : r.key = k})
      /\ \A r \in marked : \A x \in listing :
           x.key = r.key /\ Text[x.content] = Text[r.content]
             => \E d \in Of("delete") : OldRecord(d) = x
  <2> HIDE DEF marked, shown
  <2>1. ASSUME NEW k \in Keys
        PROVE  Cardinality({d \in Of("delete") : d.key = k})
                 <= Cardinality({r \in marked : r.key = k})
    <3> DEFINE D == {d \in Of("delete") : d.key = k}
               R == {r \in marked : r.key = k}
    <3>1. PICK by \in [PlanTaken -> marked] :
            /\ \A x \in PlanTaken : by[x].key = x.key
            /\ \A x, y \in PlanTaken : by[x] = by[y] => x = y
          BY <1>1, <1>2, ClaimedByOne
    <3>2. \A d \in D : /\ OldRecord(d) \in PlanTaken /\ d = DeleteOf(OldRecord(d))
                       /\ OldRecord(d).key = k
          BY PlanParts, DiffNames DEF DeleteOf
    <3> DEFINE f == [d \in D |-> by[OldRecord(d)]]
    <3>3. f \in Injection(D, R)
      <4>1. \A d \in D : by[OldRecord(d)] \in R
            BY <3>1, <3>2
      <4>2. f \in [D -> R]
            BY <4>1
      <4>3. \A d, e \in D : f[d] = f[e] => d = e
        <5> HIDE DEF D
        <5> QED BY <3>1, <3>2
      <4> QED BY <4>2, <4>3 DEF Injection, IsInjective
    <3>4. IsFiniteSet(R)
      <4>1. IsFiniteSet(marked)
            BY <1>1, RowsFinite
      <4> QED BY <4>1, FS_Subset
    <3> HIDE DEF D, R, f
    <3>5. Cardinality(D) <= Cardinality(R)
          BY <3>3, <3>4, FS_Injection
    <3> QED BY <3>5 DEF D, R
  <2>2. ASSUME NEW r \in marked, NEW x \in listing,
               x.key = r.key, Text[x.content] = Text[r.content]
        PROVE  \E d \in Of("delete") : OldRecord(d) = x
    <3>1. x \in shown
          BY <1>1, <1>3, <2>2
    <3>2. x \in PlanTaken
          BY <1>1, <1>2, <2>2, <3>1, ClaimsItsValue
    <3> QED BY <3>2, PlanParts, DiffNames
  <2> QED BY <2>1, <2>2
<1> QED BY <1>4 DEF DeletesAreAskedFor

\* Whatever the rows of a zone and the listing of a provider, the plan names every
\* record and every row once (OneDiffEach), adds nothing it could have taken over, takes
\* away one record at most for each marked row and every record with the value of one,
\* and the pairing by ranks is what the loop of computeDiff pairs, row after row.
THEOREM PlansAreSound == Spec => []PlanIsSound
<1>1. InputInv => PlanIsSound
  <2> SUFFICES ASSUME InputInv PROVE PlanIsSound
      OBVIOUS
  <2>1. LoopAgrees
    <3>1. LoopPairs(PlanWant, PlanRest) = Pairs(PlanWant, PlanRest)
          BY PlanFacts, LoopIsPairs
    <3> QED BY <3>1 DEF LoopAgrees, PlanWant, PlanRest, PlanTaken
  <2> QED BY <2>1, EachDiffOnce, NoneLeftOver, MarksAreObeyed DEF PlanIsSound
<1> QED BY <1>1, InputsAreLegal, PTL

-----------------------------------------------------------------------------
(* A push settles *)

LEMMA PushedServes ==
    ASSUME InputInv
    PROVE  /\ Pushed \subseteq Record
           /\ \A r \in PlanWant : \E x \in Pushed : Same(r, x)
           /\ \A x \in Pushed : \/ \E r \in PlanWant : Same(r, x)
                                \/ x \in PlanDrift
                                \/ x.key \in Unmanaged
           /\ PlanDrift \subseteq Pushed
<1>1. /\ \A x : x \in Pushed <=>
            \/ /\ x \in listing
               /\ \A d \in Of("update") \cup Of("delete") : OldRecord(d) # x
            \/ \E d \in Of("update") \cup Of("add") : x = NewRecord(d)
      BY DEF Pushed
<1>2. \A x : (\E d \in Of("update") \cup Of("delete") : OldRecord(d) = x)
             <=> x \in PlanTaken \/ \E m \in PlanPairs : m[2] = x
      BY PlanParts, DiffNames
<1>3. \A x : (\E d \in Of("update") \cup Of("add") : x = NewRecord(d))
             <=> \/ \E m \in PlanPairs : x = RecordOf(m[1])
                 \/ \E r \in PlanAlone : x = RecordOf(r)
      BY PlanParts, DiffNames
<1>4. \A x : x \in Pushed <=>
        \/ x \in listing /\ x \notin PlanTaken /\ \A m \in PlanPairs : m[2] # x
        \/ \E m \in PlanPairs : x = RecordOf(m[1])
        \/ \E r \in PlanAlone : x = RecordOf(r)
      BY <1>1, <1>2, <1>3
<1>5. \A r \in PlanWant : RecordOf(r) \in Record /\ Same(r, RecordOf(r))
      BY PlanFacts DEF Row, Record, RecordOf, Same
<1>6. \A m \in PlanPairs : m[1] \in PlanWant /\ \A r \in PlanWant : ~Same(r, m[2])
      BY PlanFacts
<1>7. PlanAlone \subseteq PlanWant
      BY DEF PlanAlone, Missing
<1>8. Pushed \subseteq Record
      BY <1>4, <1>5, <1>6, <1>7 DEF InputInv
<1>9. ASSUME NEW r \in PlanWant PROVE \E x \in Pushed : Same(r, x)
  <2>1. CASE r \in Missing(PlanWant, PlanRest)
    <3>1. r \in PlanAlone \/ \E m \in PlanPairs : m[1] = r
          BY <2>1 DEF PlanAlone
    <3>2. RecordOf(r) \in Pushed
          BY <1>4, <3>1
    <3> QED BY <1>5, <3>2
  <2>2. CASE r \notin Missing(PlanWant, PlanRest)
    <3>1. PICK x \in PlanRest : Same(r, x)
          BY <2>2 DEF Missing
    <3>2. x \in listing /\ x \notin PlanTaken /\ \A m \in PlanPairs : m[2] # x
          BY <1>6, <3>1, PlanFacts
    <3> QED BY <1>4, <3>1, <3>2
  <2> QED BY <2>1, <2>2
<1>10. ASSUME NEW x \in Pushed, \A r \in PlanWant : ~Same(r, x), x.key \notin Unmanaged
       PROVE  x \in PlanDrift
  <2>1. x \in listing /\ x \notin PlanTaken /\ \A m \in PlanPairs : m[2] # x
        BY <1>4, <1>5, <1>6, <1>7, <1>10
  <2>2. x \in PlanRest
        BY <1>10, <2>1, PlanFacts
  <2>3. \A m \in PlanPairs : ~Same(m[2], x)
        BY <2>1, <2>2, PlanFacts DEF InputInv
  <2> QED BY <1>10, <2>2, <2>3 DEF PlanDrift
<1>11. PlanDrift \subseteq Pushed
  <2> SUFFICES ASSUME NEW x \in PlanDrift PROVE x \in Pushed
      OBVIOUS
  <2>1. x \in PlanRest /\ \A m \in PlanPairs : m[2] # x
        BY DEF PlanDrift, Same
  <2> QED BY <1>4, <2>1, PlanFacts
<1> QED BY <1>8, <1>9, <1>10, <1>11

\* The engine's purpose, for any rows and any listing that has a value once: executed,
\* and with the marked rows purged, a plan leaves the drift the operator has not asked to
\* be adopted or removed, and nothing else to do.
THEOREM PushesSettle == Spec => []PushSettles
<1>1. InputInv => PushSettles
  <2> SUFFICES ASSUME InputInv PROVE PushSettles
      OBVIOUS
  <2> DEFINE left == HardDeletePending(rs)
             live == FilterTypes(Pushed)
  <2>1. Pending(left) = {} /\ Active(left) = Active(rs)
        BY DEF HardDeletePending, Pending, Active
  <2>2. Claimed(FilterTypes(Pending(left)), live) = {}
        BY <2>1 DEF Claimed, FilterTypes
  <2>3. Desired(p1, left) = PlanWant
        BY <2>1 DEF Desired, PlanWant
  <2>4. ProviderPreview(p1, left, Pushed) = ComputeDiff(p1, PlanWant, live)
    <3>1. live \ {} = live
          OBVIOUS
    <3> HIDE DEF live, left
    <3>2. ProviderPreview(p1, left, Pushed) =
            ComputeDiff(p1, Desired(p1, left), live \ Claimed(FilterTypes(Pending(left)), live))
            \cup {[prov |-> p1, op |-> "delete", key |-> x.key,
                   old |-> x.content, new |-> x.content, id |-> 0]
                     : x \in Claimed(FilterTypes(Pending(left)), live)}
          BY DEF ProviderPreview, live
    <3> QED BY <2>2, <2>3, <3>1, <3>2
  <2>5. \A r \in PlanWant : \E x \in live : Same(r, x)
    <3>1. \A r \in PlanWant : \A x : Same(r, x) => x.key \notin Unmanaged
          BY PlanFacts DEF Same
    <3> QED BY <3>1, PushedServes DEF FilterTypes
  <2>6. Missing(PlanWant, live) = {}
        BY <2>5 DEF Missing
  <2>7. Pairs(PlanWant, live) = {}
        BY <2>6 DEF Pairs
  <2>8. {x \in live : \A r \in PlanWant : ~Same(r, x)} = PlanDrift
    <3>1. \A x \in PlanDrift : x.key \notin Unmanaged /\ \A r \in PlanWant : ~Same(r, x)
          BY PlanFacts DEF PlanDrift
    <3> QED BY <3>1, PushedServes DEF FilterTypes
  <2>9. ComputeDiff(p1, PlanWant, live) = {DriftOf(x) : x \in PlanDrift}
    <3> HIDE DEF live
    <3> QED BY <2>6, <2>7, <2>8 DEF ComputeDiff, DriftOf
  <2>10. Of("drift") = {DriftOf(x) : x \in PlanDrift}
         BY PlanParts
  <2> QED BY <2>4, <2>9, <2>10 DEF PushSettles
<1> QED BY <1>1, InputsAreLegal, PTL
-----------------------------------------------------------------------------
(* What a push does not serve *)

\* The values tell contents apart: no two rows differ in TTL or priority alone.
ValuesTell == \A c, d \in Contents : Canon[c] = Canon[d] => c = d

\* After a push the provider has the value of every desired row; and it is the TTL and
\* the priority alone, which computeDiff does not compare, that keep PushServesContent
\* from holding: where no two contents share a value, every desired row is served whole.
THEOREM ValuesAreServed ==
    /\ Spec => [](\A r \in Desired(p1, rs) : \E x \in Pushed : Same(r, x))
    /\ ValuesTell => (Spec => []PushServesContent)
<1>1. InputInv => \A r \in Desired(p1, rs) : \E x \in Pushed : Same(r, x)
      BY PushedServes DEF PlanWant
<1>2. ASSUME ValuesTell PROVE InputInv => PushServesContent
  <2> SUFFICES ASSUME InputInv, NEW r \in PlanWant PROVE RecordOf(r) \in Pushed
      BY DEF PushServesContent, PlanWant
  <2>1. PICK x \in Pushed : Same(r, x)
        BY PushedServes
  <2>2. r \in Row /\ x \in Record
        BY PlanFacts, PushedServes
  <2>3. r.key = x.key /\ r.content = x.content
        BY <1>2, <2>1, <2>2 DEF ValuesTell, Same, Row, Record
  <2>4. RecordOf(r) = x
        BY <2>2, <2>3 DEF RecordOf, Record
  <2> QED BY <2>1, <2>4
<1>3. Spec => [](\A r \in Desired(p1, rs) : \E x \in Pushed : Same(r, x))
      BY <1>1, InputsAreLegal, PTL
<1>4. ASSUME ValuesTell PROVE Spec => []PushServesContent
  <2>1. InputInv => PushServesContent
        BY <1>2, <1>4
  <2> QED BY <2>1, InputsAreLegal, PTL
<1> QED BY <1>3, <1>4
=============================================================================
