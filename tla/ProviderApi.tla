------------------------------ MODULE ProviderApi ------------------------------
(***************************************************************************)
(* The record calls of the providers: what one createRecord, updateRecord, *)
(* deleteRecord or listRecords of a push asks of the server, request by    *)
(* request, while other pushes and other people change the same zone.      *)
(*                                                                         *)
(* The server is external.  It serves a set of records; a PowerDNS server  *)
(* also keeps disabled ones and has one TTL for all records of a key.  A   *)
(* key is a name and type, a value what stands behind them.                *)
(***************************************************************************)
EXTENDS Integers, FiniteSets

CONSTANTS
    Clients,   \* pushes and previews, each with a provider object of its own
    Kinds,     \* the kinds of provider to look at
    Names, Vals, Ttls,
    PageSize,  \* per_page
    MaxServerId      \* bound: ids a server hands out

AllKinds == {"cloudflare", "digitalocean", "generic_rest", "subprocess", "adguardhome", "powerdns"}

ASSUME ApiAssumption ==
    /\ Kinds \subseteq AllKinds
    /\ PageSize \in Nat \ {0} /\ MaxServerId \in Nat
    /\ Ttls \subseteq Nat /\ 0 \in Ttls

VARIABLES
    kind,    \* the provider's type
    served,  \* the server's records
    nextId,  \* its next record id
    call,    \* call[c]: the call c is in
    pc,      \* pc[c]: the request c makes next
    listed,  \* listed[c]: the records c has been told
    page,    \* page[c]: the page c asks for next
    answer,  \* answer[c]: what the last call of c returned
    keep,    \* keep[c]: what was served when the call began, without what others
             \* took away since
    clean,   \* clean[c]: nobody else has changed anything since
    heard    \* heard[c]: no failed or malformed listing was passed over

server == <<kind, served, nextId>>
mine   == <<call, pc, listed, page, answer>>
apiVars   == <<kind, served, nextId, call, pc, listed, page, answer, keep, clean, heard>>

-----------------------------------------------------------------------------
(* Kinds of provider *)

\* ProviderFactory::create.  Those that hand out ids of their own; with the others
\* a record is known by its key and value.
ById == kind \in {"cloudflare", "digitalocean", "generic_rest", "subprocess"}

Resolves == kind \in {"cloudflare", "generic_rest"}
Paged    == kind \in {"cloudflare", "digitalocean"}

ServerIds    == IF ById THEN 1..MaxServerId ELSE Names \X Vals
ServerRecord == [id : ServerIds, key : Names, val : Vals, ttl : Ttls, off : BOOLEAN]

\* A call: the new key, value and TTL; for an update or delete the id that the
\* preview listed.
Call == [op : {"list"}] \cup [op : {"create"}, key : Names, val : Vals, ttl : Ttls]
        \cup [op : {"update", "delete"}, id : ServerIds, key : Names, val : Vals, ttl : Ttls]

\* What a listing shows of records, and what a diff compares.
View(recs) == {[id |-> r.id, key |-> r.key, val |-> r.val] : r \in {x \in recs : ~x.off}}

Enabled(recs) == {r \in recs : ~r.off}

ApiTypeOK ==
    /\ kind \in Kinds
    /\ served \subseteq ServerRecord
    /\ \A r, s \in served : r.id = s.id => r = s
    /\ nextId \in 1..(MaxServerId + 1)
    /\ \A c \in Clients : pc[c] # "idle" => call[c] \in Call
    /\ pc \in [Clients -> {"idle", "resolve", "page", "list", "remove", "request", "hung"}]
    /\ listed \in [Clients -> SUBSET ServerRecord]
    /\ page \in [Clients -> 1..(MaxServerId + 1)]
    /\ answer \in [Clients -> {"none", "ok", "failed"}]
    /\ keep \in [Clients -> SUBSET [id : ServerIds, key : Names, val : Vals]]
    /\ clean \in [Clients -> BOOLEAN]
    /\ heard \in [Clients -> BOOLEAN]

NoCall == [op |-> "none"]

ApiInit ==
    /\ kind \in Kinds
    /\ served = {}
    /\ nextId = 1
    /\ call = [c \in Clients |-> NoCall]
    /\ pc = [c \in Clients |-> "idle"]
    /\ listed = [c \in Clients |-> {}]
    /\ page = [c \in Clients |-> 1]
    /\ answer = [c \in Clients |-> "none"]
    /\ keep = [c \in Clients |-> {}]
    /\ clean = [c \in Clients |-> FALSE]
    /\ heard = [c \in Clients |-> FALSE]

-----------------------------------------------------------------------------
(* Steps of a call *)

Goto(c, s) == pc' = [pc EXCEPT ![c] = s] /\ UNCHANGED <<call, page, answer>>

\* The call returns; its locals go with the frame.
Return(c, a) ==
    /\ pc' = [pc EXCEPT ![c] = "idle"]
    /\ answer' = [answer EXCEPT ![c] = a]
    /\ call' = [call EXCEPT ![c] = NoCall]
    /\ page' = [page EXCEPT ![c] = 1]

\* A request that makes the records recs: it is answered, or the answer is lost or
\* cannot be parsed.
Reply(c, recs) == served' = recs /\ \E a \in {"ok", "failed"} : Return(c, a)

\* A request that does not arrive, is refused, or runs into the client's timeout.
\* The listing of a create at PowerDNS is passed over: see PdnsList.
Fails(c) ==
    /\ pc[c] \in {"resolve", "page", "list", "remove", "request"}
    /\ ~(pc[c] = "list" /\ call[c].op = "create")
    /\ Return(c, "failed")
    /\ listed' = [listed EXCEPT ![c] = {}]
    /\ UNCHANGED <<server, heard>>

\* The step a call starts with.
FirstStep(op) ==
    IF Resolves THEN "resolve"
    ELSE IF op = "list" THEN "page"
    ELSE IF kind = "powerdns" THEN "list"
    ELSE IF kind = "adguardhome" /\ op = "update" THEN "remove"
    ELSE "request"

\* executeDiffs and fetchLiveRecords: an update or delete names a record that the
\* preview has listed.
Begin(c) ==
    /\ pc[c] = "idle"
    /\ \E k \in Names, v \in Vals, t \in Ttls :
         \/ call' = [call EXCEPT ![c] = [op |-> "list"]]
         \/ call' = [call EXCEPT ![c] = [op |-> "create", key |-> k, val |-> v, ttl |-> t]]
         \/ \E op \in {"update", "delete"}, r \in Enabled(served) :
               /\ r.key = k
               /\ op = "update" => r.val # v
               /\ call' = [call EXCEPT ![c] = [op |-> op, id |-> r.id, key |-> k, val |-> v, ttl |-> t]]
    /\ pc' = [pc EXCEPT ![c] = FirstStep(call'[c].op)]
    /\ answer' = [answer EXCEPT ![c] = "none"]
    /\ listed' = [listed EXCEPT ![c] = {}]
    /\ heard' = [heard EXCEPT ![c] = TRUE]
    /\ UNCHANGED <<server, page>>

\* resolveZoneId: a request, or Cloudflare's memory of an earlier one.
Resolve(c) ==
    /\ pc[c] = "resolve"
    /\ Goto(c, IF call[c].op = "list" THEN "page" ELSE "request")
    /\ UNCHANGED <<server, listed, heard>>

CloudflareResolve(c) == kind = "cloudflare" /\ Resolve(c)
RestResolve(c)       == kind = "generic_rest" /\ Resolve(c)

-----------------------------------------------------------------------------
(* listRecords *)

\* Mutant of Pages: the last page is not asked for.
PagesShort(n) == (n + PageSize - 1) \div PageSize - 1

Pages(n) == (n + PageSize - 1) \div PageSize

\* Mutant of NextPage: the counter of the loop is not moved.
NextPageStays(n) == n

NextPage(n) == n + 1

\* A page in the order of ids.
OnPage(recs, n) ==
    {r \in recs : Cardinality({s \in recs : s.id < r.id}) \div PageSize = n - 1}

\* One round of the loop; the server says with each page how many there are.
ListPage(c) ==
    /\ pc[c] = "page"
    /\ listed' = [listed EXCEPT ![c] = @ \cup OnPage(served, page[c])]
    /\ IF page[c] < Pages(Cardinality(served))
       THEN page' = [page EXCEPT ![c] = NextPage(@)] /\ UNCHANGED <<pc, call, answer>>
       ELSE Return(c, "ok")
    /\ UNCHANGED <<server, heard>>

CloudflareList(c)   == kind = "cloudflare" /\ ListPage(c)
DigitalOceanList(c) == kind = "digitalocean" /\ ListPage(c)

\* The listing in one answer.
ListAll(c) ==
    /\ pc[c] = "page"
    /\ listed' = [listed EXCEPT ![c] = Enabled(served)]
    /\ Return(c, "ok")
    /\ UNCHANGED <<server, heard>>

\* An answer that is no array is taken for an empty one.
ListNothing(c) ==
    /\ pc[c] = "page"
    /\ listed' = [listed EXCEPT ![c] = {}]
    /\ heard' = [heard EXCEPT ![c] = FALSE]
    /\ Return(c, "ok")
    /\ UNCHANGED server

RestList(c)       == kind = "generic_rest" /\ (ListAll(c) \/ ListNothing(c))
SubprocessList(c) == kind = "subprocess" /\ (ListAll(c) \/ ListNothing(c))
AghList(c)        == kind = "adguardhome" /\ ListAll(c)

-----------------------------------------------------------------------------
(* Records with ids of their own *)

Named(c, r) == r.id = call[c].id

\* A record as the server stores it.
New(c, id) == [id |-> id, key |-> call[c].key, val |-> call[c].val, ttl |-> call[c].ttl, off |-> FALSE]

CreateById(c) ==
    /\ call[c].op = "create"
    /\ nextId <= MaxServerId
    /\ Reply(c, served \cup {New(c, nextId)})
    /\ nextId' = nextId + 1

\* A record that is gone is an error of the server (NotFound).
ChangeById(c) ==
    /\ call[c].op \in {"update", "delete"}
    /\ \E r \in served : Named(c, r)
    /\ Reply(c, {r \in served : ~Named(c, r)}
                \cup IF call[c].op = "update" THEN {New(c, call[c].id)} ELSE {})
    /\ UNCHANGED nextId

NotFound(c) ==
    /\ \/ call[c].op \in {"update", "delete"} /\ \A r \in served : ~Named(c, r)
       \/ call[c].op = "create" /\ nextId > MaxServerId
    /\ Return(c, "failed")
    /\ UNCHANGED <<served, nextId>>

\* The one request of a create, update or delete.
RequestById(c) ==
    /\ pc[c] = "request"
    /\ CreateById(c) \/ ChangeById(c) \/ NotFound(c)
    /\ UNCHANGED <<kind, listed, heard>>

CloudflareRequest(c)   == kind = "cloudflare" /\ RequestById(c)
DigitalOceanRequest(c) == kind = "digitalocean" /\ RequestById(c)
RestRequest(c)         == kind = "generic_rest" /\ RequestById(c)
SubprocessRequest(c)   == kind = "subprocess" /\ RequestById(c)

\* callSubprocess: read and waitpid have no timeout, so a child that says nothing
\* keeps the call until somebody kills it.
ChildHangs(c) ==
    /\ kind = "subprocess" /\ pc[c] \in {"page", "request"}
    /\ Goto(c, "hung")
    /\ UNCHANGED <<server, listed, heard>>

ChildKilled(c) ==
    /\ pc[c] = "hung"
    /\ Return(c, "failed")
    /\ UNCHANGED <<server, listed, heard>>

-----------------------------------------------------------------------------
(* AdGuard Home: a flat list of rewrites, an update is a delete and a create *)

Others(c) == {r \in served : ~Named(c, r)}

\* deleteRecord, first half of updateRecord
AghRemove(c) ==
    /\ pc[c] = "remove"
    /\ served' = Others(c)
    /\ Goto(c, "request") \/ Return(c, "failed")
    /\ UNCHANGED <<kind, nextId, listed, heard>>

\* createRecord, second half of updateRecord
AghCreate(c) ==
    /\ kind = "adguardhome" /\ pc[c] = "request" /\ call[c].op # "delete"
    /\ Reply(c, served \cup {[id |-> <<call[c].key, call[c].val>>, key |-> call[c].key,
                              val |-> call[c].val, ttl |-> 0, off |-> FALSE]})
    /\ UNCHANGED <<kind, nextId, listed, heard>>

AghDelete(c) ==
    /\ kind = "adguardhome" /\ pc[c] = "request" /\ call[c].op = "delete"
    /\ Reply(c, Others(c))
    /\ UNCHANGED <<kind, nextId, listed, heard>>

-----------------------------------------------------------------------------
(* PowerDNS: the zone is listed and the RRset of the key replaced *)

\* listRecords inside another call.  A delete ends if the record is not listed.
PdnsFetch(c) ==
    /\ pc[c] = "list"
    /\ listed' = [listed EXCEPT ![c] = Enabled(served)]
    /\ IF call[c].op = "delete" /\ \A r \in Enabled(served) : ~Named(c, r)
       THEN Return(c, "failed")
       ELSE Goto(c, "request")
    /\ UNCHANGED <<server, heard>>

\* listRecords, which passes over disabled records.
PdnsList(c) == kind = "powerdns" /\ (ListAll(c) \/ PdnsFetch(c))

\* createRecord goes on without the listing if that fails.
PdnsUnlisted(c) ==
    /\ pc[c] = "list" /\ call[c].op = "create"
    /\ Goto(c, "request")
    /\ heard' = [heard EXCEPT ![c] = FALSE]
    /\ UNCHANGED <<server, listed>>

Siblings(c) == {r \in listed[c] : r.key = call[c].key}

\* The PATCH: all records of the key go, disabled ones too, and vals come.
Patch(c, op, vals, t) ==
    /\ kind = "powerdns" /\ pc[c] = "request" /\ call[c].op = op
    /\ Reply(c, {r \in served : r.key # call[c].key}
                \cup {[id |-> <<call[c].key, v>>, key |-> call[c].key, val |-> v,
                       ttl |-> t, off |-> FALSE] : v \in vals})
    /\ listed' = [listed EXCEPT ![c] = {}]
    /\ UNCHANGED <<kind, nextId, heard>>

\* Mutant of PdnsCreate: the RRset is the new record.
PdnsCreateAlone(c) == Patch(c, "create", {call[c].val}, call[c].ttl)

PdnsCreate(c) == Patch(c, "create", {r.val : r \in Siblings(c)} \cup {call[c].val}, call[c].ttl)

\* If the old value is not listed, the others are written again.
PdnsUpdate(c) ==
    Patch(c, "update",
          {IF Named(c, r) THEN call[c].val ELSE r.val : r \in Siblings(c)}, call[c].ttl)

\* The TTL is that of the first record of the zone's listing, of whatever key.
PdnsDelete(c) ==
    \E first \in listed[c] :
        Patch(c, "delete", {r.val : r \in {s \in Siblings(c) : ~Named(c, s)}}, first.ttl)

-----------------------------------------------------------------------------
(* Other clients of the server *)

Outside ==
    /\ \/ \E r \in served : served' = served \ {r} /\ UNCHANGED nextId
       \/ /\ ById => nextId <= MaxServerId
          /\ \E k \in Names, v \in Vals, t \in Ttls, off \in BOOLEAN :
                LET id == IF ById THEN nextId ELSE <<k, v>>
                IN  /\ off => kind = "powerdns"
                    /\ kind = "adguardhome" => t = 0
                    /\ \A r \in served : r.id # id /\ (kind = "powerdns" /\ r.key = k => r.ttl = t)
                    /\ served' = served \cup {[id |-> id, key |-> k, val |-> v, ttl |-> t, off |-> off]}
          /\ nextId' = IF ById THEN nextId + 1 ELSE nextId
    /\ UNCHANGED <<kind, mine, heard>>

Work(c) ==
    \/ CloudflareResolve(c) \/ CloudflareList(c) \/ CloudflareRequest(c)
    \/ DigitalOceanList(c) \/ DigitalOceanRequest(c)
    \/ RestResolve(c) \/ RestList(c) \/ RestRequest(c)
    \/ SubprocessList(c) \/ SubprocessRequest(c)
    \/ AghList(c) \/ AghRemove(c) \/ AghCreate(c) \/ AghDelete(c)
    \/ PdnsList(c) \/ PdnsCreate(c) \/ PdnsUpdate(c) \/ PdnsDelete(c)

\* What keep and clean remember; a client that moves has not been disturbed.
Remember ==
    /\ keep' = [c \in Clients |->
          IF pc'[c] = "idle" THEN {}
          ELSE IF pc[c] = "idle" THEN View(served)
          ELSE IF pc[c] = pc'[c] THEN keep[c] \cap View(served')
          ELSE keep[c]]
    /\ clean' = [c \in Clients |->
          /\ pc'[c] # "idle"
          /\ pc[c] # "idle" => clean[c] /\ (pc[c] = pc'[c] => served' = served)]

Step ==
    \/ Outside
    \/ \E c \in Clients :
          \/ Begin(c) \/ Work(c)
          \/ Fails(c) \/ PdnsUnlisted(c) \/ ChildHangs(c) \/ ChildKilled(c)

ApiNext == Step /\ Remember

ApiSpec == ApiInit /\ [][ApiNext]_apiVars

\* Requests have timeouts: a call goes on, if not by its answer then by Fails.
\* Nothing has to fail, and nobody has to make a call or to kill a child.
CallsFairness == \A c \in Clients : WF_apiVars(Work(c) /\ Remember)

ApiFairSpec == ApiSpec /\ CallsFairness

-----------------------------------------------------------------------------
(* Properties *)

\* What is left when c has taken its own record away from recs.
Rest(c, recs) ==
    IF call[c].op \in {"update", "delete"} THEN {r \in recs : r.id # call[c].id} ELSE recs

\* c's call, done to recs, gives after.
Done(c, recs, after) ==
    IF call[c].op \in {"create", "update"}
    THEN \E id \in ServerIds : after = Rest(c, recs) \cup {[id |-> id, key |-> call[c].key, val |-> call[c].val]}
    ELSE after = Rest(c, recs)

\* What a push relies on (Executed and Failed of Deployment): a call that nobody
\* disturbed and that says it succeeded has done its work and nothing else, one
\* that says it failed has done nothing, all, or an update's first half; and a
\* listing is what is served.
KeepsPromise ==
    [][\A c \in Clients :
          pc[c] # "idle" /\ pc'[c] = "idle" /\ clean[c] /\ heard'[c] =>
             /\ \/ Done(c, keep[c], View(served'))
                \/ /\ answer'[c] = "failed"
                   /\ View(served') \in {keep[c], Rest(c, keep[c])}
             /\ call[c].op = "list" /\ answer'[c] = "ok" => View(listed'[c]) = keep[c]]_apiVars

\* What a server has is a set of records with ids of their own, and a call does to it
\* what it says it did.
CallsKeepPromise == []ApiTypeOK /\ KeepsPromise

\* However the calls of several clients interleave, none takes away a record that
\* was there when it began, but the one it is about.  PowerDNS needs its listing
\* for that (see heard).
NothingElseLost ==
    [][\A c \in Clients :
          pc[c] # "idle" /\ pc'[c] # pc[c] /\ heard[c] => Rest(c, keep[c]) \subseteq View(served')]_apiVars

\* Every call returns, unless its child process hangs.
CallsReturn == \A c \in Clients : pc[c] # "idle" ~> pc[c] \in {"idle", "hung"}
=============================================================================
