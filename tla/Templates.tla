-------------------------------- MODULE Templates --------------------------------
(***************************************************************************)
(* Requests that write many records of a zone at once: snippets (named     *)
(* lists of records), zone templates (lists of snippets a zone is linked   *)
(* to) and batches.  Every repository call is a transaction of its own, so *)
(* a request is a sequence of steps and other requests run between them.   *)
(*                                                                         *)
(* One zone; its rows are those of Records.  What a request has read or is *)
(* still to write is in its entry of `calls'.                              *)
(***************************************************************************)
EXTENDS Integers, Sequences, FiniteSets

CONSTANTS
    Snippets,     \* ids of snippets
    TemplateIds,  \* ids of templates
    Slots,        \* (name, type) pairs
    Worths,       \* value, TTL and priority together
    Operators,    \* threads that serve requests
    NoRow,         \* no such row; a nullable column that is null
    RecordLists,  \* lists of records that requests bring
    SnippetLists, \* lists of snippets that requests bring
    MaxRowId,     \* bound on the ids of records
    MaxRequests   \* bound on the requests

ASSUME TemplatesAssumption ==
    /\ Worths \subseteq Nat /\ MaxRowId \in Nat /\ MaxRequests \in Nat
    /\ RecordLists \subseteq Seq([key : Slots, content : Worths])
    /\ SnippetLists \subseteq Seq(Snippets)
    /\ NoRow \notin Snippets /\ NoRow \notin TemplateIds
    /\ NoRow \notin RecordLists /\ NoRow \notin SnippetLists /\ NoRow # <<>>

ZoneRows == INSTANCE Records WITH Keys <- Slots, Contents <- Worths, MaxId <- MaxRowId

VARIABLES
    snippets,   \* snippets[s]: the records of the snippet, in order, or NoRow
    templates,  \* templates[t]: the snippets of the template, in order, or NoRow
    zone,       \* template_id and template_check_pending of the zone
    held,       \* the records of the zone
    lastId,     \* the sequence of `records'
    calls,      \* calls[o]: the request that thread o serves
    asked,      \* how many requests there were
    reviewed    \* the snippets that the request which cleared the mark had compared

templateVars == <<snippets, templates, zone, held, lastId, calls, asked, reviewed>>
shared       == <<snippets, templates, zone, held>>

Wanted == [key : Slots, content : Worths]
Write  == [key : Slots, content : Worths, how : {"create", "update", "either"}]

\* at: the next step, "idle" if there is none; writes: by their place in `expected';
\* alone: nothing was changed by others since the request began; before: the records
\* it then found.
Idle == [what |-> "none", at |-> "idle", of |-> NoRow, list |-> <<>>, seen |-> <<>>,
         expected |-> <<>>, keys |-> {}, ids |-> {}, writes |-> <<>>, current |-> {},
         alone |-> TRUE, before |-> {}]

TemplatesTypeOK ==
    /\ \A s \in Snippets : snippets[s] # NoRow =>
           \A i \in DOMAIN snippets[s] : snippets[s][i] \in Wanted
    /\ \A t \in TemplateIds : templates[t] # NoRow =>
           \A i \in DOMAIN templates[t] : snippets[templates[t][i]] # NoRow
    /\ zone.link = NoRow \/ templates[zone.link] # NoRow
    /\ zone.pending \in BOOLEAN
    /\ held \subseteq ZoneRows!Row /\ lastId \in 0 .. MaxRowId
    /\ \A o \in Operators : \A i \in DOMAIN calls[o].writes : calls[o].writes[i] \in Write

\* There are snippets; the zone is linked to a template, or there is none.
TemplatesInit ==
    /\ snippets \in [Snippets -> RecordLists]
    /\ \E t \in TemplateIds \cup {NoRow}, l \in SnippetLists :
          /\ zone = [link |-> t, pending |-> t # NoRow]
          /\ templates = [u \in TemplateIds |-> IF u = t THEN l ELSE NoRow]
    /\ held = {} /\ lastId = 0
    /\ calls = [o \in Operators |-> Idle] /\ asked = 0 /\ reviewed = NoRow

----------------------------------------------------------------------------
(* The steps of a request. *)

Disturbed(c) == [c EXCEPT !.alone = FALSE, !.before = {}, !.seen = <<>>]

\* The request of o goes on as c; what it has changed, the others no longer
\* see as it was when they began.
Goes(o, c) ==
    calls' = IF shared' = shared THEN [calls EXCEPT ![o] = c]
             ELSE [p \in Operators |->
                      IF p = o THEN c
                      ELSE IF calls[p] = Idle THEN Idle ELSE Disturbed(calls[p])]

Over(o) == Goes(o, Idle)

\* A request comes in.
Asks(o) == calls[o] = Idle /\ asked < MaxRequests /\ asked' = asked + 1

AsWrite(r, how) == [key |-> r.key, content |-> r.content, how |-> how]

\* The first step of a request that has more.
Begins(what, at) == [Idle EXCEPT !.what = what, !.at = at, !.before = held]

At(o, at) == calls[o].at = at /\ UNCHANGED asked

\* What comes after the snippets are read, and after the last write.
Onward(c) ==
    IF c.at = "expect" /\ c.list = <<>>
    THEN CASE c.what = "apply" -> [c EXCEPT !.at = "compare"]
           [] c.what = "link"  -> [c EXCEPT !.at = "link"]
           [] OTHER -> IF c.expected = <<>> THEN Idle
                       ELSE [c EXCEPT !.at = "write", !.writes =
                                [i \in DOMAIN c.expected |-> AsWrite(c.expected[i], "create")]]
    ELSE IF c.at = "write" /\ DOMAIN c.writes = {}
    THEN IF c.what = "apply" THEN [c EXCEPT !.at = "clear"] ELSE Idle
    ELSE c

InTemplate(s) ==
    \E t \in TemplateIds : templates[t] # NoRow /\ \E i \in DOMAIN templates[t] : templates[t][i] = s

\* Mutant of Flagged: the zones keep their mark.
FlaggedNot(t) == zone

\* ZoneTemplateRepository::flagLinkedZones
Flagged(t) == IF zone.link = t THEN [zone EXCEPT !.pending = TRUE] ELSE zone

----------------------------------------------------------------------------
(* Snippets. *)

\* POST /snippets: the row first, its records in a second transaction.
NewSnippet(o, s, rs) ==
    /\ Asks(o) /\ snippets[s] = NoRow
    /\ snippets' = [snippets EXCEPT ![s] = <<>>]
    /\ UNCHANGED <<templates, zone, held, lastId, reviewed>>
    /\ Goes(o, [Begins("snippet put", "replace") EXCEPT !.of = s, !.expected = rs])

\* PUT /snippets/<id>: the zones of the templates that use it are not marked.
PutSnippet(o, s, rs) ==
    /\ Asks(o) /\ snippets[s] # NoRow
    /\ UNCHANGED shared
    /\ UNCHANGED <<lastId, reviewed>>
    /\ Goes(o, [Begins("snippet put", "replace") EXCEPT !.of = s, !.expected = rs])

\* The records of a snippet that is no longer there cannot be inserted.
ReplaceRecords(o) ==
    /\ At(o, "replace")
    /\ LET s == calls[o].of
       IN  snippets' = IF snippets[s] = NoRow THEN snippets
                       ELSE [snippets EXCEPT ![s] = calls[o].expected]
    /\ UNCHANGED <<templates, zone, held, lastId, reviewed>>
    /\ Over(o)

\* zone_template_snippets holds the snippet fast.
Deletable(s) == snippets[s] # NoRow /\ ~InTemplate(s)

DeleteSnippet(o, s) ==
    /\ Asks(o) /\ Deletable(s)
    /\ snippets' = [snippets EXCEPT ![s] = NoRow]
    /\ UNCHANGED <<templates, zone, held, lastId, reviewed>>
    /\ Over(o)

----------------------------------------------------------------------------
(* Templates; a request without a list of snippets leaves the list alone. *)

\* POST /templates
NewTemplate(o, t, l) ==
    /\ Asks(o) /\ templates[t] = NoRow
    /\ templates' = [templates EXCEPT ![t] = <<>>]
    /\ UNCHANGED <<snippets, zone, held, lastId, reviewed>>
    /\ Goes(o, IF l = NoRow THEN Idle
               ELSE [Begins("template put", "set") EXCEPT !.of = t, !.list = l])

\* PUT /templates/<id>: the name and the rest; then the mark, the list, the mark.
PutTemplate(o, t, l) ==
    /\ Asks(o) /\ templates[t] # NoRow
    /\ UNCHANGED shared
    /\ UNCHANGED <<lastId, reviewed>>
    /\ Goes(o, [Begins("template put", "flag first") EXCEPT !.of = t, !.list = l])

FlagFirst(o) ==
    /\ At(o, "flag first")
    /\ zone' = Flagged(calls[o].of)
    /\ UNCHANGED <<snippets, templates, held, lastId, reviewed>>
    /\ Goes(o, IF calls[o].list = NoRow THEN Idle ELSE [calls[o] EXCEPT !.at = "set"])

\* A template or a snippet that is gone ends the request: nothing is written.
SetSnippets(o) ==
    LET t  == calls[o].of
        l  == calls[o].list
        ok == templates[t] # NoRow /\ \A i \in DOMAIN l : snippets[l[i]] # NoRow
    IN  /\ At(o, "set")
        /\ templates' = IF ok THEN [templates EXCEPT ![t] = l] ELSE templates
        /\ UNCHANGED <<snippets, zone, held, lastId, reviewed>>
        /\ IF ok THEN Goes(o, [calls[o] EXCEPT !.at = "flag"]) ELSE Over(o)

Flag(o) ==
    /\ At(o, "flag")
    /\ zone' = Flagged(calls[o].of)
    /\ UNCHANGED <<snippets, templates, held, lastId, reviewed>>
    /\ Over(o)

\* zones.template_id is set to null with the template; the mark stays.
Unlinked(t) == IF zone.link = t THEN [zone EXCEPT !.link = NoRow] ELSE zone

DeleteTemplate(o, t) ==
    /\ Asks(o) /\ templates[t] # NoRow
    /\ templates' = [templates EXCEPT ![t] = NoRow]
    /\ zone' = Unlinked(t)
    /\ UNCHANGED <<snippets, held, lastId, reviewed>>
    /\ Over(o)

\* POST /zones/<id>/template/push, with link or without.
PushTemplate(o, t, link) ==
    /\ Asks(o) /\ templates[t] # NoRow
    /\ UNCHANGED shared
    /\ UNCHANGED <<lastId, reviewed>>
    /\ Goes(o, Onward([Begins(IF link THEN "link" ELSE "once", "expect")
                           EXCEPT !.of = t, !.list = templates[t]]))

\* The link, and the mark with it; a template that is gone cannot be linked.
Link(o) ==
    /\ At(o, "link")
    /\ zone' = IF templates[calls[o].of] = NoRow THEN zone
               ELSE [link |-> calls[o].of, pending |-> TRUE]
    /\ UNCHANGED <<snippets, templates, held, lastId, reviewed>>
    /\ Over(o)

\* DELETE /zones/<id>/template
Unlink(o) ==
    /\ Asks(o)
    /\ zone' = [link |-> NoRow, pending |-> FALSE]
    /\ UNCHANGED <<snippets, templates, held, lastId, reviewed>>
    /\ Goes(o, Begins("unlink", "clear"))

----------------------------------------------------------------------------
(* Writing what a template or a snippet lists. *)

\* POST /zones/<id>/template/apply, for the records the operator has picked.
ApplyTemplate(o, keys) ==
    /\ Asks(o) /\ zone.link # NoRow
    /\ UNCHANGED shared
    /\ UNCHANGED <<lastId, reviewed>>
    /\ Goes(o, [Begins("apply", "template") EXCEPT !.of = zone.link, !.keys = keys])

FindTemplate(o) ==
    LET l == templates[calls[o].of]
    IN  /\ At(o, "template")
        /\ UNCHANGED shared
        /\ UNCHANGED <<lastId, reviewed>>
        /\ Goes(o, IF l = NoRow THEN Idle
                   ELSE Onward([calls[o] EXCEPT !.at = "expect", !.list = l, !.seen = l]))

\* buildExpectedRecords: the snippets are read one by one; one that is gone has no records.
Expect(o) ==
    LET rs == snippets[Head(calls[o].list)]
    IN  /\ At(o, "expect")
        /\ UNCHANGED shared
        /\ UNCHANGED <<lastId, reviewed>>
        /\ Goes(o, Onward([calls[o] EXCEPT !.list = Tail(@),
                                           !.expected = IF rs = NoRow THEN @ ELSE @ \o rs]))

Rows(rs, k) == {r \in rs : r.key = k}
Earliest(rs) == CHOOSE r \in rs : \A q \in rs : r.id <= q.id
Latest(rs)   == CHOOSE r \in rs : \A q \in rs : r.id >= q.id

\* Mutant of Differs: only a record that is missing is listed.
DiffersMissing(r, rs) == Rows(rs, r.key) = {}

\* A record of the template is listed if the zone has none of its name and
\* type, or if the latest of those is another.  Records marked for deletion count.
Differs(r, rs) == Rows(rs, r.key) = {} \/ Latest(Rows(rs, r.key)).content # r.content

\* TemplateEngine::computeComplianceDiff, and of that what the operator has picked.
ComplianceDiff(expected, rs, keys) ==
    LET Listed(r) == r.key \in keys /\ Differs(r, rs)
    IN  [i \in {j \in DOMAIN expected : Listed(expected[j])} |->
            AsWrite(expected[i], IF Rows(rs, expected[i].key) = {} THEN "create" ELSE "update")]

Compare(o) ==
    /\ At(o, "compare")
    /\ UNCHANGED shared
    /\ UNCHANGED <<lastId, reviewed>>
    /\ Goes(o, [calls[o] EXCEPT !.at = "list",
                    !.writes = ComplianceDiff(calls[o].expected, held, calls[o].keys)])

\* POST /zones/<id>/snippets/<id>/apply
ApplySnippet(o, s) ==
    /\ Asks(o) /\ snippets[s] # NoRow
    /\ UNCHANGED shared
    /\ UNCHANGED <<lastId, reviewed>>
    /\ Goes(o, [Begins("snippet", "list") EXCEPT !.of = s, !.keys = Slots, !.expected = snippets[s],
                    !.writes = [i \in DOMAIN snippets[s] |-> AsWrite(snippets[s][i], "either")]])

\* The records are listed, once, to find those to update.
List(o) ==
    /\ At(o, "list")
    /\ UNCHANGED shared
    /\ UNCHANGED <<lastId, reviewed>>
    /\ Goes(o, Onward([calls[o] EXCEPT !.at = "write", !.current = held]))

\* The writes are done in the order of the list.
First(is) == CHOOSE i \in is : \A j \in is : i <= j

\* One record: a new one, or the first of its name and type that was listed.
\* If that one is gone the request ends here.
WriteNext(o) ==
    LET c     == calls[o]
        i     == First(DOMAIN c.writes)
        w     == c.writes[i]
        known == Rows(c.current, w.key)
        new   == w.how = "create" \/ (w.how = "either" /\ known = {})
        next  == Onward([c EXCEPT !.writes = [j \in DOMAIN @ \ {i} |-> @[j]]])
    IN  /\ At(o, "write")
        /\ new => lastId < MaxRowId
        /\ lastId' = IF new THEN lastId + 1 ELSE lastId
        /\ held' = IF new THEN ZoneRows!Create(held, lastId + 1, w.key, w.content)
                   ELSE IF known = {} THEN held
                   ELSE ZoneRows!Update(held, Earliest(known).id, w.key, w.content)
        /\ UNCHANGED <<snippets, templates, zone, reviewed>>
        /\ Goes(o, IF new \/ known = {} \/ ZoneRows!HasId(held, Earliest(known).id)
                   THEN next ELSE Idle)

\* The mark is cleared, whatever was picked and whatever has changed meanwhile.
Clear(o) ==
    /\ At(o, "clear")
    /\ zone' = [zone EXCEPT !.pending = FALSE]
    /\ reviewed' = IF calls[o].what = "apply" /\ calls[o].alone THEN calls[o].seen ELSE NoRow
    /\ UNCHANGED <<snippets, templates, held, lastId>>
    /\ Over(o)

----------------------------------------------------------------------------
(* What else changes the records. *)

\* RecordRepository::createBatch
Added(rs) == {ZoneRows!NewRow(lastId + i, rs[i].key, rs[i].content) : i \in DOMAIN rs}

\* POST /zones/<id>/records/batch: all of them or none.
BatchCreate(o, rs) ==
    /\ Asks(o) /\ rs # <<>> /\ lastId + Len(rs) <= MaxRowId
    /\ held' = held \cup Added(rs)
    /\ lastId' = lastId + Len(rs)
    /\ UNCHANGED <<snippets, templates, zone, reviewed>>
    /\ Over(o)

\* RecordRepository::batchUpdate
Merged(ids, w) == {IF r.id \in ids THEN [r EXCEPT !.content = w] ELSE r : r \in held}

\* PUT /zones/<id>/records/batch: the updates in one transaction, then the
\* deletions in another; an id that is not there undoes its transaction and
\* ends the request.
BatchUpdate(o, updates, w, deletes) ==
    LET ok == \A i \in updates : ZoneRows!HasId(held, i)
    IN  /\ Asks(o) /\ updates \cup deletes # {}
        /\ held' = IF ok THEN Merged(updates, w) ELSE held
        /\ UNCHANGED <<snippets, templates, zone, lastId, reviewed>>
        /\ Goes(o, IF ok /\ deletes # {} THEN [Begins("batch", "delete") EXCEPT !.ids = deletes]
                   ELSE Idle)

\* RecordRepository::batchSoftDelete
BatchDelete(o) ==
    LET ids == calls[o].ids
    IN  /\ At(o, "delete")
        /\ held' = IF \A i \in ids : ZoneRows!HasId(held, i)
                   THEN {IF r.id \in ids THEN [r EXCEPT !.pending = TRUE] ELSE r : r \in held}
                   ELSE held
        /\ UNCHANGED <<snippets, templates, zone, lastId, reviewed>>
        /\ Over(o)

\* PUT /zones/<id>/records/<id>
EditRow(o, i, k, w) ==
    /\ Asks(o) /\ ZoneRows!HasId(held, i)
    /\ held' = ZoneRows!Update(held, i, k, w)
    /\ UNCHANGED <<snippets, templates, zone, lastId, reviewed>>
    /\ Over(o)

\* A push has taken away what was marked.
PurgeRows(o) ==
    /\ Asks(o) /\ ZoneRows!Pending(held) # {}
    /\ held' = ZoneRows!HardDeletePending(held)
    /\ UNCHANGED <<snippets, templates, zone, lastId, reviewed>>
    /\ Over(o)

----------------------------------------------------------------------------
SnippetRequest(o) ==
    \/ \E s \in Snippets : DeleteSnippet(o, s) \/ ApplySnippet(o, s)
    \/ \E s \in Snippets, rs \in RecordLists : NewSnippet(o, s, rs) \/ PutSnippet(o, s, rs)

TemplateRequest(o) ==
    \/ \E t \in TemplateIds : DeleteTemplate(o, t) \/ \E b \in BOOLEAN : PushTemplate(o, t, b)
    \/ \E t \in TemplateIds, l \in SnippetLists \cup {NoRow} :
          NewTemplate(o, t, l) \/ PutTemplate(o, t, l)
    \/ Unlink(o)
    \/ \E keys \in SUBSET Slots : ApplyTemplate(o, keys)

RecordRequest(o) ==
    \/ \E rs \in RecordLists : BatchCreate(o, rs)
    \/ \E i, j \in 1 .. lastId + 1, w \in Worths :
          \E updates \in {{}, {i}}, deletes \in {{}, {j}} : BatchUpdate(o, updates, w, deletes)
    \/ \E i \in ZoneRows!Ids, k \in Slots, w \in Worths : EditRow(o, i, k, w)
    \/ PurgeRows(o)

Continue(o) ==
    \/ ReplaceRecords(o) \/ FlagFirst(o) \/ SetSnippets(o) \/ Flag(o) \/ Link(o)
    \/ FindTemplate(o) \/ Expect(o) \/ Compare(o) \/ List(o) \/ WriteNext(o) \/ Clear(o)
    \/ BatchDelete(o)

TemplatesNext ==
    \E o \in Operators :
        SnippetRequest(o) \/ TemplateRequest(o) \/ RecordRequest(o) \/ Continue(o)

TemplatesSpec == TemplatesInit /\ [][TemplatesNext]_templateVars

----------------------------------------------------------------------------
(* Properties. *)

\* A zone that is linked and not marked was compared with the list of snippets
\* its template has now: no edit of the list and no other order of the steps
\* of requests leaves the zone unmarked, unless another request ran within the
\* one that cleared the mark (reviewed is NoRow then).
FlagTells ==
    (/\ \A o \in Operators : calls[o] = Idle
     /\ zone.link # NoRow /\ ~zone.pending /\ reviewed # NoRow) =>
        reviewed = templates[zone.link]

\* No reference leads to a template, a snippet or a zone that is gone, and a zone says so
\* when its template has changed under it.
TemplatesInv == TemplatesTypeOK /\ FlagTells

\* What a request that writes records had to write: at most one of a kind, in
\* a zone that has at most one of the kind.
OneOfAKind(c) ==
    /\ \A i, j \in DOMAIN c.expected : c.expected[i].key = c.expected[j].key => i = j
    /\ \A r, q \in c.before : r.key = q.key => r = q

\* A template or a snippet that is applied while nobody else changes anything
\* is in the zone afterwards: each record that was picked exactly once and as it
\* is listed, and every other record of the zone as it was.
AppliedIsThere ==
    [][\A o \in Operators :
         LET c    == calls[o]
             mine == {i \in DOMAIN c.expected : c.expected[i].key \in c.keys}
         IN  (/\ c.what \in {"apply", "snippet"} /\ c.at \in {"write", "clear"}
              /\ calls'[o] = Idle /\ c.alone /\ OneOfAKind(c)) =>
             /\ \A i \in mine : \E r \in held' :
                   Rows(held', c.expected[i].key) = {r} /\ r.content = c.expected[i].content
             /\ \A k \in Slots : (\A i \in mine : c.expected[i].key # k) =>
                   Rows(held', k) = Rows(c.before, k)]_templateVars
=============================================================================
