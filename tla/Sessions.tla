-------------------------------- MODULE Sessions --------------------------------
(***************************************************************************)
(* Who is let in: logins, session rows, API keys and the flag that         *)
(* disables a user, as the transactions of concurrent requests and of the  *)
(* maintenance thread.  Each step of a request is one transaction; the     *)
(* clock may move, and others may act, between any two.                    *)
(*                                                                         *)
(* A token is known by its user and its second of issue, because the       *)
(* signature of a local login covers nothing else that differs.            *)
(***************************************************************************)
EXTENDS Integers, FiniteSets

CONSTANTS
    None,
    Users, Admins,  \* the accounts; those whose role lets them edit users
    Keys,           \* bound: API keys that are ever made
    Requests,       \* threads of the server
    KeyLives,       \* for how long keys are asked to be good; None: for ever
    Ttl, AbsTtl,    \* sliding and absolute lifetime
    Grace,          \* until a key that is given up is removed
    MaxTokens,      \* bound: a login comes only while fewer are held
    MaxNow          \* bound: the clock

ASSUME SessionsAssumption ==
    /\ Admins \subseteq Users
    /\ Ttl \in Nat \ {0} /\ AbsTtl \in Nat /\ Ttl <= AbsTtl
    /\ KeyLives \subseteq Nat \cup {None}
    /\ Grace \in Nat /\ MaxNow \in Nat
    /\ Keys \cap [user : Users, iat : 0..MaxNow] = {}

VARIABLES
    now,
    active,   \* active[u]: users.is_active
    session,  \* the rows of sessions
    issued,   \* the tokens that clients hold
    key,      \* key[k]: its row of api_keys
    rq,       \* rq[r]: the request of thread r
    seen,     \* seen[r]: its credential was in force at some moment since it came
    owned     \* owned[r]: its user was active at some moment since it came

tables      == <<now, active, session, issued, key>>
sessionVars == <<now, active, session, issued, key, rq, seen, owned>>

-----------------------------------------------------------------------------
Times   == 0..MaxNow
Token   == [user : Users, iat : Times]
Session == [token : Token, exp : 0..(MaxNow + AbsTtl), abs : 0..(MaxNow + AbsTtl)]
KeyRow  == [user : Users, exp : Nat \cup {None}, del : 0..(MaxNow + Grace) \cup {None}]

\* A key that is not made yet, and one that is removed.
NoKey   == [state |-> "unborn"]
GoneKey == [state |-> "gone"]

AuthSteps == {"exists", "valid", "drop", "touch", "findkey", "late", "owner"}

Idle == [pc |-> "idle"]

\* A login: its user, or the token that is signed.  Any other request: its credential
\* and whose that is; what it is to do is decided when it gets to it ("act").  Then a
\* flag to write or a key to drop.
Request ==
    [pc : {"find"}, user : Users] \cup [pc : {"store"}, token : Token]
    \cup [pc : AuthSteps \cup {"act"}, cred : Token \cup Keys, user : Users]
    \cup [pc : {"write"}, user : Users, about : Users, flag : BOOLEAN]
    \cup [pc : {"drop key"}, about : Keys]

Rows(t) == {s \in session : s.token = t}

SessionsTypeOK ==
    /\ now \in Times
    /\ active \in [Users -> BOOLEAN]
    /\ session \subseteq Session
    /\ \A s, t \in session : s.token = t.token => s = t
    /\ issued \subseteq Token
    /\ key \in [Keys -> KeyRow \cup {NoKey, GoneKey}]
    /\ rq \in [Requests -> Request \cup {Idle}]
    /\ seen \in [Requests -> BOOLEAN] /\ owned \in [Requests -> BOOLEAN]

SessionsInit ==
    /\ now = 0
    /\ active = [u \in Users |-> TRUE]
    /\ session = {}
    /\ issued = {}
    /\ key = [k \in Keys |-> NoKey]
    /\ rq = [r \in Requests |-> Idle]
    /\ seen = [r \in Requests |-> FALSE] /\ owned = [r \in Requests |-> FALSE]

-----------------------------------------------------------------------------
(* Steps of a request *)

IsToken(c) == c \notin Keys
OwnerOf(c) == IF IsToken(c) THEN c.user ELSE key[c].user
Held       == issued \cup {k \in Keys : key[k] \in KeyRow}

\* The credential is in force.
InForce(c) ==
    IF IsToken(c) THEN \E s \in Rows(c) : s.exp > now /\ s.abs > now
    ELSE key[c] \in KeyRow /\ (key[c].exp = None \/ now <= key[c].exp)

At(r, s)   == rq[r].pc = s
Goto(r, s) == rq' = [rq EXCEPT ![r].pc = s]
End(r)     == rq' = [rq EXCEPT ![r] = Idle]

\* The request ends with an error.
Refuse(r)     == End(r) /\ UNCHANGED tables
Proceed(r, s) == Goto(r, s) /\ UNCHANGED tables

\* Any step may meet a database that does not answer, or the end of the process.
Abort(r) == rq[r] # Idle /\ Refuse(r)

\* POST local/login comes in.
LoginBegin(r, u) ==
    /\ rq[r] = Idle
    /\ Cardinality({t \in issued : now <= t.iat + Ttl}) < MaxTokens
    /\ rq' = [rq EXCEPT ![r] = [pc |-> "find", user |-> u]]
    /\ UNCHANGED tables

-----------------------------------------------------------------------------
(* AuthService::authenticateLocal *)

\* findByUsername, and the token signed; the role is looked up between the two.
LoginFind(r) ==
    /\ At(r, "find")
    /\ IF active[rq[r].user]
       THEN rq' = [rq EXCEPT ![r] = [pc |-> "store", token |-> [user |-> @.user, iat |-> now]]]
       ELSE End(r)
    /\ UNCHANGED tables

\* The row of the session.  A token that has one already, of a login in the same
\* second, violates the unique hash.
LoginStore(r) ==
    /\ At(r, "store")
    /\ LET t == rq[r].token IN
         IF Rows(t) # {} THEN UNCHANGED <<session, issued>>
         ELSE /\ session' = session \cup {[token |-> t, exp |-> now + Ttl, abs |-> now + AbsTtl]}
              /\ issued' = issued \cup {t}
    /\ End(r)
    /\ UNCHANGED <<now, active, key>>

-----------------------------------------------------------------------------
(* AuthMiddleware *)

\* A request with credential c comes; HmacJwtSigner::verify looks at the expiry in
\* the token itself.
Begin(r, c) ==
    /\ rq[r] = Idle
    /\ IsToken(c) => now <= c.iat + Ttl
    /\ rq' = [rq EXCEPT ![r] = [pc |-> IF IsToken(c) THEN "exists" ELSE "findkey", cred |-> c,
                                user |-> OwnerOf(c)]]
    /\ UNCHANGED tables

\* SessionRepository::exists
Exists(r) ==
    /\ At(r, "exists")
    /\ IF Rows(rq[r].cred) # {} THEN Proceed(r, "valid") ELSE Refuse(r)

\* Mutant of Valid: the user's row is not looked at.
ValidNoUser(t) == \E s \in Rows(t) : s.exp > now /\ s.abs > now

\* SessionRepository::isValid
Valid(t) == active[t.user] /\ \E s \in Rows(t) : s.exp > now /\ s.abs > now

CheckValid(r) ==
    /\ At(r, "valid")
    /\ Proceed(r, IF Valid(rq[r].cred) THEN "touch" ELSE "drop")

\* deleteByHash
Drop(r) ==
    /\ At(r, "drop")
    /\ session' = session \ Rows(rq[r].cred)
    /\ End(r)
    /\ UNCHANGED <<now, active, issued, key>>

Earlier(a, b) == IF a < b THEN a ELSE b

\* Mutant of Touched: without the absolute limit.
TouchedFurther(t) == {[s EXCEPT !.exp = now + Ttl] : s \in Rows(t)}

\* SessionRepository::touch
Touched(t) == {[s EXCEPT !.exp = Earlier(now + Ttl, s.abs)] : s \in Rows(t)}

Touch(r) ==
    /\ At(r, "touch")
    /\ session' = (session \ Rows(rq[r].cred)) \cup Touched(rq[r].cred)
    /\ Goto(r, "act")
    /\ UNCHANGED <<now, active, issued, key>>

\* validateApiKey: findByHash.  revoked is never set, and delete_after not looked at.
FindKey(r) ==
    /\ At(r, "findkey")
    /\ LET k == key[rq[r].cred] IN
         IF k \notin KeyRow THEN Refuse(r)
         ELSE Proceed(r, IF k.exp # None /\ now > k.exp THEN "late" ELSE "owner")

Give(k) == [k EXCEPT !.del = now + Grace]

\* An expired key is given up, once more each time it is used.
LateKey(r) ==
    /\ At(r, "late")
    /\ key' = [key EXCEPT ![rq[r].cred] = IF @ \in KeyRow THEN Give(@) ELSE @]
    /\ End(r)
    /\ UNCHANGED <<now, active, session, issued>>

KeyOwner(r) ==
    /\ At(r, "owner")
    /\ IF active[rq[r].user] THEN Proceed(r, "act") ELSE Refuse(r)

-----------------------------------------------------------------------------
(* What the request is about *)

\* A request that changes nothing here.
Use(r) == At(r, "act") /\ Refuse(r)

\* POST local/logout
Logout(r) ==
    /\ At(r, "act") /\ IsToken(rq[r].cred)
    /\ session' = session \ Rows(rq[r].cred)
    /\ End(r)
    /\ UNCHANGED <<now, active, issued, key>>

ToWrite(r, u, flag) ==
    /\ rq' = [rq EXCEPT ![r] = [pc |-> "write", user |-> @.user, about |-> u, flag |-> flag]]
    /\ UNCHANGED tables

\* PUT profile, for the user himself, and PUT of a user without is_active read the
\* flag to write it back.
ReadFlag(r, u) ==
    /\ At(r, "act") /\ (u = rq[r].user \/ rq[r].user \in Admins)
    /\ ToWrite(r, u, active[u])

\* PUT of a user with is_active
AskFlag(r, u) ==
    /\ At(r, "act") /\ rq[r].user \in Admins
    /\ \E f \in BOOLEAN : ToWrite(r, u, f)

\* UserRepository::update
WriteFlag(r) ==
    /\ At(r, "write")
    /\ active' = [active EXCEPT ![rq[r].about] = rq[r].flag]
    /\ End(r)
    /\ UNCHANGED <<now, session, issued, key>>

\* DELETE of a user
Deactivate(r, u) ==
    /\ At(r, "act") /\ rq[r].user \in Admins
    /\ active' = [active EXCEPT ![u] = FALSE]
    /\ End(r)
    /\ UNCHANGED <<now, session, issued, key>>

\* POST api-keys, with an expiry or without.
NewKey(r) ==
    /\ At(r, "act")
    /\ \E k \in Keys, e \in {IF l = None THEN None ELSE now + l : l \in KeyLives} :
         /\ key[k] = NoKey
         /\ key' = [key EXCEPT ![k] = [user |-> rq[r].user, exp |-> e, del |-> None]]
    /\ End(r)
    /\ UNCHANGED <<now, active, session, issued>>

\* DELETE of an API key: it must be among those of the user that are not given up,
\* or the request is refused.  The branch for administrators asks for a role "admin";
\* the system's is called "Admin", so nobody gives up the key of another.
ListKeys(r, k) ==
    /\ At(r, "act")
    /\ key[k] \in KeyRow /\ key[k].user = rq[r].user /\ key[k].del = None
    /\ rq' = [rq EXCEPT ![r] = [pc |-> "drop key", about |-> k]]
    /\ UNCHANGED tables

\* scheduleDelete
DropKey(r) ==
    /\ At(r, "drop key")
    /\ key' = [key EXCEPT ![rq[r].about] = IF @ \in KeyRow THEN Give(@) ELSE @]
    /\ End(r)
    /\ UNCHANGED <<now, active, session, issued>>

-----------------------------------------------------------------------------
(* Clock and maintenance *)

\* The clock moves, and clients throw tokens away that verify would refuse.
Tick ==
    /\ now < MaxNow
    /\ now' = now + 1
    /\ issued' = {t \in issued : now' <= t.iat + Ttl}
    /\ UNCHANGED <<active, session, key, rq>>

\* Mutant of Expired: both limits must have passed.
ExpiredBoth(s) == s.exp < now /\ s.abs < now

Expired(s) == s.exp < now \/ s.abs < now

\* session-flush
PruneSessions ==
    /\ \E s \in session : Expired(s)
    /\ session' = {s \in session : ~Expired(s)}
    /\ UNCHANGED <<now, active, issued, key, rq>>

Due(k) == k \in KeyRow /\ k.del # None /\ k.del < now

\* api-key-cleanup
PruneKeys ==
    /\ \E k \in Keys : Due(key[k])
    /\ key' = [k \in Keys |-> IF Due(key[k]) THEN GoneKey ELSE key[k]]
    /\ UNCHANGED <<now, active, session, issued, rq>>

RequestStep(r) ==
    \/ \E u \in Users : LoginBegin(r, u)
    \/ LoginFind(r) \/ LoginStore(r)
    \/ \E c \in Held : Begin(r, c)
    \/ Exists(r) \/ CheckValid(r) \/ Drop(r) \/ Touch(r)
    \/ FindKey(r) \/ LateKey(r) \/ KeyOwner(r)
    \/ Use(r) \/ Logout(r) \/ NewKey(r) \/ \E k \in Keys : ListKeys(r, k)
    \/ \E u \in Users : ReadFlag(r, u) \/ AskFlag(r, u) \/ Deactivate(r, u)
    \/ WriteFlag(r) \/ DropKey(r)
    \/ Abort(r)

SessionsStep ==
    \/ \E r \in Requests : RequestStep(r)
    \/ Tick \/ PruneSessions \/ PruneKeys

\* What seen and owned remember of a request whose credential is being looked at.
Carries(r) == rq[r].pc \in AuthSteps

Remember ==
    /\ seen'  = [r \in Requests |-> Carries(r)' /\ ((Carries(r) /\ seen[r]) \/ InForce(rq[r].cred)')]
    /\ owned' = [r \in Requests |-> Carries(r)' /\ ((Carries(r) /\ owned[r]) \/ active'[rq'[r].user])]

SessionsNext == SessionsStep /\ Remember

SessionsSpec == SessionsInit /\ [][SessionsNext]_sessionVars

\* The maintenance thread comes round to both tasks; nobody has to send a request.
SessionsFairSpec ==
    /\ SessionsSpec
    /\ WF_sessionVars(PruneSessions /\ Remember)
    /\ WF_sessionVars(PruneKeys /\ Remember)

-----------------------------------------------------------------------------
(* Properties *)

\* However often a session is used, it ends with its absolute limit.
AbsoluteHolds == \A s \in session : s.exp <= s.abs

\* Sessions and keys are rows of their tables, one session to a token, none of them
\* longer than its absolute limit.
SessionsInv == SessionsTypeOK /\ AbsoluteHolds

\* A request that authentication lets through came with a credential that was in
\* force, and of a user who was active, at some moment since it came: logouts,
\* prunings and deactivations that were over before count.
LetInWasInForce ==
    [][\A r \in Requests :
          ~At(r, "act") /\ At(r, "act")' => seen[r] /\ owned[r]]_sessionVars

\* A session that is gone, by logout, expiry or pruning, comes back by a login only.
OnlyLoginAdmits ==
    [][\A t \in Token :
          Rows(t) = {} /\ Rows(t)' # {} => \E r \in Requests : At(r, "store") /\ rq[r].token = t]_sessionVars

\* Who is let in has logged in and has not been shut out since.
AdmitsInForce == LetInWasInForce /\ OnlyLoginAdmits

\* The rows of sessions that have run out go, unless a late touch prolongs one.
ExpiredGo ==
    \A t \in Token :
        (\E s \in Rows(t) : s.exp < now) ~> (\A s \in Rows(t) : s.exp >= now)

\* A key that is given up goes, unless it is given up again.
GivenUpGo ==
    \A k \in Keys :
        LET overdue == key[k] \in KeyRow /\ key[k].del # None /\ key[k].del < now
        IN  overdue ~> ~overdue

\* What has run out or was given up does not stay in the tables.
DeadRowsGo == ExpiredGo /\ GivenUpGo
=============================================================================
