----------------------------- MODULE Sessions_proofs -----------------------------
(***************************************************************************)
(* That nobody is let in whose session or key was not in force since the   *)
(* request came, for any number of users, keys, threads and any lifetimes. *)
(***************************************************************************)
EXTENDS Sessions, TLAPS

-----------------------------------------------------------------------------
(* What a request knows at each of its steps *)

CredRequest == [pc : AuthSteps \cup {"act"}, cred : Token \cup Keys, user : Users]

LEMMA Shapes ==
    ASSUME SessionsTypeOK, NEW r \in Requests
    PROVE  /\ rq[r].pc = "find" => rq[r] \in [pc : {"find"}, user : Users]
           /\ rq[r].pc = "store" => rq[r] \in [pc : {"store"}, token : Token]
           /\ rq[r].pc \in AuthSteps \cup {"act"} => rq[r] \in CredRequest
           /\ rq[r].pc = "write" =>
                rq[r] \in [pc : {"write"}, user : Users, about : Users, flag : BOOLEAN]
           /\ rq[r].pc = "drop key" => rq[r] \in [pc : {"drop key"}, about : Keys]
<1>1. \/ rq[r] \in [pc : {"find"}, user : Users]
      \/ rq[r] \in [pc : {"store"}, token : Token]
      \/ rq[r] \in CredRequest
      \/ rq[r] \in [pc : {"write"}, user : Users, about : Users, flag : BOOLEAN]
      \/ rq[r] \in [pc : {"drop key"}, about : Keys]
      \/ rq[r] = Idle
    BY DEF SessionsTypeOK, Request, CredRequest
<1>2. \A q \in CredRequest : q.pc \in AuthSteps \cup {"act"}
    BY DEF CredRequest
<1>3. \A q \in [pc : {"find"}, user : Users] : q.pc = "find"
    OBVIOUS
<1>4. \A q \in [pc : {"store"}, token : Token] : q.pc = "store"
    OBVIOUS
<1>5. \A q \in [pc : {"write"}, user : Users, about : Users, flag : BOOLEAN] : q.pc = "write"
    OBVIOUS
<1>6. \A q \in [pc : {"drop key"}, about : Keys] : q.pc = "drop key"
    OBVIOUS
<1>7. Idle.pc = "idle"
    BY DEF Idle
<1> HIDE DEF CredRequest
<1> QED BY <1>1, <1>2, <1>3, <1>4, <1>5, <1>6, <1>7 DEF AuthSteps

\* The request of thread r, which alone moved, is now q.
Moves(r, q) == rq' = [rq EXCEPT ![r] = q]

LEMMA MoveType ==
    ASSUME SessionsTypeOK, NEW r \in Requests, NEW q \in Request \cup {Idle}, Moves(r, q)
    PROVE  /\ rq' \in [Requests -> Request \cup {Idle}]
           /\ rq'[r] = q
           /\ \A t \in Requests \ {r} : rq'[t] = rq[t]
BY DEF SessionsTypeOK, Moves

\* Authentication goes on with the same credential.
LEMMA GotoMoves ==
    ASSUME SessionsTypeOK, NEW r \in Requests, NEW s \in AuthSteps \cup {"act"},
           rq[r].pc \in AuthSteps, Goto(r, s)
    PROVE  \E q \in CredRequest : /\ Moves(r, q)
                                  /\ q.pc = s /\ q.cred = rq[r].cred /\ q.user = rq[r].user
<1> DEFINE q == [rq[r] EXCEPT !.pc = s]
<1>1. rq[r] \in CredRequest
    BY Shapes
<1>2. q \in CredRequest /\ q.pc = s /\ q.cred = rq[r].cred /\ q.user = rq[r].user
    BY <1>1 DEF CredRequest
<1>3. Moves(r, q)
    BY DEF Goto, Moves, SessionsTypeOK
<1> QED BY <1>2, <1>3

LEMMA IsRequest == CredRequest \subseteq Request
BY DEF CredRequest, Request

LEMMA HeldCredential ==
    ASSUME SessionsTypeOK, NEW c \in Held
    PROVE  /\ c \in Token \cup Keys
           /\ OwnerOf(c) \in Users
           /\ IsToken(c) => c \in Token
           /\ ~IsToken(c) => c \in Keys
<1>1. CASE c \in issued
  <2>1. c \in Token /\ c \notin Keys
      BY <1>1, SessionsAssumption DEF SessionsTypeOK, Token, Times
  <2> QED BY <2>1 DEF OwnerOf, IsToken, Token
<1>2. CASE c \in Keys /\ key[c] \in KeyRow
    BY <1>2 DEF OwnerOf, IsToken, KeyRow
<1> QED BY <1>1, <1>2 DEF Held

\* What each step of a thread makes of its request
LEMMA RequestMoves ==
    ASSUME SessionsTypeOK, NEW r \in Requests, RequestStep(r)
    PROVE  \E q \in Request \cup {Idle} : Moves(r, q)
<1>1. CASE Moves(r, Idle)
    BY <1>1
<1>2. ASSUME NEW u \in Users, LoginBegin(r, u)
      PROVE  \E q \in Request \cup {Idle} : Moves(r, q)
  <2>1. [pc |-> "find", user |-> u] \in Request
      BY DEF Request
  <2> QED BY <1>2, <2>1 DEF LoginBegin, Moves
<1>3. CASE LoginFind(r) /\ ~Moves(r, Idle)
  <2>1. Moves(r, [pc |-> "store", token |-> [user |-> rq[r].user, iat |-> now]])
      BY <1>3 DEF LoginFind, End, Moves, SessionsTypeOK
  <2>2. [pc |-> "store", token |-> [user |-> rq[r].user, iat |-> now]] \in Request
      BY <1>3, Shapes DEF LoginFind, At, Request, Token, SessionsTypeOK
  <2> QED BY <2>1, <2>2
<1>4. ASSUME NEW c \in Held, Begin(r, c)
      PROVE  \E q \in Request \cup {Idle} : Moves(r, q)
  <2>1. PICK s \in AuthSteps : Moves(r, [pc |-> s, cred |-> c, user |-> OwnerOf(c)])
      BY <1>4 DEF Begin, Moves, AuthSteps
  <2>2. [pc |-> s, cred |-> c, user |-> OwnerOf(c)] \in CredRequest
      BY HeldCredential DEF CredRequest
  <2> QED BY <2>1, <2>2, IsRequest
<1>5. CASE Exists(r) \/ CheckValid(r) \/ Touch(r) \/ FindKey(r) \/ KeyOwner(r)
  <2>1. /\ rq[r].pc \in AuthSteps
        /\ Moves(r, Idle) \/ \E s \in AuthSteps \cup {"act"} : Goto(r, s)
      BY <1>5 DEF Exists, CheckValid, Touch, FindKey, KeyOwner, Refuse, Proceed, End, Moves,
         At, AuthSteps
  <2> QED BY <2>1, <1>1, GotoMoves, IsRequest
<1>6. CASE Drop(r) \/ LateKey(r) \/ LoginStore(r) \/ Use(r) \/ Logout(r) \/ NewKey(r)
           \/ WriteFlag(r) \/ DropKey(r) \/ Abort(r)
    BY <1>6, <1>1 DEF Drop, LateKey, LoginStore, Use, Logout, NewKey, WriteFlag, DropKey,
       Abort, Refuse, End, Moves
<1>7. ASSUME NEW u \in Users, ReadFlag(r, u) \/ AskFlag(r, u)
      PROVE  \E q \in Request \cup {Idle} : Moves(r, q)
  <2>1. rq[r].user \in Users
      BY <1>7, Shapes DEF ReadFlag, AskFlag, At, CredRequest
  <2>2. PICK f \in BOOLEAN :
          Moves(r, [pc |-> "write", user |-> rq[r].user, about |-> u, flag |-> f])
      BY <1>7 DEF ReadFlag, AskFlag, ToWrite, Moves, SessionsTypeOK
  <2>3. [pc |-> "write", user |-> rq[r].user, about |-> u, flag |-> f] \in Request
      BY <2>1 DEF Request
  <2> QED BY <2>2, <2>3
<1>8. ASSUME NEW u \in Users, Deactivate(r, u)
      PROVE  \E q \in Request \cup {Idle} : Moves(r, q)
    BY <1>8, <1>1 DEF Deactivate, End, Moves
<1>9. ASSUME NEW k \in Keys, ListKeys(r, k)
      PROVE  \E q \in Request \cup {Idle} : Moves(r, q)
  <2>1. [pc |-> "drop key", about |-> k] \in Request
      BY DEF Request
  <2> QED BY <1>9, <2>1 DEF ListKeys, Moves
<1> QED BY <1>2, <1>3, <1>4, <1>5, <1>6, <1>7, <1>8, <1>9, <1>1 DEF RequestStep

-----------------------------------------------------------------------------
(* The tables *)

TablesOK ==
    /\ now \in Times
    /\ active \in [Users -> BOOLEAN]
    /\ session \subseteq Session
    /\ \A s, t \in session : s.token = t.token => s = t
    /\ issued \subseteq Token
    /\ key \in [Keys -> KeyRow \cup {NoKey, GoneKey}]
    /\ AbsoluteHolds

LEMMA TypeSplits ==
    SessionsTypeOK /\ AbsoluteHolds <=>
        /\ TablesOK
        /\ rq \in [Requests -> Request \cup {Idle}]
        /\ seen \in [Requests -> BOOLEAN] /\ owned \in [Requests -> BOOLEAN]
BY DEF SessionsTypeOK, TablesOK

LEMMA Limits ==
    ASSUME TablesOK
    PROVE  /\ now + Ttl \in 0..(MaxNow + AbsTtl) /\ now + AbsTtl \in 0..(MaxNow + AbsTtl)
           /\ now + Grace \in 0..(MaxNow + Grace)
           /\ now + Ttl <= now + AbsTtl
BY SessionsAssumption DEF TablesOK, Times

\* A login adds a row only for a token that has none.
LEMMA StoreTables ==
    ASSUME SessionsTypeOK, TablesOK, NEW r \in Requests, LoginStore(r)
    PROVE  TablesOK'
<1> DEFINE t == rq[r].token
           new == [token |-> t, exp |-> now + Ttl, abs |-> now + AbsTtl]
<1>1. UNCHANGED <<now, active, key>>
    BY DEF LoginStore
<1>2. CASE UNCHANGED <<session, issued>>
    BY <1>1, <1>2 DEF TablesOK, AbsoluteHolds
<1>3. CASE Rows(t) = {} /\ session' = session \cup {new} /\ issued' = issued \cup {t}
  <2>1. t \in Token
      BY Shapes DEF LoginStore, At
  <2>2. new \in Session /\ new.token = t /\ new.exp <= new.abs
      BY <2>1, Limits DEF Session
  <2>3. \A s \in session : s.token # t
      BY <1>3 DEF Rows
  <2> HIDE DEF new, t
  <2> QED BY <1>1, <1>3, <2>1, <2>2, <2>3 DEF TablesOK, AbsoluteHolds
<1> QED BY <1>2, <1>3 DEF LoginStore

\* touch moves the sliding limit, and no further than the absolute one.
LEMMA TouchTables ==
    ASSUME SessionsTypeOK, TablesOK, NEW r \in Requests, Touch(r)
    PROVE  TablesOK'
<1> DEFINE t == rq[r].cred
           u(s) == [s EXCEPT !.exp = Earlier(now + Ttl, s.abs)]
<1>1. UNCHANGED <<now, active, issued, key>>
    BY DEF Touch
<1>2. session' = (session \ Rows(t)) \cup {u(s) : s \in Rows(t)}
    BY DEF Touch, Touched
<1>3. ASSUME NEW s \in session
      PROVE  u(s) \in Session /\ u(s).token = s.token /\ u(s).exp <= u(s).abs
  <2>1. s \in Session /\ s.abs \in 0..(MaxNow + AbsTtl)
      BY DEF TablesOK, Session
  <2>2. Earlier(now + Ttl, s.abs) \in 0..(MaxNow + AbsTtl) /\ Earlier(now + Ttl, s.abs) <= s.abs
      BY <2>1, Limits, SessionsAssumption DEF Earlier
  <2> QED BY <2>1, <2>2 DEF Session
<1> HIDE DEF u
<1>4. Rows(t) \subseteq session /\ \A s \in Rows(t) : s.token = t
    BY DEF Rows
<1>5. \A s \in session : s.token = t => s \in Rows(t)
    BY DEF Rows
<1>6. \A a, b \in session' : a.token = b.token => a = b
    BY <1>2, <1>3, <1>4, <1>5 DEF TablesOK
<1>7. session' \subseteq Session /\ AbsoluteHolds'
    BY <1>2, <1>3, <1>4 DEF TablesOK, AbsoluteHolds
<1> QED BY <1>1, <1>6, <1>7 DEF TablesOK

LEMMA GiveType ==
    ASSUME TablesOK, NEW k \in KeyRow
    PROVE  Give(k) \in KeyRow
BY Limits DEF Give, KeyRow

LEMMA RequestTables ==
    ASSUME SessionsTypeOK, AbsoluteHolds, NEW r \in Requests, RequestStep(r)
    PROVE  TablesOK'
<1>0. TablesOK
    BY TypeSplits
<1>1. CASE UNCHANGED tables
    BY <1>0, <1>1 DEF TablesOK, AbsoluteHolds, tables
<1>2. CASE LoginStore(r) \/ Touch(r)
    BY <1>0, <1>2, StoreTables, TouchTables
<1>3. CASE Drop(r) \/ Logout(r)
  <2>1. session' \subseteq session /\ UNCHANGED <<now, active, issued, key>>
      BY <1>3 DEF Drop, Logout
  <2> QED BY <1>0, <2>1 DEF TablesOK, AbsoluteHolds
<1>4. CASE LateKey(r) \/ DropKey(r)
  <2>1. UNCHANGED <<now, active, session, issued>>
      BY <1>4 DEF LateKey, DropKey
  <2>2. PICK k : key' = [key EXCEPT ![k] = IF key[k] \in KeyRow THEN Give(key[k]) ELSE key[k]]
      BY <1>0, <1>4 DEF LateKey, DropKey, TablesOK
  <2>3. key' \in [Keys -> KeyRow \cup {NoKey, GoneKey}]
      BY <1>0, <2>2, GiveType DEF TablesOK
  <2> QED BY <1>0, <2>1, <2>3 DEF TablesOK, AbsoluteHolds
<1>5. CASE NewKey(r)
  <2>1. UNCHANGED <<now, active, session, issued>>
      BY <1>5 DEF NewKey
  <2>2. PICK k \in Keys, l \in KeyLives :
          key' = [key EXCEPT ![k] = [user |-> rq[r].user,
                                     exp |-> IF l = None THEN None ELSE now + l, del |-> None]]
      BY <1>5 DEF NewKey
  <2>3. rq[r].user \in Users
      BY <1>5, Shapes DEF NewKey, At, CredRequest
  <2>4. (IF l = None THEN None ELSE now + l) \in Nat \cup {None}
      BY <1>0, SessionsAssumption DEF TablesOK, Times
  <2>5. key' \in [Keys -> KeyRow \cup {NoKey, GoneKey}]
      BY <1>0, <2>2, <2>3, <2>4 DEF TablesOK, KeyRow
  <2> QED BY <1>0, <2>1, <2>5 DEF TablesOK, AbsoluteHolds
<1>6. CASE WriteFlag(r)
  <2>1. rq[r].about \in Users /\ rq[r].flag \in BOOLEAN
      BY <1>6, Shapes DEF WriteFlag, At
  <2> QED BY <1>0, <1>6, <2>1 DEF WriteFlag, TablesOK, AbsoluteHolds
<1>7. ASSUME NEW u \in Users, Deactivate(r, u) PROVE TablesOK'
    BY <1>0, <1>7 DEF Deactivate, TablesOK, AbsoluteHolds
<1> QED BY <1>1, <1>2, <1>3, <1>4, <1>5, <1>6, <1>7 DEF RequestStep, LoginBegin, LoginFind,
       Begin, Exists, CheckValid, FindKey, KeyOwner, Use, ReadFlag, AskFlag, ToWrite, ListKeys,
       Abort, Refuse, Proceed

LEMMA OtherTables ==
    ASSUME SessionsTypeOK, AbsoluteHolds, Tick \/ PruneSessions \/ PruneKeys
    PROVE  TablesOK' /\ rq' = rq
<1>0. TablesOK
    BY TypeSplits
<1>1. CASE Tick
    BY <1>0, <1>1, SessionsAssumption DEF Tick, TablesOK, AbsoluteHolds, Times
<1>2. CASE PruneSessions
    BY <1>0, <1>2 DEF PruneSessions, TablesOK, AbsoluteHolds
<1>3. CASE PruneKeys
    BY <1>0, <1>3 DEF PruneKeys, TablesOK, AbsoluteHolds
<1> QED BY <1>1, <1>2, <1>3

LEMMA RememberType ==
    ASSUME Remember
    PROVE  seen' \in [Requests -> BOOLEAN] /\ owned' \in [Requests -> BOOLEAN]
<1>1. \A r : (Carries(r)' /\ ((Carries(r) /\ seen[r]) \/ InForce(rq[r].cred)')) \in BOOLEAN
    OBVIOUS
<1>2. \A r : (Carries(r)' /\ ((Carries(r) /\ owned[r]) \/ active'[rq'[r].user])) \in BOOLEAN
    OBVIOUS
<1> QED BY <1>1, <1>2 DEF Remember

LEMMA SessionsInvNext ==
    ASSUME SessionsInv, [SessionsNext]_sessionVars
    PROVE  SessionsInv'
<1> SUFFICES SessionsTypeOK' /\ AbsoluteHolds'
    BY DEF SessionsInv
<1>1. CASE UNCHANGED sessionVars
    BY <1>1 DEF sessionVars, SessionsInv, SessionsTypeOK, AbsoluteHolds
<1>2. CASE SessionsStep /\ Remember
  <2>1. TablesOK' /\ rq' \in [Requests -> Request \cup {Idle}]
    <3>1. ASSUME NEW r \in Requests, RequestStep(r)
          PROVE  TablesOK' /\ rq' \in [Requests -> Request \cup {Idle}]
        BY <3>1, RequestTables, RequestMoves, MoveType DEF SessionsInv
    <3>2. CASE Tick \/ PruneSessions \/ PruneKeys
        BY <3>2, OtherTables DEF SessionsInv, SessionsTypeOK
    <3> QED BY <1>2, <3>1, <3>2 DEF SessionsStep
  <2> QED BY <1>2, <2>1, RememberType DEF TablesOK, SessionsTypeOK
<1> QED BY <1>1, <1>2 DEF SessionsNext

\* Sessions and keys are rows of their tables, a token has at most one session, and no
\* use of a session moves it beyond its absolute limit (SessionRepository::touch).
THEOREM SessionsAreRows == SessionsSpec => []SessionsInv
<1>1. SessionsInit => SessionsInv
    BY SessionsAssumption DEF SessionsInit, SessionsInv, SessionsTypeOK, AbsoluteHolds, Times
<1>2. SessionsInv /\ [SessionsNext]_sessionVars => SessionsInv'
    BY SessionsInvNext
<1> QED BY <1>1, <1>2, PTL DEF SessionsSpec

-----------------------------------------------------------------------------
(* Who is let in *)

KeySteps == {"findkey", "late", "owner"}

\* A session's request looks up a token and acts for its user; an API key's a key.
CredentialInv ==
    \A r \in Requests : Carries(r) =>
        IF rq[r].pc \in KeySteps THEN rq[r].cred \in Keys
        ELSE /\ rq[r].cred \notin Keys
             /\ rq[r].user = rq[r].cred.user

\* What seen and owned have noted at each step.
WatchInv ==
    \A r \in Requests : Carries(r) =>
        /\ InForce(rq[r].cred) => seen[r]
        /\ active[rq[r].user] => owned[r]
        /\ rq[r].pc = "touch" => seen[r] /\ owned[r]
        /\ rq[r].pc = "owner" => seen[r]

Outside(r) ==
    \/ \E u \in Users : LoginBegin(r, u)
    \/ LoginFind(r)
    \/ \E u \in Users : ReadFlag(r, u) \/ AskFlag(r, u)
    \/ \E k \in Keys : ListKeys(r, k)

LEMMA OutsideMoves ==
    ASSUME SessionsTypeOK, NEW r \in Requests, Outside(r)
    PROVE  \E q : Moves(r, q) /\ q.pc \in {"find", "store", "idle", "write", "drop key"}
<1> DEFINE login(u) == [pc |-> "find", user |-> u]
           signed   == [pc |-> "store", token |-> [user |-> rq[r].user, iat |-> now]]
           flag(u, f) == [pc |-> "write", user |-> rq[r].user, about |-> u, flag |-> f]
           drop(k)  == [pc |-> "drop key", about |-> k]
<1>1. /\ \A u : login(u).pc = "find"
      /\ signed.pc = "store" /\ Idle.pc = "idle"
      /\ \A u, f : flag(u, f).pc = "write"
      /\ \A k : drop(k).pc = "drop key"
    BY DEF Idle
<1>2. ASSUME NEW u \in Users, LoginBegin(r, u)
      PROVE  Moves(r, login(u))
    BY <1>2 DEF LoginBegin, Moves
<1>3. CASE LoginFind(r)
  <2>1. Moves(r, signed) \/ Moves(r, Idle)
      BY <1>3 DEF LoginFind, End, Moves, SessionsTypeOK
  <2> HIDE DEF signed
  <2> QED BY <1>1, <2>1
<1>4. ASSUME NEW u \in Users, ReadFlag(r, u) \/ AskFlag(r, u)
      PROVE  \E f : Moves(r, flag(u, f))
    BY <1>4 DEF ReadFlag, AskFlag, ToWrite, Moves, SessionsTypeOK
<1>5. ASSUME NEW k \in Keys, ListKeys(r, k)
      PROVE  Moves(r, drop(k))
    BY <1>5 DEF ListKeys, Moves
<1> HIDE DEF login, flag, drop
<1> QED BY <1>1, <1>2, <1>3, <1>4, <1>5 DEF Outside

\* Authentication begins with the lookup of the credential and then only goes on.
LEMMA CredSteps ==
    ASSUME SessionsTypeOK, NEW r \in Requests, SessionsStep, Carries(r)'
    PROVE  \/ rq'[r] = rq[r]
           \/ /\ ~Carries(r)
              /\ \E c \in Held : rq'[r] =
                    [pc |-> IF IsToken(c) THEN "exists" ELSE "findkey", cred |-> c, user |-> OwnerOf(c)]
           \/ /\ Carries(r)
              /\ rq'[r].cred = rq[r].cred /\ rq'[r].user = rq[r].user
              /\ UNCHANGED <<now, active, session, key>>
              /\ \/ rq[r].pc = "exists" /\ rq'[r].pc = "valid"
                 \/ rq[r].pc = "valid" /\ rq'[r].pc = "touch" /\ Valid(rq[r].cred)
                 \/ rq[r].pc = "valid" /\ rq'[r].pc = "drop"
                 \/ rq[r].pc = "findkey" /\ rq'[r].pc = "late"
                 \/ rq[r].pc = "findkey" /\ rq'[r].pc = "owner" /\ key[rq[r].cred] \in KeyRow
                    /\ ~(key[rq[r].cred].exp # None /\ now > key[rq[r].cred].exp)
<1>1. CASE Tick \/ PruneSessions \/ PruneKeys
    BY <1>1 DEF Tick, PruneSessions, PruneKeys
<1>2. ASSUME NEW t \in Requests, RequestStep(t), t # r
      PROVE  rq'[r] = rq[r]
    BY <1>2, RequestMoves, MoveType
<1>3. ASSUME RequestStep(r), NEW q, Moves(r, q), q.pc \notin AuthSteps
      PROVE  FALSE
    BY <1>3 DEF Carries, Moves, SessionsTypeOK
<1>4. CASE RequestStep(r)
  <2>1. CASE \E c \in Held : Begin(r, c)
    <3>1. PICK c \in Held : Begin(r, c)
        BY <2>1
    <3>2. ~Carries(r)
        BY <3>1 DEF Begin, Carries, Idle, AuthSteps
    <3>3. rq'[r] = [pc |-> IF IsToken(c) THEN "exists" ELSE "findkey", cred |-> c, user |-> OwnerOf(c)]
        BY <3>1 DEF Begin, SessionsTypeOK
    <3> QED BY <3>2, <3>3
  <2>2. CASE Exists(r) \/ CheckValid(r) \/ FindKey(r)
    <3>1. ~Moves(r, Idle)
        BY <1>3, <1>4 DEF Idle, AuthSteps
    <3>2. PICK s \in AuthSteps :
             /\ Goto(r, s) /\ UNCHANGED tables
             /\ \/ rq[r].pc = "exists" /\ s = "valid"
                \/ rq[r].pc = "valid" /\ s = "touch" /\ Valid(rq[r].cred)
                \/ rq[r].pc = "valid" /\ s = "drop"
                \/ rq[r].pc = "findkey" /\ s = "late"
                \/ rq[r].pc = "findkey" /\ s = "owner" /\ key[rq[r].cred] \in KeyRow
                    /\ ~(key[rq[r].cred].exp # None /\ now > key[rq[r].cred].exp)
        BY <2>2, <3>1 DEF Exists, CheckValid, FindKey, Refuse, Proceed, End, Moves, At, AuthSteps
    <3>3. rq[r].pc \in AuthSteps
        BY <3>2 DEF AuthSteps
    <3>4. PICK q \in CredRequest : /\ Moves(r, q)
                                   /\ q.pc = s /\ q.cred = rq[r].cred /\ q.user = rq[r].user
        BY <3>2, <3>3, GotoMoves
    <3>5. rq'[r] = q
        BY <3>4 DEF Moves, SessionsTypeOK
    <3> QED BY <3>2, <3>3, <3>4, <3>5 DEF Carries, tables
  <2>3. ASSUME \/ Touch(r) \/ KeyOwner(r)
        PROVE  FALSE
    <3>1. rq[r].pc \in AuthSteps /\ (Moves(r, Idle) \/ Goto(r, "act"))
        BY <2>3 DEF Touch, KeyOwner, Proceed, Refuse, End, Moves, At, AuthSteps
    <3>2. PICK q : Moves(r, q) /\ q.pc \in {"idle", "act"}
        BY <3>1, GotoMoves DEF Idle
    <3> QED BY <1>3, <1>4, <3>2 DEF AuthSteps
  <2>4. ASSUME Outside(r)
        PROVE  FALSE
    BY <1>3, <1>4, <2>4, OutsideMoves DEF AuthSteps
  <2>5. ASSUME Moves(r, Idle)
        PROVE  FALSE
    BY <1>3, <1>4, <2>5 DEF Idle, AuthSteps
  <2> QED BY <1>4, <2>1, <2>2, <2>3, <2>4, <2>5 DEF RequestStep, Outside, LoginStore, Drop, LateKey, Use,
         Logout, NewKey, Deactivate, WriteFlag, DropKey, Abort, Refuse, End, Moves
<1> QED BY <1>1, <1>2, <1>4 DEF SessionsStep

LEMMA CredentialNext ==
    ASSUME SessionsInv, CredentialInv, [SessionsNext]_sessionVars
    PROVE  CredentialInv'
<1> SUFFICES ASSUME NEW r \in Requests, Carries(r)'
             PROVE  IF rq'[r].pc \in KeySteps THEN rq'[r].cred \in Keys
                    ELSE /\ rq'[r].cred \notin Keys
                         /\ rq'[r].user = rq'[r].cred.user
    BY DEF CredentialInv
<1>0. SessionsTypeOK
    BY DEF SessionsInv
<1>1. CASE rq'[r] = rq[r]
    BY <1>1 DEF CredentialInv, Carries
<1>2. CASE SessionsStep /\ rq'[r] # rq[r]
  <2>1. ASSUME NEW c \in Held,
               rq'[r] = [pc |-> IF IsToken(c) THEN "exists" ELSE "findkey", cred |-> c,
                         user |-> OwnerOf(c)]
        PROVE  IF rq'[r].pc \in KeySteps THEN rq'[r].cred \in Keys
               ELSE /\ rq'[r].cred \notin Keys
                    /\ rq'[r].user = rq'[r].cred.user
      BY <2>1 DEF IsToken, OwnerOf, KeySteps
  <2> QED BY <1>0, <1>2, <2>1, CredSteps DEF CredentialInv, KeySteps
<1> QED BY <1>1, <1>2 DEF SessionsNext, sessionVars

LEMMA WatchNext ==
    ASSUME SessionsInv, CredentialInv, WatchInv, [SessionsNext]_sessionVars
    PROVE  WatchInv'
<1>0. SessionsTypeOK
    BY DEF SessionsInv
<1>1. CASE UNCHANGED sessionVars
    BY <1>1 DEF sessionVars, WatchInv, Carries, InForce, Rows
<1>2. CASE SessionsStep /\ Remember
  <2> SUFFICES ASSUME NEW r \in Requests, Carries(r)'
               PROVE  /\ InForce(rq[r].cred)' => seen'[r]
                      /\ active'[rq'[r].user] => owned'[r]
                      /\ rq'[r].pc = "touch" => seen'[r] /\ owned'[r]
                      /\ rq'[r].pc = "owner" => seen'[r]
      BY DEF WatchInv
  <2>1. /\ seen'[r] = ((Carries(r) /\ seen[r]) \/ InForce(rq[r].cred)')
        /\ owned'[r] = ((Carries(r) /\ owned[r]) \/ active'[rq'[r].user])
      BY <1>2 DEF Remember
  <2>2. CASE rq'[r] = rq[r]
      BY <2>1, <2>2 DEF WatchInv, Carries
  <2>3. ASSUME Carries(r), rq[r].pc = "valid", Valid(rq[r].cred)
        PROVE  seen[r] /\ owned[r]
    <3>1. rq[r].cred \notin Keys /\ rq[r].user = rq[r].cred.user
        BY <2>3 DEF CredentialInv, KeySteps
    <3>2. InForce(rq[r].cred) /\ active[rq[r].user]
        BY <2>3, <3>1 DEF Valid, InForce, IsToken
    <3> QED BY <2>3, <3>2 DEF WatchInv
  <2>4. ASSUME Carries(r), rq[r].pc = "findkey", key[rq[r].cred] \in KeyRow,
               ~(key[rq[r].cred].exp # None /\ now > key[rq[r].cred].exp)
        PROVE  seen[r]
    <3>1. rq[r].cred \in Keys
        BY <2>4 DEF CredentialInv, KeySteps
    <3>2. key[rq[r].cred].exp = None \/ now <= key[rq[r].cred].exp
        BY <1>0, <2>4 DEF SessionsTypeOK, KeyRow, Times
    <3>3. InForce(rq[r].cred)
        BY <2>4, <3>1, <3>2 DEF InForce, IsToken
    <3> QED BY <2>4, <3>3 DEF WatchInv
  <2>5. ASSUME NEW c \in Held,
               rq'[r] = [pc |-> IF IsToken(c) THEN "exists" ELSE "findkey", cred |-> c,
                         user |-> OwnerOf(c)]
        PROVE  rq'[r].pc \notin {"touch", "owner"}
      BY <2>5
  <2>6. rq'[r].pc = "touch" /\ rq'[r] # rq[r] => Carries(r) /\ seen[r] /\ owned[r]
      BY <1>0, <1>2, <2>3, <2>5, CredSteps
  <2>7. rq'[r].pc = "owner" /\ rq'[r] # rq[r] => Carries(r) /\ seen[r]
      BY <1>0, <1>2, <2>4, <2>5, CredSteps
  <2> QED BY <2>1, <2>2, <2>6, <2>7
<1> QED BY <1>1, <1>2 DEF SessionsNext

\* Only authentication lets a request act, and what it noted before.
LEMMA LetIn ==
    ASSUME SessionsTypeOK, NEW r \in Requests, SessionsStep, ~At(r, "act"), At(r, "act")'
    PROVE  \/ rq[r].pc = "touch"
           \/ rq[r].pc = "owner" /\ active[rq[r].user]
<1>0. rq'[r].pc = "act" /\ rq[r].pc # "act"
    BY DEF At
<1>1. CASE Tick \/ PruneSessions \/ PruneKeys
    BY <1>0, <1>1 DEF Tick, PruneSessions, PruneKeys
<1>2. ASSUME NEW t \in Requests, RequestStep(t), t # r
      PROVE  rq'[r] = rq[r]
    BY <1>2, RequestMoves, MoveType
<1>3. CASE RequestStep(r)
  <2>1. ASSUME NEW q, Moves(r, q), q.pc # "act"
        PROVE  FALSE
      BY <1>0, <2>1 DEF Moves, SessionsTypeOK
  <2>2. ASSUME NEW s \in AuthSteps, rq[r].pc \in AuthSteps, Goto(r, s)
        PROVE  FALSE
      BY <2>1, <2>2, GotoMoves DEF AuthSteps
  <2>3. ASSUME Exists(r) \/ CheckValid(r) \/ FindKey(r)
        PROVE  FALSE
    <3>1. rq[r].pc \in AuthSteps
        BY <2>3 DEF Exists, CheckValid, FindKey, At, AuthSteps
    <3>2. Moves(r, Idle) \/ \E s \in AuthSteps : Goto(r, s)
        BY <2>3 DEF Exists, CheckValid, FindKey, Refuse, Proceed, End, Moves, AuthSteps
    <3> QED BY <2>1, <2>2, <3>1, <3>2 DEF Idle
  <2>4. ASSUME Outside(r) \/ \E c \in Held : Begin(r, c)
        PROVE  FALSE
    <3>1. CASE Outside(r)
        BY <2>1, <3>1, OutsideMoves
    <3>2. ASSUME NEW c \in Held, Begin(r, c)
          PROVE  FALSE
        BY <1>0, <3>2 DEF Begin, SessionsTypeOK
    <3> QED BY <2>4, <3>1, <3>2
  <2>5. ASSUME Moves(r, Idle)
        PROVE  FALSE
      BY <2>1, <2>5 DEF Idle
  <2>6. CASE Touch(r) \/ KeyOwner(r)
      BY <2>5, <2>6 DEF Touch, KeyOwner, Refuse, End, Moves, At
  <2> QED BY <1>3, <2>3, <2>4, <2>5, <2>6 DEF RequestStep, Outside, LoginStore, Drop, LateKey, Use,
         Logout, NewKey, Deactivate, WriteFlag, DropKey, Abort, Refuse, End, Moves
<1> QED BY <1>0, <1>1, <1>2, <1>3 DEF SessionsStep

\* Rows come by a login only: touch writes the rows that are there.
LEMMA RowsCome ==
    ASSUME SessionsTypeOK, SessionsStep, NEW t \in Token, Rows(t) = {}, Rows(t)' # {}
    PROVE  \E r \in Requests : At(r, "store") /\ rq[r].token = t
<1>0. PICK s \in session' : s.token = t /\ s \notin session
    BY DEF Rows
<1>1. CASE session' \subseteq session
    BY <1>0, <1>1
<1>2. ASSUME NEW r \in Requests, LoginStore(r)
      PROVE  At(r, "store") /\ rq[r].token = t
  <2>1. s = [token |-> rq[r].token, exp |-> now + Ttl, abs |-> now + AbsTtl]
      BY <1>0, <1>2 DEF LoginStore
  <2> QED BY <1>0, <1>2, <2>1 DEF LoginStore
<1>3. ASSUME NEW r \in Requests, Touch(r)
      PROVE  FALSE
  <2>1. PICK q \in Rows(rq[r].cred) : s = [q EXCEPT !.exp = Earlier(now + Ttl, q.abs)]
      BY <1>0, <1>3 DEF Touch, Touched
  <2>2. q \in session /\ q \in Session
      BY DEF Rows, SessionsTypeOK
  <2>3. s.token = q.token
      BY <2>1, <2>2 DEF Session
  <2> QED BY <1>0, <2>2, <2>3 DEF Rows
<1>4. ASSUME NEW r \in Requests, RequestStep(r), ~LoginStore(r), ~Touch(r)
      PROVE  session' \subseteq session
    BY <1>4 DEF RequestStep, LoginBegin, LoginFind, Begin, Exists, CheckValid, Drop, FindKey,
       LateKey, KeyOwner, Use, Logout, NewKey, ListKeys, ReadFlag, AskFlag, ToWrite, Deactivate,
       WriteFlag, DropKey, Abort, Refuse, Proceed, tables
<1>5. CASE Tick \/ PruneSessions \/ PruneKeys
  <2>1. session' \subseteq session
      BY <1>5 DEF Tick, PruneSessions, PruneKeys
  <2> QED BY <1>1, <2>1
<1> QED BY <1>1, <1>2, <1>3, <1>4, <1>5 DEF SessionsStep

\* Who is let in came with a session or a key that was in force, and as a user who was
\* active, at some moment since the request came; and a session that is gone - logged
\* out, expired or pruned - comes back by a login only (AuthMiddleware::authenticate).
THEOREM OnlyInForceLetIn == SessionsSpec => AdmitsInForce
<1> DEFINE LetIn1 == \A r \in Requests : ~At(r, "act") /\ At(r, "act")' => seen[r] /\ owned[r]
           Login1 == \A t \in Token :
                        Rows(t) = {} /\ Rows(t)' # {} =>
                            \E r \in Requests : At(r, "store") /\ rq[r].token = t
           Inv == SessionsInv /\ CredentialInv /\ WatchInv
<1>1. SessionsInit => CredentialInv /\ WatchInv
    BY DEF SessionsInit, CredentialInv, WatchInv, Carries, Idle, AuthSteps
<1>2. Inv /\ [SessionsNext]_sessionVars => Inv'
    BY SessionsInvNext, CredentialNext, WatchNext
<1>3. Inv /\ SessionsNext => LetIn1
  <2> SUFFICES ASSUME Inv, SessionsNext, NEW r \in Requests, ~At(r, "act"), At(r, "act")'
               PROVE  seen[r] /\ owned[r]
      OBVIOUS
  <2>1. \/ rq[r].pc = "touch"
        \/ rq[r].pc = "owner" /\ active[rq[r].user]
      BY LetIn DEF SessionsInv, SessionsNext
  <2>2. Carries(r)
      BY <2>1 DEF Carries, AuthSteps
  <2> QED BY <2>1, <2>2 DEF WatchInv
<1>4. Inv /\ SessionsNext => Login1
    BY RowsCome DEF SessionsInv, SessionsNext
<1>5. Inv /\ [SessionsNext]_sessionVars => [LetIn1]_sessionVars /\ [Login1]_sessionVars
    BY <1>3, <1>4
<1>6. SessionsInit => Inv
    BY <1>1, SessionsAssumption DEF SessionsInit, SessionsInv, SessionsTypeOK, AbsoluteHolds, Times
<1> HIDE DEF Inv
<1>7. SessionsSpec => [][LetIn1]_sessionVars /\ [][Login1]_sessionVars
    BY <1>2, <1>5, <1>6, PTL DEF SessionsSpec
<1> QED BY <1>7 DEF AdmitsInForce, LetInWasInForce, OnlyLoginAdmits
=============================================================================
