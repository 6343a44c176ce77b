----------------------------- MODULE FederatedLogin -----------------------------
(***************************************************************************)
(* Logins through an identity provider: what the server keeps of a login   *)
(* it has begun, the answer that comes back late, twice or never, and the  *)
(* user and the session it ends with.  SAML and OIDC have the same shape   *)
(* and differ in what protects an answer from being used again.            *)
(***************************************************************************)
EXTENDS Integers, FiniteSets

CONSTANTS
    Absent,
    Idps,
    Flows,        \* threads of the server that serve logins
    Tokens,       \* random states and relay states; no two logins share one
    AnswerIds,    \* codes and assertion ids
    StateTtl,     \* how long the state of a login is kept
    ReplayTtl,    \* how long the id of an assertion is kept
    AnswerLife,   \* how long an identity provider makes its answers valid
    FedMaxNow,    \* bound on the clock
    MaxPuts       \* bound on the changes to the rows of providers and users

Idp    == [on : BOOLEAN, direct : BOOLEAN]
Begun  == [idp : Idps, test : BOOLEAN, at : 0..FedMaxNow]
Answer == [token : Tokens \cup {Absent}, url : Idps, at : 0..FedMaxNow]

ASSUME FederatedAssumption ==
    /\ {StateTtl, ReplayTtl, AnswerLife, FedMaxNow, MaxPuts} \subseteq Nat
    /\ AnswerLife <= ReplayTtl
    /\ Absent \notin Nat /\ Absent \notin Tokens
    /\ Absent \notin Begun /\ Absent \notin Answer

VARIABLES
    protocol,    \* "oidc" or "saml"
    idp,         \* idp[i]: the row of an identity provider, or Absent
    registered,  \* SAML providers that lasso has a server for
    states,      \* states[t]: what is kept of the login with token t, or Absent
    seen,        \* seen[a]: when the replay cache may forget assertion a, or Absent
    active,      \* users.is_active of the subject; Absent: no such user yet
    flow,        \* flow[f]: the callback that thread f serves
    fedNow,
    puts,        \* changes by administrators so far
    asked,       \* asked[t]: the login as the browser took it away, or Absent
    answers,     \* answers[a]: the answer an identity provider gave, or Absent
    redeemed,    \* codes an identity provider has taken back
    took,        \* took[t]: callbacks that were given the state of t
    lets         \* lets[a]: sessions that answer a has opened since the start

kept        == <<states, seen, registered>>
outside     == <<asked, answers, redeemed>>
loginVars   == <<protocol, idp, kept, active, flow, fedNow, puts, outside, took, lets>>

-----------------------------------------------------------------------------
NoFlow == [at |-> "idle"]
Flow   == [at : {"row", "register", "validate", "user", "create", "session"},
           id : AnswerIds, state : Begun \cup {Absent}, direct : BOOLEAN]

FederatedTypeOK ==
    /\ protocol \in {"oidc", "saml"}
    /\ idp \in [Idps -> Idp \cup {Absent}]
    /\ registered \subseteq Idps
    /\ states \in [Tokens -> Begun \cup {Absent}]
    /\ asked \in [Tokens -> Begun \cup {Absent}]
    /\ seen \in [AnswerIds -> Nat \cup {Absent}]
    /\ answers \in [AnswerIds -> Answer \cup {Absent}]
    /\ lets \in [AnswerIds -> Nat]
    /\ active \in BOOLEAN \cup {Absent}
    /\ flow \in [Flows -> Flow \cup {NoFlow}]
    /\ fedNow \in 0..FedMaxNow /\ puts \in 0..MaxPuts
    /\ redeemed \subseteq AnswerIds
    /\ took \in [Tokens -> Nat]

FederatedInit ==
    /\ protocol \in {"oidc", "saml"}
    \* allow_idp_initiated is a setting of SAML
    /\ \E direct \in {FALSE, protocol = "saml"} :
         idp = [i \in Idps |-> [on |-> TRUE, direct |-> direct]]
    /\ registered = {}
    /\ states = [t \in Tokens |-> Absent]
    /\ seen = [a \in AnswerIds |-> Absent]
    /\ active = Absent
    /\ flow = [f \in Flows |-> NoFlow]
    /\ fedNow = 0 /\ puts = 0
    /\ asked = [t \in Tokens |-> Absent]
    /\ answers = [a \in AnswerIds |-> Absent]
    /\ redeemed = {}
    /\ took = [t \in Tokens |-> 0]
    /\ lets = [a \in AnswerIds |-> 0]

-----------------------------------------------------------------------------
(* What the server keeps, behind one mutex per map *)

\* evictExpiredStates, at every store and every consume
Unexpired(s) == [t \in Tokens |->
    IF s[t] # Absent /\ fedNow - s[t].at > StateTtl THEN Absent ELSE s[t]]

Taken(s, t) == [s EXCEPT ![t] = Absent]

\* Mutant of Unforgotten: an id may be forgotten when the first state may.
UnforgottenEarly(s) == [a \in AnswerIds |->
    IF s[a] # Absent /\ s[a] - ReplayTtl + StateTtl < fedNow THEN Absent ELSE s[a]]

\* evictExpired of the replay cache
Unforgotten(s) == [a \in AnswerIds |-> IF s[a] # Absent /\ s[a] < fedNow THEN Absent ELSE s[a]]

\* Mutant of Keep: a test is kept like a login.
KeepAsLogin(i, test) == [idp |-> i, test |-> FALSE, at |-> fedNow]

Keep(i, test) == [idp |-> i, test |-> test, at |-> fedNow]

-----------------------------------------------------------------------------
(* The beginning *)

\* GET login of an enabled provider, GET test of any: the state is kept and the browser
\* sent away with it.  The provider of a SAML login is registered on the way.
BeginLogin(i, test) ==
    /\ idp[i] # Absent /\ (test \/ idp[i].on)
    /\ \E t \in Tokens :
         /\ asked[t] = Absent
         /\ states' = [Unexpired(states) EXCEPT ![t] = Keep(i, test)]
         /\ asked' = [asked EXCEPT ![t] = [idp |-> i, test |-> test, at |-> fedNow]]
    /\ registered' = IF protocol = "saml" THEN registered \cup {i} ELSE registered
    /\ UNCHANGED <<protocol, idp, seen, active, flow, fedNow, puts, answers, redeemed, took, lets>>

\* The user authenticates: the answer goes to the callback the provider has been told,
\* which may be another's; it brings the token and names the request of one login.  A
\* SAML provider may answer though nobody asked.
GiveAnswer ==
    /\ \E a \in AnswerIds, t \in Tokens \cup {Absent}, i \in Idps :
         /\ answers[a] = Absent
         /\ IF t = Absent THEN protocol = "saml" ELSE asked[t] # Absent
         /\ answers' = [answers EXCEPT ![a] = [token |-> t, url |-> i, at |-> fedNow]]
    /\ UNCHANGED <<protocol, idp, kept, active, flow, fedNow, puts, asked, redeemed, took, lets>>

-----------------------------------------------------------------------------
(* The callback *)

In(f, s) == flow[f].at = s

Onward(f, s) == flow' = [flow EXCEPT ![f].at = s]
Over(f)      == flow' = [flow EXCEPT ![f] = NoFlow]

\* The state is consumed before anything else is looked at.  Without one an OIDC
\* callback ends; a SAML one may be an answer nobody asked for.
Consume(f) ==
    /\ flow[f] = NoFlow
    /\ \E a \in AnswerIds :
         /\ answers[a] # Absent
         /\ LET t   == answers[a].token
                now == Unexpired(states)
                st  == IF t = Absent THEN Absent ELSE now[t]
            IN /\ states' = IF t = Absent THEN states ELSE Taken(now, t)
               /\ took' = IF st = Absent THEN took ELSE [took EXCEPT ![t] = @ + 1]
               /\ IF protocol = "oidc" /\ (st = Absent \/ st.idp # answers[a].url)
                  THEN UNCHANGED flow
                  ELSE flow' = [flow EXCEPT ![f] =
                                [at |-> "row", id |-> a, state |-> st, direct |-> FALSE]]
    /\ UNCHANGED <<protocol, idp, seen, registered, active, fedNow, puts, outside, lets>>

\* findById; only SAML asks whether the provider is enabled.
ReadIdp(f) ==
    /\ In(f, "row")
    /\ LET row == idp[answers[flow[f].id].url] IN
         IF row = Absent \/ (protocol = "saml" /\ ~row.on) THEN Over(f)
         ELSE flow' = [flow EXCEPT ![f].at = IF protocol = "saml" THEN "register" ELSE "validate",
                                   ![f].direct = row.direct]
    /\ UNCHANGED <<protocol, idp, kept, active, fedNow, puts, outside, took, lets>>

\* ensureIdpRegistered, which reads the row again.  It is registered once: neither PUT
\* nor DELETE of the provider takes the registration back.
Register(f) ==
    /\ In(f, "register")
    /\ LET i == answers[flow[f].id].url IN
         IF i \in registered THEN Onward(f, "validate") /\ UNCHANGED registered
         ELSE IF idp[i] = Absent THEN Over(f) /\ UNCHANGED registered
         ELSE Onward(f, "validate") /\ registered' = registered \cup {i}
    /\ UNCHANGED <<protocol, idp, states, seen, active, fedNow, puts, outside, took, lets>>

\* What an answer that proves right leads to
Proved(f) == IF flow[f].state # Absent /\ flow[f].state.test THEN Over(f) ELSE Onward(f, "user")

Fresh(a) == fedNow < answers[a].at + AnswerLife

\* The code is exchanged for a token, which the identity provider does once.
Exchange(f) ==
    /\ protocol = "oidc" /\ In(f, "validate")
    /\ LET a == flow[f].id IN
         /\ redeemed' = redeemed \cup {a}
         /\ IF a \notin redeemed /\ Fresh(a) THEN Proved(f) ELSE Over(f)
    /\ UNCHANGED <<protocol, idp, kept, active, fedNow, puts, asked, answers, took, lets>>

\* An answer to a login is for the provider of that login; any other has to be allowed.
Fits(f) ==
    LET st == flow[f].state
        a  == answers[flow[f].id]
    IN IF st = Absent THEN flow[f].direct ELSE st.idp = a.url

\* validateResponse: the signature, the times, then the replay cache.
Validate(f) ==
    /\ protocol = "saml" /\ In(f, "validate")
    /\ LET a    == flow[f].id
           left == Unforgotten(seen)
       IN IF ~Fits(f) \/ ~Fresh(a) THEN Over(f) /\ UNCHANGED seen
          ELSE IF left[a] # Absent THEN Over(f) /\ seen' = left
          ELSE Proved(f) /\ seen' = [left EXCEPT ![a] = fedNow + ReplayTtl]
    /\ UNCHANGED <<protocol, idp, states, registered, active, fedNow, puts, outside, took, lets>>

\* processFederatedLogin: the user of the subject, who has to be active.
FindUser(f) ==
    /\ In(f, "user")
    /\ IF active = Absent THEN Onward(f, "create")
       ELSE IF active THEN Onward(f, "session") ELSE Over(f)
    /\ UNCHANGED <<protocol, idp, kept, active, fedNow, puts, outside, took, lets>>

\* createFederated: another callback of the same subject may have been faster, and
\* then the name is taken.
CreateFederated(f) ==
    /\ In(f, "create")
    /\ IF active = Absent THEN active' = TRUE /\ Onward(f, "session")
       ELSE UNCHANGED active /\ Over(f)
    /\ UNCHANGED <<protocol, idp, kept, fedNow, puts, outside, took, lets>>

\* The groups, the token and the session
OpenSession(f) ==
    /\ In(f, "session")
    /\ lets' = [lets EXCEPT ![flow[f].id] = @ + 1]
    /\ Over(f)
    /\ UNCHANGED <<protocol, idp, kept, active, fedNow, puts, outside, took>>

\* A call that fails: the database, the provider, a group that is gone.
GiveUp(f) ==
    /\ flow[f] # NoFlow
    /\ Over(f)
    /\ UNCHANGED <<protocol, idp, kept, active, fedNow, puts, outside, took, lets>>

-----------------------------------------------------------------------------
(* Meanwhile *)

\* PUT and DELETE of identity-providers
PutIdp(i) ==
    /\ idp[i] # Absent /\ puts < MaxPuts
    /\ puts' = puts + 1
    /\ \E row \in Idp \cup {Absent} : row # idp[i] /\ idp' = [idp EXCEPT ![i] = row]
    /\ UNCHANGED <<protocol, kept, active, flow, fedNow, outside, took, lets>>

\* PUT users with is_active
SwitchUser ==
    /\ active # Absent /\ puts < MaxPuts
    /\ puts' = puts + 1
    /\ active' = ~active
    /\ UNCHANGED <<protocol, idp, kept, flow, fedNow, outside, took, lets>>

FedTick ==
    /\ fedNow < FedMaxNow
    /\ fedNow' = fedNow + 1
    /\ UNCHANGED <<protocol, idp, kept, active, flow, puts, outside, took, lets>>

\* Everything but the database is lost; what lets counts begins again.
FedRestart ==
    /\ states' = [t \in Tokens |-> Absent]
    /\ seen' = [a \in AnswerIds |-> Absent]
    /\ registered' = {}
    /\ flow' = [f \in Flows |-> NoFlow]
    /\ lets' = [a \in AnswerIds |-> 0]
    /\ UNCHANGED <<protocol, idp, active, fedNow, puts, outside, took>>

Callback(f) ==
    \/ Consume(f) \/ ReadIdp(f) \/ Register(f) \/ Exchange(f) \/ Validate(f)
    \/ FindUser(f) \/ CreateFederated(f) \/ OpenSession(f) \/ GiveUp(f)

FederatedNext ==
    \/ \E f \in Flows : Callback(f)
    \/ \E i \in Idps : PutIdp(i) \/ \E test \in BOOLEAN : BeginLogin(i, test)
    \/ GiveAnswer \/ SwitchUser \/ FedTick \/ FedRestart

FederatedSpec == FederatedInit /\ [][FederatedNext]_loginVars

-----------------------------------------------------------------------------
(* Properties *)

\* One answer opens one session, however often it is delivered and to however many
\* threads at once, for as long as the server runs.
AnswerOnce == \A a \in AnswerIds : lets[a] <= 1

\* What the server remembers of logins, and that one answer opens one session.
FederatedInv == FederatedTypeOK /\ AnswerOnce

\* The answer to a test of a provider opens no session, whatever became of its state
\* before it arrived, unless the provider may answer unasked.
TestLetsNobodyIn ==
    [][\A f \in Flows :
          (/\ In(f, "session") /\ lets'[flow[f].id] # lets[flow[f].id]
           /\ answers[flow[f].id].token # Absent
           /\ asked[answers[flow[f].id].token].test) => flow[f].direct]_loginVars

\* The state of a login serves one callback, and none after its time.
StateServesOnce ==
    [][\A t \in Tokens :
          took'[t] # took[t] => took[t] = 0 /\ fedNow - asked[t].at <= StateTtl]_loginVars

\* A login is answered once and for what it was begun for.
AnswersServeTheirLogin == StateServesOnce /\ TestLetsNobodyIn
=============================================================================
