------------------------------- MODULE RateLimiter ------------------------------
(***************************************************************************)
(* How often a client may try a password: buckets that are filled again as *)
(* a whole when an attempt finds them old enough.                          *)
(***************************************************************************)
EXTENDS Integers, Sequences, FiniteSets

CONSTANTS
    NoBucket,
    Clients,
    MaxRequests,  \* attempts in a full bucket
    Window,       \* the age at which an attempt fills it again
    LimiterMaxNow \* bound on the clock

ASSUME LimiterAssumption ==
    /\ MaxRequests \in Nat \ {0} /\ Window \in Nat \ {0} /\ LimiterMaxNow \in Nat
    /\ NoBucket \notin [tokens : 0..MaxRequests, at : 0..LimiterMaxNow]

VARIABLES
    bucket,     \* bucket[c]: [tokens, at] or NoBucket
    limiterNow,
    allowed     \* the attempts that were let through, in order

limiterVars == <<bucket, limiterNow, allowed>>

LimiterTypeOK ==
    /\ bucket \in [Clients -> [tokens : 0..MaxRequests, at : 0..LimiterMaxNow] \cup {NoBucket}]
    /\ limiterNow \in 0..LimiterMaxNow
    /\ allowed \in Seq([client : Clients, at : 0..LimiterMaxNow])

LimiterInit ==
    /\ bucket = [c \in Clients |-> NoBucket]
    /\ limiterNow = 0
    /\ allowed = <<>>

\* Mutant of Refilled: a bucket is filled again as time goes.
RefilledAnyTime(b) == IF limiterNow > b.at THEN [tokens |-> MaxRequests, at |-> limiterNow] ELSE b

Refilled(b) == IF limiterNow - b.at >= Window THEN [tokens |-> MaxRequests, at |-> limiterNow] ELSE b

\* evictStale drops the buckets nobody has filled for two windows; it runs when the
\* number of buckets, most of them of clients not looked at here, comes to a hundred.
Evicted(bs) == [c \in Clients |->
    IF bs[c] # NoBucket /\ limiterNow - bs[c].at > 2 * Window THEN NoBucket ELSE bs[c]]

FirstBucket == [tokens |-> MaxRequests - 1, at |-> limiterNow]

\* allow, under the mutex
Allow(c) ==
    LET b == IF bucket[c] = NoBucket THEN FirstBucket
             ELSE LET full == Refilled(bucket[c]) IN [full EXCEPT !.tokens = IF @ > 0 THEN @ - 1 ELSE 0]
        pass == bucket[c] = NoBucket \/ Refilled(bucket[c]).tokens > 0
        mine == [bucket EXCEPT ![c] = b]
    IN /\ bucket' \in (IF bucket[c] = NoBucket THEN {mine, Evicted(mine)} ELSE {mine})
       /\ allowed' = IF pass THEN Append(allowed, [client |-> c, at |-> limiterNow]) ELSE allowed
       /\ UNCHANGED limiterNow

\* Another client's first attempt is the hundredth bucket.
EvictStale ==
    /\ bucket' = Evicted(bucket)
    /\ UNCHANGED <<limiterNow, allowed>>

LimiterTick ==
    /\ limiterNow < LimiterMaxNow
    /\ limiterNow' = limiterNow + 1
    /\ UNCHANGED <<bucket, allowed>>

LimiterNext == LimiterTick \/ EvictStale \/ \E c \in Clients : Allow(c)

LimiterSpec == LimiterInit /\ [][LimiterNext]_limiterVars

-----------------------------------------------------------------------------
\* Those of the attempts al that client c made from time t on and before time u
Attempts(al, c, t, u) ==
    {i \in DOMAIN al : al[i].client = c /\ t <= al[i].at /\ al[i].at < u}

\* Whenever a window begins, and whatever is evicted, it lets through less than two
\* buckets: a bucket is filled by an attempt that is itself let through.
AttemptsLimited ==
    \A c \in Clients, t \in 0..LimiterMaxNow :
        Cardinality(Attempts(allowed, c, t, t + Window)) < 2 * MaxRequests

\* No bucket holds more than it may, and none lets more through than two of them hold.
LimiterInv == LimiterTypeOK /\ AttemptsLimited
=============================================================================
