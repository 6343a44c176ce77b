----------------------------- MODULE ConnectionPool -----------------------------
(***************************************************************************)
(* The pool of database connections: a store behind one mutex, which a     *)
(* thread that checks a connection out keeps while it asks the server      *)
(* whether the connection still lives and, if not, opens another.  Which   *)
(* of the connections is handed out is left open; the one opened in place  *)
(* of a stale one keeps its name.                                          *)
(***************************************************************************)
EXTENDS Integers, FiniteSets

CONSTANTS Conns, Callers,
          Free, NoConn      \* the mutex is nobody's; a thread has no connection

ASSUME PoolAssumption ==
    /\ Free \notin Callers /\ NoConn \notin Conns
    /\ IsFiniteSet(Conns) /\ IsFiniteSet(Callers)

VARIABLES
    available,  \* _vAvailable
    caller,     \* caller[c]: where thread c is
    conn,       \* conn[c]: the connection it has in hand
    poolMtx,    \* who holds _mtx
    fresh,      \* the connections the server has not dropped
    server      \* whether the database server can be reached

poolVars == <<available, caller, conn, poolMtx, fresh, server>>

PoolTypeOK ==
    /\ available \in SUBSET Conns
    /\ caller \in [Callers -> {"idle", "enter", "woken", "late", "asleep", "validate", "reopen", "use"}]
    /\ conn \in [Callers -> Conns \cup {NoConn}]
    /\ poolMtx \in Callers \cup {Free}
    /\ fresh \in SUBSET Conns /\ server \in BOOLEAN
    /\ \A c \in Callers :
         /\ conn[c] # NoConn <=> caller[c] \in {"validate", "reopen", "use"}
         /\ poolMtx = c <=> caller[c] \in {"validate", "reopen"}

\* The constructor opens them all, or there is no pool.
PoolInit ==
    /\ available = Conns
    /\ caller = [c \in Callers |-> "idle"]
    /\ conn = [c \in Callers |-> NoConn]
    /\ poolMtx = Free
    /\ fresh = Conns /\ server = TRUE

-----------------------------------------------------------------------------
Moves(c, at) == caller' = [caller EXCEPT ![c] = at]

Checkout(c) ==
    /\ caller[c] = "idle"
    /\ Moves(c, "enter")
    /\ UNCHANGED <<available, conn, poolMtx, fresh, server>>

\* On the way to the store.
Awake(c) == caller[c] \in {"enter", "woken", "late"}

\* Under the mutex there is one, which leaves the store before it has been tried.
Take(c) ==
    /\ Awake(c) /\ poolMtx = Free
    /\ \E k \in available :
         /\ available' = available \ {k}
         /\ conn' = [conn EXCEPT ![c] = k]
    /\ poolMtx' = c
    /\ Moves(c, "validate")
    /\ UNCHANGED <<fresh, server>>

\* There is none: the thread sleeps, or, when it is too late for that, throws.
FindNone(c) ==
    /\ Awake(c) /\ poolMtx = Free
    /\ available = {}
    /\ Moves(c, IF caller[c] = "late" THEN "idle" ELSE "asleep")
    /\ UNCHANGED <<available, conn, poolMtx, fresh, server>>

\* Mutant of Expires: a wait without an end.
ExpiresNever(c) == FALSE

\* Thirty seconds are over since it first fell asleep.
Expires(c) == caller[c] \in {"asleep", "woken"}

TimeOut(c) ==
    /\ Expires(c)
    /\ Moves(c, "late")
    /\ UNCHANGED <<available, conn, poolMtx, fresh, server>>

Validate(c) ==
    /\ caller[c] = "validate"
    /\ IF server /\ conn[c] \in fresh
       THEN Moves(c, "use") /\ poolMtx' = Free
       ELSE Moves(c, "reopen") /\ UNCHANGED poolMtx
    /\ UNCHANGED <<available, conn, fresh, server>>

\* A stale connection is replaced; when that fails the pool has one less from now on.
Reopen(c) ==
    /\ caller[c] = "reopen"
    /\ poolMtx' = Free
    /\ IF server
       THEN fresh' = fresh \cup {conn[c]} /\ Moves(c, "use") /\ UNCHANGED conn
       ELSE conn' = [conn EXCEPT ![c] = NoConn] /\ Moves(c, "idle") /\ UNCHANGED fresh
    /\ UNCHANGED <<available, server>>

\* Mutant of Notified: the notification is forgotten.
NotifiedNobody(c) == Moves(c, "idle")

\* notify_one wakes one of those who sleep.
Notified(c) ==
    LET sleepers == {d \in Callers : caller[d] = "asleep"} IN
    IF sleepers = {} THEN Moves(c, "idle")
    ELSE \E d \in sleepers :
            caller' = [caller EXCEPT ![c] = "idle", ![d] = "woken"]

Emptied(c) == [conn EXCEPT ![c] = NoConn]

\* The guard goes out of scope.
ReturnConnection(c) ==
    /\ caller[c] = "use" /\ poolMtx = Free
    /\ available' = available \cup {conn[c]}
    /\ conn' = Emptied(c)
    /\ Notified(c)
    /\ UNCHANGED <<poolMtx, fresh, server>>

-----------------------------------------------------------------------------
(* The database server: it drops a connection, goes away with all of them and comes back. *)

Drop(k) ==
    /\ k \in fresh
    /\ fresh' = fresh \ {k}
    /\ UNCHANGED <<available, caller, conn, poolMtx, server>>

GoAway ==
    /\ server
    /\ server' = FALSE /\ fresh' = {}
    /\ UNCHANGED <<available, caller, conn, poolMtx>>

ComeBack ==
    /\ ~server
    /\ server' = TRUE
    /\ UNCHANGED <<available, caller, conn, poolMtx, fresh>>

CallerStep(c) ==
    \/ Take(c) \/ FindNone(c) \/ Validate(c) \/ Reopen(c) \/ ReturnConnection(c)

PoolNext ==
    \/ \E c \in Callers : Checkout(c) \/ CallerStep(c) \/ TimeOut(c)
    \/ \E k \in Conns : Drop(k)
    \/ GoAway \/ ComeBack

PoolSpec == PoolInit /\ [][PoolNext]_poolVars

\* Every thread that wants the mutex gets it some time, a wait ends after thirty
\* seconds, the server answers or the attempt fails, and who has a connection gives it back.
PoolFairness == \A c \in Callers : SF_poolVars(CallerStep(c)) /\ WF_poolVars(TimeOut(c))

PoolFairSpec == PoolSpec /\ PoolFairness

-----------------------------------------------------------------------------
(* Properties *)

\* No two threads ever speak over one connection, and none that is in the store is
\* spoken over: a connection is not made for two.
HeldByOne ==
    \A c, d \in Callers :
        conn[c] # NoConn => conn[c] \notin available /\ (conn[c] = conn[d] => c = d)

\* No wake-up is lost: while somebody sleeps, there are as many threads awake on their
\* way to the store as there are connections in it.
NoLostWakeUp ==
    (\E c \in Callers : caller[c] = "asleep") =>
        Cardinality(available) <= Cardinality({c \in Callers : Awake(c)})

\* The pool counts its connections right: each is in the store or with one thread, and
\* none lies in the store while all who want one sleep.
PoolInv == PoolTypeOK /\ HeldByOne /\ NoLostWakeUp

\* Who asks for a connection gets one or is told that there is none, though the pool
\* may have lost all it had.
CheckoutsEnd == \A c \in Callers : (caller[c] = "enter") ~> (caller[c] \in {"use", "idle"})
=============================================================================
