-------------------------------- MODULE MCRuntime -------------------------------
(***************************************************************************)
(* What the process runs on: three parts that share no state, checked side *)
(* by side.  A behaviour is one of one of them; what their fairness asks   *)
(* for is not enabled in the initial state of any, so the others may stay. *)
(***************************************************************************)
EXTENDS Scheduler, ConnectionPool, ThreadPool

CONSTANTS flush, sync

VARIABLE part

FlushSync == <<flush, sync>>

runtimeVars == <<part, scheduleVars, poolVars, poolThreadVars>>

\* The parts that are not looked at begin in one way only.
RuntimeInit ==
    /\ part \in {"scheduler", "pool", "threads"}
    /\ SchedulerInit /\ PoolInit /\ ThreadsInit
    /\ part # "scheduler" => \A t \in Tasks : interval[t] = 1

SchedulerPart ==
    /\ part = "scheduler" /\ SchedulerNext
    /\ UNCHANGED <<part, poolVars, poolThreadVars>>
PoolPart ==
    /\ part = "pool" /\ PoolNext
    /\ UNCHANGED <<part, scheduleVars, poolThreadVars>>
ThreadsPart ==
    /\ part = "threads" /\ ThreadsNext
    /\ UNCHANGED <<part, scheduleVars, poolVars>>

RuntimeNext == SchedulerPart \/ PoolPart \/ ThreadsPart

RuntimeSpec ==
    /\ RuntimeInit /\ [][RuntimeNext]_runtimeVars
    /\ SchedulerFairness /\ PoolFairness /\ ThreadsFairness

\* Who waits for a connection gets one or is told that there is none, and a task that was
\* queued is done: no notification is lost on the way, in either of the two.
WaitersAreServed == CheckoutsEnd /\ TasksGetDone
=============================================================================
