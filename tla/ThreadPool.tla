-------------------------------- MODULE ThreadPool ------------------------------
(***************************************************************************)
(* The fixed pool of worker threads: submit, the loop of a worker and      *)
(* shutdown.  Every test of the queue is made under the mutex; the         *)
(* notifications come after it has been let go.                            *)
(***************************************************************************)
EXTENDS Integers

CONSTANTS Tickets, Workers      \* what is submitted; the threads

\* A size of zero or less becomes that of the machine, or four.
ASSUME ThreadPoolAssumption == Workers # {}

VARIABLES
    ticket,     \* ticket[t]: what has become of task t
    untold,     \* tasks that are in the queue and whose notify_one is to come
    worker,     \* worker[w]: where thread w is
    closing,    \* _bStopping
    shutter     \* where the thread that shuts the pool down is

poolThreadVars == <<ticket, untold, worker, closing, shutter>>

Queue == {t \in Tickets : ticket[t] = "queued"}

Crew == [at : {"enter", "asleep", "gone"}] \cup [at : {"run"}, on : Tickets]

ThreadsTypeOK ==
    /\ ticket \in [Tickets -> {"new", "queued", "running", "done", "refused"}]
    /\ untold \in SUBSET Tickets
    /\ worker \in [Workers -> Crew]
    /\ closing \in BOOLEAN
    /\ shutter \in {"away", "notify", "join", "over"}
    /\ \A t \in Tickets : ticket[t] = "running" <=> \E w \in Workers : worker[w] = [at |-> "run", on |-> t]

ThreadsInit ==
    /\ ticket = [t \in Tickets |-> "new"] /\ untold = {}
    /\ worker = [w \in Workers |-> [at |-> "enter"]]
    /\ closing = FALSE /\ shutter = "away"

-----------------------------------------------------------------------------
Submit(t) ==
    /\ ticket[t] = "new"
    /\ IF closing
       THEN ticket' = [ticket EXCEPT ![t] = "refused"] /\ UNCHANGED untold
       ELSE ticket' = [ticket EXCEPT ![t] = "queued"] /\ untold' = untold \cup {t}
    /\ UNCHANGED <<worker, closing, shutter>>

\* Who wakes of those who sleep: one.
Woken(sleepers) == {{w} : w \in sleepers}

Tell(t) ==
    /\ t \in untold
    /\ untold' = untold \ {t}
    /\ LET sleepers == {w \in Workers : worker[w].at = "asleep"} IN
         \/ /\ Woken(sleepers) = {}
            /\ UNCHANGED worker
         \/ \E awake \in Woken(sleepers) :
              worker' = [w \in Workers |-> IF w \in awake THEN [at |-> "enter"] ELSE worker[w]]
    /\ UNCHANGED <<ticket, closing, shutter>>

\* Mutant of Leaves: a worker leaves what is queued behind.
LeavesAtOnce == closing

Leaves == closing /\ Queue = {}

Leave(w) ==
    /\ worker[w].at = "enter" /\ Leaves
    /\ worker' = [worker EXCEPT ![w] = [at |-> "gone"]]
    /\ UNCHANGED <<ticket, untold, closing, shutter>>

TakeTicket(w) ==
    /\ worker[w].at = "enter" /\ ~Leaves
    /\ \E t \in Queue :
         /\ worker' = [worker EXCEPT ![w] = [at |-> "run", on |-> t]]
         /\ ticket' = [ticket EXCEPT ![t] = "running"]
    /\ UNCHANGED <<untold, closing, shutter>>

Doze(w) ==
    /\ worker[w].at = "enter" /\ ~closing /\ Queue = {}
    /\ worker' = [worker EXCEPT ![w] = [at |-> "asleep"]]
    /\ UNCHANGED <<ticket, untold, closing, shutter>>

BackFrom(w) == [worker EXCEPT ![w] = [at |-> "enter"]]

\* What the task throws is kept in its future.
Finish(w) ==
    /\ worker[w].at = "run"
    /\ ticket' = [ticket EXCEPT ![worker[w].on] = "done"]
    /\ worker' = BackFrom(w)
    /\ UNCHANGED <<untold, closing, shutter>>

Shutdown ==
    /\ shutter = "away"
    /\ closing' = TRUE /\ shutter' = "notify"
    /\ UNCHANGED <<ticket, untold, worker>>

NotifyAll ==
    /\ shutter = "notify"
    /\ shutter' = "join"
    /\ worker' = [w \in Workers |-> IF worker[w].at = "asleep" THEN [at |-> "enter"] ELSE worker[w]]
    /\ UNCHANGED <<ticket, untold, closing>>

Join ==
    /\ shutter = "join"
    /\ \A w \in Workers : worker[w].at = "gone"
    /\ shutter' = "over"
    /\ UNCHANGED <<ticket, untold, worker, closing>>

WorkerStep(w) == Leave(w) \/ TakeTicket(w) \/ Finish(w)

ThreadsNext ==
    \/ \E t \in Tickets : Submit(t) \/ Tell(t)
    \/ \E w \in Workers : WorkerStep(w) \/ Doze(w)
    \/ Shutdown \/ NotifyAll \/ Join

ThreadsSpec == ThreadsInit /\ [][ThreadsNext]_poolThreadVars

\* A worker gets the mutex some time, tasks end, submit goes on to its notification.
ThreadsFairness ==
    /\ \A w \in Workers : WF_poolThreadVars(WorkerStep(w))
    /\ \A t \in Tickets : WF_poolThreadVars(Tell(t))
    /\ WF_poolThreadVars(NotifyAll \/ Join)

ThreadsFairSpec == ThreadsSpec /\ ThreadsFairness

-----------------------------------------------------------------------------
(* Properties *)

\* What submit has taken is done when shutdown returns, whoever raced it: a future that
\* was handed out does not break.
AcceptedAreDone ==
    shutter = "over" => \A t \in Tickets : ticket[t] \in {"new", "refused", "done"}

\* Tickets, threads and the queue agree, and no ticket that was taken is dropped.
ThreadsInv == ThreadsTypeOK /\ AcceptedAreDone

\* A task that is queued is done, without a shutdown to wake those who sleep; and
\* shutdown returns.
TasksGetDone ==
    /\ \A t \in Tickets : (ticket[t] = "queued") ~> (ticket[t] = "done")
    /\ (shutter = "notify") ~> (shutter = "over")
=============================================================================
