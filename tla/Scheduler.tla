-------------------------------- MODULE Scheduler -------------------------------
(***************************************************************************)
(* The thread that runs the periodic tasks, the main thread that starts it,*)
(* adds a task to it while it runs and stops it, and the settings that     *)
(* change its intervals.  Time is what makes a task due and what ends a    *)
(* sleep; how long either takes is left out.                               *)
(***************************************************************************)
EXTENDS Integers, Sequences

CONSTANTS
    Tasks, LateTasks,   \* LateTasks: scheduled after the thread has been started
    Intervals,          \* values a setting may get, 0 among them
    Writers,            \* threads that serve PUT settings
    Keys                \* the tasks in the order of the settings a PUT carries, which are sorted

ASSUME SchedulerAssumption ==
    LateTasks \subseteq Tasks /\ Intervals \subseteq Nat /\ Keys \in Seq(Tasks)

VARIABLES
    boss,       \* where the main thread is
    loop,       \* where the thread of the scheduler is
    mtx,        \* whether the thread of the scheduler holds _mtx
    stopping,   \* the stop token
    scheduled,  \* _vTasks
    due,        \* tasks whose tpNextRun has come
    todo,       \* tasks this pass has yet to look at
    watched,    \* tasks the deadline of the sleep was computed from
    interval,   \* interval[t]: Task::durInterval
    setting,    \* setting[t]: the row of system_config
    writer,     \* writer[w]: the request of thread w
    alone,      \* alone[w]: no other PUT has begun or gone on since
    torn        \* the process died of a vector that moved under the thread's feet

scheduleVars == <<boss, loop, mtx, stopping, scheduled, due, todo, watched, interval,
                  setting, writer, alone, torn>>
machine == <<boss, loop, mtx, stopping, scheduled, due, todo, watched, torn>>
puts    == <<setting, writer, alone>>

-----------------------------------------------------------------------------
NoWriter == [at |-> "idle"]
Writer   == [at : {"upsert", "reschedule"}, key : 1 .. Len(Keys) + 1, to : Intervals]
            \cup [at : {"read"}, key : 1 .. Len(Keys) + 1]

SchedulerTypeOK ==
    /\ boss \in {"init", "start", "late", "serve", "request", "notify", "join", "over"}
    /\ loop \in {"none", "top", "run", "wake", "lock", "test", "checked", "asleep", "ended"}
    /\ mtx \in BOOLEAN /\ (mtx <=> loop \in {"test", "checked"})
    /\ stopping \in BOOLEAN /\ torn \in BOOLEAN
    /\ scheduled \subseteq Tasks
    /\ due \subseteq scheduled /\ todo \subseteq scheduled /\ watched \subseteq scheduled
    /\ interval \in [Tasks -> Intervals] /\ setting \in [Tasks -> Intervals]
    /\ writer \in [Writers -> Writer \cup {NoWriter}]
    /\ alone \in [Writers -> BOOLEAN]

SchedulerInit ==
    /\ boss = "init" /\ loop = "none" /\ mtx = FALSE /\ stopping = FALSE
    /\ scheduled = {} /\ due = {} /\ todo = {} /\ watched = {}
    /\ setting \in [Tasks -> Intervals] /\ interval = setting
    /\ writer = [w \in Writers |-> NoWriter]
    /\ alone = [w \in Writers |-> FALSE]
    /\ torn = FALSE

-----------------------------------------------------------------------------
(* The main thread *)

\* The first tasks, due at once, and start.
StartScheduler ==
    /\ boss = "init"
    /\ scheduled' = Tasks \ LateTasks
    /\ due' = scheduled'
    /\ boss' = "late" /\ loop' = "top"
    /\ UNCHANGED <<mtx, stopping, todo, watched, interval, puts, torn>>

\* A task with an interval is added although the thread runs and without the mutex: if
\* the thread is walking the vector, the vector it walks may be gone.
ScheduleLate ==
    /\ boss = "late"
    /\ boss' = "serve"
    /\ LET more == {t \in LateTasks : interval[t] > 0} IN
         /\ scheduled' = scheduled \cup more
         /\ due' = due \cup more
         /\ torn' \in (IF more # {} /\ loop = "run" THEN BOOLEAN ELSE {FALSE})
    /\ UNCHANGED <<loop, mtx, stopping, todo, watched, interval, puts>>

\* The server has been told to stop: stop, which takes the mutex and lets it go.
StopBegin ==
    /\ boss = "serve" /\ ~mtx
    /\ \A w \in Writers : writer[w] = NoWriter
    /\ boss' = "request"
    /\ UNCHANGED <<loop, mtx, stopping, scheduled, due, todo, watched, interval, puts, torn>>

StopRequest ==
    /\ boss = "request"
    /\ stopping' = TRUE
    /\ boss' = "notify"
    /\ UNCHANGED <<loop, mtx, scheduled, due, todo, watched, interval, puts, torn>>

\* notify_all wakes the thread if it sleeps by now; nobody holds the mutex for it.
StopNotify ==
    /\ boss = "notify"
    /\ loop' = IF loop = "asleep" THEN "lock" ELSE loop
    /\ boss' = "join"
    /\ UNCHANGED <<mtx, stopping, scheduled, due, todo, watched, interval, puts, torn>>

Joined == loop = "ended"

StopJoin ==
    /\ boss = "join" /\ Joined
    /\ boss' = "over"
    /\ UNCHANGED <<loop, mtx, stopping, scheduled, due, todo, watched, interval, puts, torn>>

-----------------------------------------------------------------------------
(* The thread of the scheduler *)

BeginPass ==
    /\ loop = "top"
    /\ IF stopping THEN loop' = "ended" /\ UNCHANGED todo
       ELSE loop' = "run" /\ todo' = due
    /\ watched' = {}
    /\ UNCHANGED <<boss, mtx, stopping, scheduled, due, interval, puts, torn>>

\* Mutant of AfterFailure: what a task throws ends the thread.
AfterFailureEnded == "ended"

AfterFailure == "run"

\* A task runs, or fails, which is logged; in both cases it is due an interval later.
\* An interval of 0 makes it due at once.
RunTask ==
    /\ loop = "run"
    /\ \E t \in todo :
         /\ todo' = todo \ {t}
         /\ due' = IF interval[t] = 0 THEN due ELSE due \ {t}
    /\ loop' \in {"run", AfterFailure}
    /\ UNCHANGED <<boss, mtx, stopping, scheduled, watched, interval, puts, torn>>

EndPass ==
    /\ loop = "run" /\ todo = {}
    /\ watched' = scheduled
    /\ loop' = "wake"
    /\ UNCHANGED <<boss, mtx, stopping, scheduled, due, todo, interval, puts, torn>>

\* The mutex is taken before, and again after, the sleep.
TakeMutex ==
    /\ loop \in {"wake", "lock"}
    /\ mtx' = TRUE
    /\ loop' = "test"
    /\ UNCHANGED <<boss, stopping, scheduled, due, todo, watched, interval, puts, torn>>

\* The predicate of the wait, and the deadline: the next run of the tasks that were
\* there when it was computed, or an hour.
TestStop ==
    /\ loop = "test"
    /\ \/ loop' = "top" /\ mtx' = FALSE
       \/ ~stopping /\ watched \cap due = {} /\ loop' = "checked" /\ UNCHANGED mtx
    /\ UNCHANGED <<boss, stopping, scheduled, due, todo, watched, interval, puts, torn>>

FallAsleep ==
    /\ loop = "checked"
    /\ loop' = "asleep" /\ mtx' = FALSE
    /\ UNCHANGED <<boss, stopping, scheduled, due, todo, watched, interval, puts, torn>>

\* The deadline comes, if nothing else does.
Wakes == loop = "asleep"

WakeUp ==
    /\ loop = "asleep" /\ Wakes
    /\ loop' = "lock"
    /\ UNCHANGED <<boss, mtx, stopping, scheduled, due, todo, watched, interval, puts, torn>>

\* Time passes.
BecomeDue(t) ==
    /\ t \in scheduled \ due
    /\ due' = due \cup {t}
    /\ UNCHANGED <<boss, loop, mtx, stopping, scheduled, todo, watched, interval, puts, torn>>

-----------------------------------------------------------------------------
(* PUT settings *)

InPut(w, s) == writer[w].at = s

\* What another request begins or does, this one has not done alone.
Disturbs(w) == alone' = [v \in Writers |-> v = w /\ alone[w] /\ writer'[w] # NoWriter]

PutSettings(w) ==
    /\ boss = "serve" /\ writer[w] = NoWriter
    /\ \E to \in Intervals : writer' = [writer EXCEPT ![w] = [at |-> "upsert", key |-> 1, to |-> to]]
    /\ alone' = [v \in Writers |-> v = w /\ \A u \in Writers : writer[u] = NoWriter]
    /\ UNCHANGED <<machine, interval, setting>>

\* One row after the other; then the intervals, for the keys that were written.
UpsertSetting(w) ==
    /\ InPut(w, "upsert")
    /\ LET p == writer[w] IN
         IF p.key <= Len(Keys)
         THEN /\ setting' = [setting EXCEPT ![Keys[p.key]] = p.to]
              /\ writer' = [writer EXCEPT ![w].key = @ + 1]
         ELSE /\ writer' = [writer EXCEPT ![w] = [at |-> "read", key |-> 1]]
              /\ UNCHANGED setting
    /\ Disturbs(w)
    /\ UNCHANGED <<machine, interval>>

\* A key that is not known, or a database that does not answer: the request ends, and
\* what it has written stays.
AbandonPut(w) ==
    /\ writer[w] # NoWriter
    /\ writer' = [writer EXCEPT ![w] = NoWriter]
    /\ Disturbs(w)
    /\ UNCHANGED <<machine, interval, setting>>

\* The value is read back; 0 is not handed on.
ReadSetting(w) ==
    /\ InPut(w, "read")
    /\ LET p == writer[w] IN
         writer' = [writer EXCEPT ![w] =
            IF p.key > Len(Keys) THEN NoWriter
            ELSE IF setting[Keys[p.key]] > 0
            THEN [at |-> "reschedule", key |-> p.key, to |-> setting[Keys[p.key]]]
            ELSE [p EXCEPT !.key = @ + 1]]
    /\ Disturbs(w)
    /\ UNCHANGED <<machine, interval, setting>>

\* Mutant of Rescheduled: only while the thread of the scheduler sleeps.
RescheduledAsleep(p) ==
    IF loop = "asleep" /\ Keys[p.key] \in scheduled
    THEN [interval EXCEPT ![Keys[p.key]] = p.to] ELSE interval

Rescheduled(p) ==
    IF Keys[p.key] \in scheduled THEN [interval EXCEPT ![Keys[p.key]] = p.to] ELSE interval

\* reschedule takes the mutex and notifies; the sleeper finds no reason to wake and
\* sleeps on to the deadline it had.
Reschedule(w) ==
    /\ InPut(w, "reschedule") /\ ~mtx
    /\ interval' = Rescheduled(writer[w])
    /\ loop' = IF loop = "asleep" THEN "lock" ELSE loop
    /\ writer' = [writer EXCEPT ![w] = [at |-> "read", key |-> @.key + 1]]
    /\ Disturbs(w)
    /\ UNCHANGED <<boss, mtx, stopping, scheduled, due, todo, watched, setting, torn>>

-----------------------------------------------------------------------------
LoopStep == BeginPass \/ RunTask \/ EndPass \/ TakeMutex \/ TestStop \/ FallAsleep \/ WakeUp

BossStep == ScheduleLate \/ StopRequest \/ StopNotify \/ StopJoin

PutStep(w) == UpsertSetting(w) \/ AbandonPut(w) \/ ReadSetting(w) \/ Reschedule(w)

SchedulerNext ==
    /\ ~torn
    /\ \/ LoopStep \/ StartScheduler \/ BossStep \/ StopBegin
       \/ \E t \in Tasks : BecomeDue(t)
       \/ \E w \in Writers : PutSettings(w) \/ PutStep(w)

SchedulerSpec == SchedulerInit /\ [][SchedulerNext]_scheduleVars

\* The threads run, tasks come to an end, time passes and requests end.
SchedulerFairness ==
    /\ WF_scheduleVars(~torn /\ LoopStep)
    /\ WF_scheduleVars(~torn /\ BossStep)
    /\ \A t \in Tasks : WF_scheduleVars(~torn /\ BecomeDue(t))
    /\ \A w \in Writers : WF_scheduleVars(~torn /\ PutStep(w))

SchedulerFairSpec == SchedulerSpec /\ SchedulerFairness

-----------------------------------------------------------------------------
(* Properties *)

\* A task that is due is run, though it was added while the thread slept, though others
\* fail, and whatever the settings are: unless the process is stopping or dead.
DueTasksRun == \A t \in Tasks :
    (t \in due) ~> (torn \/ stopping \/ (loop = "run" /\ t \in todo))

\* stop returns, although its notification may come between the test of the predicate
\* and the sleep, and is then lost.
StopReturns == (boss = "request") ~> (torn \/ boss = "over")

\* Once stop has returned no task begins: main then destroys what they use.
NoTaskAfterStop == [][boss = "over" => ~RunTask]_scheduleVars

\* The scheduler runs what is due until it is stopped, can be stopped at any moment, and
\* runs nothing afterwards.
SchedulerServes == []SchedulerTypeOK /\ DueTasksRun /\ StopReturns /\ NoTaskAfterStop

\* A PUT that succeeds, and that no other has met, leaves a running task with the
\* interval its setting says, if that is above 0.
IntervalsFollow ==
    [][\A w \in Writers :
          InPut(w, "read") /\ writer[w].key > Len(Keys) /\ writer'[w] = NoWriter /\ alone[w] =>
             \A t \in scheduled :
                setting[t] > 0 => interval[t] = setting[t]]_scheduleVars
=============================================================================
