---------------------------- MODULE Runtime_proofs ----------------------------
(***************************************************************************)
(* Proofs about what the process runs on: the new setting of an interval   *)
(* is the one that counts and nothing runs after stop (Scheduler.tla), a   *)
(* connection is one thread's at a time and no wake-up is lost             *)
(* (ConnectionPool.tla), and shutdown leaves no accepted task behind       *)
(* (ThreadPool.tla), for any number of threads, tasks and intervals.       *)
(***************************************************************************)
EXTENDS Scheduler, ConnectionPool, ThreadPool, FiniteSetTheorems, TLAPS

-----------------------------------------------------------------------------
(* The scheduler and the settings of its intervals *)

\* The task has the interval of its setting, if it is one the scheduler runs.
Followed(t) == t \in scheduled /\ setting[t] > 0 => interval[t] = setting[t]

\* Where a thread that serves a PUT can be.
PutPlace ==
    \A w \in Writers :
        /\ writer[w] # NoWriter => boss = "serve"
        /\ writer[w].at = "reschedule" => writer[w].key \in 1..Len(Keys)

\* Who is alone is the only one.
AloneInv ==
    \A v, w \in Writers : alone[w] => writer[w] # NoWriter /\ (v # w => writer[v] = NoWriter)

\* A setting no PUT carries stays as it was at the start, and who has been alone since it
\* began has brought the intervals of the keys it is past in line.
FollowInv ==
    /\ \A t \in Tasks : (\A j \in 1..Len(Keys) : Keys[j] # t) => interval[t] = setting[t]
    /\ \A w \in Writers : alone[w] /\ writer[w].at \in {"read", "reschedule"} =>
          /\ \A j \in 1..Len(Keys) : j < writer[w].key => Followed(Keys[j])
          /\ writer[w].at = "reschedule" => writer[w].to = setting[Keys[writer[w].key]]

\* The thread of the scheduler is gone once stop has returned, and was not there before.
GoneInv ==
    /\ boss = "init" => loop = "none" /\ todo = {} /\ watched = {}
    /\ boss = "over" => loop = "ended"

SchedulerIInv == SchedulerTypeOK /\ PutPlace /\ AloneInv /\ FollowInv /\ GoneInv

LEMMA KeysAre ==
    /\ Len(Keys) \in Nat /\ \A j \in 1..Len(Keys) : Keys[j] \in Tasks
    /\ LateTasks \subseteq Tasks /\ \A i \in Intervals : i \in Nat
BY SchedulerAssumption

LEMMA WriterShape ==
    ASSUME SchedulerTypeOK, NEW w \in Writers
    PROVE  /\ writer[w].at \in {"idle", "upsert", "read", "reschedule"}
           /\ writer[w].at = "idle" <=> writer[w] = NoWriter
           /\ writer[w] # NoWriter => writer[w].key \in 1..(Len(Keys) + 1)
           /\ writer[w].at \in {"upsert", "reschedule"} =>
                writer[w].to \in Intervals
                /\ writer[w] \in [at : {"upsert", "reschedule"}, key : 1..Len(Keys) + 1, to : Intervals]
           /\ writer[w].at = "read" => writer[w] \in [at : {"read"}, key : 1..Len(Keys) + 1]
<1>1. writer[w] \in Writer \cup {NoWriter}
    BY DEF SchedulerTypeOK
<1> QED BY <1>1 DEF Writer, NoWriter

-----------------------------------------------------------------------------
(* Steps of the threads that serve no PUT *)

\* What is left to show of a step that leaves the requests and the intervals.
LEMMA PutsStay ==
    ASSUME SchedulerIInv, UNCHANGED <<interval, puts>>,
           boss = "serve" => boss' = "serve" \/ \A w \in Writers : writer[w] = NoWriter,
           boss = "serve" => scheduled' = scheduled
    PROVE  PutPlace' /\ AloneInv' /\ FollowInv'
<1>1. UNCHANGED <<interval, setting, writer, alone>>
    BY DEF puts
<1>2. PutPlace'
    BY <1>1 DEF SchedulerIInv, PutPlace
<1>3. AloneInv'
    BY <1>1 DEF SchedulerIInv, AloneInv
<1>4. FollowInv'
  <2>1. \A w \in Writers : alone[w] => boss = "serve"
      BY DEF SchedulerIInv, PutPlace, AloneInv
  <2>2. ASSUME NEW w \in Writers, alone'[w], writer'[w].at \in {"read", "reschedule"}
        PROVE  /\ \A j \in 1..Len(Keys) : j < writer'[w].key => Followed(Keys[j])'
               /\ writer'[w].at = "reschedule" => writer'[w].to = setting'[Keys[writer'[w].key]]
    <3>1. scheduled' = scheduled
        BY <1>1, <2>1, <2>2
    <3> QED BY <1>1, <2>2, <3>1 DEF SchedulerIInv, FollowInv, Followed
  <2> QED BY <1>1, <2>2 DEF SchedulerIInv, FollowInv
<1> QED BY <1>2, <1>3, <1>4

LEMMA BossKeeps ==
    ASSUME SchedulerIInv, StartScheduler \/ BossStep \/ StopBegin
    PROVE  SchedulerIInv'
<1>0. SchedulerTypeOK /\ GoneInv /\ LateTasks \subseteq Tasks
    BY KeysAre DEF SchedulerIInv
<1>1. UNCHANGED <<interval, puts>> /\ UNCHANGED <<setting, writer, alone>>
    BY DEF StartScheduler, BossStep, ScheduleLate, StopBegin, StopRequest, StopNotify, StopJoin, puts
<1>2. boss = "serve" => (\A w \in Writers : writer[w] = NoWriter) /\ scheduled' = scheduled
    BY DEF StartScheduler, BossStep, ScheduleLate, StopBegin, StopRequest, StopNotify, StopJoin
<1>3. PutPlace' /\ AloneInv' /\ FollowInv'
    BY <1>1, <1>2, PutsStay
<1>4. GoneInv'
    BY <1>0 DEF GoneInv, StartScheduler, BossStep, ScheduleLate, StopBegin, StopRequest,
                StopNotify, StopJoin, Joined
<1>5. SchedulerTypeOK'
  <2>1. CASE StartScheduler
    <3>1. mtx' \in BOOLEAN /\ (mtx' <=> loop' \in {"test", "checked"})
      <4>1. loop = "none" /\ loop' = "top"
          BY <1>0, <2>1 DEF StartScheduler, GoneInv
      <4>2. ~mtx
          BY <1>0, <4>1 DEF SchedulerTypeOK
      <4>3. mtx' = mtx
          BY <2>1 DEF StartScheduler
      <4>4. ~mtx'
          BY <4>2, <4>3, Zenon
      <4>5. mtx' \in BOOLEAN
          BY <1>0, <4>3 DEF SchedulerTypeOK
      <4> QED BY <4>1, <4>4, <4>5
    <3>2. /\ boss' = "late" /\ loop' = "top" /\ scheduled' = Tasks \ LateTasks
          /\ due' = scheduled' /\ UNCHANGED <<stopping, todo, watched, torn>>
        BY <2>1 DEF StartScheduler
    <3>3. todo = {} /\ watched = {}
        BY <1>0, <2>1 DEF StartScheduler, GoneInv
    <3> QED BY <1>0, <1>1, <3>1, <3>2, <3>3 DEF SchedulerTypeOK
  <2>2. CASE ScheduleLate
    <3> DEFINE more == {t \in LateTasks : interval[t] > 0}
    <3>1. /\ boss' = "serve" /\ scheduled' = scheduled \cup more /\ due' = due \cup more
          /\ UNCHANGED <<loop, mtx, stopping, todo, watched>>
        BY <2>2 DEF ScheduleLate
    <3>2. torn' \in BOOLEAN
        BY <2>2 DEF ScheduleLate
    <3>3. more \subseteq Tasks
        BY <1>0
    <3> HIDE DEF more
    <3> QED BY <1>0, <1>1, <3>1, <3>2, <3>3 DEF SchedulerTypeOK
  <2>3. CASE StopBegin
      BY <1>0, <1>1, <2>3 DEF StopBegin, SchedulerTypeOK
  <2>4. CASE StopRequest \/ StopJoin
    <3>1. stopping' \in BOOLEAN
        BY <1>0, <2>4 DEF StopRequest, StopJoin, SchedulerTypeOK
    <3>2. /\ boss' \in {"notify", "over"}
          /\ UNCHANGED <<loop, mtx, scheduled, due, todo, watched, torn>>
        BY <2>4 DEF StopRequest, StopJoin
    <3> QED BY <1>0, <1>1, <3>1, <3>2 DEF SchedulerTypeOK
  <2>5. CASE StopNotify
      BY <1>0, <1>1, <2>5 DEF StopNotify, SchedulerTypeOK
  <2> QED BY <2>1, <2>2, <2>3, <2>4, <2>5 DEF BossStep
<1> QED BY <1>3, <1>4, <1>5 DEF SchedulerIInv

LEMMA LoopKeeps ==
    ASSUME SchedulerIInv, LoopStep \/ \E t \in Tasks : BecomeDue(t)
    PROVE  SchedulerIInv' /\ (boss = "over" => ~RunTask)
<1>0. SchedulerTypeOK /\ GoneInv
    BY DEF SchedulerIInv
<1>1. /\ UNCHANGED <<interval, puts>> /\ UNCHANGED <<setting, writer, alone>>
      /\ boss' = boss /\ scheduled' = scheduled
    BY DEF LoopStep, BeginPass, RunTask, EndPass, TakeMutex, TestStop, FallAsleep, WakeUp,
           BecomeDue, puts
<1>2. PutPlace' /\ AloneInv' /\ FollowInv'
    BY <1>1, PutsStay
<1>3. GoneInv'
    BY <1>0 DEF GoneInv, LoopStep, BeginPass, RunTask, EndPass, TakeMutex, TestStop, FallAsleep,
                WakeUp, BecomeDue
<1>4. SchedulerTypeOK'
  <2>1. CASE BeginPass
      BY <1>0, <1>1, <2>1 DEF BeginPass, SchedulerTypeOK
  <2>2. CASE RunTask
    <3>1. /\ due' \subseteq due /\ todo' \subseteq todo /\ loop = "run" /\ loop' = "run"
          /\ UNCHANGED <<boss, mtx, stopping, scheduled, watched, torn>>
        BY <2>2 DEF RunTask, AfterFailure
    <3> QED BY <1>0, <1>1, <3>1 DEF SchedulerTypeOK
  <2>3. CASE EndPass
      BY <1>0, <1>1, <2>3 DEF EndPass, SchedulerTypeOK
  <2>6. CASE TakeMutex
    <3>1. /\ mtx' = TRUE /\ loop' = "test"
          /\ UNCHANGED <<boss, stopping, scheduled, due, todo, watched, torn>>
        BY <2>6 DEF TakeMutex
    <3>2. mtx' \in BOOLEAN /\ (mtx' <=> loop' \in {"test", "checked"})
        BY <3>1
    <3>3. /\ loop' = "test"
          /\ UNCHANGED <<boss, stopping, scheduled, due, todo, watched, torn>>
        BY <2>6 DEF TakeMutex
    <3> QED BY <1>0, <1>1, <3>2, <3>3 DEF SchedulerTypeOK
  <2>4. CASE TestStop \/ FallAsleep \/ WakeUp
    <3>1. mtx' \in BOOLEAN /\ (mtx' <=> loop' \in {"test", "checked"})
      <4>1. CASE loop = "test" /\ loop' = "checked" /\ UNCHANGED mtx
        <5>1. mtx \in BOOLEAN /\ mtx
            BY <1>0, <4>1 DEF SchedulerTypeOK
        <5>2. mtx' = mtx
            BY <4>1
        <5>3. mtx'
            BY <5>1, <5>2, Zenon
        <5>4. mtx' \in BOOLEAN
            BY <5>1, <5>2
        <5> QED BY <4>1, <5>3, <5>4
      <4>2. CASE mtx' = FALSE /\ loop' \in {"top", "asleep"}
          BY <4>2
      <4>3. CASE loop = "asleep" /\ loop' = "lock" /\ UNCHANGED mtx
        <5>1. mtx \in BOOLEAN /\ ~mtx
            BY <1>0, <4>3 DEF SchedulerTypeOK
        <5>2. mtx' = mtx
            BY <4>3
        <5>3. ~mtx'
            BY <5>1, <5>2, Zenon
        <5>4. mtx' \in BOOLEAN
            BY <5>1, <5>2
        <5> QED BY <4>3, <5>3, <5>4
      <4> QED BY <2>4, <4>1, <4>2, <4>3 DEF TestStop, FallAsleep, WakeUp
    <3>2. /\ loop' \in {"top", "checked", "asleep", "lock"}
          /\ UNCHANGED <<boss, stopping, scheduled, due, todo, watched, torn>>
        BY <2>4 DEF TestStop, FallAsleep, WakeUp
    <3> QED BY <1>0, <1>1, <3>1, <3>2 DEF SchedulerTypeOK
  <2>5. CASE \E t \in Tasks : BecomeDue(t)
      BY <1>0, <1>1, <2>5 DEF BecomeDue, SchedulerTypeOK
  <2> QED BY <2>1, <2>2, <2>3, <2>4, <2>5, <2>6 DEF LoopStep
<1>5. boss = "over" => ~RunTask
    BY <1>0 DEF GoneInv, RunTask
<1> QED BY <1>2, <1>3, <1>4, <1>5 DEF SchedulerIInv

-----------------------------------------------------------------------------
(* Steps of a PUT *)

\* The request of w becomes p; whoever else was alone is so no more.
PutTurns(w, p) ==
    /\ writer' = [writer EXCEPT ![w] = p]
    /\ \A v \in Writers : alone'[v] => v = w /\ p # NoWriter
    /\ alone' \in [Writers -> BOOLEAN]

LEMMA PutKeepsPlace ==
    ASSUME SchedulerIInv, NEW w \in Writers, NEW p \in Writer \cup {NoWriter}, PutTurns(w, p),
           boss' = boss, boss = "serve",
           p.at = "reschedule" => p.key \in 1..Len(Keys),
           alone'[w] => \A v \in Writers : v # w => writer[v] = NoWriter
    PROVE  PutPlace' /\ AloneInv' /\ writer'[w] = p
           /\ writer' \in [Writers -> Writer \cup {NoWriter}]
<1>1. /\ writer'[w] = p /\ \A v \in Writers : v # w => writer'[v] = writer[v]
      /\ writer' \in [Writers -> Writer \cup {NoWriter}]
    BY DEF PutTurns, SchedulerIInv, SchedulerTypeOK
<1>2. PutPlace'
    BY <1>1 DEF SchedulerIInv, PutPlace
<1>3. AloneInv'
    BY <1>1 DEF SchedulerIInv, AloneInv, PutTurns
<1> QED BY <1>1, <1>2, <1>3

LEMMA DisturbsIs ==
    ASSUME SchedulerIInv, NEW w \in Writers, Disturbs(w)
    PROVE  /\ \A v \in Writers : alone'[v] => v = w /\ alone[w] /\ writer'[w] # NoWriter
           /\ alone' \in [Writers -> BOOLEAN]
           /\ alone'[w] => \A v \in Writers : v # w => writer[v] = NoWriter
<1>1. \A v \in Writers : alone'[v] => v = w /\ alone[w] /\ writer'[w] # NoWriter
    BY DEF Disturbs
<1>2. alone' \in [Writers -> BOOLEAN]
    BY DEF Disturbs
<1> QED BY <1>1, <1>2 DEF SchedulerIInv, AloneInv

LEMMA PutKeeps ==
    ASSUME SchedulerIInv, NEW w \in Writers, PutSettings(w) \/ PutStep(w)
    PROVE  SchedulerIInv'
<1>0. SchedulerTypeOK /\ GoneInv /\ writer \in [Writers -> Writer \cup {NoWriter}]
    BY DEF SchedulerIInv, SchedulerTypeOK
<1>1. CASE PutSettings(w)
  <2>1. PICK to \in Intervals :
          /\ writer' = [writer EXCEPT ![w] = [at |-> "upsert", key |-> 1, to |-> to]]
          /\ boss = "serve" /\ writer[w] = NoWriter
          /\ alone' = [v \in Writers |-> v = w /\ \A u \in Writers : writer[u] = NoWriter]
          /\ UNCHANGED <<machine, interval, setting>>
      BY <1>1 DEF PutSettings
  <2> DEFINE p == [at |-> "upsert", key |-> 1, to |-> to]
  <2>2. p \in Writer /\ p.at = "upsert" /\ p # NoWriter
      BY KeysAre DEF Writer, NoWriter
  <2>3. writer' = [writer EXCEPT ![w] = p]
      BY <2>1
  <2> HIDE DEF p
  <2>4. /\ \A v \in Writers : alone'[v] => v = w /\ \A u \in Writers : writer[u] = NoWriter
        /\ alone' \in [Writers -> BOOLEAN]
      BY <2>1
  <2>5. UNCHANGED <<boss, loop, mtx, stopping, scheduled, due, todo, watched, torn, interval, setting>>
      BY <2>1 DEF machine
  <2>6. PutPlace' /\ AloneInv' /\ writer'[w] = p /\ writer' \in [Writers -> Writer \cup {NoWriter}]
    <3>1. PutTurns(w, p)
        BY <2>2, <2>3, <2>4 DEF PutTurns
    <3> QED BY <2>1, <2>2, <2>4, <2>5, <3>1, PutKeepsPlace
  <2>7. SchedulerTypeOK'
      BY <1>0, <2>4, <2>5, <2>6 DEF SchedulerTypeOK
  <2>8. FollowInv'
      BY <2>2, <2>4, <2>5, <2>6 DEF SchedulerIInv, FollowInv
  <2> QED BY <1>0, <2>5, <2>6, <2>7, <2>8 DEF SchedulerIInv, GoneInv
<1>2. CASE UpsertSetting(w)
  <2> DEFINE q == writer[w]
  <2>1. /\ q \in [at : {"upsert", "reschedule"}, key : 1..Len(Keys) + 1, to : Intervals]
        /\ q.at = "upsert" /\ boss = "serve"
      BY <1>0, <1>2, WriterShape DEF UpsertSetting, InPut, SchedulerIInv, PutPlace, NoWriter
  <2>2. Disturbs(w) /\ UNCHANGED <<boss, loop, mtx, stopping, scheduled, due, todo, watched, torn, interval>>
      BY <1>2 DEF UpsertSetting, machine
  <2>3. PICK p \in Writer \cup {NoWriter} :
          /\ writer' = [writer EXCEPT ![w] = p] /\ p.at \in {"upsert", "read"}
          /\ p.at = "read" => p.key = 1
          /\ \/ UNCHANGED setting
             \/ \E j \in 1..Len(Keys) : setting' = [setting EXCEPT ![Keys[j]] = q.to] /\ p.at = "upsert"
    <3>1. CASE q.key <= Len(Keys)
      <4> DEFINE p == [q EXCEPT !.key = @ + 1]
      <4>1. p \in Writer /\ p.at = "upsert"
          BY <2>1, <3>1, KeysAre DEF Writer
      <4>2. /\ setting' = [setting EXCEPT ![Keys[q.key]] = q.to]
            /\ writer' = [writer EXCEPT ![w] = p]
          BY <1>0, <1>2, <3>1 DEF UpsertSetting
      <4>3. q.key \in 1..Len(Keys)
          BY <2>1, <3>1, KeysAre
      <4> HIDE DEF p, q
      <4> QED BY <4>1, <4>2, <4>3
    <3>2. CASE ~(q.key <= Len(Keys))
      <4> DEFINE p == [at |-> "read", key |-> 1]
      <4>1. p \in Writer /\ p.at = "read" /\ p.key = 1
          BY KeysAre DEF Writer
      <4>2. UNCHANGED setting /\ writer' = [writer EXCEPT ![w] = p]
          BY <1>2, <3>2 DEF UpsertSetting
      <4> HIDE DEF p, q
      <4> QED BY <4>1, <4>2
    <3> QED BY <3>1, <3>2
  <2>4. /\ \A v \in Writers : alone'[v] => v = w /\ alone[w] /\ writer'[w] # NoWriter
        /\ alone' \in [Writers -> BOOLEAN]
        /\ alone'[w] => \A v \in Writers : v # w => writer[v] = NoWriter
      BY <2>2, DisturbsIs
  <2>5. PutPlace' /\ AloneInv' /\ writer'[w] = p /\ writer' \in [Writers -> Writer \cup {NoWriter}]
    <3>1. writer'[w] = p
        BY <1>0, <2>3
    <3>2. PutTurns(w, p)
        BY <2>3, <2>4, <3>1 DEF PutTurns
    <3> QED BY <2>1, <2>2, <2>3, <2>4, <3>2, PutKeepsPlace
  <2>6. /\ setting' \in [Tasks -> Intervals]
        /\ \A t \in Tasks : (\A j \in 1..Len(Keys) : Keys[j] # t) => setting'[t] = setting[t]
    <3>1. q.to \in Intervals /\ setting \in [Tasks -> Intervals]
        BY <1>0, <2>1 DEF SchedulerTypeOK
    <3>2. CASE UNCHANGED setting
        BY <3>1, <3>2
    <3>3. CASE \E j \in 1..Len(Keys) : setting' = [setting EXCEPT ![Keys[j]] = q.to]
      <4>1. PICK j \in 1..Len(Keys) : setting' = [setting EXCEPT ![Keys[j]] = q.to]
          BY <3>3
      <4> HIDE DEF q
      <4> QED BY <3>1, <4>1
    <3> QED BY <2>3, <3>2, <3>3
  <2>7. SchedulerTypeOK'
      BY <1>0, <2>2, <2>4, <2>5, <2>6 DEF SchedulerTypeOK
  <2>8. FollowInv'
    <3>1. \A t \in Tasks : (\A j \in 1..Len(Keys) : Keys[j] # t) => interval'[t] = setting'[t]
        BY <2>2, <2>6 DEF SchedulerIInv, FollowInv
    <3>2. ASSUME NEW v \in Writers, alone'[v], writer'[v].at \in {"read", "reschedule"}
          PROVE  /\ \A j \in 1..Len(Keys) : j < writer'[v].key => Followed(Keys[j])'
                 /\ writer'[v].at # "reschedule"
      <4>1. v = w /\ p.at = "read" /\ p.key = 1
          BY <2>3, <2>4, <2>5, <3>2
      <4>2. \A j \in 1..Len(Keys) : ~(j < 1)
          BY KeysAre
      <4> QED BY <2>5, <4>1, <4>2
    <3> QED BY <3>1, <3>2 DEF FollowInv
  <2> QED BY <1>0, <2>2, <2>5, <2>7, <2>8 DEF SchedulerIInv, GoneInv
<1>3. CASE AbandonPut(w)
  <2>1. /\ writer' = [writer EXCEPT ![w] = NoWriter] /\ boss = "serve" /\ Disturbs(w)
        /\ UNCHANGED <<boss, loop, mtx, stopping, scheduled, due, todo, watched, torn, interval, setting>>
      BY <1>3 DEF AbandonPut, machine, SchedulerIInv, PutPlace
  <2>2. writer'[w] = NoWriter
      BY <1>0, <2>1
  <2>3. /\ \A v \in Writers : alone'[v] => v = w /\ alone[w] /\ writer'[w] # NoWriter
        /\ alone' \in [Writers -> BOOLEAN]
      BY <2>1, DisturbsIs
  <2>4. PutPlace' /\ AloneInv' /\ writer' \in [Writers -> Writer \cup {NoWriter}]
    <3>1. PutTurns(w, NoWriter)
        BY <2>1, <2>2, <2>3 DEF PutTurns
    <3> QED BY <2>1, <2>2, <2>3, <3>1, PutKeepsPlace DEF NoWriter
  <2>5. SchedulerTypeOK'
      BY <1>0, <2>1, <2>3, <2>4 DEF SchedulerTypeOK
  <2>6. FollowInv'
      BY <2>1, <2>2, <2>3 DEF SchedulerIInv, FollowInv
  <2> QED BY <1>0, <2>1, <2>4, <2>5, <2>6 DEF SchedulerIInv, GoneInv
<1>4. CASE ReadSetting(w)
  <2> DEFINE q == writer[w]
             k == q.key
  <2>1. /\ q \in [at : {"read"}, key : 1..Len(Keys) + 1] /\ q.at = "read" /\ boss = "serve"
        /\ k \in 1..(Len(Keys) + 1)
      BY <1>0, <1>4, WriterShape DEF ReadSetting, InPut, SchedulerIInv, PutPlace, NoWriter
  <2>2. Disturbs(w) /\ UNCHANGED <<boss, loop, mtx, stopping, scheduled, due, todo, watched, torn, interval, setting>>
      BY <1>4 DEF ReadSetting, machine
  <2>3. PICK p \in Writer \cup {NoWriter} :
          /\ writer' = [writer EXCEPT ![w] = p]
          /\ \/ p = NoWriter
             \/ /\ p.at = "reschedule" /\ p.key = k /\ k \in 1..Len(Keys)
                /\ p.to = setting[Keys[k]]
             \/ /\ p.at = "read" /\ p.key = k + 1 /\ k \in 1..Len(Keys)
                /\ ~(setting[Keys[k]] > 0)
    <3>1. CASE k > Len(Keys)
        BY <1>4, <3>1 DEF ReadSetting
    <3>2. CASE ~(k > Len(Keys)) /\ setting[Keys[k]] > 0
      <4> DEFINE p == [at |-> "reschedule", key |-> k, to |-> setting[Keys[k]]]
      <4>1. k \in 1..Len(Keys)
          BY <2>1, <3>2, KeysAre
      <4>2. setting[Keys[k]] \in Intervals
          BY <1>0, <4>1, KeysAre DEF SchedulerTypeOK
      <4>3. p \in Writer /\ p.at = "reschedule" /\ p.key = k /\ p.to = setting[Keys[k]]
          BY <2>1, <4>2 DEF Writer
      <4>4. writer' = [writer EXCEPT ![w] = p]
          BY <1>4, <3>2 DEF ReadSetting
      <4> HIDE DEF p, k
      <4> QED BY <4>1, <4>3, <4>4
    <3>3. CASE ~(k > Len(Keys)) /\ ~(setting[Keys[k]] > 0)
      <4> DEFINE p == [q EXCEPT !.key = @ + 1]
      <4>1. k \in 1..Len(Keys)
          BY <2>1, <3>3, KeysAre
      <4>2. p \in Writer /\ p.at = "read" /\ p.key = k + 1
          BY <2>1, <4>1, KeysAre DEF Writer
      <4>3. writer' = [writer EXCEPT ![w] = p]
          BY <1>4, <3>3 DEF ReadSetting
      <4> HIDE DEF p, k
      <4> QED BY <3>3, <4>1, <4>2, <4>3
    <3> QED BY <3>1, <3>2, <3>3
  <2>4. /\ \A v \in Writers : alone'[v] => v = w /\ alone[w] /\ writer'[w] # NoWriter
        /\ alone' \in [Writers -> BOOLEAN]
        /\ alone'[w] => \A v \in Writers : v # w => writer[v] = NoWriter
      BY <2>2, DisturbsIs
  <2>5. PutPlace' /\ AloneInv' /\ writer'[w] = p /\ writer' \in [Writers -> Writer \cup {NoWriter}]
    <3>1. writer'[w] = p
        BY <1>0, <2>3
    <3>2. PutTurns(w, p)
        BY <2>3, <2>4, <3>1 DEF PutTurns
    <3>3. p.at = "reschedule" => p.key \in 1..Len(Keys)
        BY <2>3 DEF NoWriter
    <3> QED BY <2>1, <2>2, <2>4, <3>2, <3>3, PutKeepsPlace
  <2>6. SchedulerTypeOK'
      BY <1>0, <2>2, <2>4, <2>5 DEF SchedulerTypeOK
  <2>7. FollowInv'
    <3>1. \A t \in Tasks : (\A j \in 1..Len(Keys) : Keys[j] # t) => interval'[t] = setting'[t]
        BY <2>2 DEF SchedulerIInv, FollowInv
    <3>2. ASSUME NEW v \in Writers, alone'[v], writer'[v].at \in {"read", "reschedule"}
          PROVE  /\ \A j \in 1..Len(Keys) : j < writer'[v].key => Followed(Keys[j])'
                 /\ writer'[v].at = "reschedule" => writer'[v].to = setting'[Keys[writer'[v].key]]
      <4>1. v = w /\ writer'[v] = p /\ p # NoWriter /\ alone[w]
          BY <2>4, <2>5, <3>2
      <4>2. \A j \in 1..Len(Keys) : j < k => Followed(Keys[j])
          BY <2>1, <4>1 DEF SchedulerIInv, FollowInv
      <4>3. \A j \in 1..Len(Keys) : Followed(Keys[j])' <=> Followed(Keys[j])
          BY <2>2 DEF Followed
      <4>4. CASE p.at = "reschedule"
          BY <2>2, <2>3, <4>1, <4>2, <4>3, <4>4
      <4>5. CASE p.at = "read"
        <5>1. p.key = k + 1 /\ ~(setting[Keys[k]] > 0) /\ k \in 1..Len(Keys)
            BY <2>3, <4>1, <4>5
        <5>2. \A j \in 1..Len(Keys) : j < k + 1 => j < k \/ j = k
            BY <5>1, KeysAre
        <5>3. Followed(Keys[k])
            BY <5>1 DEF Followed
        <5> HIDE DEF k
        <5> QED BY <4>1, <4>2, <4>3, <4>5, <5>1, <5>2, <5>3
      <4> QED BY <3>2, <4>1, <4>4, <4>5
    <3> QED BY <3>1, <3>2 DEF FollowInv
  <2> QED BY <1>0, <2>2, <2>5, <2>6, <2>7 DEF SchedulerIInv, GoneInv
<1>5. CASE Reschedule(w)
  <2> DEFINE q == writer[w]
             k == q.key
             p == [at |-> "read", key |-> k + 1]
  <2>1. /\ q.at = "reschedule" /\ boss = "serve" /\ k \in 1..Len(Keys) /\ q.to \in Intervals
      BY <1>0, <1>5, WriterShape DEF Reschedule, InPut, SchedulerIInv, PutPlace, NoWriter
  <2>2. /\ ~mtx /\ Disturbs(w) /\ loop' = IF loop = "asleep" THEN "lock" ELSE loop
        /\ UNCHANGED <<boss, mtx, stopping, scheduled, due, todo, watched, setting, torn>>
      BY <1>5 DEF Reschedule
  <2>3. writer' = [writer EXCEPT ![w] = p]
      BY <1>0, <1>5 DEF Reschedule
  <2>4. p \in Writer /\ p.at = "read" /\ p.key = k + 1 /\ p # NoWriter
      BY <2>1, KeysAre DEF Writer, NoWriter
  <2>5. interval' = IF Keys[k] \in scheduled THEN [interval EXCEPT ![Keys[k]] = q.to] ELSE interval
      BY <1>5 DEF Reschedule, Rescheduled
  <2>6. /\ interval' \in [Tasks -> Intervals]
        /\ \A t \in Tasks : t # Keys[k] => interval'[t] = interval[t]
        /\ Keys[k] \in scheduled => interval'[Keys[k]] = q.to
    <3>1. Keys[k] \in Tasks /\ interval \in [Tasks -> Intervals]
        BY <1>0, <2>1, KeysAre DEF SchedulerTypeOK
    <3> HIDE DEF k, q
    <3> QED BY <2>1, <2>5, <3>1
  <2>7. /\ \A v \in Writers : alone'[v] => v = w /\ alone[w] /\ writer'[w] # NoWriter
        /\ alone' \in [Writers -> BOOLEAN]
        /\ alone'[w] => \A v \in Writers : v # w => writer[v] = NoWriter
      BY <2>2, DisturbsIs
  <2>8. alone[w] => /\ \A j \in 1..Len(Keys) : j < k => Followed(Keys[j])
                    /\ q.to = setting[Keys[k]]
      BY <2>1 DEF SchedulerIInv, FollowInv
  <2> HIDE DEF p, k, q
  <2>9. PutPlace' /\ AloneInv' /\ writer'[w] = p /\ writer' \in [Writers -> Writer \cup {NoWriter}]
    <3>1. PutTurns(w, p)
        BY <2>3, <2>4, <2>7 DEF PutTurns
    <3> QED BY <2>1, <2>2, <2>4, <2>7, <3>1, PutKeepsPlace
  <2>10. SchedulerTypeOK'
      BY <1>0, <2>2, <2>6, <2>7, <2>9 DEF SchedulerTypeOK
  <2>11. FollowInv'
    <3>1. ASSUME NEW t \in Tasks, \A j \in 1..Len(Keys) : Keys[j] # t
          PROVE  interval'[t] = setting'[t]
        BY <2>1, <2>2, <2>6, <3>1 DEF SchedulerIInv, FollowInv
    <3>2. ASSUME NEW v \in Writers, alone'[v], writer'[v].at \in {"read", "reschedule"}
          PROVE  /\ \A j \in 1..Len(Keys) : j < writer'[v].key => Followed(Keys[j])'
                 /\ writer'[v].at # "reschedule"
      <4>1. v = w /\ writer'[v] = p /\ alone[w]
          BY <2>7, <2>9, <3>2
      <4>2. ASSUME NEW j \in 1..Len(Keys), j < k + 1 PROVE Followed(Keys[j])'
        <5>1. CASE Keys[j] = Keys[k]
            BY <2>2, <2>6, <2>8, <4>1, <5>1 DEF Followed
        <5>2. CASE Keys[j] # Keys[k]
          <6>1. j < k /\ Keys[j] \in Tasks
              BY <2>1, <4>2, <5>2, KeysAre
          <6>2. Followed(Keys[j])
              BY <2>8, <4>1, <6>1
          <6> QED BY <2>2, <2>6, <5>2, <6>1, <6>2 DEF Followed
        <5> QED BY <5>1, <5>2
      <4> QED BY <2>4, <4>1, <4>2
    <3> QED BY <3>1, <3>2 DEF FollowInv
  <2>12. GoneInv'
      BY <1>0, <2>2 DEF GoneInv
  <2> QED BY <2>9, <2>10, <2>11, <2>12 DEF SchedulerIInv
<1> QED BY <1>1, <1>2, <1>3, <1>4, <1>5 DEF PutStep

LEMMA SchedulerBegins == SchedulerInit => SchedulerIInv
<1> SUFFICES ASSUME SchedulerInit PROVE SchedulerIInv
    OBVIOUS
<1>1. SchedulerTypeOK
    BY DEF SchedulerInit, SchedulerTypeOK
<1>2. \A w \in Writers : writer[w] = NoWriter /\ ~alone[w]
    BY DEF SchedulerInit
<1>3. PutPlace /\ AloneInv /\ GoneInv
    BY <1>2 DEF SchedulerInit, PutPlace, AloneInv, GoneInv, NoWriter
<1>4. FollowInv
    BY <1>2 DEF SchedulerInit, FollowInv
<1> QED BY <1>1, <1>3, <1>4 DEF SchedulerIInv

LEMMA SchedulerStep ==
    ASSUME SchedulerIInv, [SchedulerNext]_scheduleVars
    PROVE  SchedulerIInv'
<1>1. CASE LoopStep \/ \E t \in Tasks : BecomeDue(t)
    BY <1>1, LoopKeeps
<1>2. CASE StartScheduler \/ BossStep \/ StopBegin
    BY <1>2, BossKeeps
<1>3. CASE \E w \in Writers : PutSettings(w) \/ PutStep(w)
    BY <1>3, PutKeeps
<1>4. CASE UNCHANGED scheduleVars
    BY <1>4 DEF scheduleVars, SchedulerIInv, SchedulerTypeOK, PutPlace, AloneInv, FollowInv,
                Followed, GoneInv
<1> QED BY <1>1, <1>2, <1>3, <1>4 DEF SchedulerNext

LEMMA SchedulerHolds == SchedulerSpec => []SchedulerIInv
<1>1. SchedulerIInv /\ [SchedulerNext]_scheduleVars => SchedulerIInv'
    BY SchedulerStep
<1> QED BY <1>1, SchedulerBegins, PTL DEF SchedulerSpec

\* A PUT of settings that succeeds, and that no other has met, leaves every task the
\* scheduler runs with the interval of its setting, if that is above 0.
THEOREM SettingsTakeEffect == SchedulerSpec => IntervalsFollow
<1>1. ASSUME SchedulerIInv, [SchedulerNext]_scheduleVars
      PROVE  \A w \in Writers :
                InPut(w, "read") /\ writer[w].key > Len(Keys) /\ writer'[w] = NoWriter /\ alone[w] =>
                   \A t \in scheduled : setting[t] > 0 => interval[t] = setting[t]
  <2> SUFFICES ASSUME NEW w \in Writers, InPut(w, "read"), writer[w].key > Len(Keys), alone[w],
                      NEW t \in scheduled, setting[t] > 0
               PROVE  interval[t] = setting[t]
      OBVIOUS
  <2>1. t \in Tasks
      BY <1>1 DEF SchedulerIInv, SchedulerTypeOK
  <2>2. CASE \A j \in 1..Len(Keys) : Keys[j] # t
      BY <1>1, <2>1, <2>2 DEF SchedulerIInv, FollowInv
  <2>3. CASE \E j \in 1..Len(Keys) : Keys[j] = t
    <3>1. PICK j \in 1..Len(Keys) : Keys[j] = t
        BY <2>3
    <3>2. writer[w].key \in 1..(Len(Keys) + 1)
        BY <1>1, WriterShape DEF SchedulerIInv, InPut, NoWriter
    <3>3. j < writer[w].key
        BY <3>2, KeysAre
    <3>4. Followed(Keys[j])
        BY <1>1, <3>3 DEF SchedulerIInv, FollowInv, InPut
    <3> QED BY <3>1, <3>4 DEF Followed
  <2> QED BY <2>2, <2>3
<1> QED BY <1>1, SchedulerHolds, PTL DEF SchedulerSpec, IntervalsFollow

\* The scheduler's lock and lists are sound at every moment, and once stop has returned no
\* task begins, so that main may destroy what the tasks use.
THEOREM NothingRunsAfterStop == SchedulerSpec => []SchedulerTypeOK /\ NoTaskAfterStop
<1>1. ASSUME SchedulerIInv
      PROVE  boss = "over" => ~RunTask
    BY <1>1 DEF SchedulerIInv, GoneInv, RunTask
<1>2. SchedulerIInv => SchedulerTypeOK
    BY DEF SchedulerIInv
<1> QED BY <1>1, <1>2, SchedulerHolds, PTL DEF SchedulerSpec, NoTaskAfterStop

-----------------------------------------------------------------------------
(* The connection pool *)

\* The threads NoLostWakeUp counts.
Ready == {c \in Callers : Awake(c)}

Sleepers == {c \in Callers : caller[c] = "asleep"}

-----------------------------------------------------------------------------
(* Lemmas about what a step does to the sets that are counted *)

LEMMA CountsAreNumbers ==
    ASSUME PoolTypeOK
    PROVE  /\ IsFiniteSet(available) /\ IsFiniteSet(Ready)
           /\ Cardinality(available) \in Nat /\ Cardinality(Ready) \in Nat
<1>1. available \subseteq Conns /\ Ready \subseteq Callers
    BY DEF PoolTypeOK, Ready
<1>2. IsFiniteSet(available) /\ IsFiniteSet(Ready)
    BY <1>1, PoolAssumption, FS_Subset
<1> QED BY <1>2, FS_CardinalityType

\* What moves a thread that neither slept nor was on its way, to a place where it still
\* does neither, leaves both sets as they are.
LEMMA MoveElsewhere ==
    ASSUME PoolTypeOK, NEW c \in Callers, NEW at,
           ~Awake(c), caller[c] # "asleep", Moves(c, at),
           at \notin {"enter", "woken", "late", "asleep"}
    PROVE  Ready' = Ready /\ Sleepers' = Sleepers
BY DEF PoolTypeOK, Moves, Ready, Sleepers, Awake

\* The type of what a step of thread c leaves alone.
LEMMA MoveType ==
    ASSUME PoolTypeOK, NEW c \in Callers, NEW at, Moves(c, at),
           at \in {"idle", "enter", "woken", "late", "asleep", "validate", "reopen", "use"}
    PROVE  /\ caller' \in [Callers -> {"idle", "enter", "woken", "late", "asleep", "validate", "reopen", "use"}]
           /\ caller'[c] = at
           /\ \A d \in Callers \ {c} : caller'[d] = caller[d]
BY DEF PoolTypeOK, Moves

-----------------------------------------------------------------------------
(* Types and the places a thread can be in *)

LEMMA PoolTypeInit == PoolInit => PoolTypeOK
BY PoolAssumption DEF PoolInit, PoolTypeOK

LEMMA PoolTypeNext == PoolTypeOK /\ [PoolNext]_poolVars => PoolTypeOK'
<1> SUFFICES ASSUME PoolTypeOK, [PoolNext]_poolVars PROVE PoolTypeOK'
    OBVIOUS
<1> USE PoolAssumption
<1>1. ASSUME NEW c \in Callers, Checkout(c) PROVE PoolTypeOK'
    BY <1>1 DEF PoolTypeOK, Checkout, Moves
<1>2. ASSUME NEW c \in Callers, Take(c) PROVE PoolTypeOK'
    BY <1>2 DEF PoolTypeOK, Take, Moves, Awake
<1>3. ASSUME NEW c \in Callers, FindNone(c) PROVE PoolTypeOK'
    BY <1>3 DEF PoolTypeOK, FindNone, Moves, Awake
<1>4. ASSUME NEW c \in Callers, Validate(c) PROVE PoolTypeOK'
    BY <1>4 DEF PoolTypeOK, Validate, Moves
<1>5. ASSUME NEW c \in Callers, Reopen(c) PROVE PoolTypeOK'
    <2>1. conn[c] \in Conns
        BY <1>5 DEF Reopen, PoolTypeOK
    <2> QED BY <1>5, <2>1 DEF PoolTypeOK, Reopen, Moves
<1>6. ASSUME NEW c \in Callers, ReturnConnection(c) PROVE PoolTypeOK'
    <2>1. conn[c] \in Conns
        BY <1>6 DEF ReturnConnection, PoolTypeOK
    <2>2. CASE Moves(c, "idle")
        BY <1>6, <2>1, <2>2 DEF PoolTypeOK, ReturnConnection, Moves, Emptied
    <2>3. ASSUME NEW d \in Callers, caller[d] = "asleep",
                 caller' = [caller EXCEPT ![c] = "idle", ![d] = "woken"]
          PROVE  PoolTypeOK'
        BY <1>6, <2>1, <2>3 DEF PoolTypeOK, ReturnConnection, Emptied
    <2> QED BY <1>6, <2>2, <2>3 DEF ReturnConnection, Notified
<1>7. ASSUME NEW c \in Callers, TimeOut(c) PROVE PoolTypeOK'
    BY <1>7 DEF PoolTypeOK, TimeOut, Moves, Expires
<1>8. ASSUME NEW k \in Conns, Drop(k) PROVE PoolTypeOK'
    BY <1>8 DEF PoolTypeOK, Drop
<1>9. CASE GoAway \/ ComeBack
    BY <1>9 DEF PoolTypeOK, GoAway, ComeBack
<1>10. CASE UNCHANGED poolVars
    BY <1>10 DEF PoolTypeOK, poolVars
<1> QED
    BY <1>1, <1>2, <1>3, <1>4, <1>5, <1>6, <1>7, <1>8, <1>9, <1>10 DEF PoolNext, CallerStep

-----------------------------------------------------------------------------
(* One connection, one thread *)

LEMMA HeldByOneNext == PoolTypeOK /\ HeldByOne /\ [PoolNext]_poolVars => HeldByOne'
<1> SUFFICES ASSUME PoolTypeOK, HeldByOne, [PoolNext]_poolVars PROVE HeldByOne'
    OBVIOUS
<1> USE PoolAssumption
<1>1. ASSUME NEW c \in Callers, Take(c) PROVE HeldByOne'
    BY <1>1 DEF PoolTypeOK, HeldByOne, Take
<1>2. ASSUME NEW c \in Callers, Reopen(c) PROVE HeldByOne'
    BY <1>2 DEF PoolTypeOK, HeldByOne, Reopen
<1>3. ASSUME NEW c \in Callers, ReturnConnection(c) PROVE HeldByOne'
    <2>1. conn[c] # NoConn
        BY <1>3 DEF ReturnConnection, PoolTypeOK
    <2>2. \A d \in Callers : d # c /\ conn[d] # NoConn => conn[d] # conn[c]
        BY DEF HeldByOne
    <2> QED BY <1>3, <2>1, <2>2 DEF PoolTypeOK, HeldByOne, ReturnConnection, Emptied
<1>4. ASSUME UNCHANGED <<available, conn>> PROVE HeldByOne'
    BY <1>4 DEF HeldByOne
<1> QED
    BY <1>1, <1>2, <1>3, <1>4 DEF PoolNext, CallerStep, Checkout, FindNone, Validate, TimeOut,
                                  Drop, GoAway, ComeBack, poolVars

-----------------------------------------------------------------------------
(* No wake-up is lost *)

LEMMA NoLostWakeUpNext ==
    PoolTypeOK /\ PoolTypeOK' /\ HeldByOne /\ NoLostWakeUp /\ [PoolNext]_poolVars => NoLostWakeUp'
<1> SUFFICES ASSUME PoolTypeOK, PoolTypeOK', HeldByOne, NoLostWakeUp, [PoolNext]_poolVars
             PROVE  NoLostWakeUp'
    OBVIOUS
<1> DEFINE Enough == Sleepers # {} => Cardinality(available) <= Cardinality(Ready)
<1>0. (NoLostWakeUp <=> Enough) /\ (NoLostWakeUp' <=> Enough')
    BY DEF NoLostWakeUp, Sleepers, Ready
<1>a. /\ IsFiniteSet(available) /\ IsFiniteSet(Ready)
      /\ Cardinality(available) \in Nat /\ Cardinality(Ready) \in Nat
      /\ IsFiniteSet(available') /\ IsFiniteSet(Ready')
      /\ Cardinality(available') \in Nat /\ Cardinality(Ready') \in Nat
    <2>1. /\ IsFiniteSet(available) /\ IsFiniteSet(Ready)
          /\ Cardinality(available) \in Nat /\ Cardinality(Ready) \in Nat
        BY CountsAreNumbers
    <2>2. available' \subseteq Conns /\ Ready' \subseteq Callers
        BY DEF PoolTypeOK, Ready
    <2>3. IsFiniteSet(available') /\ IsFiniteSet(Ready')
        BY <2>2, PoolAssumption, FS_Subset
    <2> QED BY <2>1, <2>3, FS_CardinalityType
\* A thread sets out for the store.
<1>1. ASSUME NEW c \in Callers, ~Awake(c), available' = available,
             Sleepers' \subseteq Sleepers, Ready' = Ready \cup {c}
      PROVE  Enough'
    <2>1. c \notin Ready
        BY <1>1 DEF Ready
    <2>2. Cardinality(Ready') = Cardinality(Ready) + 1
        BY <1>1, <1>a, <2>1, FS_AddElement
    <2> QED BY <1>0, <1>1, <1>a, <2>2
<1>2. ASSUME available' = available, Sleepers' \subseteq Sleepers, Ready' = Ready PROVE Enough'
    BY <1>0, <1>2, <1>a
<1>3. ASSUME NEW c \in Callers, Checkout(c) PROVE Enough'
    <2>1. ~Awake(c) /\ Ready' = Ready \cup {c} /\ Sleepers' = Sleepers
        BY <1>3 DEF Checkout, Moves, PoolTypeOK, Awake, Ready, Sleepers
    <2> QED BY <1>1, <1>3, <2>1 DEF Checkout
<1>4. ASSUME NEW c \in Callers, Take(c) PROVE Enough'
    <2>1. PICK k \in available : available' = available \ {k}
        BY <1>4 DEF Take
    <2>2. c \in Ready /\ Ready' = Ready \ {c} /\ Sleepers' = Sleepers
        BY <1>4 DEF Take, Moves, PoolTypeOK, Awake, Ready, Sleepers
    <2>3. /\ Cardinality(available') = Cardinality(available) - 1
          /\ Cardinality(Ready') = Cardinality(Ready) - 1
        BY <1>a, <2>1, <2>2, FS_RemoveElement
    <2> QED BY <1>0, <1>a, <2>2, <2>3
<1>5. ASSUME NEW c \in Callers, FindNone(c) PROVE Enough'
    <2>1. Cardinality(available') = 0
        BY <1>5, FS_EmptySet DEF FindNone
    <2> QED BY <1>a, <2>1
<1>6. ASSUME NEW c \in Callers, Validate(c) \/ Reopen(c) PROVE Enough'
    <2>1. ~Awake(c) /\ caller[c] # "asleep" /\ available' = available
        BY <1>6 DEF Validate, Reopen, Awake
    <2>2. \E at \in {"use", "reopen", "idle"} : Moves(c, at)
        BY <1>6 DEF Validate, Reopen
    <2>3. Ready' = Ready /\ Sleepers' = Sleepers
        BY <2>1, <2>2, MoveElsewhere
    <2> QED BY <1>2, <2>1, <2>3
<1>7. ASSUME NEW c \in Callers, ReturnConnection(c) PROVE Enough'
    <2>1. ~Awake(c) /\ caller[c] # "asleep"
        BY <1>7 DEF ReturnConnection, Awake
    <2>2. /\ conn[c] \notin available
          /\ Cardinality(available') = Cardinality(available) + 1
        <3>1. conn[c] # NoConn /\ available' = available \cup {conn[c]}
            BY <1>7 DEF ReturnConnection, PoolTypeOK
        <3>2. conn[c] \notin available
            BY <3>1 DEF HeldByOne
        <3> QED BY <1>a, <3>1, <3>2, FS_AddElement
    <2>3. CASE Sleepers = {}
        <3>1. Moves(c, "idle")
            BY <1>7, <2>3 DEF ReturnConnection, Notified, Sleepers
        <3>2. Sleepers' = {}
            BY <2>1, <2>3, <3>1, MoveElsewhere
        <3> QED BY <3>2
    <2>4. CASE Sleepers # {}
        <3>1. PICK d \in Sleepers : caller' = [caller EXCEPT ![c] = "idle", ![d] = "woken"]
            BY <1>7, <2>4 DEF ReturnConnection, Notified, Sleepers
        <3>2. d \in Callers /\ d # c /\ ~Awake(d)
            BY <2>1, <3>1 DEF Sleepers, Awake
        <3>3. d \notin Ready /\ Ready' = Ready \cup {d}
            BY <2>1, <3>1, <3>2 DEF Ready, Awake, PoolTypeOK
        <3>4. Cardinality(Ready') = Cardinality(Ready) + 1
            BY <1>a, <3>3, FS_AddElement
        <3> QED BY <1>0, <1>a, <2>2, <2>4, <3>4
    <2> QED BY <2>3, <2>4
<1>8. ASSUME NEW c \in Callers, TimeOut(c) PROVE Enough'
    <2>1. CASE caller[c] = "asleep"
        <3>1. ~Awake(c) /\ Ready' = Ready \cup {c} /\ Sleepers' \subseteq Sleepers
            BY <1>8, <2>1 DEF TimeOut, Moves, PoolTypeOK, Awake, Ready, Sleepers
        <3> QED BY <1>1, <1>8, <3>1 DEF TimeOut
    <2>2. CASE caller[c] = "woken"
        <3>1. Ready' = Ready /\ Sleepers' = Sleepers
            BY <1>8, <2>2 DEF TimeOut, Moves, PoolTypeOK, Awake, Ready, Sleepers
        <3> QED BY <1>2, <1>8, <3>1 DEF TimeOut
    <2> QED BY <1>8, <2>1, <2>2 DEF TimeOut, Expires
<1>9. ASSUME UNCHANGED <<available, caller>> PROVE Enough'
    <2>1. Ready' = Ready /\ Sleepers' = Sleepers
        BY <1>9 DEF Ready, Sleepers, Awake
    <2> QED BY <1>2, <1>9, <2>1
<1> HIDE DEF Enough
<1> QED
    BY <1>0, <1>3, <1>4, <1>5, <1>6, <1>7, <1>8, <1>9
    DEF PoolNext, CallerStep, Drop, GoAway, ComeBack, poolVars

-----------------------------------------------------------------------------
LEMMA PoolInvInit == PoolInit => PoolInv
<1> SUFFICES ASSUME PoolInit PROVE PoolInv
    OBVIOUS
<1>1. PoolTypeOK
    BY PoolTypeInit
<1>2. HeldByOne
    BY DEF PoolInit, HeldByOne
<1>3. NoLostWakeUp
    BY DEF PoolInit, NoLostWakeUp
<1> QED BY <1>1, <1>2, <1>3 DEF PoolInv

\* A connection is in the store or in one thread's hand, and as many threads are on their
\* way to the store as it has connections whenever somebody sleeps: the pool may lose
\* connections (ConnectionPool.cpp:93), never a wake-up.
THEOREM PoolCounts == PoolSpec => []PoolInv
<1>1. PoolInv /\ [PoolNext]_poolVars => PoolInv'
    BY PoolTypeNext, HeldByOneNext, NoLostWakeUpNext DEF PoolInv
<1> QED BY <1>1, PoolInvInit, PTL DEF PoolSpec

-----------------------------------------------------------------------------
(* The thread pool *)

\* A worker leaves only a pool that is closing and whose queue is empty, and nothing is
\* queued after that; the thread that shuts down goes past the join when all have left.
Drained ==
    /\ shutter # "away" => closing
    /\ \A w \in Workers : worker[w].at = "gone" => closing /\ Queue = {}
    /\ shutter = "over" => \A w \in Workers : worker[w].at = "gone"

\* A task is run by one worker.
OneRunsIt ==
    \A v, w \in Workers : v # w /\ worker[v].at = "run" => worker[v] # worker[w]

ThreadsIInv == ThreadsTypeOK /\ Drained /\ OneRunsIt

-----------------------------------------------------------------------------

LEMMA ThreadsBegin == ThreadsInit => ThreadsIInv
<1> SUFFICES ASSUME ThreadsInit PROVE ThreadsIInv
    OBVIOUS
<1>1. worker \in [Workers -> Crew] /\ \A w \in Workers : worker[w].at = "enter"
    BY DEF ThreadsInit, Crew
<1>2. \A w \in Workers, t \in Tickets : worker[w] # [at |-> "run", on |-> t]
    BY <1>1
<1>3. ThreadsTypeOK
    BY <1>1, <1>2 DEF ThreadsInit, ThreadsTypeOK
<1> QED
    BY <1>1, <1>3 DEF ThreadsInit, ThreadsIInv, Drained, OneRunsIt, Queue

\* Without a queued task and without a worker that runs one, what was submitted is done.
LEMMA DrainedIsDone == ThreadsIInv => AcceptedAreDone
<1> SUFFICES ASSUME ThreadsIInv, shutter = "over", NEW t \in Tickets
             PROVE  ticket[t] \in {"new", "refused", "done"}
    BY DEF AcceptedAreDone
<1>1. \A w \in Workers : worker[w].at = "gone"
    BY DEF ThreadsIInv, Drained
<1>2. Queue = {}
    BY <1>1, ThreadPoolAssumption DEF ThreadsIInv, Drained
<1>3. ticket[t] # "queued"
    BY <1>2 DEF Queue
<1>4. \A w \in Workers : worker[w] # [at |-> "run", on |-> t]
    BY <1>1
<1>5. ticket[t] # "running"
    BY <1>4 DEF ThreadsIInv, ThreadsTypeOK
<1> QED
    BY <1>3, <1>5 DEF ThreadsIInv, ThreadsTypeOK

\* Where a worker is that runs nothing.
Off == {[at |-> s] : s \in {"enter", "asleep", "gone"}}

\* Workers that move from one such place to another leave the running ones alone.
LEMMA MovesKeepRuns ==
    ASSUME ThreadsTypeOK, OneRunsIt,
           worker' \in [Workers -> Crew], ticket' = ticket,
           \A w \in Workers : worker'[w] = worker[w] \/ (worker[w].at # "run" /\ worker'[w] \in Off)
    PROVE  /\ OneRunsIt'
           /\ \A t \in Tickets :
                ticket'[t] = "running" <=> \E w \in Workers : worker'[w] = [at |-> "run", on |-> t]
<1>1. \A w \in Workers : worker'[w].at = "run" => worker'[w] = worker[w]
    BY DEF Off
<1>2. OneRunsIt'
    BY <1>1 DEF OneRunsIt
<1>3. ASSUME NEW w \in Workers, NEW t \in Tickets
      PROVE  worker'[w] = [at |-> "run", on |-> t] <=> worker[w] = [at |-> "run", on |-> t]
    BY <1>1, <1>3
<1> QED
    BY <1>2, <1>3 DEF ThreadsTypeOK

LEMMA ThreadsStep == ThreadsIInv /\ [ThreadsNext]_poolThreadVars => ThreadsIInv'
<1> SUFFICES ASSUME ThreadsIInv, [ThreadsNext]_poolThreadVars PROVE ThreadsIInv'
    OBVIOUS
<1>0. ThreadsTypeOK /\ Drained /\ OneRunsIt
    BY DEF ThreadsIInv
<1>1. ASSUME NEW t \in Tickets, Submit(t) PROVE ThreadsIInv'
  <2>1. UNCHANGED <<worker, closing, shutter>>
      BY <1>1 DEF Submit
  <2>2. ThreadsTypeOK'
      BY <1>0, <1>1 DEF Submit, ThreadsTypeOK
  <2>3. closing => Queue' = Queue
      BY <1>0, <1>1 DEF Submit, Queue, ThreadsTypeOK
  <2> QED
      BY <1>0, <2>1, <2>2, <2>3 DEF ThreadsIInv, Drained, OneRunsIt
<1>2. ASSUME NEW t \in Tickets, Tell(t) PROVE ThreadsIInv'
  <2>1. UNCHANGED <<ticket, closing, shutter>> /\ untold' \in SUBSET Tickets
      BY <1>0, <1>2 DEF Tell, ThreadsTypeOK
  <2>2. \/ worker' = worker
        \/ \E v \in Workers : /\ worker[v].at = "asleep"
                              /\ worker' = [w \in Workers |-> IF w \in {v} THEN [at |-> "enter"] ELSE worker[w]]
      BY <1>2 DEF Tell, Woken
  <2>3. worker' \in [Workers -> Crew]
    <3>1. [at |-> "enter"] \in Crew
        BY DEF Crew
    <3> QED
        BY <1>0, <2>2, <3>1 DEF ThreadsTypeOK
  <2>4. \A w \in Workers : \/ worker'[w] = worker[w]
                           \/ worker[w].at = "asleep" /\ worker'[w] = [at |-> "enter"]
      BY <2>2
  <2>5. \A w \in Workers : worker'[w] = worker[w] \/ (worker[w].at # "run" /\ worker'[w] \in Off)
      BY <2>4 DEF Off
  <2>6. OneRunsIt' /\ ThreadsTypeOK'
      BY <1>0, <2>1, <2>3, <2>5, MovesKeepRuns DEF ThreadsTypeOK
  <2>7. \A w \in Workers : worker'[w].at = "gone" <=> worker[w].at = "gone"
      BY <2>4
  <2> QED
      BY <1>0, <2>1, <2>6, <2>7 DEF ThreadsIInv, Drained, Queue
<1>3. ASSUME NEW w \in Workers, Leave(w) PROVE ThreadsIInv'
  <2>1. UNCHANGED <<ticket, untold, closing, shutter>> /\ closing /\ Queue = {}
      BY <1>3 DEF Leave, Leaves
  <2>2. worker[w].at = "enter" /\ worker' = [worker EXCEPT ![w] = [at |-> "gone"]]
      BY <1>3 DEF Leave
  <2>3. worker' \in [Workers -> Crew]
    <3>1. [at |-> "gone"] \in Crew
        BY DEF Crew
    <3> QED
        BY <1>0, <2>2, <3>1 DEF ThreadsTypeOK
  <2>4. \A v \in Workers : worker'[v] = IF v = w THEN [at |-> "gone"] ELSE worker[v]
      BY <1>0, <2>2 DEF ThreadsTypeOK
  <2>5. OneRunsIt' /\ ThreadsTypeOK'
      BY <1>0, <2>1, <2>2, <2>3, <2>4, MovesKeepRuns DEF ThreadsTypeOK, Off
  <2> QED
      BY <1>0, <2>1, <2>4, <2>5 DEF ThreadsIInv, Drained, Queue
<1>4. ASSUME NEW w \in Workers, TakeTicket(w) PROVE ThreadsIInv'
  <2>1. PICK t \in Queue :
           /\ worker' = [worker EXCEPT ![w] = [at |-> "run", on |-> t]]
           /\ ticket' = [ticket EXCEPT ![t] = "running"]
      BY <1>4 DEF TakeTicket
  <2>2. t \in Tickets /\ ticket[t] = "queued" /\ UNCHANGED <<untold, closing, shutter>>
        /\ worker[w].at = "enter"
      BY <1>4 DEF Queue, TakeTicket
  <2>3. \A v \in Workers : worker'[v] = IF v = w THEN [at |-> "run", on |-> t] ELSE worker[v]
      BY <1>0, <2>1 DEF ThreadsTypeOK
  <2>4. \A v \in Workers : worker[v] # [at |-> "run", on |-> t]
      BY <1>0, <2>2 DEF ThreadsTypeOK
  <2>5. OneRunsIt'
      BY <1>0, <2>3, <2>4 DEF OneRunsIt, ThreadsTypeOK, Crew
  <2>6. worker' \in [Workers -> Crew]
    <3>1. [at |-> "run", on |-> t] \in Crew
        BY <2>2 DEF Crew
    <3> QED
        BY <1>0, <2>1, <3>1 DEF ThreadsTypeOK
  <2>7. \A u \in Tickets :
           ticket'[u] = "running" <=> \E v \in Workers : worker'[v] = [at |-> "run", on |-> u]
    <3> TAKE u \in Tickets
    <3>1. CASE u = t
        BY <1>0, <2>1, <2>3, <3>1 DEF ThreadsTypeOK
    <3>2. CASE u # t
      <4>1. ticket'[u] = ticket[u]
          BY <1>0, <2>1, <3>2 DEF ThreadsTypeOK
      <4>2. \A v \in Workers : worker'[v] = [at |-> "run", on |-> u] <=> worker[v] = [at |-> "run", on |-> u]
          BY <2>2, <2>3, <3>2
      <4> QED
          BY <1>0, <4>1, <4>2 DEF ThreadsTypeOK
    <3> QED
        BY <3>1, <3>2
  <2>8. ticket' \in [Tickets -> {"new", "queued", "running", "done", "refused"}]
      BY <1>0, <2>1 DEF ThreadsTypeOK
  <2>9. ThreadsTypeOK'
      BY <1>0, <2>2, <2>6, <2>7, <2>8 DEF ThreadsTypeOK
  <2>10. Drained'
      BY <1>0, <2>2, <2>3, <2>1 DEF Drained
  <2> QED
      BY <2>5, <2>9, <2>10 DEF ThreadsIInv
<1>5. ASSUME NEW w \in Workers, Doze(w) PROVE ThreadsIInv'
  <2>1. UNCHANGED <<ticket, untold, closing, shutter>>
      BY <1>5 DEF Doze
  <2>2. worker[w].at = "enter" /\ worker' = [worker EXCEPT ![w] = [at |-> "asleep"]]
      BY <1>5 DEF Doze
  <2>3. worker' \in [Workers -> Crew]
    <3>1. [at |-> "asleep"] \in Crew
        BY DEF Crew
    <3> QED
        BY <1>0, <2>2, <3>1 DEF ThreadsTypeOK
  <2>4. \A v \in Workers : worker'[v] = IF v = w THEN [at |-> "asleep"] ELSE worker[v]
      BY <1>0, <2>2 DEF ThreadsTypeOK
  <2>5. OneRunsIt' /\ ThreadsTypeOK'
      BY <1>0, <2>1, <2>2, <2>3, <2>4, MovesKeepRuns DEF ThreadsTypeOK, Off
  <2>6. \A v \in Workers : worker'[v].at = "gone" <=> worker[v].at = "gone"
      BY <2>2, <2>4
  <2> QED
      BY <1>0, <2>1, <2>5, <2>6 DEF ThreadsIInv, Drained, Queue
<1>6. ASSUME NEW w \in Workers, Finish(w) PROVE ThreadsIInv'
  <2>1. PICK t \in Tickets : worker[w] = [at |-> "run", on |-> t]
      BY <1>0, <1>6 DEF Finish, ThreadsTypeOK, Crew
  <2>2. ticket' = [ticket EXCEPT ![t] = "done"] /\ UNCHANGED <<untold, closing, shutter>>
      BY <1>6, <2>1 DEF Finish
  <2>3. \A v \in Workers : worker'[v] = IF v = w THEN [at |-> "enter"] ELSE worker[v]
      BY <1>0, <1>6 DEF Finish, BackFrom, ThreadsTypeOK
  <2>4. ticket[t] = "running"
      BY <1>0, <2>1 DEF ThreadsTypeOK
  <2>5. \A v \in Workers : v # w => worker[v] # [at |-> "run", on |-> t]
      BY <1>0, <2>1 DEF OneRunsIt
  <2>6. worker' \in [Workers -> Crew]
    <3>1. [at |-> "enter"] \in Crew
        BY DEF Crew
    <3> QED
        BY <1>0, <1>6, <3>1 DEF Finish, BackFrom, ThreadsTypeOK
  <2>7. \A u \in Tickets :
           ticket'[u] = "running" <=> \E v \in Workers : worker'[v] = [at |-> "run", on |-> u]
    <3> TAKE u \in Tickets
    <3>1. CASE u = t
      <4>1. \A v \in Workers : worker'[v] # [at |-> "run", on |-> t]
          BY <2>3, <2>5
      <4> QED
          BY <1>0, <2>2, <3>1, <4>1 DEF ThreadsTypeOK
    <3>2. CASE u # t
      <4>1. ticket'[u] = ticket[u]
          BY <1>0, <2>2, <3>2 DEF ThreadsTypeOK
      <4>2. \A v \in Workers : worker'[v] = [at |-> "run", on |-> u] <=> worker[v] = [at |-> "run", on |-> u]
          BY <2>1, <2>3, <3>2
      <4> QED
          BY <1>0, <4>1, <4>2 DEF ThreadsTypeOK
    <3> QED
        BY <3>1, <3>2
  <2>8. ticket' \in [Tickets -> {"new", "queued", "running", "done", "refused"}]
      BY <1>0, <2>2 DEF ThreadsTypeOK
  <2>9. ThreadsTypeOK'
      BY <1>0, <2>2, <2>6, <2>7, <2>8 DEF ThreadsTypeOK
  <2>10. OneRunsIt'
      BY <1>0, <2>3 DEF OneRunsIt
  <2>11. Queue' = Queue
      BY <1>0, <2>2, <2>4 DEF Queue, ThreadsTypeOK
  <2>12. \A v \in Workers : worker'[v].at = "gone" <=> worker[v].at = "gone"
      BY <2>1, <2>3
  <2> QED
      BY <1>0, <2>2, <2>9, <2>10, <2>11, <2>12 DEF ThreadsIInv, Drained
<1>7. ASSUME Shutdown PROVE ThreadsIInv'
    BY <1>0, <1>7 DEF Shutdown, ThreadsIInv, ThreadsTypeOK, Drained, OneRunsIt, Queue
<1>8. ASSUME NotifyAll PROVE ThreadsIInv'
  <2>1. UNCHANGED <<ticket, untold, closing>> /\ shutter = "notify" /\ shutter' = "join"
      BY <1>8 DEF NotifyAll
  <2>2. \A w \in Workers : worker'[w] = IF worker[w].at = "asleep" THEN [at |-> "enter"] ELSE worker[w]
      BY <1>8 DEF NotifyAll
  <2>3. worker' \in [Workers -> Crew]
    <3>1. [at |-> "enter"] \in Crew
        BY DEF Crew
    <3> QED
        BY <1>0, <1>8, <3>1 DEF NotifyAll, ThreadsTypeOK
  <2>4. OneRunsIt' /\ ThreadsTypeOK'
      BY <1>0, <2>1, <2>2, <2>3, MovesKeepRuns DEF ThreadsTypeOK, Off
  <2>5. \A w \in Workers : worker'[w].at = "gone" <=> worker[w].at = "gone"
      BY <2>2
  <2> QED
      BY <1>0, <2>1, <2>4, <2>5 DEF ThreadsIInv, Drained, Queue
<1>9. ASSUME Join PROVE ThreadsIInv'
    BY <1>0, <1>9 DEF Join, ThreadsIInv, ThreadsTypeOK, Drained, OneRunsIt, Queue
<1>10. ASSUME UNCHANGED poolThreadVars PROVE ThreadsIInv'
    BY <1>0, <1>10 DEF poolThreadVars, ThreadsIInv, ThreadsTypeOK, Drained, OneRunsIt, Queue
<1> QED
    BY <1>1, <1>2, <1>3, <1>4, <1>5, <1>6, <1>7, <1>8, <1>9, <1>10 DEF ThreadsNext, WorkerStep

\* When shutdown returns every task that submit took has been run, whatever raced it
\* (ThreadPool.hpp 25-38, ThreadPool.cpp 36-52): the futures handed out are all kept.
THEOREM ShutdownFinishesTasks == ThreadsSpec => []ThreadsInv
<1>1. ThreadsIInv => ThreadsInv
    BY DrainedIsDone DEF ThreadsIInv, ThreadsInv
<1> QED
    BY <1>1, ThreadsBegin, ThreadsStep, PTL DEF ThreadsSpec
===============================================================================
