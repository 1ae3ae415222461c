------------------------------ MODULE Scheduler ------------------------------
(***************************************************************************)
(* The cooperative scheduler of scheduler/scheduler.c, with the gyro       *)
(* enabled: one step is one pass of scheduler(), or a task enabled or      *)
(* disabled in between.  Time is in ticks, of the cycle counter and the    *)
(* microsecond clock alike, and is kept relative: left is nextTargetCycles *)
(* minus the cycle counter; age[t] is the time since lastExecutedAtUs of a *)
(* task run by time, signal[t] that since lastSignaledAtUs of one run by   *)
(* events.  Both stop at Horizon.                                          *)
(***************************************************************************)
EXTENDS Integers, FiniteSets

CONSTANTS
  Tasks, NULL,
  StaticPriority,   \* -1 is TASK_PRIORITY_REALTIME
  Period,           \* desiredPeriodUs
  EventDriven,      \* the tasks with a checkFunc
  Serial,           \* TASK_SERIAL
  Relaxed,          \* of RX and OSD, attempts skipped before the time is cut
  Toggled,          \* tasks enabled and disabled at run time
  ExecTimes,        \* how long a run of each task may take
  Announces,        \* the next state times a task may announce, if it does
  Ignoring,         \* tasks with runs that say their time is not to be counted
  GyroPeriod, GyroTimes,   \* desiredPeriodCycles; gyro, filter and PID tasks
  Skews,            \* how far a gyro run may move the target to follow the gyro
  CheckTimes,       \* a walk over the queue, checkFuncs included
  IdleTime,         \* a pass that finds no time even for that
  LoopStartMin, LoopStartMax, LoopStartUp, LoopStartDown,
  GuardMin, GuardMax, GuardUp, GuardDown,
  CheckGuard,
  DeferPasses,      \* SCHED_TASK_DEFER_MASK + 1
  Scale,            \* 2^TASK_EXEC_TIME_SHIFT
  Horizon

RealTime == {t \in Tasks : StaticPriority[t] = -1}
Regular  == Tasks \ RealTime
TimeDriven == Regular \ EventDriven
TaskCount == Cardinality(Tasks)

ASSUME TaskAssumption ==
  /\ IsFiniteSet(Tasks) /\ NULL \notin Tasks
  /\ StaticPriority \in [Tasks -> {-1} \cup 1..255]
  /\ Period \in [Regular -> Nat \ {0}]
  /\ EventDriven \subseteq Regular /\ Toggled \subseteq Regular
  /\ Relaxed \in [Regular -> Nat]
  /\ ExecTimes \in [Regular -> SUBSET Nat] /\ Announces \in [Regular -> SUBSET Nat]
  /\ Ignoring \subseteq Regular

ASSUME CycleAssumption ==
  /\ GyroPeriod \in Nat \ {0} /\ GyroTimes \subseteq Nat \ {0}
  /\ Skews \subseteq Int
  /\ \A g \in GyroTimes, s \in Skews : g + s <= GyroPeriod
  /\ CheckTimes \subseteq Nat \ {0} /\ IdleTime \in Nat \ {0}
  /\ {LoopStartMin, LoopStartMax, LoopStartUp, LoopStartDown,
      GuardMin, GuardMax, GuardUp, GuardDown, CheckGuard, Horizon} \subseteq Nat
  /\ LoopStartDown <= LoopStartMin /\ GuardDown <= GuardMin
  /\ DeferPasses \in Nat \ {0} /\ Scale \in Nat \ {0}

VARIABLES
  queue,          \* taskQueueArray and taskQueueSize
  left,           \* time until the gyro is due, negative when it is late
  age, signal,    \* signal[t] is -1 when t is not signalled
  anticipatedExecutionTime,
  skipped,        \* skippedRxAttempts, skippedOSDAttempts
  taskGuardCycles, checkCycles, schedLoopStartCycles,
  scheduleCount,  \* modulo DeferPasses
  excess          \* history: by how much tasks outran their reserves

estimates == <<anticipatedExecutionTime, skipped, taskGuardCycles, checkCycles>>
vars == <<queue, left, age, signal, estimates, schedLoopStartCycles,
          scheduleCount, excess>>

Min2(a, b) == IF a <= b THEN a ELSE b
Max2(a, b) == IF a >= b THEN a ELSE b

-----------------------------------------------------------------------------
(* The queue: an array with room for every task and a terminator.          *)

Index == 0..TaskCount

EmptyQueue == [array |-> [k \in Index |-> NULL], size |-> 0]

queueContains(q, t) == \E k \in 0..(q.size - 1) : q.array[k] = t

\* Mutant: the new task goes to the end.
Mutant_IsPlace(q, t, k) == k = q.size

\* Where t goes: before the first task of a lower priority, or at the end.
IsPlace(q, t, k) ==
  LET lower(j) == \/ q.array[j] = NULL
                  \/ StaticPriority[q.array[j]] < StaticPriority[t]
  IN lower(k) /\ \A j \in 0..(k - 1) : ~lower(j)

InsertAt(q, t, k) ==
  [array |-> [j \in Index |-> IF j < k \/ j > q.size THEN q.array[j]
                              ELSE IF j = k THEN t ELSE q.array[j - 1]],
   size |-> q.size + 1]

\* Mutant: a task already in the queue is added again.
Mutant_queueAdd(q, t) == InsertAt(q, t, CHOOSE k \in 0..q.size : IsPlace(q, t, k))

queueAdd(q, t) ==
  IF q.size >= TaskCount \/ queueContains(q, t) THEN q
  ELSE InsertAt(q, t, CHOOSE k \in 0..q.size : IsPlace(q, t, k))

RemoveAt(q, k) ==
  [array |-> [j \in Index |-> IF k <= j /\ j < q.size THEN q.array[j + 1]
                              ELSE q.array[j]],
   size |-> q.size - 1]

queueRemove(q, t) ==
  IF ~queueContains(q, t) THEN q
  ELSE RemoveAt(q, CHOOSE k \in 0..(q.size - 1) : q.array[k] = t)

\* queueFirst and queueNext come by every position before the first NULL.
Walked(q) == {k \in Index : \A j \in 0..k : q.array[j] # NULL}

Booted == \A t \in Tasks \ Toggled : queueContains(queue, t)

setTaskEnabled(t, enabled) ==
  /\ queue' = IF enabled THEN queueAdd(queue, t) ELSE queueRemove(queue, t)
  /\ UNCHANGED <<left, age, signal, estimates, schedLoopStartCycles,
                 scheduleCount, excess>>

\* The tasks enabled at boot, in an order of the target's choice.
tasksInit == ~Booted /\ \E t \in Tasks : setTaskEnabled(t, TRUE)

\* A task enables or disables another one, or a command of the host does.
Toggle == Booted /\ \E t \in Toggled, enabled \in BOOLEAN : setTaskEnabled(t, enabled)

-----------------------------------------------------------------------------
(* The gyro pass.                                                          *)

\* Mutant: one period too many is skipped.
Mutant_DueIn ==
  IF left < -GyroPeriod THEN left + GyroPeriod * (2 + (-left) \div GyroPeriod) ELSE left

\* The time until the gyro, with the periods skipped that a task overran.
DueIn == IF left < -GyroPeriod THEN left + GyroPeriod * (1 + (-left) \div GyroPeriod)
         ELSE left

LoopStart ==
  IF DueIn < LoopStartMin /\ schedLoopStartCycles < LoopStartMax
  THEN schedLoopStartCycles + LoopStartUp ELSE schedLoopStartCycles

\* Near the boundary the pass polls for it.
GyroDue == DueIn < LoopStart

Signalled(t) == signal[t] # -1

Ages(spent) == age' = [t \in TimeDriven |-> Min2(age[t] + spent, Horizon)]

\* The events that arrive are recorded at the start of the pass.
Signals(arrived, spent) ==
  signal' = [t \in EventDriven |->
               IF Signalled(t) THEN Min2(signal[t] + spent, Horizon)
               ELSE IF t \in arrived THEN Min2(spent, Horizon) ELSE -1]

Elapse(arrived, spent) == Ages(spent) /\ Signals(arrived, spent)

\* Gyro, filter and PID, the receiver's frame check and the failsafe check.
\* The target this pass knows is past, so it looks at no other task.
RunGyro ==
  /\ GyroDue
  /\ schedLoopStartCycles' = IF LoopStart > LoopStartMin
                             THEN LoopStart - LoopStartDown ELSE LoopStart
  /\ \E g \in GyroTimes, s \in Skews :
       /\ left' = Min2(DueIn, 0) - g + GyroPeriod - s
       /\ Elapse({}, Max2(DueIn, 0) + g)
  /\ excess' = IF DueIn >= 0 THEN 0 ELSE excess
  /\ UNCHANGED <<queue, estimates>>

-----------------------------------------------------------------------------
(* The pass over the other tasks.                                          *)

\* Periods waited, since the last run or since the event; arrived are the
\* event-driven tasks whose checkFunc answers in this pass.
taskAgePeriods(t, arrived) ==
  IF t \in EventDriven
  THEN IF Signalled(t) THEN 1 + signal[t] \div Period[t]
       ELSE IF t \in arrived THEN 1 ELSE 0
  ELSE age[t] \div Period[t]

dynamicPriority(t, arrived) ==
  IF taskAgePeriods(t, arrived) = 0 THEN 0
  ELSE 1 + StaticPriority[t] * taskAgePeriods(t, arrived)

RequiredTime(t) == anticipatedExecutionTime[t] \div Scale

\* Selected for the time it asks for, or for being SERIAL, or in a pass that
\* looks at long tasks too.
MaySelect(t) ==
  \/ RequiredTime(t) + checkCycles + taskGuardCycles < DueIn
  \/ scheduleCount = 0
  \/ t = Serial

\* The position of the task selected: the first of the highest priority.
IsSelected(k, arrived) ==
  LET eligible == {j \in Walked(queue) :
                     /\ queue.array[j] \in Regular
                     /\ dynamicPriority(queue.array[j], arrived) > 0
                     /\ MaySelect(queue.array[j])}
      priority(j) == dynamicPriority(queue.array[j], arrived)
  IN /\ k \in eligible
     /\ \A j \in eligible : priority(j) < priority(k)
                            \/ (priority(j) = priority(k) /\ k <= j)

NothingSelected(arrived) == \A k \in Walked(queue) : ~IsSelected(k, arrived)

\* Mutant: the time left is not measured again after the checks.
Mutant_Fits(t, check) == RequiredTime(t) + taskGuardCycles < DueIn

\* The recheck, with the time the checks really took.
Fits(t, check) == RequiredTime(t) + taskGuardCycles < DueIn - check

\* What the scheduler expects of t after a run of e.
Estimates(t, e) ==
  LET old == anticipatedExecutionTime[t] IN
  IF Announces[t] # {} THEN {n * Scale : n \in Announces[t]}
  ELSE {IF e > old \div Scale THEN e * Scale ELSE IF old > 1 THEN old - 1 ELSE old}
       \cup (IF t \in Ignoring THEN {old} ELSE {})

AdjustGuard(overdue) ==
  taskGuardCycles' =
    IF overdue > 0 \/ -overdue < GuardMin
    THEN IF taskGuardCycles < GuardMax THEN taskGuardCycles + GuardUp
         ELSE taskGuardCycles
    ELSE IF taskGuardCycles > GuardMin THEN taskGuardCycles - GuardDown
         ELSE taskGuardCycles

\* Whole gyro periods that take time.
WholePeriods(time) == GyroPeriod * ((time + GyroPeriod - 1) \div GyroPeriod)

\* What tasks have outrun since the gyro was last on time.  A task that keeps to
\* its reserve adds nothing, one that outruns it adds that much; and while a
\* period is lost, the waiting for its end is then lost as well.
Outrun(overdue) ==
  LET before == IF left < -GyroPeriod THEN excess ELSE 0
  IN IF overdue > 0 THEN WholePeriods(before) + overdue ELSE before

schedulerExecuteTask(t, arrived, check) ==
  /\ Fits(t, check)
  /\ \E e \in ExecTimes[t] :
       LET overdue == e - (RequiredTime(t) + taskGuardCycles) IN
       /\ left' = left - check - e
       /\ age' = [u \in TimeDriven |->
                     Min2(check + e + (IF u = t THEN 0 ELSE age[u]), Horizon)]
       /\ signal' = [u \in EventDriven |->
            IF u = t THEN -1
            ELSE IF Signalled(u) THEN Min2(signal[u] + check + e, Horizon)
            ELSE IF u \in arrived THEN Min2(check + e, Horizon) ELSE -1]
       /\ \E n \in Estimates(t, e) :
            anticipatedExecutionTime' = [anticipatedExecutionTime EXCEPT ![t] = n]
       /\ AdjustGuard(overdue)
       /\ excess' = Outrun(overdue)
  /\ skipped' = [skipped EXCEPT ![t] = 0]

\* Mutant: a task that does not fit keeps its estimate.
Mutant_Expedite(t, arrived, check) ==
  /\ ~Fits(t, check)
  /\ Elapse(arrived, check)
  /\ left' = left - check
  /\ UNCHANGED <<anticipatedExecutionTime, skipped, taskGuardCycles, excess>>

\* A task that does not fit after all is not run, nor is another one; once it
\* is old, or was skipped too often, its estimate is scaled by 0.9.
Expedite(t, arrived, check) ==
  LET old == taskAgePeriods(t, arrived) > 1
      counted == ~old /\ Relaxed[t] # 0
  IN
  /\ ~Fits(t, check)
  /\ skipped' = IF counted THEN [skipped EXCEPT ![t] = (@ + 1) % 256] ELSE skipped
  /\ anticipatedExecutionTime' =
       IF old \/ (counted /\ skipped'[t] > Relaxed[t])
       THEN [anticipatedExecutionTime EXCEPT ![t] = (@ * 9) \div 10]
       ELSE anticipatedExecutionTime
  /\ Elapse(arrived, check)
  /\ left' = left - check
  /\ UNCHANGED <<taskGuardCycles, excess>>

LookAtTasks ==
  /\ ~GyroDue /\ DueIn > CheckGuard
  /\ \E check \in CheckTimes, arrived \in SUBSET EventDriven :
       /\ checkCycles' = check
       /\ \/ \E k \in Walked(queue) :
               /\ IsSelected(k, arrived)
               /\ \/ schedulerExecuteTask(queue.array[k], arrived, check)
                  \/ Expedite(queue.array[k], arrived, check)
          \/ /\ NothingSelected(arrived)
             /\ Elapse(arrived, check)
             /\ left' = left - check
             /\ UNCHANGED <<anticipatedExecutionTime, skipped, taskGuardCycles, excess>>
  /\ schedLoopStartCycles' = LoopStart
  /\ UNCHANGED queue

\* No time for the checks, and the boundary not near enough to poll for it.
PassBy ==
  /\ ~GyroDue /\ ~(DueIn > CheckGuard)
  /\ left' = left - IdleTime
  /\ Elapse({}, IdleTime)
  /\ schedLoopStartCycles' = LoopStart
  /\ UNCHANGED <<queue, estimates, excess>>

scheduler ==
  /\ Booted
  /\ RunGyro \/ LookAtTasks \/ PassBy
  /\ scheduleCount' = (scheduleCount + 1) % DeferPasses

Init ==
  /\ queue = EmptyQueue
  /\ left = GyroPeriod
  /\ age = [t \in TimeDriven |-> 0] /\ signal = [t \in EventDriven |-> -1]
  /\ anticipatedExecutionTime = [t \in Regular |-> 0]
  /\ skipped = [t \in Regular |-> 0]
  /\ taskGuardCycles = GuardMin /\ checkCycles = 0
  /\ schedLoopStartCycles = LoopStartMin
  /\ scheduleCount = 0
  /\ excess = 0

Next == tasksInit \/ Toggle \/ scheduler

Spec == Init /\ [][Next]_vars

\* init enables the tasks, then main calls scheduler() for ever.
FairSpec == Spec /\ WF_vars(tasksInit) /\ WF_vars(scheduler)

-----------------------------------------------------------------------------
(* Properties.                                                             *)

TypeOK ==
  /\ queue \in [array : [Index -> Tasks \cup {NULL}], size : Index]
  /\ left \in Int
  /\ age \in [TimeDriven -> 0..Horizon] /\ signal \in [EventDriven -> -1..Horizon]
  /\ anticipatedExecutionTime \in [Regular -> Nat]
  /\ skipped \in [Regular -> 0..255]
  /\ taskGuardCycles \in Nat /\ checkCycles \in Nat
  /\ schedLoopStartCycles \in Nat
  /\ scheduleCount \in 0..(DeferPasses - 1)
  /\ excess \in Nat

\* Whatever is enabled and disabled, in whatever order, the array holds each
\* task once, by falling priority, and ends in NULL within its bounds.
QueueSound ==
  /\ \A k \in Index : queue.array[k] = NULL <=> k >= queue.size
  /\ \A j, k \in 0..(queue.size - 1) : j < k =>
       /\ queue.array[j] # queue.array[k]
       /\ StaticPriority[queue.array[j]] >= StaticPriority[queue.array[k]]

\* The gyro is late only by what tasks overran their estimates and guard: the
\* time left is measured again after the walk, and a walk or a task that keeps
\* to its time makes it no later.
LateByOverruns == left >= -GyroPeriod => left >= -excess

\* A lost period is paid by an overrun that reaches past it.  The boundary after
\* it is met, however many tasks run before, unless one of them overruns again;
\* and that one then pays the period it was in.
LostPeriodsPaid == left < -GyroPeriod => left > -WholePeriods(excess)

\* As long as a pass fits the margin kept for it, only overruns delay the gyro,
\* be it within a period or by whole ones.
GyroDelayBounded == LateByOverruns /\ LostPeriodsPaid

Enabled(t) == queueContains(queue, t)

\* Every task left enabled, however long it takes, runs again and again, and
\* every event is answered: provided the passes that look at long tasks do
\* not always fall on the gyro.
NoStarvation ==
  []<>(scheduleCount = 0 /\ ~GyroDue /\ DueIn > CheckGuard) =>
    \A t \in Regular :
      <>[]Enabled(t) => IF t \in EventDriven THEN []<>(signal[t] = -1)
                        ELSE []<><<age'[t] < age[t]>>_vars
=============================================================================
