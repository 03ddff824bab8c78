-------------------------------- MODULE Sched --------------------------------
(* The FreeRTOS scheduler (FreeRTOS/tasks.c) as operators on its state: the   *)
(* lists a task can be in, the tick counter, and the flags that remember a    *)
(* context switch that could not be made at once.  Modules that extend this   *)
(* one say what the tasks do.  There is one processor: only the task `cur`    *)
(* takes steps, and interrupts come between them.                             *)
(*                                                                            *)
(* A ready list is circular.  It is kept here as a sequence with xListEnd in  *)
(* it, cut so that the item pxIndex points to is the last one.                *)
EXTENDS Integers, FiniteSets, SequencesExt

CONSTANTS
  Created,      \* the tasks in the order of their creation, the idle task last
  BasePriority, \* the priority each was created with
  EventList,    \* the lists of tasks that wait for an event
  TickMax,      \* the largest TickType_t, which is portMAX_DELAY
  ListEnd,      \* xListEnd
  MaxTicks      \* bound on the ticks the system runs for

configMAX_PRIORITIES == 4
Priority == 0 .. configMAX_PRIORITIES - 1
Task == Range(Created)
Idle == Last(Created)

ASSUME SchedAssumption ==
  /\ Created \in Seq(Task) /\ Created # <<>> /\ IsInjective(Created)
  /\ ListEnd \notin Task
  /\ BasePriority \in [Task -> Priority] /\ BasePriority[Idle] = 0
  /\ TickMax \in Nat \ {0} /\ MaxTicks \in Nat

VARIABLE sched

portMAX_DELAY == TickMax
TickType(n) == n % (TickMax + 1)

----------------------------------------------------------------------------
(* Lists (FreeRTOS/list.c)                                                    *)

(* vListInsertEnd puts an item just before pxIndex                            *)
vListInsertEnd(q, t) == InsertAt(q, Len(q), t)

(* vListInsert puts it before the first of the items with larger values       *)
vListInsert(q, item, larger) ==
  InsertAt(q, IF larger = {} THEN Len(q) + 1 ELSE Min(larger), item)

(* listGET_OWNER_OF_NEXT_ENTRY steps pxIndex on, and over xListEnd            *)
Step(q) == Append(Tail(q), Head(q))
NextEntry(q) == IF Head(q) = ListEnd THEN Step(Step(q)) ELSE Step(q)

EventValue(s, t) == configMAX_PRIORITIES - s.prio[t]

(* uxListRemove, on the state list item of a task and on its event list item  *)
Without(q, at) == IF at = {} THEN q ELSE RemoveAt(q, Min(at))
Unlinked(q, t) == Without(q, {i \in DOMAIN q : q[i] = t})
Awake(q, t) == Without(q, {i \in DOMAIN q : q[i].task = t})

StateRemoved(s, t) ==
  [s EXCEPT !.ready = [p \in Priority |-> Unlinked(@[p], t)],
            !.delayed = Awake(@, t), !.overflow = Awake(@, t),
            !.blocked = @ \ {t}]

EventRemoved(s, t) ==
  [s EXCEPT !.events = [l \in EventList |-> Unlinked(@[l], t)]]

prvAddTaskToReadyList(s, t) ==
  [s EXCEPT !.ready[s.prio[t]] = vListInsertEnd(@, t)]

IsReady(s, t) == t \in Range(s.ready[s.prio[t]])

----------------------------------------------------------------------------
(* The start                                                                  *)

(* prvInitialiseTaskLists, and the values the variables start with            *)
NoTasks ==
  [cur |-> Head(Created),   \* pxCurrentTCB
   ready |-> [p \in Priority |-> <<ListEnd>>], \* pxReadyTasksLists
   prio |-> BasePriority,   \* uxPriority
   events |-> [l \in EventList |-> <<>>],
   delayed |-> <<>>,        \* pxDelayedTaskList: tasks and their wake times
   overflow |-> <<>>,       \* pxOverflowDelayedTaskList
   blocked |-> {},          \* xSuspendedTaskList: tasks that wait for good
   pending |-> <<>>,        \* xPendingReadyList
   suspended |-> 0,         \* uxSchedulerSuspended
   tick |-> 0,              \* xTickCount
   overflows |-> 0,         \* xNumOfOverflows
   pended |-> 0,            \* xPendedTicks
   next |-> portMAX_DELAY,  \* xNextTaskUnblockTime
   yield |-> FALSE,         \* xYieldPending
   need |-> FALSE,          \* xNeedRescheduleTask
   isr |-> "none"]          \* "running" while a handler has not returned

(* prvAddNewTaskToReadyList: the first task to run is the last one created    *)
(* with the highest priority                                                  *)
AddNewTask(s, t) ==
  [prvAddTaskToReadyList(s, t) EXCEPT
     !.cur = IF s.prio[@] <= s.prio[t] THEN t ELSE @]

InitSched ==
  LET made[i \in 0 .. Len(Created)] ==
        IF i = 0 THEN NoTasks ELSE AddNewTask(made[i - 1], Created[i])
  IN  made[Len(Created)]

----------------------------------------------------------------------------
(* Context switches                                                           *)

vTaskSwitchContext(s) ==
  IF s.suspended > 0 THEN [s EXCEPT !.yield = TRUE]
  ELSE LET top == Max({p \in Priority : Len(s.ready[p]) > 1})
           q == NextEntry(s.ready[top])
       IN  [s EXCEPT !.ready[top] = q, !.cur = Last(q), !.yield = FALSE]

vTaskSuspendAll(s) == [s EXCEPT !.suspended = @ + 1]

(* xTaskRemoveFromEventList takes the first task off list l; it returns       *)
(* whether that task has a higher priority than the current one               *)
Outranks(s, l) == s.prio[Head(s.events[l])] > s.prio[s.cur]

(* Definitions named Fault... are plausible slips in the code they stand      *)
(* beside.  No specification uses them.                                       *)

xTaskRemoveFromEventList(s, l) ==
  LET t == Head(s.events[l])
      r == [s EXCEPT !.events[l] = Tail(@), !.yield = @ \/ Outranks(s, l)]
  IN  IF s.suspended = 0 THEN prvAddTaskToReadyList(StateRemoved(r, t), t)
      ELSE [r EXCEPT !.pending = Append(@, t)]

(* What queue.c makes of it in a critical section of a task                   *)
WakeFirst(s, l) ==
  IF s.events[l] = <<>> THEN s
  ELSE LET r == xTaskRemoveFromEventList(s, l)
       IN  IF Outranks(s, l) THEN vTaskSwitchContext(r) ELSE r

----------------------------------------------------------------------------
(* Time                                                                       *)

Now(s) == s.overflows * (TickMax + 1) + s.tick
Elapsed(s) == Now(s) + s.pended

DelayedInsert(q, d) == vListInsert(q, d, {i \in DOMAIN q : q[i].wake > d.wake})

(* prvResetNextTaskUnblockTime                                                *)
NextUnblockTime(q) == IF q = <<>> THEN portMAX_DELAY ELSE Head(q).wake

(* Fault: a wake time that wraps around goes to the current list              *)
FaultNoOverflowList(s, ticks, block) ==
  LET t == s.cur
      d == [task |-> t, wake |-> TickType(s.tick + ticks),
            due |-> Now(s) + ticks]
      r == [s EXCEPT !.ready[s.prio[t]] = Unlinked(@, t)]
  IN  IF block /\ ticks = portMAX_DELAY THEN [r EXCEPT !.blocked = @ \cup {t}]
      ELSE [r EXCEPT !.delayed = DelayedInsert(@, d),
                     !.next = Min({@, d.wake})]

(* prvAddCurrentTaskToDelayedList.  `due` is the wake time that does not wrap *)
(* around; only the properties look at it                                     *)
AddCurrentTaskToDelayedList(s, ticks, block) ==
  LET t == s.cur
      d == [task |-> t, wake |-> TickType(s.tick + ticks),
            due |-> Now(s) + ticks]
      r == [s EXCEPT !.ready[s.prio[t]] = Unlinked(@, t)]
  IN  IF block /\ ticks = portMAX_DELAY THEN [r EXCEPT !.blocked = @ \cup {t}]
      ELSE IF d.wake < s.tick THEN [r EXCEPT !.overflow = DelayedInsert(@, d)]
      ELSE [r EXCEPT !.delayed = DelayedInsert(@, d),
                     !.next = Min({@, d.wake})]

vTaskPlaceOnEventList(s, l, ticks) ==
  LET q == s.events[l]
      larger == {i \in DOMAIN q : EventValue(s, q[i]) > EventValue(s, s.cur)}
  IN  AddCurrentTaskToDelayedList(
        [s EXCEPT !.events[l] = vListInsert(q, s.cur, larger)], ticks, TRUE)

(* taskSWITCH_DELAYED_LISTS when the counter wraps to 0                       *)
Ticked(s) ==
  IF s.tick < TickMax THEN [s EXCEPT !.tick = @ + 1]
  ELSE [s EXCEPT !.tick = 0, !.overflows = @ + 1,
                 !.delayed = s.overflow, !.overflow = s.delayed,
                 !.next = NextUnblockTime(s.overflow)]

(* A task leaves its lists and becomes ready; a context switch is due unless  *)
(* the current task has a higher priority                                     *)
MakeReady(s, t) ==
  [prvAddTaskToReadyList(EventRemoved(StateRemoved(s, t), t), t)
     EXCEPT !.yield = @ \/ s.prio[t] >= s.prio[s.cur]]

(* The loop of xTaskIncrementTick: as long as the time of the first task on   *)
(* the list has come, that one is made ready                                  *)
WakeDue(s) ==
  IF s.delayed # <<>> /\ Head(s.delayed).wake <= s.tick
  THEN MakeReady(s, Head(s.delayed).task) ELSE s

DueWoken(s) ==
  LET woken[i \in 0 .. Len(s.delayed)] ==
        IF i = 0 THEN s ELSE WakeDue(woken[i - 1])
  IN  woken[Len(s.delayed)]

(* xTaskIncrementTick while the scheduler is not suspended.  The result of    *)
(* the function, "switch required", is left in `yield`, which it includes     *)
IncrementTick(s) ==
  LET now == Ticked(s)
      woken == DueWoken(now)
      after == IF now.tick < now.next THEN now
               ELSE [woken EXCEPT !.next = NextUnblockTime(woken.delayed)]
  IN  [after EXCEPT !.yield = @ \/ Len(after.ready[s.prio[s.cur]]) > 2]

(* xTaskResumeAll up to its yield: tasks that were woken while the scheduler  *)
(* was suspended become ready, and the ticks that were held back are counted  *)
MovePending(s) ==
  LET t == Head(s.pending)
  IN  IF s.pending = <<>> THEN s ELSE MakeReady([s EXCEPT !.pending = Tail(@)], t)

PendingMoved(s) ==
  LET moved[i \in 0 .. Len(s.pending)] ==
        IF i = 0 THEN s ELSE MovePending(moved[i - 1])
  IN  moved[Len(s.pending)]

TicksCounted(s, n) ==
  LET counted[i \in 0 .. n] ==
        IF i = 0 THEN s ELSE IncrementTick(counted[i - 1])
  IN  counted[n]

Resumed(s) ==
  LET moved == PendingMoved([s EXCEPT !.suspended = 0])
      early == [moved EXCEPT
                  !.next = IF s.pending = <<>> THEN @
                           ELSE NextUnblockTime(moved.delayed),
                  !.pended = 0]
  IN  IF s.suspended > 1 THEN [s EXCEPT !.suspended = @ - 1]
      ELSE TicksCounted(early, s.pended)

(* Its callers either ignore what it returns or yield when it has not         *)
xTaskResumeAll(s) ==
  LET r == Resumed(s)
  IN  IF s.suspended = 1 /\ r.yield THEN vTaskSwitchContext(r) ELSE r

----------------------------------------------------------------------------
(* Interrupts                                                                 *)

(* LeaveIntr: the flag is looked at only when a task was interrupted          *)
LeaveIntr(s) ==
  IF s.need THEN vTaskSwitchContext([s EXCEPT !.need = FALSE]) ELSE s

(* Fault: xTaskIncrementTick does not look at xYieldPending                   *)
FaultSystemTick(s) ==
  IF s.suspended > 0 THEN [s EXCEPT !.pended = @ + 1, !.need = FALSE]
  ELSE LET r == IncrementTick([s EXCEPT !.yield = FALSE])
       IN  [r EXCEPT !.need = r.yield, !.yield = s.yield]

(* SystemTickHandler of the programs: it sets the flag to what it is told,    *)
(* even if an interrupt handler it interrupts has raised it.  A handler takes *)
(* less than the time between two ticks, so that one tick at most comes in it *)
SystemTick(s) ==
  IF s.suspended > 0 THEN [s EXCEPT !.pended = @ + 1, !.need = FALSE]
  ELSE LET r == IncrementTick(s)
       IN  [r EXCEPT !.need = r.yield, !.yield = s.yield]

TickInterrupt ==
  /\ Elapsed(sched) < MaxTicks /\ sched.isr # "ticked"
  /\ sched' = IF sched.isr = "none" THEN LeaveIntr(SystemTick(sched))
              ELSE [SystemTick(sched) EXCEPT !.isr = "ticked"]

(* The end of a handler that a tick may have interrupted                      *)
LeaveInterrupt ==
  /\ sched.isr # "none"
  /\ sched' = LeaveIntr([sched EXCEPT !.isr = "none"])

----------------------------------------------------------------------------
(* Properties                                                                 *)

Sleepers(s) == Range(s.delayed) \cup Range(s.overflow)

SchedTypeOK ==
  /\ sched.cur \in Task
  /\ sched.prio \in [Task -> Priority]
  /\ \A p \in Priority : Range(sched.ready[p]) \subseteq Task \cup {ListEnd}
  /\ \A l \in EventList : Range(sched.events[l]) \subseteq Task
  /\ sched.suspended \in 0 .. 1
  /\ sched.tick \in 0 .. TickMax /\ sched.next \in 0 .. TickMax
  /\ {sched.yield, sched.need} \subseteq BOOLEAN
  /\ sched.isr \in {"none", "running", "ticked"}

(* Each task is in one state list, and waits on an event list only when it is *)
(* not ready: no mix of time-outs, wake-ups and suspensions may lose a task   *)
(* or leave it behind on a list it has left (uxListRemove, xPendingReadyList) *)
OneListEach ==
  \A t \in Task :
    LET sleeps == \E d \in Sleepers(sched) : d.task = t
        waits == \E l \in EventList : t \in Range(sched.events[l])
    IN  /\ ~ (IsReady(sched, t) /\ sleeps)
        /\ IsReady(sched, t) <=> ~ sleeps /\ t \notin sched.blocked
        /\ t \in sched.blocked => waits \/ t \in Range(sched.pending)
        /\ waits => ~ IsReady(sched, t) /\ t \notin Range(sched.pending)

(* While tasks can be switched, the one that runs has the highest priority of *)
(* all that are ready: no xYieldPending or xNeedRescheduleTask gets lost,     *)
(* whatever is suspended, nested or overwritten in between                    *)
HighestRuns ==
  sched.suspended = 0 /\ sched.isr = "none" =>
    \A t \in Task : IsReady(sched, t) => sched.prio[t] <= sched.prio[sched.cur]

(* The scheduler's lists and its choice are right                             *)
Scheduled == SchedTypeOK /\ OneListEach /\ HighestRuns

(* A task sleeps only until its wake time, and its list knows when that is,   *)
(* although the counter wraps around and ticks are held back                  *)
Punctual ==
  /\ \A d \in Range(sched.delayed) :
       d.due = sched.overflows * (TickMax + 1) + d.wake /\ d.due > Now(sched)
  /\ \A d \in Range(sched.overflow) :
       d.due = (sched.overflows + 1) * (TickMax + 1) + d.wake
=============================================================================
