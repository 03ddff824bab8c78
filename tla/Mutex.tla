-------------------------------- MODULE Mutex --------------------------------
(* FreeRTOS mutexes (FreeRTOS/queue.c, the mutex parts of tasks.c): queues of *)
(* length 1 without data, whose holder inherits the priority of the tasks     *)
(* that wait.  Tasks take and give mutexes, with time-outs and nested, and    *)
(* sleep; ticks come at any time.  No interrupt handler uses a mutex, and so  *)
(* what xQueueSemaphoreTake does while the scheduler is suspended is one      *)
(* step: a tick that comes in it is counted at its end.                       *)
EXTENDS Sched

CONSTANTS
  Lock,       \* the mutexes
  Program,    \* Task -> the calls the task may make
  MaxCalls,   \* bound on the calls of each task
  Nesting,    \* <<k, l>> when a task may take l while it holds k
  NoTask, NoLock

TakeCalls == [kind : {"take"}, lock : Lock, ticks : 0 .. TickMax]
GiveCalls == [kind : {"give"}, lock : Lock, ticks : {0}]
DelayCalls == [kind : {"delay"}, lock : {NoLock}, ticks : 1 .. TickMax]

ASSUME MutexAssumption ==
  /\ IsFiniteSet(Lock) /\ EventList = Lock /\ NoTask \notin Task /\ NoLock \notin Lock
  /\ Program \in [Task -> SUBSET (TakeCalls \cup GiveCalls \cup DelayCalls)]
  /\ Program[Idle] = {} /\ MaxCalls \in [Task -> Nat]
  /\ Nesting \subseteq Lock \X Lock /\ \A l \in Lock : <<l, l>> \notin Nesting

VARIABLES
  mutex,  \* Queue_t: uxMessagesWaiting and xMutexHolder
  held,   \* uxMutexesHeld
  pc,     \* where each task is
  call,   \* the call each task is in, with its local variables
  calls   \* the calls each task has made

vars == <<sched, mutex, held, pc, call, calls>>

cur == sched.cur
NoCall == [kind |-> "none", lock |-> NoLock]

Init ==
  /\ sched = InitSched
  /\ mutex = [l \in Lock |-> [count |-> 1, holder |-> NoTask]]
  /\ held = [t \in Task |-> 0]
  /\ pc = [t \in Task |-> "run"]
  /\ call = [t \in Task |-> NoCall]
  /\ calls = [t \in Task |-> 0]

----------------------------------------------------------------------------
(* Priorities                                                                 *)

(* A task that is ready moves to the ready list of its new priority           *)
WithPriority(s, t, p) ==
  IF IsReady(s, t)
  THEN prvAddTaskToReadyList(
         [s EXCEPT !.ready[s.prio[t]] = Unlinked(@, t), !.prio[t] = p], t)
  ELSE [s EXCEPT !.prio[t] = p]

xTaskPriorityInherit(s, h) ==
  IF h # NoTask /\ s.prio[h] < s.prio[cur]
  THEN WithPriority(s, h, s.prio[cur]) ELSE s

(* What it returns                                                            *)
Inherits(h) ==
  h # NoTask /\ (sched.prio[h] < sched.prio[cur] \/ BasePriority[h] < sched.prio[cur])

(* xTaskPriorityDisinherit for a task that holds n mutexes before it gives    *)
(* one back                                                                   *)
Disinherits(n) == n = 1 /\ sched.prio[cur] # BasePriority[cur]

(* Definitions named Fault... are plausible slips in the code they stand      *)
(* beside.  No specification uses them.                                       *)

(* Fault: a task keeps its priority while it holds what it gives back         *)
FaultDisinherit(s, n) ==
  IF n = 0 /\ sched.prio[cur] # BasePriority[cur]
  THEN WithPriority(s, cur, BasePriority[cur]) ELSE s

xTaskPriorityDisinherit(s, n) ==
  IF Disinherits(n) THEN WithPriority(s, cur, BasePriority[cur]) ELSE s

(* prvGetDisinheritPriorityAfterTimeout                                       *)
HighestWaiting(l) ==
  IF sched.events[l] = <<>> THEN 0 ELSE sched.prio[Head(sched.events[l])]

(* Fault: the holder loses all that it has inherited                          *)
FaultDisinheritAfterTimeout(s, h, waiting) ==
  IF h = NoTask \/ held[h] # 1 \/ s.prio[h] = BasePriority[h] THEN s
  ELSE WithPriority(s, h, BasePriority[h])

vTaskPriorityDisinheritAfterTimeout(s, h, waiting) ==
  LET p == Max({BasePriority[h], waiting})
  IN  IF h = NoTask \/ held[h] # 1 THEN s
      ELSE IF s.prio[h] = p THEN s ELSE WithPriority(s, h, p)

----------------------------------------------------------------------------
(* xTaskCheckForTimeOut, as in Queue                                          *)

WrappedPast(c) == c.overflows # sched.overflows /\ sched.tick >= c.entering

NotExpired(c) ==
  \/ c.wait = portMAX_DELAY
  \/ ~ WrappedPast(c) /\ TickType(sched.tick - c.entering) < c.wait

WaitLeft(c) ==
  IF c.wait = portMAX_DELAY THEN c
  ELSE [c EXCEPT !.wait = @ - TickType(sched.tick - c.entering),
                 !.entering = sched.tick, !.overflows = sched.overflows]

(* Of what has expired nothing is left, but in the branch for a counter that  *)
(* has wrapped around and gone past, which leaves the ticks as they were      *)
NothingLeft(c) == IF WrappedPast(c) THEN c ELSE [c EXCEPT !.wait = 0]

----------------------------------------------------------------------------
(* The steps of the current task                                              *)

At(p) == pc[cur] = p
Goto(p) == pc' = [pc EXCEPT ![cur] = p]

(* A task makes its next call; it takes locks in the order the program allows *)
Begin ==
  /\ At("run") /\ calls[cur] < MaxCalls[cur]
  /\ calls' = [calls EXCEPT ![cur] = @ + 1]
  /\ \E c \in Program[cur] :
       /\ c.kind = "take" =>
            \A k \in Lock : mutex[k].holder = cur => <<k, c.lock>> \in Nesting
       /\ c.kind = "give" => mutex[c.lock].holder = cur
       /\ Goto(c.kind)
       /\ call' = [call EXCEPT ![cur] =
            [kind |-> c.kind, lock |-> c.lock, ticks |-> c.ticks,
             wait |-> c.ticks, timed |-> FALSE, entering |-> 0,
             overflows |-> 0, inherited |-> FALSE]]
  /\ UNCHANGED <<sched, mutex, held>>

Return == Goto("run") /\ call' = [call EXCEPT ![cur] = NoCall]

(* The critical section of xQueueSemaphoreTake.  A call that has no time left *)
(* and has raised the holder fails configASSERT: the machine stops (PANIC)    *)
Take ==
  /\ At("take")
  /\ LET c == call[cur]
         l == c.lock
     IN  \/ /\ mutex[l].count > 0
            /\ mutex' = [mutex EXCEPT ![l] = [count |-> @.count - 1, holder |-> cur]]
            /\ held' = [held EXCEPT ![cur] = @ + 1]
            /\ Return
         \/ /\ mutex[l].count = 0 /\ c.wait = 0 /\ ~ c.inherited
            /\ Return /\ UNCHANGED <<mutex, held>>
         \/ /\ mutex[l].count = 0 /\ c.wait = 0 /\ c.inherited
            /\ Goto("panic") /\ UNCHANGED <<mutex, held, call>>
         \/ /\ mutex[l].count = 0 /\ c.wait > 0
            /\ Goto("wait")
            /\ call' = IF c.timed THEN call
                       ELSE [call EXCEPT ![cur] =
                              [c EXCEPT !.timed = TRUE, !.entering = sched.tick,
                                        !.overflows = sched.overflows]]
            /\ UNCHANGED <<mutex, held>>
  /\ UNCHANGED <<sched, calls>>

(* From vTaskSuspendAll to xTaskResumeAll                                     *)
Wait ==
  /\ At("wait")
  /\ LET c == call[cur]
         l == c.lock
     IN  \/ /\ NotExpired(c) /\ mutex[l].count = 0
            /\ call' = [call EXCEPT ![cur] = [WaitLeft(c) EXCEPT
                          !.inherited = Inherits(mutex[l].holder)]]
            /\ sched' = vTaskPlaceOnEventList(
                          xTaskPriorityInherit(sched, mutex[l].holder),
                          l, WaitLeft(c).wait)
            /\ Goto("yield")
         \/ /\ NotExpired(c) /\ mutex[l].count > 0
            /\ call' = [call EXCEPT ![cur] = WaitLeft(c)]
            /\ Goto("take") /\ UNCHANGED sched
         \/ /\ ~ NotExpired(c)
            /\ call' = [call EXCEPT ![cur] = NothingLeft(c)]
            /\ Goto("expired") /\ UNCHANGED sched
  /\ UNCHANGED <<mutex, held, calls>>

Yield ==
  /\ At("yield")
  /\ sched' = vTaskSwitchContext(sched)
  /\ IF call[cur].kind = "delay" THEN Return ELSE Goto("take") /\ UNCHANGED call
  /\ UNCHANGED <<mutex, held, calls>>

(* After the time-out the mutex is looked at once more                        *)
Expired ==
  /\ At("expired")
  /\ IF mutex[call[cur].lock].count > 0 THEN Goto("take") /\ UNCHANGED call
     ELSE IF call[cur].inherited THEN Goto("disinherit") /\ UNCHANGED call
     ELSE Return
  /\ UNCHANGED <<sched, mutex, held, calls>>

DisinheritAfterTimeout ==
  /\ At("disinherit")
  /\ LET l == call[cur].lock
     IN  sched' = vTaskPriorityDisinheritAfterTimeout(
                    sched, mutex[l].holder, HighestWaiting(l))
  /\ Return
  /\ UNCHANGED <<mutex, held, calls>>

(* Fault: a task that loses its priority yields instead of waking another     *)
FaultGive ==
  /\ At("give")
  /\ LET l == call[cur].lock
         s == xTaskPriorityDisinherit(sched, held[cur])
     IN  /\ mutex' = [mutex EXCEPT ![l] = [count |-> 1, holder |-> NoTask]]
         /\ sched' = IF Disinherits(held[cur]) THEN vTaskSwitchContext(s)
                     ELSE IF s.events[l] # <<>> THEN WakeFirst(s, l)
                     ELSE s
  /\ held' = [held EXCEPT ![cur] = @ - 1]
  /\ Return
  /\ UNCHANGED calls

(* xQueueGenericSend on a mutex, which always has room                        *)
Give ==
  /\ At("give")
  /\ LET l == call[cur].lock
         s == xTaskPriorityDisinherit(sched, held[cur])
     IN  /\ mutex' = [mutex EXCEPT ![l] = [count |-> 1, holder |-> NoTask]]
         /\ sched' = IF s.events[l] # <<>> THEN WakeFirst(s, l)
                     ELSE IF Disinherits(held[cur]) THEN vTaskSwitchContext(s)
                     ELSE s
  /\ held' = [held EXCEPT ![cur] = @ - 1]
  /\ Return
  /\ UNCHANGED calls

(* vTaskDelay up to its yield                                                 *)
Delay ==
  /\ At("delay")
  /\ sched' = AddCurrentTaskToDelayedList(sched, call[cur].ticks, FALSE)
  /\ Goto("yield")
  /\ UNCHANGED <<mutex, held, call, calls>>

(* A machine that has stopped takes no interrupts                             *)
Tick ==
  /\ ~ At("panic") /\ TickInterrupt
  /\ UNCHANGED <<mutex, held, pc, call, calls>>

Next ==
  \/ Begin \/ Take \/ Wait \/ Yield \/ Expired \/ DisinheritAfterTimeout
  \/ Give \/ Delay \/ Tick

Spec == Init /\ [][Next]_vars

----------------------------------------------------------------------------
(* Properties                                                                 *)

TypeOK ==
  /\ SchedTypeOK
  /\ mutex \in [Lock -> [count : 0 .. 1, holder : Task \cup {NoTask}]]
  /\ held \in [Task -> 0 .. Cardinality(Lock)]
  /\ pc \in [Task -> {"run", "take", "wait", "yield", "expired", "disinherit",
                      "give", "delay", "panic"}]

WaitsFor(t, l) == t \in Range(sched.events[l])

(* A task that holds no mutex runs with its own priority, whatever mix of     *)
(* time-outs and of mutexes given back in any order came before               *)
Restored ==
  /\ TypeOK /\ OneListEach
  /\ \A t \in Task : held[t] = 0 => sched.prio[t] = BasePriority[t]

(* The holder has at least the priority of every task that waits              *)
HolderRaised(l) ==
  \A t \in Task : WaitsFor(t, l) /\ mutex[l].holder # NoTask =>
    sched.prio[mutex[l].holder] >= BasePriority[t]

Takes(t, l) == \E c \in Program[t] : c.kind = "take" /\ c.lock = l

(* The tasks that take l take no other mutex                                  *)
Alone(l) == \A t \in Task : Takes(t, l) => \A k \in Lock : Takes(t, k) => k = l

(* The holder of a mutex has at least the priority of every task that waits   *)
(* for it, whoever took it from whom, and whoever has given up                *)
(* (xTaskPriorityInherit, prvGetDisinheritPriorityAfterTimeout), if the tasks *)
(* that use it use no other one                                               *)
Inherited == \A l \in Lock : Alone(l) => HolderRaised(l)

(* If they do, it need not: one that is disinherited without a switch         *)
(* (SwitchAfterLastGive) may take another mutex ahead of those it was given   *)
(* up for, as MCMutexOvertake shows                                           *)
AlwaysInherited == \A l \in Lock : HolderRaised(l)

(* A task that gives up waiting takes from the holder what it has inherited,  *)
(* "but only down to the highest priority of any other tasks that are waiting *)
(* for the same mutex" (prvGetDisinheritPriorityAfterTimeout).  MCMutexChain  *)
(* shows that it may be less: the priority of a task that holds another mutex *)
(* changes while it waits, and then its list is no longer in order            *)
OnlyDownToWaiting ==
  [][\A l \in Lock : \A t \in Task :
       LET h == mutex[l].holder
       IN  /\ WaitsFor(t, l) /\ h # NoTask /\ mutex'[l].holder = h
           /\ sched'.prio[h] < sched.prio[h]
           => sched'.prio[h] >= sched.prio[t]]_vars

(* While a mutex is free and tasks wait for it, one of the tasks that were    *)
(* woken is still going to look at it                                         *)
NoMutexStranded ==
  \A l \in Lock :
    mutex[l].count = 1 /\ sched.events[l] # <<>> =>
      \E t \in Task : /\ call[t].lock = l /\ ~ WaitsFor(t, l)
                      /\ pc[t] \in {"take", "wait", "yield", "expired"}

(* "If a context switch did not occur when the first mutex was returned, even *)
(* if a task was waiting on it, then a context switch should occur when the   *)
(* last mutex is returned whether a task is waiting on it or not"             *)
(* (xTaskPriorityDisinherit, tasks.c:4156): who has given back its last mutex *)
(* does not go on while a task of higher priority is ready.  xQueueGenericSend *)
(* does not look at that result when a task waits for the mutex               *)
SwitchAfterLastGive ==
  [][\A t \in Task : held'[cur] < held[cur] /\ held'[cur] = 0 /\ IsReady(sched', t)
       => sched'.prio[t] <= sched'.prio[sched'.cur]]_vars

(* "For inheritance to have occurred there must have been an initial timeout, *)
(* and an adjusted timeout cannot become 0, as if it were 0 the function      *)
(* would have exited" (queue.c:1504, above the assertion).  It becomes 0 when *)
(* the time is up, and the function goes on if the mutex is free at that      *)
(* moment: the assertion fails if another task takes it first                 *)
NoTimeLeftNoInheritance == ~ At("panic")
=============================================================================
