-------------------------------- MODULE Queue --------------------------------
(* A FreeRTOS queue (FreeRTOS/queue.c) on top of the scheduler: tasks send,   *)
(* receive and sleep, the handler of an input device (drivers/input.c) posts  *)
(* groups of events from an interrupt, and ticks come at any time.  One       *)
(* action is one critical section, or a stretch of code in which nothing that *)
(* others look at changes.                                                    *)
EXTENDS Sched

CONSTANTS
  Program,      \* Task -> the calls the task may make
  MaxCalls,     \* bound on the calls the tasks make
  EventQueueSize, \* uxLength, EVENTQUEUE_SIZE
  MaxGroup,     \* the most events one interrupt injects
  MaxItems,     \* bound on the items that are sent
  NoItem

Item == 1 .. MaxItems

(* A call: how many items it moves, and how long it waits for each            *)
Calls == [kind: {"send", "receive", "delay"}, ticks: 0 .. TickMax, n: 1 .. MaxItems]

Receivers == "xTasksWaitingToReceive"
Senders == "xTasksWaitingToSend"

ASSUME QueueAssumption ==
  /\ EventList = {Senders, Receivers}
  /\ Program \in [Task -> SUBSET Calls]
  /\ Program[Idle] = {}  \* the idle task must not block
  /\ EventQueueSize \in Nat \ {0} /\ MaxGroup \in Nat /\ MaxItems \in Nat
  /\ NoItem \notin Item

VARIABLES
  queue,  \* Queue_t
  pc,     \* where each task is
  call,   \* the call each task is in, with its local variables
  inject, \* events the interrupt handler has still to send
  posted, \* items numbered so far
  calls,  \* calls made so far
  got     \* the item received last

vars == <<sched, queue, pc, call, inject, posted, calls, got>>

queueUNLOCKED == -1
queueLOCKED_UNMODIFIED == 0

cur == sched.cur

----------------------------------------------------------------------------
(* The queue itself                                                           *)

(* xQueueGenericReset: pcWriteTo at the head, pcReadFrom on the last item     *)
NewQueue ==
  [store |-> [i \in 0 .. EventQueueSize - 1 |-> NoItem],
   pcWriteTo |-> 0, pcReadFrom |-> EventQueueSize - 1,
   uxMessagesWaiting |-> 0,
   cRxLock |-> queueUNLOCKED, cTxLock |-> queueUNLOCKED]

Following(i) == IF i + 1 >= EventQueueSize THEN 0 ELSE i + 1

Empty(q) == q.uxMessagesWaiting = 0
Full(q) == q.uxMessagesWaiting = EventQueueSize
Avail(q) == EventQueueSize - q.uxMessagesWaiting

(* Definitions named Fault... are plausible slips in the code they stand      *)
(* beside.  No specification uses them.                                       *)

(* Fault: the write position wraps around one item too late                   *)
FaultCopyDataToQueue(q, item) ==
  [q EXCEPT !.store = IF q.pcWriteTo \in DOMAIN @
                      THEN [@ EXCEPT ![q.pcWriteTo] = item] ELSE @,
            !.uxMessagesWaiting = @ + 1,
            !.pcWriteTo = IF @ + 1 > EventQueueSize THEN 0 ELSE @ + 1]

(* prvCopyDataToQueue with queueSEND_TO_BACK                                  *)
CopyDataToQueue(q, item) ==
  [q EXCEPT !.store[q.pcWriteTo] = item, !.uxMessagesWaiting = @ + 1,
            !.pcWriteTo = Following(@)]

(* prvCopyDataFromQueue steps first and reads afterwards                      *)
NextItem(q) == q.store[Following(q.pcReadFrom)]
DataRemoved(q) ==
  [q EXCEPT !.store[Following(q.pcReadFrom)] = NoItem,
            !.pcReadFrom = Following(@), !.uxMessagesWaiting = @ - 1]

Contents(q) ==
  [i \in 1 .. q.uxMessagesWaiting |->
     q.store[(q.pcReadFrom + i) % EventQueueSize]]

prvLockQueue(q) ==
  [q EXCEPT !.cRxLock = Max({@, queueLOCKED_UNMODIFIED}),
            !.cTxLock = Max({@, queueLOCKED_UNMODIFIED})]

(* What a loop of prvUnlockQueue does: one task is woken for each item that   *)
(* was moved while the queue was locked, as long as tasks wait                *)
WakeMany(s, l, n) ==
  LET woken[i \in 0 .. n] ==
        IF i = 0 THEN s
        ELSE IF woken[i - 1].events[l] = <<>> THEN woken[i - 1]
        ELSE xTaskRemoveFromEventList(woken[i - 1], l)
  IN  woken[n]

----------------------------------------------------------------------------
(* Time-outs                                                                  *)

NoTimeOut == [overflows |-> 0, entering |-> 0]

(* vTaskInternalSetTimeOutState                                               *)
TimeOutState == [overflows |-> sched.overflows, entering |-> sched.tick]

ElapsedSince(o) == TickType(sched.tick - o.entering)

WrappedPast(o) == sched.overflows # o.overflows /\ sched.tick >= o.entering

(* Fault: a time-out that began before the counter wrapped around has expired *)
FaultTimedOut(c) ==
  /\ c.wait # portMAX_DELAY
  /\ \/ sched.overflows # c.timeout.overflows
     \/ ElapsedSince(c.timeout) >= c.wait

(* What xTaskCheckForTimeOut returns                                          *)
TimedOut(c) ==
  /\ c.wait # portMAX_DELAY
  /\ \/ WrappedPast(c.timeout)
     \/ ElapsedSince(c.timeout) >= c.wait

(* What it leaves in the time-out and in the ticks to wait                    *)
CheckForTimeOut(c) ==
  IF c.wait = portMAX_DELAY THEN c
  ELSE IF TimedOut(c)
  THEN [c EXCEPT !.wait = IF WrappedPast(c.timeout) THEN @ ELSE 0]
  ELSE [c EXCEPT !.wait = @ - ElapsedSince(c.timeout), !.timeout = TimeOutState]

----------------------------------------------------------------------------
(* Calls of the tasks.  Every step is one of the current task                 *)

Init ==
  /\ sched = InitSched
  /\ queue = NewQueue
  /\ pc = [t \in Task |-> "idle"]
  /\ call = [t \in Task |-> [kind |-> "none"]]
  /\ inject = 0 /\ posted = 0 /\ calls = 0 /\ got = <<>>

At(p) == sched.isr = "none" /\ pc[cur] = p
Goto(p) == pc' = [pc EXCEPT ![cur] = p]
InCall(k) == call[cur].kind = k
Quiet == UNCHANGED <<inject, posted, calls, got>>

(* A task makes its next call                                                 *)
Begin ==
  /\ At("idle") /\ calls < MaxCalls
  /\ \E c \in Program[cur] :
       /\ call' = [call EXCEPT ![cur] =
            [kind |-> c.kind, ticks |-> c.ticks, n |-> c.n, wait |-> c.ticks,
             timed |-> FALSE, timeout |-> NoTimeOut, since |-> 0, then |-> "block"]]
       /\ Goto(IF c.kind # "delay" THEN "try"
               ELSE IF c.ticks > 0 THEN "suspend" ELSE "yield")
  /\ calls' = calls + 1 /\ UNCHANGED <<sched, queue, inject, posted, got>>

(* After an item: InputEventRead goes on with the next one                    *)
NextReceive ==
  LET c == call[cur]
  IN  IF c.n > 1
      THEN /\ Goto("try")
           /\ call' = [call EXCEPT ![cur] =
                 [c EXCEPT !.n = @ - 1, !.wait = c.ticks, !.timed = FALSE]]
      ELSE Goto("idle") /\ UNCHANGED call

(* What the critical section does when there is nothing to do yet: return, or *)
(* remember when the wait began                                               *)
NotYet ==
  /\ IF call[cur].wait = 0 THEN Goto("idle") ELSE Goto("suspend")
  /\ call' = [call EXCEPT ![cur] =
       IF @.wait = 0 \/ @.timed THEN @
       ELSE [@ EXCEPT !.timed = TRUE, !.timeout = TimeOutState,
                       !.since = Now(sched)]]
  /\ UNCHANGED <<sched, queue>> /\ Quiet

(* The critical section of xQueueReceive                                      *)
Receive ==
  /\ At("try") /\ InCall("receive")
  /\ \/ /\ ~ Empty(queue)
        /\ got' = <<NextItem(queue)>>
        /\ queue' = DataRemoved(queue)
        /\ sched' = WakeFirst(sched, Senders)
        /\ NextReceive
        /\ UNCHANGED <<inject, posted, calls>>
     \/ Empty(queue) /\ NotYet

(* The critical section of xQueueGenericSend                                  *)
Send ==
  /\ At("try") /\ InCall("send")
  /\ \/ /\ ~ Full(queue) /\ posted < MaxItems
        /\ posted' = posted + 1
        /\ queue' = CopyDataToQueue(queue, posted')
        /\ sched' = WakeFirst(sched, Receivers)
        /\ Goto("idle")
        /\ UNCHANGED <<call, inject, calls, got>>
     \/ Full(queue) /\ NotYet

SuspendAll ==
  /\ At("suspend")
  /\ sched' = vTaskSuspendAll(sched)
  /\ Goto(IF InCall("delay") THEN "delay" ELSE "lock")
  /\ UNCHANGED <<queue, call>> /\ Quiet

(* prvLockQueue, and xTaskCheckForTimeOut, which looks at nothing that can    *)
(* change while the scheduler is suspended                                    *)
LockQueue ==
  /\ At("lock")
  /\ queue' = prvLockQueue(queue)
  /\ LET out == TimedOut(call[cur])
     IN  /\ call' = [call EXCEPT ![cur] = [CheckForTimeOut(@) EXCEPT
                       !.then = IF out THEN "expired" ELSE "block"]]
         /\ Goto(IF out THEN "unlockTx" ELSE "check")
  /\ UNCHANGED sched /\ Quiet

MustWait == IF InCall("send") THEN Full(queue) ELSE Empty(queue)
WaitList == IF InCall("send") THEN Senders ELSE Receivers

(* prvIsQueueFull or prvIsQueueEmpty, and the wait                            *)
Check ==
  /\ At("check")
  /\ sched' = IF MustWait
              THEN vTaskPlaceOnEventList(sched, WaitList, call[cur].wait)
              ELSE sched
  /\ call' = [call EXCEPT ![cur].then = IF MustWait THEN "block" ELSE "retry"]
  /\ Goto("unlockTx")
  /\ UNCHANGED queue /\ Quiet

(* vTaskDelay while the scheduler is suspended                                *)
Delay ==
  /\ At("delay")
  /\ sched' = AddCurrentTaskToDelayedList(sched, call[cur].ticks, FALSE)
  /\ Goto("resume")
  /\ UNCHANGED <<queue, call>> /\ Quiet

(* The two critical sections of prvUnlockQueue                                *)
UnlockTx ==
  /\ At("unlockTx")
  /\ sched' = WakeMany(sched, Receivers, queue.cTxLock)
  /\ queue' = [queue EXCEPT !.cTxLock = queueUNLOCKED]
  /\ Goto("unlockRx")
  /\ UNCHANGED call /\ Quiet

UnlockRx ==
  /\ At("unlockRx")
  /\ sched' = WakeMany(sched, Senders, queue.cRxLock)
  /\ queue' = [queue EXCEPT !.cRxLock = queueUNLOCKED]
  /\ Goto("resume")
  /\ UNCHANGED call /\ Quiet

(* xTaskResumeAll; a task that has to wait yields now unless that has done it *)
Resume ==
  /\ At("resume")
  /\ sched' = xTaskResumeAll(sched)
  /\ LET c == call[cur]
         end == IF c.kind = "delay" THEN "idle" ELSE "try"
     IN  Goto(CASE c.then = "block" ->
                     IF Resumed(sched).yield THEN end ELSE "yield"
                [] c.then = "retry" -> "try"
                [] c.then = "expired" ->
                     IF c.kind = "send" THEN "idle" ELSE "recheck")
  /\ UNCHANGED <<queue, call>> /\ Quiet

Yield ==
  /\ At("yield")
  /\ sched' = vTaskSwitchContext(sched)
  /\ Goto(IF InCall("delay") THEN "idle" ELSE "try")
  /\ UNCHANGED <<queue, call>> /\ Quiet

(* xQueueReceive looks once more when its time is over                        *)
Recheck ==
  /\ At("recheck")
  /\ Goto(IF Empty(queue) THEN "idle" ELSE "try")
  /\ UNCHANGED <<sched, queue, call>> /\ Quiet

----------------------------------------------------------------------------
(* Interrupts                                                                 *)

(* Fault: one event more than fits is let in                                  *)
FaultFits(n) == n <= Avail(queue) + 1

Fits(n) == n <= Avail(queue)

(* InputEventInjectFromISR takes all of a group or nothing                    *)
InputEventInjectFromISR ==
  /\ sched.isr = "none"
  /\ \E n \in 1 .. MaxGroup :
       /\ posted + n <= MaxItems
       /\ inject' = IF Fits(n) THEN n ELSE 0
  /\ sched' = [sched EXCEPT !.isr = "running"]
  /\ UNCHANGED <<queue, pc, call, posted, calls, got>>

(* Fault: an item sent to a locked queue is not counted                       *)
FaultSendFromISR ==
  /\ inject > 0
  /\ inject' = inject - 1
  /\ posted' = posted + 1
  /\ LET wakes == ~ Full(queue) /\ queue.cTxLock = queueUNLOCKED
     IN  /\ queue' = IF Full(queue) THEN queue ELSE CopyDataToQueue(queue, posted')
         /\ sched' = IF wakes /\ sched.events[Receivers] # <<>>
                     THEN [xTaskRemoveFromEventList(sched, Receivers) EXCEPT
                             !.need = @ \/ Outranks(sched, Receivers)]
                     ELSE sched
  /\ UNCHANGED <<pc, call, calls, got>>

xQueueSendFromISR ==
  /\ inject > 0
  /\ inject' = inject - 1
  /\ posted' = posted + 1
  /\ IF Full(queue) THEN UNCHANGED <<queue, sched>>
     ELSE LET locked == queue.cTxLock # queueUNLOCKED
              q == CopyDataToQueue(queue, posted')
          IN  /\ queue' = IF locked THEN [q EXCEPT !.cTxLock = @ + 1] ELSE q
              /\ sched' = IF locked \/ sched.events[Receivers] = <<>> THEN sched
                          ELSE [xTaskRemoveFromEventList(sched, Receivers)
                                EXCEPT !.need =
                                         @ \/ Outranks(sched, Receivers)]
  /\ UNCHANGED <<pc, call, calls, got>>

Tick ==
  /\ TickInterrupt
  /\ UNCHANGED <<queue, pc, call>> /\ Quiet

Leave ==
  /\ inject = 0 /\ LeaveInterrupt
  /\ UNCHANGED <<queue, pc, call>> /\ Quiet

Next ==
  \/ Begin \/ Receive \/ Send \/ SuspendAll \/ LockQueue \/ Check \/ Delay
  \/ UnlockTx \/ UnlockRx \/ Resume \/ Yield \/ Recheck
  \/ InputEventInjectFromISR \/ xQueueSendFromISR \/ Tick \/ Leave

Spec == Init /\ [][Next]_vars

----------------------------------------------------------------------------
(* Properties                                                                 *)

TypeOK ==
  /\ SchedTypeOK
  /\ queue.uxMessagesWaiting \in 0 .. EventQueueSize
  /\ {queue.pcWriteTo, queue.pcReadFrom} \subseteq 0 .. EventQueueSize - 1
  /\ {queue.cRxLock, queue.cTxLock} \subseteq queueUNLOCKED .. MaxItems
  /\ pc \in [Task -> {"idle", "try", "suspend", "lock", "check", "delay",
                      "unlockTx", "unlockRx", "resume", "yield", "recheck"}]
  /\ inject \in 0 .. MaxGroup /\ posted \in 0 .. MaxItems

(* The tasks of a kind of call that have been woken, or have not looked yet:  *)
(* they look at the queue before they wait again                              *)
WillLook(kind, l) ==
  {t \in Task : /\ call[t].kind = kind
                /\ pc[t] \in {"unlockTx", "unlockRx", "resume", "yield",
                             "recheck", "try"}
                /\ t \notin Range(sched.events[l])}

(* No wake-up is lost: while tasks wait to receive, every item in the queue   *)
(* has a task that was woken for it or is counted in the lock; and while      *)
(* tasks wait to send, so has every free place (prvLockQueue, prvUnlockQueue, *)
(* xQueueGenericSendFromISR)                                                  *)
NoLostWakeup ==
  /\ TypeOK
  /\ sched.events[Receivers] # <<>> =>
       queue.uxMessagesWaiting <=
         Cardinality(WillLook("receive", Receivers)) + Max({queue.cTxLock, 0})
  /\ sched.events[Senders] # <<>> =>
       Avail(queue) <=
         Cardinality(WillLook("send", Senders)) + Max({queue.cRxLock, 0})

(* InputEventInjectFromISR checks for room once, and every event of the group *)
(* then finds a place: no group is ever cut in two                            *)
GroupsWhole == inject <= Avail(queue)

(* A call that waits for some ticks gives up only when they are over, however *)
(* often it was woken for nothing and although the tick counter wraps around  *)
(* (xTaskCheckForTimeOut)                                                     *)
NeverEarly ==
  [][\A t \in Task :
       /\ call[t].kind \in {"send", "receive"}
       /\ pc[t] # "idle" /\ pc'[t] = "idle" /\ queue' = queue
       => Now(sched) >= call[t].since + call[t].ticks]_vars

(* The queue delivers every item once, in the order it was sent               *)
Fifo == INSTANCE ByteStream WITH
  Byte <- Item, Capacity <- EventQueueSize,
  pending <- Contents(queue), out <- got
DeliversInOrder == Fifo!Spec
=============================================================================
