----------------------------- MODULE Mutex_proofs ------------------------------
(* Proofs about mutexes, for any tasks, programs and mutexes: the scheduler   *)
(* stays sound while priorities are inherited and given up, a task that holds *)
(* no mutex has its own priority, no mutex is left free with nobody on the    *)
(* way to it, and the holder of a mutex whose users use no other one has the  *)
(* priority of every task that waits for it.                                  *)
EXTENDS Mutex, Sched_proofs, FiniteSetTheorems

(* A task gets another priority: it stays on the lists it is on, except that  *)
(* a ready task is on the list of the new priority                            *)
Reprioritised(s, r, t, p) ==
  /\ Lists(r) /\ OnTime(r) /\ r.prio = [s.prio EXCEPT ![t] = p]
  /\ \A u \in Task : IsReady(r, u) <=> IsReady(s, u)
  /\ r.events = s.events /\ r.pending = s.pending /\ r.suspended = s.suspended
  /\ r.cur = s.cur /\ r.isr = s.isr /\ SameClock(s, r)

LEMMA PrioFields ==
  ASSUME NEW s \in SchedStates, NEW t \in Task, NEW p \in Priority
  PROVE  LET r == [s EXCEPT !.prio[t] = p]
         IN  /\ r \in SchedStates /\ r.prio = [s.prio EXCEPT ![t] = p]
             /\ r.ready = s.ready /\ r.events = s.events /\ r.delayed = s.delayed
             /\ r.overflow = s.overflow /\ r.blocked = s.blocked /\ r.pending = s.pending
             /\ r.suspended = s.suspended /\ r.cur = s.cur /\ r.isr = s.isr
             /\ SameClock(s, r) /\ r.next = s.next
BY DEF SchedStates, SameClock

(* the other tasks do not notice                                              *)
LEMMA PrioOthers ==
  ASSUME NEW s \in SchedStates, NEW t \in Task, NEW p \in Priority
  PROVE  OthersSame(s, [s EXCEPT !.prio[t] = p], t)
<1> DEFINE r == [s EXCEPT !.prio[t] = p]
<1>1. /\ r.prio = [s.prio EXCEPT ![t] = p]
      /\ r.ready = s.ready /\ r.events = s.events /\ r.delayed = s.delayed
      /\ r.overflow = s.overflow /\ r.blocked = s.blocked /\ r.pending = s.pending
  BY PrioFields
<1>2. \A u \in Task : u # t => r.prio[u] = s.prio[u]
  BY <1>1, StateType
<1> HIDE DEF r
<1>3. \A u \in Task : u # t => SameTask(s, r, u)
  BY <1>1, <1>2 DEF SameTask
<1>4. OthersSame(s, r, t)
  BY <1>3 DEF OthersSame
<1> QED BY <1>4 DEF r

LEMMA OthersReady ==
  ASSUME NEW s \in SchedStates, NEW r, NEW t \in Task, OthersSame(s, r, t),
         \A u \in Task : Placed(s, u), Formed(r), Placed(r, t),
         IsReady(r, t) <=> IsReady(s, t)
  PROVE  Lists(r) /\ \A u \in Task : IsReady(r, u) <=> IsReady(s, u)
<1>1. \A u \in Task : u # t => Placed(r, u)
  BY SamePlaced DEF OthersSame
<1>2. \A u \in Task : u # t => (IsReady(r, u) <=> IsReady(s, u))
  BY SameReady DEF OthersSame
<1> QED BY <1>1, <1>2 DEF Lists

LEMMA WithPriorityIs ==
  ASSUME NEW s, Lists(s), OnTime(s), NEW t \in Task, NEW p \in Priority
  PROVE  Reprioritised(s, WithPriority(s, t, p), t, p)
<1> DEFINE r == WithPriority(s, t, p)
           d == Dequeued(s, t)
<1>1. s \in SchedStates /\ Formed(s) /\ \A u \in Task : Placed(s, u)
  BY SettledState DEF Lists
<1>2. CASE ~ IsReady(s, t)
  <2>1. r = [s EXCEPT !.prio[t] = p]
    BY <1>2 DEF WithPriority
  <2>2. /\ r \in SchedStates /\ r.prio = [s.prio EXCEPT ![t] = p]
        /\ r.ready = s.ready /\ r.events = s.events /\ r.delayed = s.delayed
        /\ r.overflow = s.overflow /\ r.blocked = s.blocked /\ r.pending = s.pending
        /\ r.suspended = s.suspended /\ r.cur = s.cur /\ r.isr = s.isr
        /\ SameClock(s, r) /\ r.next = s.next
    BY <1>1, <2>1, PrioFields
  <2>3. OthersSame(s, r, t)
    BY <1>1, <2>1, PrioOthers
  <2> HIDE DEF r
  <2>4. Formed(r)
    BY <1>1, <2>2 DEF Formed
  <2>5. \A k \in Priority : t \notin Range(s.ready[k])
    BY <1>1, <1>2 DEF Placed, IsReady
  <2>6. r.prio[t] = p
    BY <1>1, <2>2, StateType
  <2>7. ~ IsReady(r, t)
    BY <2>2, <2>5, <2>6 DEF IsReady
  <2>8. Placed(r, t)
    <3>1. Placed(s, t) /\ ~ IsReady(s, t)
      BY <1>1, <1>2
    <3>2. Dormant(r, t) <=> Dormant(s, t)
      BY <2>2 DEF Dormant
    <3>3. Waiting(r, t) <=> Waiting(s, t)
      BY <2>2 DEF Waiting
    <3>4. Held(r, t) <=> Held(s, t)
      BY <2>2 DEF Held
    <3>5. /\ Dormant(r, t)
          /\ ~ (t \in Asleep(r.delayed) /\ t \in Asleep(r.overflow))
          /\ t \in r.blocked => t \notin Asleep(r.delayed) /\ t \notin Asleep(r.overflow)
      BY <2>2, <3>1, <3>2 DEF Placed
    <3>6. /\ \A l, m \in EventList :
               t \in Range(r.events[l]) /\ t \in Range(r.events[m]) => l = m
          /\ Waiting(r, t) => ~ Held(r, t)
          /\ t \in r.blocked => Waiting(r, t) \/ Held(r, t)
      BY <2>2, <3>1, <3>3, <3>4 DEF Placed
    <3>7. \A k \in Priority : t \in Range(r.ready[k]) => k = r.prio[t]
      BY <2>2, <2>5
    <3> QED BY <2>7, <3>5, <3>6, <3>7 DEF Placed
  <2>9. Lists(r) /\ \A u \in Task : IsReady(r, u) <=> IsReady(s, u)
    BY <1>1, <1>2, <2>3, <2>4, <2>7, <2>8, OthersReady
  <2>10. OnTime(r)
    BY <2>2 DEF OnTime, Dated, Expected, Timely, SameClock
  <2> QED BY <2>2, <2>9, <2>10 DEF Reprioritised, r
<1>3. CASE IsReady(s, t)
  <2> DEFINE y == [d EXCEPT !.prio[t] = p]
  <2>1. r = prvAddTaskToReadyList(y, t)
    <3> DEFINE x == [s EXCEPT !.ready[s.prio[t]] = Unlinked(@, t), !.prio[t] = p]
    <3>1. r = prvAddTaskToReadyList(x, t)
      BY <1>3 DEF WithPriority
    <3>2. x = y
      BY <1>1 DEF SchedStates, Dequeued
    <3> HIDE DEF x, y, r
    <3> QED BY <3>1, <3>2
  <2>2. Placed(s, t)
    BY <1>1
  <2>3. /\ Formed(d) /\ DequeuedTo(s, d, t) /\ OthersSame(s, d, t)
        /\ \A k \in Priority : t \notin Range(d.ready[k])
    BY <1>1, <2>2, DequeuedIs DEF Placed
  <2> HIDE DEF d, r
  <2>4. d \in SchedStates
    BY <2>3 DEF Formed
  <2>5. /\ y \in SchedStates /\ y.prio = [d.prio EXCEPT ![t] = p]
        /\ y.ready = d.ready /\ y.events = d.events /\ y.delayed = d.delayed
        /\ y.overflow = d.overflow /\ y.blocked = d.blocked /\ y.pending = d.pending
        /\ y.suspended = d.suspended /\ y.cur = d.cur /\ y.isr = d.isr
        /\ SameClock(d, y) /\ y.next = d.next
    BY <2>4, PrioFields
  <2>6. OthersSame(d, y, t)
    BY <2>4, PrioOthers
  <2> HIDE DEF y
  <2>7. Formed(y)
    BY <2>3, <2>5 DEF Formed
  <2>8. y.prio[t] = p
    BY <2>4, <2>5, StateType
  <2>9. ~ IsReady(y, t)
    BY <2>3, <2>5, <2>8 DEF IsReady
  <2>10. /\ Formed(r) /\ OthersSame(y, r, t)
         /\ SameClock(y, r) /\ SameFlags(y, r) /\ r.next = y.next
         /\ r.events = y.events /\ r.delayed = y.delayed /\ r.overflow = y.overflow
         /\ r.blocked = y.blocked /\ r.pending = y.pending
         /\ IsReady(r, t)
         /\ \A k \in Priority : k # p => r.ready[k] = y.ready[k]
    BY <2>1, <2>7, <2>8, <2>9, AddedIs
  <2>11. OthersSame(s, r, t)
    BY <2>3, <2>6, <2>10, OthersTrans
  <2>12. /\ r.events = s.events /\ r.delayed = s.delayed /\ r.overflow = s.overflow
         /\ r.blocked = s.blocked /\ r.pending = s.pending /\ r.next = s.next
    BY <2>3, <2>5, <2>10 DEF DequeuedTo
  <2>13. /\ r.prio = [s.prio EXCEPT ![t] = p] /\ SameClock(s, r)
         /\ r.suspended = s.suspended /\ r.cur = s.cur /\ r.isr = s.isr
    BY <2>3, <2>5, <2>10 DEF DequeuedTo, SameFlags, SameClock
  <2>14. r.prio[t] = p
    BY <1>1, <2>13, StateType
  <2>15. Placed(r, t)
    <3>1. ~ Dormant(s, t) /\ ~ Waiting(s, t) /\ ~ Held(s, t)
      BY <1>3, <2>2 DEF Placed
    <3>2. ~ Dormant(r, t) /\ ~ Waiting(r, t) /\ ~ Held(r, t)
      BY <2>12, <3>1 DEF Dormant, Waiting, Held
    <3>3. \A k \in Priority : k # r.prio[t] => t \notin Range(r.ready[k])
      BY <2>3, <2>5, <2>10, <2>14
    <3> QED BY <2>10, <3>2, <3>3, ReadyPlaced
  <2>16. Lists(r) /\ \A u \in Task : IsReady(r, u) <=> IsReady(s, u)
    BY <1>1, <1>3, <2>10, <2>11, <2>15, OthersReady
  <2>17. OnTime(r)
    BY <2>12, <2>13 DEF OnTime, Dated, Expected, Timely, SameClock
  <2> QED BY <2>12, <2>13, <2>16, <2>17 DEF Reprioritised, r
<1> QED BY <1>2, <1>3

----------------------------------------------------------------------------
(* The state between two steps: no interrupt handler runs, no list is held    *)
(* back, and the idle task can run                                            *)
Sane(s) ==
  /\ Lists(s) /\ OnTime(s) /\ s.suspended = 0 /\ s.pending = <<>> /\ s.isr = "none"
  /\ IsReady(s, Idle)

(* The step leaves the priorities alone, and another task runs only if it has *)
(* the highest priority of those that are ready                               *)
Proceeds(s, r) ==
  Sane(r) /\ Goes(s, r) /\ (r.cur # s.cur => IsReady(r, r.cur) /\ ~ Higher(r))

LEMMA SaneIs ==
  ASSUME NEW s, Sane(s)
  PROVE  /\ s \in SchedStates /\ Lists(s) /\ OnTime(s) /\ s.suspended = 0 /\ s.pending = <<>>
         /\ s.isr = "none" /\ IsReady(s, Idle) /\ Idle \in Task /\ s.cur \in Task
BY SettledState, StateType, CreatedIs DEF Sane

LEMMA AdvancesProceeds ==
  ASSUME NEW s, Sane(s), NEW r, Lists(r), OnTime(r), Advances(s, r), r.isr = "none",
         r.cur # s.cur => ~ Higher(r)
  PROVE  Proceeds(s, r)
<1>1. IsReady(r, Idle)
  BY SaneIs DEF Advances, Goes
<1> QED BY <1>1, SaneIs DEF Sane, Proceeds, Advances

LEMMA SwitchProceeds ==
  ASSUME NEW s, Sane(s)
  PROVE  LET r == vTaskSwitchContext(s)
         IN  Proceeds(s, r) /\ r.events = s.events /\ IsReady(r, r.cur) /\ ~ Higher(r)
<1> DEFINE r == vTaskSwitchContext(s)
<1>1. /\ Settled(r) /\ Advances(s, r) /\ r.isr = s.isr
      /\ r.events = s.events /\ IsReady(r, r.cur)
  BY SaneIs, SwitchSettles
<1> HIDE DEF r
<1>2. Lists(r) /\ OnTime(r) /\ r.isr = "none" /\ ~ Higher(r)
  BY <1>1, SaneIs DEF Settled, Chosen
<1> QED BY <1>1, <1>2, AdvancesProceeds DEF r

(* the first task of a list is woken                                          *)
LEMMA FirstProceeds ==
  ASSUME NEW s, Sane(s), NEW l \in EventList, s.events[l] # <<>>
  PROVE  LET r == WakeFirst(s, l)
         IN  /\ Proceeds(s, r) /\ r.events = [s.events EXCEPT ![l] = Tail(s.events[l])]
             /\ IsReady(r, Head(s.events[l]))
             /\ IF Outranks(s, l) THEN ~ Higher(r) ELSE r.cur = s.cur
<1> DEFINE m == xTaskRemoveFromEventList(s, l)
           r == WakeFirst(s, l)
           t == Head(s.events[l])
<1>1. r = IF Outranks(s, l) THEN vTaskSwitchContext(m) ELSE m
  BY DEF WakeFirst
<1>2. Freed(s, m, l) /\ m.pending = s.pending /\ IsReady(m, t)
  BY SaneIs, FreedIs
<1>3. t \in Task
  BY SaneIs, TakenIs
<1> HIDE DEF m, r, t
<1>4. /\ Lists(m) /\ Woke(s, m) /\ SameTime(s, m) /\ m.next = s.next
      /\ m.events = [s.events EXCEPT ![l] = Tail(s.events[l])]
  BY <1>2 DEF Freed
<1>5. OnTime(m) /\ Goes(s, m)
  BY <1>4, SaneIs, SameTimeDated, WokeGoes DEF OnTime
<1>6. m.suspended = 0 /\ m.isr = "none" /\ m.cur = s.cur
  BY <1>4, SaneIs DEF Woke, SameFlags
<1>7. Sane(m) /\ Proceeds(s, m)
  <2>1. IsReady(m, Idle)
    BY <1>5, SaneIs DEF Goes
  <2> QED BY <1>2, <1>4, <1>5, <1>6, <2>1, SaneIs DEF Sane, Proceeds
<1>8. CASE ~ Outranks(s, l)
  BY <1>1, <1>2, <1>4, <1>6, <1>7, <1>8 DEF r, t
<1>9. CASE Outranks(s, l)
  <2>1. r = vTaskSwitchContext(m)
    BY <1>1, <1>9
  <2>2. Proceeds(m, r) /\ r.events = m.events /\ IsReady(r, r.cur) /\ ~ Higher(r)
    BY <1>7, <2>1, SwitchProceeds
  <2>3. Goes(s, r) /\ IsReady(r, t)
    BY <1>2, <1>3, <1>5, <2>2, GoesTrans DEF Proceeds, Goes
  <2> QED BY <1>4, <1>9, <2>2, <2>3 DEF Proceeds, r, t
<1> QED BY <1>8, <1>9

(* a tick, which may come between any two steps                               *)
LEMMA SystemTickSane ==
  ASSUME NEW s, Sane(s)
  PROVE  LET r == SystemTick(s)
         IN  /\ Lists(r) /\ OnTime(r) /\ Advances(s, r) /\ r.isr = "none"
             /\ r.cur = s.cur
<1> DEFINE i == IncrementTick(s)
           x == [i EXCEPT !.need = i.yield, !.yield = s.yield]
           r == SystemTick(s)
<1>1. s \in SchedStates /\ Lists(s) /\ OnTime(s) /\ s.suspended = 0 /\ s.pending = <<>>
  BY SaneIs
<1>2. r = x
  BY <1>1 DEF SystemTick
<1>3. /\ Lists(i) /\ Woke(s, i) /\ OnTime(i)
      /\ Now(i) = Now(s) + 1 /\ i.pending = <<>>
  BY <1>1, IncrementTickIs
<1> HIDE DEF i, r
<1>4. i \in SchedStates /\ i.yield \in BOOLEAN /\ s.yield \in BOOLEAN
  BY <1>1, <1>3, SettledState, StateType
<1>5. FlagsOnly(i, x) /\ x.isr = i.isr
  BY <1>4, TickFields
<1> HIDE DEF x
<1>6. Lists(x) /\ OnTime(x) /\ Advances(i, x)
  BY <1>3, <1>5, FlagsAdvance DEF FlagsOnly, SameClock
<1>7. i.suspended = 0 /\ i.isr = "none" /\ i.cur = s.cur
  BY <1>3, SaneIs DEF Woke, SameFlags
<1>8. Advances(s, i)
  <2>1. Now(s) \in Nat
    BY <1>1, NowType
  <2>2. Now(i) >= Now(s)
    BY <1>3, <2>1
  <2> QED BY <1>1, <1>3, <1>7, <2>2, WokeGoes DEF Advances
<1>9. Advances(s, x)
  <2>1. x \in SchedStates
    BY <1>5 DEF FlagsOnly
  <2> QED BY <1>1, <1>4, <1>6, <1>8, <2>1, AdvancesTrans
<1>10. x.cur = s.cur
  BY <1>5, <1>7 DEF FlagsOnly
<1> QED BY <1>2, <1>5, <1>6, <1>7, <1>9, <1>10 DEF r

LEMMA TickProceeds ==
  ASSUME NEW s, Sane(s)
  PROVE  Proceeds(s, LeaveIntr(SystemTick(s)))
<1> DEFINE r == SystemTick(s)
           c == [r EXCEPT !.need = FALSE]
<1>1. /\ Lists(r) /\ OnTime(r) /\ Advances(s, r) /\ r.isr = "none"
      /\ r.cur = s.cur
  BY SystemTickSane
<1> HIDE DEF r
<1>2. Sane(r) /\ Proceeds(s, r)
  BY <1>1, AdvancesProceeds DEF Proceeds
<1>3. CASE ~ r.need
  BY <1>2, <1>3 DEF LeaveIntr, r
<1>4. CASE r.need
  <2>1. r \in SchedStates
    BY <1>2, SaneIs
  <2>2. FlagsOnly(r, c) /\ c.isr = "none"
    BY <1>1, <2>1, NeedFields
  <2>3. LeaveIntr(r) = vTaskSwitchContext(c)
    BY <1>4 DEF LeaveIntr
  <2> HIDE DEF c
  <2>4. Lists(c) /\ OnTime(c) /\ Advances(r, c)
    BY <1>1, <2>2, FlagsAdvance DEF FlagsOnly, SameClock
  <2>5. Sane(c) /\ Proceeds(r, c) /\ c.cur = r.cur
    BY <1>2, <2>2, <2>4, AdvancesProceeds DEF Proceeds, FlagsOnly
  <2>6. /\ Proceeds(c, LeaveIntr(r)) /\ IsReady(LeaveIntr(r), LeaveIntr(r).cur)
        /\ ~ Higher(LeaveIntr(r))
    BY <2>3, <2>5, SwitchProceeds
  <2>7. Goes(s, LeaveIntr(r))
    BY <1>2, <2>5, <2>6, GoesTrans DEF Proceeds
  <2> QED BY <2>6, <2>7 DEF Proceeds, r
<1> QED BY <1>3, <1>4 DEF r

----------------------------------------------------------------------------
(* What the tasks are doing                                                   *)

Points ==
  {"run", "take", "wait", "yield", "expired", "disinherit", "give", "delay", "panic"}
Local ==
  [kind : {"take", "give", "delay"}, lock : Lock \cup {NoLock}, ticks : 0 .. TickMax,
   wait : 0 .. TickMax, timed : BOOLEAN, entering : 0 .. TickMax, overflows : Nat,
   inherited : BOOLEAN]

(* the call that fits a place in the program                                  *)
CallFits(a, c) ==
  /\ a # "run" => /\ c \in Local
                  /\ c.kind # "delay" => c.lock \in Lock
                  /\ c.kind = "delay" => c.lock = NoLock /\ c.ticks > 0
  /\ a \in {"take", "wait", "expired", "disinherit", "panic"} => c.kind = "take"
  /\ a = "give" => c.kind = "give"
  /\ a = "delay" => c.kind = "delay"
  /\ a = "yield" => c.kind \in {"take", "delay"}
  /\ a = "wait" => c.wait > 0

InCalls(p, k) ==
  /\ p \in [Task -> Points] /\ DOMAIN k = Task
  /\ \A t \in Task : CallFits(p[t], k[t])
  /\ p[Idle] = "run"

(* Who runs is ready, except between the end of a critical section that puts  *)
(* it to sleep and its yield                                                  *)
Runs(s, p) == IsReady(s, s.cur) \/ p[s.cur] = "yield"

(* A task on a list waits for that mutex: it is in the call, and when it is   *)
(* woken it will look at the mutex again                                      *)
Queued(s, p, k) ==
  \A l \in Lock : \A t \in Range(s.events[l]) :
    k[t].kind = "take" /\ k[t].lock = l /\ p[t] \in {"yield", "take"}

(* A mutex is free or has one holder, and the holder knows how many it has    *)
Mutexes == [Lock -> [count : 0 .. 1, holder : Task \cup {NoTask}]]
HeldBy(m, t) == {l \in Lock : m[l].holder = t}
Owned(m, n, p, k) ==
  /\ m \in Mutexes /\ n \in [Task -> Nat]
  /\ \A l \in Lock : m[l].count = 1 <=> m[l].holder = NoTask
  /\ \A t \in Task : n[t] = Cardinality(HeldBy(m, t))
  /\ \A t \in Task : p[t] = "give" => m[k[t].lock].holder = t

(* Restored, of a state                                                       *)
OwnPriority(s, n) == \A t \in Task : n[t] = 0 => s.prio[t] = BasePriority[t]

Core ==
  /\ Sane(sched) /\ InCalls(pc, call) /\ Runs(sched, pc) /\ Queued(sched, pc, call)
  /\ Owned(mutex, held, pc, call) /\ OwnPriority(sched, held)

LEMMA CoreIs ==
  ASSUME Core
  PROVE  /\ Sane(sched) /\ sched \in SchedStates /\ cur \in Task /\ Idle \in Task
         /\ pc \in [Task -> Points] /\ DOMAIN call = Task /\ pc[Idle] = "run"
         /\ CallFits(pc[cur], call[cur])
         /\ mutex \in Mutexes /\ held \in [Task -> Nat] /\ EventList = Lock
BY SaneIs, MutexAssumption DEF Core, InCalls, Owned, cur

(* a task that runs and is not about to yield is on no list                   *)
LEMMA CurIsFree ==
  ASSUME Core, ~ At("yield")
  PROVE  /\ IsReady(sched, cur) /\ ~ Waiting(sched, cur)
         /\ \A l \in EventList : cur \notin Range(sched.events[l])
<1>1. IsReady(sched, cur)
  BY DEF Core, Runs, At, cur
<1>2. ~ Waiting(sched, cur)
  BY <1>1, CoreIs DEF Sane, Lists, Placed
<1> QED BY <1>1, <1>2 DEF Waiting

(* The current task goes on                                                   *)
Continues(a, c) ==
  /\ pc' = [pc EXCEPT ![cur] = a]
  /\ DOMAIN call' = Task /\ call'[cur] = c
  /\ \A t \in Task : t # cur => call'[t] = call[t]

LEMMA ContinuesIs ==
  ASSUME Core, NEW a, NEW c, Continues(a, c)
  PROVE  /\ pc'[cur] = a /\ call'[cur] = c
         /\ \A t \in Task : t # cur => pc'[t] = pc[t] /\ call'[t] = call[t]
         /\ DOMAIN call' = Task /\ DOMAIN pc' = Task
BY CoreIs DEF Continues

LEMMA GoesTo ==
  ASSUME Core, NEW a, Goto(a), UNCHANGED call
  PROVE  Continues(a, call[cur])
BY CoreIs DEF Continues, Goto

LEMMA GoesWith ==
  ASSUME Core, NEW a, Goto(a), NEW c, call' = [call EXCEPT ![cur] = c]
  PROVE  Continues(a, c)
BY CoreIs DEF Continues, Goto

LEMMA Returns ==
  ASSUME Core, Return
  PROVE  Continues("run", NoCall) /\ CallFits("run", NoCall) /\ "run" \in Points
BY GoesWith DEF Return, CallFits, Points

LEMMA NotIdle ==
  ASSUME Core, NEW p, At(p), p # "run"
  PROVE  cur # Idle
BY CoreIs DEF At

LEMMA CallsStep ==
  ASSUME Core, NEW a \in Points, NEW c, Continues(a, c), CallFits(a, c), cur # Idle
  PROVE  InCalls(pc', call')
<1>1. pc' \in [Task -> Points]
  BY CoreIs DEF Continues
<1>2. ASSUME NEW t \in Task PROVE CallFits(pc'[t], call'[t])
  <2>1. CASE t = cur
    BY <2>1, ContinuesIs
  <2>2. CASE t # cur
    <3>1. CallFits(pc[t], call[t])
      BY DEF Core, InCalls
    <3> QED BY <2>2, <3>1, ContinuesIs
  <2> QED BY <2>1, <2>2
<1>3. pc'[Idle] = "run"
  BY CoreIs, ContinuesIs
<1> QED BY <1>1, <1>2, <1>3, ContinuesIs DEF InCalls

(* no task comes to wait but the current one                                  *)
Joins(a, c, l) == c.kind = "take" /\ c.lock = l /\ a \in {"yield", "take"}

LEMMA QueuedStep ==
  ASSUME Core, NEW a, NEW c, Continues(a, c),
         \A l \in Lock : \A t \in Range(sched'.events[l]) :
           /\ t = cur => Joins(a, c, l)
           /\ t # cur => t \in Task /\ t \in Range(sched.events[l])
  PROVE  Queued(sched', pc', call')
<1> SUFFICES ASSUME NEW l \in Lock, NEW t \in Range(sched'.events[l])
             PROVE  /\ call'[t].kind = "take" /\ call'[t].lock = l
                    /\ pc'[t] \in {"yield", "take"}
  BY DEF Queued
<1>1. CASE t = cur
  BY <1>1, ContinuesIs DEF Joins
<1>2. CASE t # cur
  <2>1. t \in Task /\ t \in Range(sched.events[l])
    BY <1>2
  <2>2. call[t].kind = "take" /\ call[t].lock = l /\ pc[t] \in {"yield", "take"}
    BY <2>1 DEF Core, Queued
  <2> QED BY <1>2, <2>1, <2>2, ContinuesIs
<1> QED BY <1>1, <1>2

LEMMA WaitersAre ==
  ASSUME NEW s, Sane(s), NEW l \in Lock
  PROVE  /\ s.events[l] \in Seq(Task) /\ Range(s.events[l]) \subseteq Task
         /\ \A t \in Range(s.events[l]) : t \in Task /\ ~ IsReady(s, t)
<1>1. s \in SchedStates /\ l \in EventList
  BY SaneIs, MutexAssumption
<1>2. s.events[l] \in Seq(Task) /\ Range(s.events[l]) \subseteq Task
  <2>1. s.events[l] \in Seq(Task)
    BY <1>1, StateType
  <2> QED BY <2>1, InRange
<1>3. \A t \in Range(s.events[l]) : t \in Task /\ ~ IsReady(s, t)
  BY <1>1, <1>2 DEF Sane, Lists, Placed, Waiting
<1> QED BY <1>2, <1>3

(* The steps in which tasks are woken and the lists get shorter               *)
LEMMA QueuedShrinks ==
  ASSUME Core, NEW a, NEW c, Continues(a, c), Goes(sched, sched'),
         \A l \in Lock : cur \in Range(sched.events[l]) => Joins(a, c, l)
  PROVE  Queued(sched', pc', call')
<1>1. \A l \in Lock : Range(sched'.events[l]) \subseteq Range(sched.events[l])
  BY MutexAssumption DEF Goes
<1>2. \A l \in Lock : Range(sched.events[l]) \subseteq Task
  BY CoreIs, WaitersAre
<1>3. ASSUME NEW l \in Lock, NEW t \in Range(sched'.events[l])
      PROVE  /\ t = cur => Joins(a, c, l)
             /\ t # cur => t \in Task /\ t \in Range(sched.events[l])
  BY <1>1, <1>2
<1> QED BY <1>3, QueuedStep

(* The mutexes stay as they are                                               *)
LEMMA OwnedSame ==
  ASSUME Core, NEW a, NEW c, Continues(a, c), mutex' = mutex, held' = held,
         a = "give" => mutex[c.lock].holder = cur
  PROVE  Owned(mutex', held', pc', call')
<1>1. Owned(mutex, held, pc, call)
  BY DEF Core
<1>2. ASSUME NEW t \in Task, pc'[t] = "give" PROVE mutex[call'[t].lock].holder = t
  <2>1. CASE t = cur
    BY <1>2, <2>1, ContinuesIs
  <2>2. CASE t # cur
    BY <1>1, <1>2, <2>2, ContinuesIs DEF Owned
  <2> QED BY <2>1, <2>2
<1> QED BY <1>1, <1>2 DEF Owned

LEMMA RunsProceeds ==
  ASSUME Core, NEW p, Proceeds(sched, sched'), IsReady(sched, cur) \/ p[cur] = "yield"
  PROVE  Runs(sched', p)
<1>1. CASE sched'.cur # cur
  BY <1>1 DEF Proceeds, Runs, cur
<1>2. CASE sched'.cur = cur /\ IsReady(sched, cur)
  BY <1>2, CoreIs DEF Proceeds, Goes, Runs
<1>3. CASE sched'.cur = cur /\ p[cur] = "yield"
  BY <1>3 DEF Runs
<1> QED BY <1>1, <1>2, <1>3

LEMMA OwnProceeds ==
  ASSUME Core, Goes(sched, sched'), held' = held PROVE OwnPriority(sched', held')
BY DEF Core, Goes, OwnPriority

(* A step that only wakes tasks and switches between them, if at all          *)
LEMMA QuietStep ==
  ASSUME Core, NEW a \in Points, NEW c, Continues(a, c), CallFits(a, c), cur # Idle,
         Proceeds(sched, sched'), sched'.cur = cur => IsReady(sched', cur),
         \A l \in Lock : cur \in Range(sched.events[l]) => Joins(a, c, l),
         mutex' = mutex, held' = held, a = "give" => mutex[c.lock].holder = cur
  PROVE  Core'
<1>1. Sane(sched') /\ Goes(sched, sched')
  BY DEF Proceeds
<1>2. Runs(sched', pc')
  BY DEF Proceeds, Runs, cur
<1>3. InCalls(pc', call')
  BY CallsStep
<1>4. Queued(sched', pc', call')
  BY <1>1, QueuedShrinks
<1>5. Owned(mutex', held', pc', call')
  BY OwnedSame
<1>6. OwnPriority(sched', held')
  BY <1>1, OwnProceeds
<1> QED BY <1>1, <1>2, <1>3, <1>4, <1>5, <1>6 DEF Core

LEMMA SameProceeds == ASSUME Core PROVE Proceeds(sched, sched)
BY DEF Core, Proceeds, Goes

LEMMA StandStep ==
  ASSUME Core, ~ At("yield"), NEW a \in Points, NEW c, Continues(a, c), CallFits(a, c), cur # Idle,
         sched' = sched, mutex' = mutex, held' = held,
         a = "give" => mutex[c.lock].holder = cur
  PROVE  Core'
<1>1. Proceeds(sched, sched') /\ (sched'.cur = cur => IsReady(sched', cur))
  BY SameProceeds, CurIsFree
<1>2. \A l \in Lock : cur \in Range(sched.events[l]) => Joins(a, c, l)
  BY CurIsFree, CoreIs
<1> QED BY <1>1, <1>2, QuietStep

----------------------------------------------------------------------------
(* The steps of the tasks                                                     *)

LEMMA CurCall ==
  ASSUME Core, ~ At("run")
  PROVE  LET c == call[cur]
         IN  /\ c \in Local /\ c.kind \in {"take", "give", "delay"}
             /\ c.lock \in Lock \cup {NoLock} /\ c.ticks \in 0 .. TickMax /\ c.wait \in 0 .. TickMax
             /\ c.timed \in BOOLEAN /\ c.entering \in 0 .. TickMax /\ c.overflows \in Nat
             /\ c.inherited \in BOOLEAN
             /\ c.kind # "delay" => c.lock \in Lock
             /\ c.kind = "delay" => c.lock = NoLock /\ c.ticks > 0
<1>1. pc[cur] # "run" => call[cur] \in Local
  BY CoreIs DEF CallFits
<1>2. call[cur] \in Local
  BY <1>1 DEF At
<1> QED BY <1>2, CoreIs DEF CallFits, Local, At

LEMMA BeginCore == ASSUME Core, Begin PROVE Core'
<1>1. At("run") /\ cur \in Task
  BY CoreIs DEF Begin
<1>2. PICK c \in Program[cur] :
        /\ c.kind = "give" => mutex[c.lock].holder = cur
        /\ Goto(c.kind)
        /\ call' = [call EXCEPT ![cur] =
             [kind |-> c.kind, lock |-> c.lock, ticks |-> c.ticks,
              wait |-> c.ticks, timed |-> FALSE, entering |-> 0,
              overflows |-> 0, inherited |-> FALSE]]
  BY DEF Begin
<1> DEFINE d == [kind |-> c.kind, lock |-> c.lock, ticks |-> c.ticks,
                 wait |-> c.ticks, timed |-> FALSE, entering |-> 0,
                 overflows |-> 0, inherited |-> FALSE]
<1>3. Continues(c.kind, d)
  BY <1>2, GoesWith
<1>4. c \in TakeCalls \cup GiveCalls \cup DelayCalls /\ cur # Idle
  BY <1>1, MutexAssumption
<1>5. TickMax \in Nat /\ TickMax > 0
  BY Ticks
<1>6. /\ c.kind \in {"take", "give", "delay"} /\ c.lock \in Lock \cup {NoLock}
      /\ c.ticks \in 0 .. TickMax
      /\ c.kind # "delay" => c.lock \in Lock
      /\ c.kind = "delay" => c.lock = NoLock /\ c.ticks > 0
  <2>1. CASE c \in TakeCalls
    BY <2>1 DEF TakeCalls
  <2>2. CASE c \in GiveCalls
    BY <1>5, <2>2 DEF GiveCalls
  <2>3. CASE c \in DelayCalls
    BY <1>5, <2>3 DEF DelayCalls
  <2> QED BY <1>4, <2>1, <2>2, <2>3
<1>7. d \in Local
  BY <1>5, <1>6 DEF Local
<1>8. CallFits(c.kind, d) /\ c.kind \in Points
  BY <1>6, <1>7 DEF CallFits, Points
<1>9. c.kind = "give" => mutex[d.lock].holder = cur
  BY <1>2
<1>10. sched' = sched /\ mutex' = mutex /\ held' = held /\ ~ At("yield")
  BY <1>1 DEF Begin, At
<1> HIDE DEF d
<1> QED BY <1>3, <1>4, <1>8, <1>9, <1>10, StandStep

(* a mutex is taken                                                           *)
LEMMA TakenOwned ==
  ASSUME Core, At("take"), Continues("run", NoCall), NEW l \in Lock, mutex[l].count > 0,
         mutex' = [mutex EXCEPT ![l] = [count |-> mutex[l].count - 1, holder |-> cur]],
         held' = [held EXCEPT ![cur] = held[cur] + 1]
  PROVE  Owned(mutex', held', pc', call') /\ held'[cur] # 0
<1>1. /\ mutex \in Mutexes /\ held \in [Task -> Nat] /\ cur \in Task /\ NoTask \notin Task
      /\ \A m \in Lock : mutex[m].count \in 0 .. 1
  BY CoreIs, MutexAssumption DEF Mutexes
<1>2. Owned(mutex, held, pc, call)
  BY DEF Core
<1>3. mutex[l].count = 1 /\ mutex[l].holder = NoTask
  BY <1>1, <1>2 DEF Owned
<1>4. /\ mutex'[l] = [count |-> 0, holder |-> cur]
      /\ \A m \in Lock : m # l => mutex'[m] = mutex[m]
      /\ mutex' \in Mutexes
  BY <1>1, <1>3 DEF Mutexes
<1>5. /\ held' \in [Task -> Nat] /\ held'[cur] = held[cur] + 1
      /\ \A t \in Task : t # cur => held'[t] = held[t]
  BY <1>1
<1>6. \A m \in Lock : mutex'[m].count = 1 <=> mutex'[m].holder = NoTask
  BY <1>1, <1>2, <1>4 DEF Owned
<1>7. ASSUME NEW t \in Task PROVE held'[t] = Cardinality(HeldBy(mutex', t))
  <2>1. CASE t # cur
    <3>1. HeldBy(mutex', t) = HeldBy(mutex, t)
      BY <1>1, <1>3, <1>4, <2>1 DEF HeldBy
    <3> QED BY <1>2, <1>5, <2>1, <3>1 DEF Owned
  <2>2. CASE t = cur
    <3>1. HeldBy(mutex', t) = HeldBy(mutex, t) \cup {l}
      BY <1>4, <2>2 DEF HeldBy
    <3>2. l \notin HeldBy(mutex, t)
      BY <1>1, <1>3 DEF HeldBy
    <3>3. IsFiniteSet(HeldBy(mutex, t))
      BY MutexAssumption, FS_Subset DEF HeldBy
    <3>4. Cardinality(HeldBy(mutex', t)) = Cardinality(HeldBy(mutex, t)) + 1
      BY <3>1, <3>2, <3>3, FS_AddElement
    <3> QED BY <1>2, <1>5, <2>2, <3>4 DEF Owned
  <2> QED BY <2>1, <2>2
<1>8. ASSUME NEW t \in Task, pc'[t] = "give" PROVE mutex'[call'[t].lock].holder = t
  <2>1. t # cur
    BY <1>8, ContinuesIs
  <2>2. pc[t] = "give" /\ call'[t] = call[t] /\ mutex[call[t].lock].holder = t
    BY <1>2, <1>8, <2>1, ContinuesIs DEF Owned
  <2>3. call[t].lock \in Lock
    BY <2>2 DEF Core, InCalls, CallFits
  <2>4. call[t].lock # l
    BY <1>1, <1>3, <2>2
  <2> QED BY <1>4, <2>2, <2>3, <2>4
<1>9. held'[cur] # 0
  BY <1>1, <1>5
<1> QED BY <1>4, <1>5, <1>6, <1>7, <1>8, <1>9 DEF Owned

LEMMA TakeCore == ASSUME Core, Take PROVE Core'
<1> DEFINE c == call[cur]
           l == c.lock
<1>1. At("take") /\ ~ At("yield") /\ cur # Idle /\ sched' = sched
  BY NotIdle DEF Take, At
<1>2. c \in Local /\ c.kind = "take" /\ l \in Lock /\ c.wait \in 0 .. TickMax
  <2>1. ~ At("run") /\ pc[cur] = "take"
    BY <1>1 DEF At
  <2>2. c.kind = "take"
    BY <2>1, CoreIs DEF CallFits
  <2> QED BY <2>1, <2>2, CurCall
<1>3. CASE /\ mutex[l].count > 0
           /\ mutex' = [mutex EXCEPT ![l] = [count |-> @.count - 1, holder |-> cur]]
           /\ held' = [held EXCEPT ![cur] = @ + 1]
           /\ Return
  <2>1. Continues("run", NoCall) /\ CallFits("run", NoCall) /\ "run" \in Points
    BY <1>3, Returns
  <2>2. Owned(mutex', held', pc', call') /\ held'[cur] # 0
    BY <1>1, <1>2, <1>3, <2>1, TakenOwned
  <2>3. OwnPriority(sched', held')
    <3>1. \A t \in Task : t # cur => held'[t] = held[t]
      BY <1>3, CoreIs
    <3> QED BY <1>1, <2>2, <3>1 DEF Core, OwnPriority
  <2>4. Sane(sched') /\ Runs(sched', pc')
    BY <1>1, CurIsFree, CoreIs DEF Runs, cur
  <2>5. InCalls(pc', call')
    BY <1>1, <2>1, CallsStep
  <2>6. Queued(sched', pc', call')
    <3>1. Goes(sched, sched')
      BY <1>1 DEF Goes
    <3>2. \A m \in Lock : cur \in Range(sched.events[m]) => Joins("run", NoCall, m)
      BY <1>1, CurIsFree, CoreIs
    <3> QED BY <2>1, <3>1, <3>2, QueuedShrinks
  <2> QED BY <2>2, <2>3, <2>4, <2>5, <2>6 DEF Core
<1>4. CASE c.wait = 0 /\ Return /\ mutex' = mutex /\ held' = held
  <2>1. Continues("run", NoCall) /\ CallFits("run", NoCall) /\ "run" \in Points
    BY <1>4, Returns
  <2> QED BY <1>1, <1>4, <2>1, StandStep
<1>5. CASE /\ c.wait > 0 /\ Goto("wait")
           /\ call' = IF c.timed THEN call
                      ELSE [call EXCEPT ![cur] =
                             [c EXCEPT !.timed = TRUE, !.entering = sched.tick,
                                       !.overflows = sched.overflows]]
           /\ mutex' = mutex /\ held' = held
  <2> DEFINE d == [c EXCEPT !.timed = TRUE, !.entering = sched.tick,
                            !.overflows = sched.overflows]
  <2>1. sched.tick \in 0 .. TickMax /\ sched.overflows \in Nat
    BY CoreIs, StateType
  <2>2. d \in Local /\ d.kind = c.kind /\ d.lock = c.lock /\ d.wait = c.wait
    BY <1>2, <2>1 DEF Local
  <2>3. CallFits("wait", c) /\ CallFits("wait", d) /\ "wait" \in Points
    BY <1>2, <1>5, <2>2 DEF CallFits, Points
  <2>4. Continues("wait", c) \/ Continues("wait", d)
    <3>1. CASE c.timed
      BY <1>5, <3>1, GoesTo
    <3>2. CASE ~ c.timed
      BY <1>5, <3>2, GoesWith
    <3> QED BY <3>1, <3>2
  <2> HIDE DEF d
  <2> QED BY <1>1, <1>5, <2>3, <2>4, StandStep
<1>6. CASE Goto("panic") /\ mutex' = mutex /\ held' = held /\ call' = call
  <2>1. Continues("panic", c)
    BY <1>6, GoesTo
  <2>2. CallFits("panic", c) /\ "panic" \in Points
    BY <1>2 DEF CallFits, Points
  <2> QED BY <1>1, <1>6, <2>1, <2>2, StandStep
<1> QED BY <1>3, <1>4, <1>5, <1>6 DEF Take

(* the time a call has left, if it has any                                    *)
LEMMA RemainderIs ==
  ASSUME NEW m \in Nat, m > 0, NEW n \in Int
  PROVE  n % m \in 0 .. m - 1
OBVIOUS

LEMMA WaitLeftIs ==
  ASSUME Core, NEW c \in Local, c.wait > 0, NotExpired(c)
  PROVE  LET d == WaitLeft(c)
         IN  /\ d \in Local /\ d.kind = c.kind /\ d.lock = c.lock /\ d.ticks = c.ticks
             /\ d.wait \in 1 .. TickMax
<1> DEFINE e == TickType(sched.tick - c.entering)
           v == c.wait - e
           d == [c EXCEPT !.wait = v, !.entering = sched.tick, !.overflows = sched.overflows]
<1>1. /\ sched.tick \in 0 .. TickMax /\ sched.overflows \in Nat
      /\ c.wait \in 0 .. TickMax /\ c.entering \in 0 .. TickMax /\ TickMax \in Nat
  BY CoreIs, StateType, Ticks DEF Local
<1>2. e \in 0 .. TickMax
  <2>1. sched.tick - c.entering \in Int /\ TickMax + 1 \in Nat /\ TickMax + 1 > 0
    BY <1>1
  <2>2. (sched.tick - c.entering) % (TickMax + 1) \in 0 .. (TickMax + 1) - 1
    BY <2>1, RemainderIs
  <2> QED BY <1>1, <2>2 DEF TickType
<1>3. CASE c.wait = portMAX_DELAY
  <2>1. WaitLeft(c) = c
    BY <1>3 DEF WaitLeft
  <2> QED BY <1>1, <2>1
<1>4. CASE c.wait # portMAX_DELAY
  <2>1. WaitLeft(c) = d
    BY <1>4 DEF WaitLeft
  <2>2. e < c.wait
    BY <1>4 DEF NotExpired
  <2> HIDE DEF e
  <2>3. v \in 1 .. TickMax
    BY <1>1, <1>2, <2>2
  <2>4. v \in 0 .. TickMax
    BY <1>1, <2>3
  <2> HIDE DEF v
  <2>5. d \in Local /\ d.kind = c.kind /\ d.lock = c.lock /\ d.ticks = c.ticks /\ d.wait = v
    BY <1>1, <2>4 DEF Local
  <2> QED BY <2>1, <2>3, <2>5
<1> QED BY <1>3, <1>4

LEMMA NothingLeftIs ==
  ASSUME NEW c \in Local
  PROVE  LET d == NothingLeft(c)
         IN  d \in Local /\ d.kind = c.kind /\ d.lock = c.lock
<1>1. 0 \in 0 .. TickMax
  BY Ticks
<1> QED BY <1>1 DEF NothingLeft, Local

(* The holder of a mutex has at least that one                                *)
LEMMA HolderIs ==
  ASSUME Core, NEW l \in Lock, mutex[l].holder # NoTask
  PROVE  LET h == mutex[l].holder IN h \in Task /\ held[h] # 0 /\ mutex[l].count = 0
<1> DEFINE h == mutex[l].holder
<1>1. Owned(mutex, held, pc, call) /\ mutex \in Mutexes
  BY CoreIs DEF Core
<1>2. h \in Task
  BY <1>1 DEF Mutexes
<1>3. l \in HeldBy(mutex, h) /\ IsFiniteSet(HeldBy(mutex, h))
  BY MutexAssumption, FS_Subset DEF HeldBy
<1>4. Cardinality(HeldBy(mutex, h)) # 0
  BY <1>3, FS_EmptySet
<1>5. held[h] # 0
  BY <1>1, <1>2, <1>4 DEF Owned
<1>6. mutex[l].count = 0
  <2>1. mutex[l].count \in 0 .. 1
    BY <1>1 DEF Mutexes
  <2> QED BY <1>1, <2>1 DEF Owned
<1> QED BY <1>2, <1>5, <1>6

LEMMA PriorityType ==
  ASSUME NEW s \in SchedStates
  PROVE  \A t \in Task : s.prio[t] \in Priority /\ s.prio[t] \in Int
<1>1. \A t \in Task : s.prio[t] \in Priority
  BY StateType
<1> QED BY <1>1, PrioritiesAre

(* a step that only changes the priority of a task that holds a mutex, if any *)
MayRaise(s, r) ==
  \/ r = s
  \/ \E h \in Task, p \in Priority : held[h] # 0 /\ Reprioritised(s, r, h, p)

LEMMA MayRaiseIs ==
  ASSUME Core, NEW r, MayRaise(sched, r)
  PROVE  /\ Sane(r) /\ r.cur = cur /\ r.events = sched.events
         /\ \A t \in Task : IsReady(r, t) <=> IsReady(sched, t)
         /\ \A t \in Task : held[t] = 0 => r.prio[t] = BasePriority[t]
<1>1. Sane(sched) /\ OwnPriority(sched, held) /\ sched \in SchedStates /\ Idle \in Task
  BY CoreIs DEF Core
<1>2. CASE r = sched
  BY <1>1, <1>2 DEF OwnPriority, cur
<1>3. CASE \E h \in Task, p \in Priority : held[h] # 0 /\ Reprioritised(sched, r, h, p)
  <2>1. PICK h \in Task, p \in Priority : held[h] # 0 /\ Reprioritised(sched, r, h, p)
    BY <1>3
  <2>2. ASSUME NEW t \in Task, held[t] = 0 PROVE r.prio[t] = BasePriority[t]
    <3>1. t # h /\ r.prio[t] = sched.prio[t]
      BY <1>1, <2>1, <2>2, StateType DEF Reprioritised
    <3> QED BY <1>1, <2>2, <3>1 DEF OwnPriority
  <2> QED BY <1>1, <2>1, <2>2 DEF Sane, Reprioritised, cur
<1> QED BY <1>2, <1>3 DEF MayRaise

LEMMA InheritIs ==
  ASSUME Core, NEW l \in Lock
  PROVE  MayRaise(sched, xTaskPriorityInherit(sched, mutex[l].holder))
<1> DEFINE h == mutex[l].holder
           r == xTaskPriorityInherit(sched, h)
<1>1. CASE h # NoTask /\ sched.prio[h] < sched.prio[cur]
  <2>1. r = WithPriority(sched, h, sched.prio[cur])
    BY <1>1 DEF xTaskPriorityInherit
  <2>2. h \in Task /\ held[h] # 0
    BY <1>1, HolderIs
  <2>3. sched.prio[cur] \in Priority
    BY CoreIs, PriorityType
  <2>4. Reprioritised(sched, r, h, sched.prio[cur])
    BY <2>1, <2>2, <2>3, CoreIs, WithPriorityIs DEF Sane
  <2> QED BY <2>2, <2>3, <2>4 DEF MayRaise
<1>2. CASE ~ (h # NoTask /\ sched.prio[h] < sched.prio[cur])
  <2>1. r = sched
    BY <1>2 DEF xTaskPriorityInherit
  <2> QED BY <2>1 DEF MayRaise
<1> QED BY <1>1, <1>2

(* The current task falls asleep                                              *)
LEMMA SleeperSane ==
  ASSUME NEW s, Sane(s), NEW r, Lists(r), OnTime(r), OthersSame(s, r, s.cur), s.cur # Idle,
         SameFlags(s, r), r.pending = s.pending
  PROVE  Sane(r) /\ r.cur = s.cur /\ r.prio = s.prio
<1>1. SameTask(s, r, Idle) /\ s \in SchedStates /\ Idle \in Task
  BY SaneIs DEF OthersSame
<1>2. IsReady(r, Idle)
  BY <1>1, SaneIs, SameReady
<1> QED BY <1>2 DEF Sane, SameFlags

LEMMA WaitPlaces ==
  ASSUME Core, ~ At("yield"), cur # Idle, NEW l \in Lock, NEW n \in 1 .. TickMax
  PROVE  LET s == xTaskPriorityInherit(sched, mutex[l].holder)
             r == vTaskPlaceOnEventList(s, l, n)
         IN  /\ MayRaise(sched, s) /\ s.events = sched.events /\ s.cur = cur
             /\ Sane(s) /\ Waits(s, r, l) /\ Sane(r) /\ r.cur = cur /\ r.prio = s.prio
             /\ \A t \in Task : held[t] = 0 => s.prio[t] = BasePriority[t]
<1> DEFINE s == xTaskPriorityInherit(sched, mutex[l].holder)
           r == vTaskPlaceOnEventList(s, l, n)
<1>1. MayRaise(sched, s)
  BY InheritIs
<1> HIDE DEF s
<1>2. /\ Sane(s) /\ s.cur = cur /\ s.events = sched.events
      /\ \A t \in Task : IsReady(s, t) <=> IsReady(sched, t)
      /\ \A t \in Task : held[t] = 0 => s.prio[t] = BasePriority[t]
  BY <1>1, MayRaiseIs
<1>3. IsReady(s, s.cur) /\ Lists(s) /\ OnTime(s) /\ l \in EventList
  BY <1>2, CurIsFree, CoreIs DEF Sane
<1>4. Waits(s, r, l)
  BY <1>3, PlaceIs
<1> HIDE DEF r
<1>5. Sane(r) /\ r.cur = cur /\ r.prio = s.prio
  BY <1>2, <1>4, SleeperSane DEF Waits
<1> QED BY <1>1, <1>2, <1>4, <1>5 DEF r, s

LEMMA WaitCore == ASSUME Core, Wait PROVE Core'
<1> DEFINE c == call[cur]
           l == c.lock
           h == mutex[l].holder
<1>1. At("wait") /\ ~ At("yield") /\ cur # Idle /\ mutex' = mutex /\ held' = held
  BY NotIdle DEF Wait, At
<1>2. c \in Local /\ c.kind = "take" /\ l \in Lock /\ c.wait > 0
  <2>1. ~ At("run") /\ pc[cur] = "wait"
    BY <1>1 DEF At
  <2>2. c.kind = "take" /\ c.wait > 0
    BY <2>1, CoreIs DEF CallFits
  <2> QED BY <2>1, <2>2, CurCall
<1>3. CASE /\ NotExpired(c) /\ mutex[l].count = 0
           /\ call' = [call EXCEPT ![cur] = [WaitLeft(c) EXCEPT !.inherited = Inherits(h)]]
           /\ sched' = vTaskPlaceOnEventList(xTaskPriorityInherit(sched, h), l, WaitLeft(c).wait)
           /\ Goto("yield")
  <2> DEFINE d == [WaitLeft(c) EXCEPT !.inherited = Inherits(h)]
             s == xTaskPriorityInherit(sched, h)
  <2>1. Continues("yield", d)
    BY <1>3, GoesWith
  <2>2. /\ WaitLeft(c) \in Local /\ WaitLeft(c).kind = "take" /\ WaitLeft(c).lock = l
        /\ WaitLeft(c).wait \in 1 .. TickMax
    BY <1>2, <1>3, WaitLeftIs
  <2>3. Inherits(h) \in BOOLEAN
    BY DEF Inherits
  <2>4. d \in Local /\ d.kind = "take" /\ d.lock = l
    BY <2>2, <2>3 DEF Local
  <2>5. CallFits("yield", d) /\ "yield" \in Points
    BY <1>2, <2>4 DEF CallFits, Points
  <2>6. /\ s.events = sched.events /\ Waits(s, sched', l) /\ s.cur = cur
        /\ Sane(sched') /\ sched'.cur = cur /\ sched'.prio = s.prio
        /\ \A t \in Task : held[t] = 0 => s.prio[t] = BasePriority[t]
    BY <1>1, <1>2, <1>3, <2>2, WaitPlaces
  <2> HIDE DEF s, d
  <2>7. Runs(sched', pc')
    BY <2>1, <2>6, ContinuesIs DEF Runs
  <2>8. Queued(sched', pc', call')
    <3> SUFFICES ASSUME NEW m \in Lock, NEW t \in Range(sched'.events[m])
                 PROVE  /\ t = cur => Joins("yield", d, m)
                        /\ t # cur => t \in Task /\ t \in Range(sched.events[m])
      BY <2>1, QueuedStep
    <3>1. t \in Task
      BY <2>6, WaitersAre
    <3>2. CASE m = l
      BY <2>4, <2>6, <3>1, <3>2 DEF Waits, Joins
    <3>3. CASE m # l
      <4>1. t \in Range(sched.events[m])
        BY <2>6, <3>3, CoreIs DEF Waits
      <4> QED BY <1>1, <3>1, <4>1, CurIsFree, CoreIs
    <3> QED BY <3>2, <3>3
  <2>9. OwnPriority(sched', held')
    BY <1>1, <2>6 DEF OwnPriority
  <2>10. Owned(mutex', held', pc', call') /\ InCalls(pc', call')
    BY <1>1, <2>1, <2>5, OwnedSame, CallsStep
  <2> QED BY <2>6, <2>7, <2>8, <2>9, <2>10 DEF Core
<1>4. CASE /\ NotExpired(c) /\ call' = [call EXCEPT ![cur] = WaitLeft(c)]
           /\ Goto("take") /\ sched' = sched
  <2>1. Continues("take", WaitLeft(c))
    BY <1>4, GoesWith
  <2>2. WaitLeft(c) \in Local /\ WaitLeft(c).kind = "take" /\ WaitLeft(c).lock = l
    BY <1>2, <1>4, WaitLeftIs
  <2>3. CallFits("take", WaitLeft(c)) /\ "take" \in Points
    BY <1>2, <2>2 DEF CallFits, Points
  <2> QED BY <1>1, <1>4, <2>1, <2>3, StandStep
<1>5. CASE /\ Goto("expired") /\ sched' = sched
           /\ call' = [call EXCEPT ![cur] = NothingLeft(c)]
  <2>1. Continues("expired", NothingLeft(c))
    BY <1>5, GoesWith
  <2>2. NothingLeft(c) \in Local /\ NothingLeft(c).kind = "take" /\ NothingLeft(c).lock = l
    BY <1>2, NothingLeftIs
  <2>3. CallFits("expired", NothingLeft(c)) /\ "expired" \in Points
    BY <1>2, <2>2 DEF CallFits, Points
  <2> QED BY <1>1, <1>5, <2>1, <2>3, StandStep
<1> QED BY <1>3, <1>4, <1>5 DEF Wait

LEMMA YieldCore == ASSUME Core, Yield PROVE Core'
<1> DEFINE c == call[cur]
<1>1. /\ pc[cur] = "yield" /\ ~ At("run") /\ cur # Idle /\ mutex' = mutex /\ held' = held
      /\ sched' = vTaskSwitchContext(sched)
  BY NotIdle DEF Yield, At
<1>2. Proceeds(sched, sched') /\ IsReady(sched', sched'.cur)
  BY <1>1, CoreIs, SwitchProceeds
<1>3. c \in Local /\ c.kind \in {"take", "delay"} /\ (c.kind = "take" => c.lock \in Lock)
  BY <1>1, CurCall, CoreIs DEF CallFits
<1>4. ASSUME NEW l \in Lock, cur \in Range(sched.events[l])
      PROVE  c.kind = "take" /\ c.lock = l
  BY <1>4 DEF Core, Queued
<1>5. CASE c.kind = "delay" /\ Return
  <2>1. Continues("run", NoCall) /\ CallFits("run", NoCall) /\ "run" \in Points
    BY <1>5, Returns
  <2>2. \A l \in Lock : cur \in Range(sched.events[l]) => Joins("run", NoCall, l)
    BY <1>4, <1>5
  <2> QED BY <1>1, <1>2, <2>1, <2>2, QuietStep
<1>6. CASE c.kind # "delay" /\ Goto("take") /\ call' = call
  <2>1. Continues("take", c)
    BY <1>6, GoesTo
  <2>2. CallFits("take", c) /\ "take" \in Points
    BY <1>3, <1>6 DEF CallFits, Points
  <2>3. \A l \in Lock : cur \in Range(sched.events[l]) => Joins("take", c, l)
    BY <1>4 DEF Joins
  <2> QED BY <1>1, <1>2, <2>1, <2>2, <2>3, QuietStep
<1> QED BY <1>5, <1>6 DEF Yield

LEMMA ExpiredCore == ASSUME Core, Expired PROVE Core'
<1> DEFINE c == call[cur]
<1>1. /\ pc[cur] = "expired" /\ ~ At("yield") /\ ~ At("run") /\ cur # Idle
      /\ mutex' = mutex /\ held' = held /\ sched' = sched
  BY NotIdle DEF Expired, At
<1>2. c \in Local /\ c.kind = "take" /\ c.lock \in Lock
  BY <1>1, CurCall, CoreIs DEF CallFits
<1>3. CASE Return
  <2>1. Continues("run", NoCall) /\ CallFits("run", NoCall) /\ "run" \in Points
    BY <1>3, Returns
  <2> QED BY <1>1, <2>1, StandStep
<1>4. ASSUME NEW a \in {"take", "disinherit"}, Goto(a), call' = call PROVE Core'
  <2>1. Continues(a, c)
    BY <1>4, GoesTo
  <2>2. CallFits(a, c) /\ a \in Points
    BY <1>2, <1>4 DEF CallFits, Points
  <2> QED BY <1>1, <1>4, <2>1, <2>2, StandStep
<1>5. \/ Return
      \/ Goto("take") /\ call' = call
      \/ Goto("disinherit") /\ call' = call
  BY DEF Expired
<1> QED BY <1>3, <1>4, <1>5

(* what the holder is left with after a time-out                              *)
LEMMA AfterTimeoutIs ==
  ASSUME Core, NEW l \in Lock
  PROVE  MayRaise(sched, vTaskPriorityDisinheritAfterTimeout(sched, mutex[l].holder, HighestWaiting(l)))
<1> DEFINE h == mutex[l].holder
           w == HighestWaiting(l)
           p == Max({BasePriority[h], w})
           r == vTaskPriorityDisinheritAfterTimeout(sched, h, w)
<1>1. CASE r = sched
  BY <1>1 DEF MayRaise
<1>2. CASE h # NoTask /\ r = WithPriority(sched, h, p)
  <2>1. h \in Task /\ held[h] # 0
    BY <1>2, HolderIs
  <2>2. w \in Priority
    <3>1. CASE sched.events[l] = <<>>
      BY <3>1, PrioritiesAre DEF HighestWaiting
    <3>2. CASE sched.events[l] # <<>>
      <4>1. Head(sched.events[l]) \in Task
        BY <3>2, CoreIs, WaitersAre, TailIs
      <4> QED BY <3>2, <4>1, CoreIs, PriorityType DEF HighestWaiting
    <3> QED BY <3>1, <3>2
  <2>3. BasePriority[h] \in Priority
    BY <2>1, PrioritiesAre
  <2> HIDE DEF w
  <2>4. p \in Priority
    <3>1. {BasePriority[h], w} # {} /\ {BasePriority[h], w} \subseteq Priority
      BY <2>2, <2>3
    <3>2. p \in {BasePriority[h], w}
      BY <3>1, MaxIs
    <3> QED BY <3>1, <3>2
  <2> HIDE DEF p
  <2>5. Reprioritised(sched, r, h, p)
    BY <1>2, <2>1, <2>4, CoreIs, WithPriorityIs DEF Sane
  <2> HIDE DEF r
  <2>6. MayRaise(sched, r)
    BY <2>1, <2>4, <2>5 DEF MayRaise
  <2> QED BY <2>6 DEF r, w
<1>3. r = sched \/ (h # NoTask /\ r = WithPriority(sched, h, p))
  BY DEF vTaskPriorityDisinheritAfterTimeout
<1> QED BY <1>1, <1>2, <1>3

LEMMA DisinheritCore == ASSUME Core, DisinheritAfterTimeout PROVE Core'
<1> DEFINE l == call[cur].lock
<1>1. /\ pc[cur] = "disinherit" /\ ~ At("yield") /\ ~ At("run") /\ cur # Idle
      /\ mutex' = mutex /\ held' = held /\ Return
      /\ sched' = vTaskPriorityDisinheritAfterTimeout(sched, mutex[l].holder, HighestWaiting(l))
  BY NotIdle DEF DisinheritAfterTimeout, At
<1>2. l \in Lock
  BY <1>1, CurCall, CoreIs DEF CallFits
<1>3. Continues("run", NoCall) /\ CallFits("run", NoCall) /\ "run" \in Points
  BY <1>1, Returns
<1>4. MayRaise(sched, sched')
  BY <1>1, <1>2, AfterTimeoutIs
<1>5. /\ Sane(sched') /\ sched'.cur = cur /\ sched'.events = sched.events
      /\ \A t \in Task : IsReady(sched', t) <=> IsReady(sched, t)
      /\ \A t \in Task : held[t] = 0 => sched'.prio[t] = BasePriority[t]
  BY <1>4, MayRaiseIs
<1>6. Runs(sched', pc')
  BY <1>1, <1>5, CurIsFree, CoreIs DEF Runs
<1>7. Queued(sched', pc', call')
  <2> SUFFICES ASSUME NEW m \in Lock, NEW t \in Range(sched'.events[m])
               PROVE  /\ t = cur => Joins("run", NoCall, m)
                      /\ t # cur => t \in Task /\ t \in Range(sched.events[m])
    BY <1>3, QueuedStep
  <2>1. t \in Task /\ t \in Range(sched.events[m])
    BY <1>5, WaitersAre
  <2> QED BY <1>1, <2>1, CurIsFree, CoreIs
<1>8. OwnPriority(sched', held') /\ Owned(mutex', held', pc', call') /\ InCalls(pc', call')
  BY <1>1, <1>3, <1>5, OwnedSame, CallsStep DEF OwnPriority
<1> QED BY <1>5, <1>6, <1>7, <1>8 DEF Core

(* the mutex is free again                                                    *)
LEMMA GivenOwned ==
  ASSUME Core, Continues("run", NoCall), NEW l \in Lock, mutex[l].holder = cur,
         mutex' = [mutex EXCEPT ![l] = [count |-> 1, holder |-> NoTask]],
         held' = [held EXCEPT ![cur] = held[cur] - 1]
  PROVE  Owned(mutex', held', pc', call') /\ held[cur] \in Nat /\ held'[cur] = held[cur] - 1
<1>1. /\ mutex \in Mutexes /\ held \in [Task -> Nat] /\ cur \in Task /\ NoTask \notin Task
  BY CoreIs, MutexAssumption
<1>2. Owned(mutex, held, pc, call)
  BY DEF Core
<1>3. /\ mutex'[l] = [count |-> 1, holder |-> NoTask]
      /\ \A m \in Lock : m # l => mutex'[m] = mutex[m]
      /\ mutex' \in Mutexes
  BY <1>1 DEF Mutexes
<1>4. /\ held'[cur] = held[cur] - 1
      /\ \A t \in Task : t # cur => held'[t] = held[t]
  BY <1>1
<1>5. \A m \in Lock : mutex'[m].count = 1 <=> mutex'[m].holder = NoTask
  BY <1>2, <1>3 DEF Owned
<1>6. held[cur] - 1 = Cardinality(HeldBy(mutex', cur)) /\ held[cur] - 1 \in Nat
  <2>1. HeldBy(mutex', cur) = HeldBy(mutex, cur) \ {l}
    BY <1>1, <1>3 DEF HeldBy
  <2>2. l \in HeldBy(mutex, cur)
    BY DEF HeldBy
  <2>3. IsFiniteSet(HeldBy(mutex, cur)) /\ IsFiniteSet(HeldBy(mutex', cur))
    BY MutexAssumption, FS_Subset DEF HeldBy
  <2>4. Cardinality(HeldBy(mutex', cur)) = Cardinality(HeldBy(mutex, cur)) - 1
    BY <2>1, <2>2, <2>3, FS_RemoveElement
  <2>5. Cardinality(HeldBy(mutex', cur)) \in Nat
    BY <2>3, FS_CardinalityType
  <2>6. held[cur] = Cardinality(HeldBy(mutex, cur))
    BY <1>1, <1>2 DEF Owned
  <2> QED BY <2>4, <2>5, <2>6
<1>7. ASSUME NEW t \in Task PROVE held'[t] = Cardinality(HeldBy(mutex', t)) /\ held'[t] \in Nat
  <2>1. CASE t # cur
    <3>1. HeldBy(mutex', t) = HeldBy(mutex, t)
      BY <1>1, <1>3, <2>1 DEF HeldBy
    <3> QED BY <1>1, <1>2, <1>4, <2>1, <3>1 DEF Owned
  <2>2. CASE t = cur
    BY <1>4, <1>6, <2>2
  <2> QED BY <2>1, <2>2
<1>8. held' \in [Task -> Nat]
  BY <1>1, <1>6
<1>9. ASSUME NEW t \in Task, pc'[t] = "give" PROVE mutex'[call'[t].lock].holder = t
  <2>1. t # cur
    BY <1>9, ContinuesIs
  <2>2. pc[t] = "give" /\ call'[t] = call[t] /\ mutex[call[t].lock].holder = t
    BY <1>2, <1>9, <2>1, ContinuesIs DEF Owned
  <2>3. call[t].lock \in Lock
    BY <2>2 DEF Core, InCalls, CallFits
  <2>4. call[t].lock # l
    BY <2>1, <2>2
  <2> QED BY <1>3, <2>2, <2>3, <2>4
<1> QED BY <1>1, <1>3, <1>4, <1>5, <1>7, <1>8, <1>9 DEF Owned

(* the task that gives a mutex back loses what it has inherited with its last *)
LEMMA DisinheritIs ==
  ASSUME Core, ~ At("yield"), NEW n, n = held[cur], n # 0
  PROVE  LET s == xTaskPriorityDisinherit(sched, n)
         IN  /\ MayRaise(sched, s)
             /\ n = 1 => s.prio[cur] = BasePriority[cur]
             /\ \A t \in Task : t # cur => s.prio[t] = sched.prio[t]
<1> DEFINE s == xTaskPriorityDisinherit(sched, n)
           p == BasePriority[cur]
<1>1. p \in Priority /\ cur \in Task /\ sched \in SchedStates
  BY CoreIs, PrioritiesAre
<1>2. CASE Disinherits(n)
  <2>1. s = WithPriority(sched, cur, p)
    BY <1>2 DEF xTaskPriorityDisinherit
  <2>2. Reprioritised(sched, s, cur, p)
    BY <1>1, <2>1, CoreIs, WithPriorityIs DEF Sane
  <2> HIDE DEF s
  <2>3. MayRaise(sched, s)
    BY <1>1, <2>2 DEF MayRaise
  <2>4. s.prio = [sched.prio EXCEPT ![cur] = p]
    BY <2>2 DEF Reprioritised
  <2>5. s.prio[cur] = p /\ \A t \in Task : t # cur => s.prio[t] = sched.prio[t]
    BY <1>1, <2>4, StateType
  <2> QED BY <2>3, <2>5 DEF s
<1>3. CASE ~ Disinherits(n)
  <2>1. s = sched
    BY <1>3 DEF xTaskPriorityDisinherit
  <2>2. n = 1 => sched.prio[cur] = p
    BY <1>3 DEF Disinherits
  <2> QED BY <2>1, <2>2 DEF MayRaise
<1> QED BY <1>2, <1>3

LEMMA GiveIs ==
  ASSUME Core, Give
  PROVE  LET l == call[cur].lock
             s == xTaskPriorityDisinherit(sched, held[cur])
         IN  /\ ~ At("yield") /\ cur # Idle /\ l \in Lock /\ mutex[l].holder = cur /\ held[cur] # 0
             /\ Continues("run", NoCall) /\ CallFits("run", NoCall) /\ "run" \in Points
             /\ mutex' = [mutex EXCEPT ![l] = [count |-> 1, holder |-> NoTask]]
             /\ held' = [held EXCEPT ![cur] = held[cur] - 1]
             /\ MayRaise(sched, s) /\ Sane(s) /\ s.cur = cur /\ s.events = sched.events
             /\ IsReady(s, cur) /\ Proceeds(s, sched')
             /\ sched.events[l] = <<>> => sched'.events = sched.events
             /\ sched.events[l] # <<>> =>
                  /\ sched'.events = [sched.events EXCEPT ![l] = Tail(sched.events[l])]
                  /\ sched' = WakeFirst(s, l)
<1> DEFINE l == call[cur].lock
           s == xTaskPriorityDisinherit(sched, held[cur])
<1>1. /\ pc[cur] = "give" /\ ~ At("yield") /\ ~ At("run") /\ cur # Idle
  BY NotIdle DEF Give, At
<1>2. l \in Lock /\ l \in EventList
  BY <1>1, CurCall, CoreIs DEF CallFits
<1>3. mutex[l].holder = cur
  BY <1>1, CoreIs DEF Core, Owned
<1>4. held[cur] # 0
  BY <1>2, <1>3, CoreIs, HolderIs, MutexAssumption
<1>5. Continues("run", NoCall) /\ CallFits("run", NoCall) /\ "run" \in Points
  BY Returns DEF Give
<1>6. /\ mutex' = [mutex EXCEPT ![l] = [count |-> 1, holder |-> NoTask]]
      /\ held' = [held EXCEPT ![cur] = held[cur] - 1]
  BY DEF Give
<1>7. MayRaise(sched, s)
  BY <1>1, <1>4, DisinheritIs
<1>8. sched' = IF s.events[l] # <<>> THEN WakeFirst(s, l)
               ELSE IF Disinherits(held[cur]) THEN vTaskSwitchContext(s)
               ELSE s
  BY DEF Give
<1> HIDE DEF s
<1>9. /\ Sane(s) /\ s.cur = cur /\ s.events = sched.events
      /\ IsReady(s, cur)
  BY <1>1, <1>7, MayRaiseIs, CurIsFree, CoreIs
<1>10. CASE s.events[l] # <<>>
  <2>1. sched' = WakeFirst(s, l)
    BY <1>8, <1>10
  <2>2. Proceeds(s, sched') /\ sched'.events = [s.events EXCEPT ![l] = Tail(s.events[l])]
    BY <1>2, <1>9, <1>10, <2>1, FirstProceeds
  <2> QED BY <1>1, <1>2, <1>3, <1>4, <1>5, <1>6, <1>7, <1>9, <1>10, <2>1, <2>2 DEF s
<1>11. CASE s.events[l] = <<>>
  <2>1. Proceeds(s, sched') /\ sched'.events = s.events
    <3>1. CASE sched' = s
      BY <1>9, <3>1 DEF Proceeds, Goes
    <3>2. CASE sched' = vTaskSwitchContext(s)
      BY <1>9, <3>2, SwitchProceeds
    <3> QED BY <1>8, <1>11, <3>1, <3>2
  <2> QED BY <1>1, <1>2, <1>3, <1>4, <1>5, <1>6, <1>7, <1>9, <1>11, <2>1 DEF s
<1> QED BY <1>10, <1>11

LEMMA GiveCore == ASSUME Core, Give PROVE Core'
<1> DEFINE l == call[cur].lock
           s == xTaskPriorityDisinherit(sched, held[cur])
<1>1. /\ ~ At("yield") /\ cur # Idle /\ l \in Lock /\ mutex[l].holder = cur /\ held[cur] # 0
      /\ Continues("run", NoCall) /\ CallFits("run", NoCall) /\ "run" \in Points
      /\ mutex' = [mutex EXCEPT ![l] = [count |-> 1, holder |-> NoTask]]
      /\ held' = [held EXCEPT ![cur] = held[cur] - 1]
      /\ MayRaise(sched, s) /\ Sane(s) /\ s.cur = cur /\ s.events = sched.events
      /\ IsReady(s, cur) /\ Proceeds(s, sched')
  BY GiveIs
<1>2. /\ held[cur] = 1 => s.prio[cur] = BasePriority[cur]
      /\ \A t \in Task : t # cur => s.prio[t] = sched.prio[t]
  BY <1>1, DisinheritIs
<1> HIDE DEF s, l
<1>3. Owned(mutex', held', pc', call') /\ held[cur] \in Nat /\ held'[cur] = held[cur] - 1
  BY <1>1, GivenOwned
<1>4. Sane(sched') /\ Goes(s, sched')
  BY <1>1 DEF Proceeds
<1>5. Runs(sched', pc')
  <2>1. sched'.cur # cur => IsReady(sched', sched'.cur)
    BY <1>1 DEF Proceeds
  <2>2. IsReady(sched', cur)
    BY <1>1, <1>4, CoreIs DEF Goes
  <2> QED BY <2>1, <2>2 DEF Runs
<1>6. Queued(sched', pc', call')
  <2> SUFFICES ASSUME NEW m \in Lock, NEW t \in Range(sched'.events[m])
               PROVE  /\ t = cur => Joins("run", NoCall, m)
                      /\ t # cur => t \in Task /\ t \in Range(sched.events[m])
    BY <1>1, QueuedStep
  <2>1. t \in Task
    BY <1>4, WaitersAre
  <2>2. t \in Range(sched.events[m])
    BY <1>1, <1>4, CoreIs DEF Goes
  <2> QED BY <1>1, <2>1, <2>2, CurIsFree, CoreIs
<1>7. OwnPriority(sched', held')
  <2> SUFFICES ASSUME NEW t \in Task, held'[t] = 0 PROVE sched'.prio[t] = BasePriority[t]
    BY DEF OwnPriority
  <2>1. sched'.prio[t] = s.prio[t]
    BY <1>4 DEF Goes
  <2>2. CASE t = cur
    BY <1>2, <1>3, <2>1, <2>2
  <2>3. CASE t # cur
    <3>1. held[t] = 0
      BY <1>1, <2>3, CoreIs
    <3> QED BY <1>2, <2>1, <2>3, <3>1 DEF Core, OwnPriority
  <2> QED BY <2>2, <2>3
<1>8. InCalls(pc', call')
  BY <1>1, CallsStep
<1> QED BY <1>3, <1>4, <1>5, <1>6, <1>7, <1>8 DEF Core

LEMMA DelayIs ==
  ASSUME Core, Delay
  PROVE  LET c == call[cur]
         IN  /\ ~ At("yield") /\ cur # Idle /\ mutex' = mutex /\ held' = held
             /\ Continues("yield", c) /\ CallFits("yield", c) /\ "yield" \in Points
             /\ FallsAsleep(sched, sched', cur) /\ OnTime(sched')
<1> DEFINE c == call[cur]
<1>1. /\ pc[cur] = "delay" /\ ~ At("yield") /\ ~ At("run") /\ cur # Idle
      /\ mutex' = mutex /\ held' = held /\ Goto("yield") /\ call' = call
      /\ sched' = AddCurrentTaskToDelayedList(sched, c.ticks, FALSE)
  BY NotIdle DEF Delay, At
<1>2. c \in Local /\ c.kind = "delay" /\ c.lock = NoLock /\ c.ticks \in 1 .. TickMax
  <2>1. c.kind = "delay"
    BY <1>1, CoreIs DEF CallFits
  <2>2. c \in Local /\ c.lock = NoLock /\ c.ticks > 0 /\ c.ticks \in 0 .. TickMax
    BY <1>1, <2>1, CurCall
  <2>3. c.ticks \in 1 .. TickMax
    BY <2>2, Ticks
  <2> QED BY <2>1, <2>2, <2>3
<1>3. Continues("yield", c)
  BY <1>1, GoesTo
<1>4. CallFits("yield", c) /\ "yield" \in Points
  BY <1>2 DEF CallFits, Points
<1>5. MaySleep(sched, cur, FALSE) /\ OnTime(sched)
  <2>1. /\ IsReady(sched, cur) /\ ~ Waiting(sched, cur) /\ cur \in Task
        /\ \A l \in EventList : cur \notin Range(sched.events[l])
    BY <1>1, CurIsFree, CoreIs
  <2>2. Formed(sched) /\ \A u \in Task : Placed(sched, u)
    BY CoreIs DEF Sane, Lists
  <2>3. /\ \A p \in Priority : cur \in Range(sched.ready[p]) => p = sched.prio[cur]
        /\ ~ Dormant(sched, cur) /\ ~ Held(sched, cur)
    BY <2>1, <2>2 DEF Placed
  <2> QED BY <2>1, <2>2, <2>3, CoreIs DEF MaySleep, cur, Sane
<1>6. FallsAsleep(sched, sched', cur) /\ OnTime(sched')
  BY <1>1, <1>2, <1>5, CoreIs, SleepIs
<1> QED BY <1>1, <1>3, <1>4, <1>6

LEMMA DelayCore == ASSUME Core, Delay PROVE Core'
<1> DEFINE c == call[cur]
<1>1. /\ ~ At("yield") /\ cur # Idle /\ mutex' = mutex /\ held' = held
      /\ Continues("yield", c) /\ CallFits("yield", c) /\ "yield" \in Points
      /\ FallsAsleep(sched, sched', cur) /\ OnTime(sched')
  BY DelayIs
<1>2. Sane(sched') /\ sched'.cur = cur /\ sched'.prio = sched.prio
  BY <1>1, CoreIs, SleeperSane DEF FallsAsleep, cur
<1>3. Runs(sched', pc')
  BY <1>1, <1>2, ContinuesIs DEF Runs
<1>4. Queued(sched', pc', call')
  <2> SUFFICES ASSUME NEW m \in Lock, NEW t \in Range(sched'.events[m])
               PROVE  /\ t = cur => Joins("yield", c, m)
                      /\ t # cur => t \in Task /\ t \in Range(sched.events[m])
    BY <1>1, QueuedStep
  <2>1. t \in Task /\ t \in Range(sched.events[m])
    BY <1>1, <1>2, WaitersAre DEF FallsAsleep
  <2> QED BY <1>1, <2>1, CurIsFree, CoreIs
<1>5. OwnPriority(sched', held')
  BY <1>1, <1>2 DEF Core, OwnPriority
<1>6. Owned(mutex', held', pc', call') /\ InCalls(pc', call')
  BY <1>1, OwnedSame, CallsStep
<1> QED BY <1>2, <1>3, <1>4, <1>5, <1>6 DEF Core

LEMMA TickCore == ASSUME Core, Tick PROVE Core'
<1>1. /\ sched' = LeaveIntr(SystemTick(sched))
      /\ mutex' = mutex /\ held' = held /\ pc' = pc /\ call' = call
  BY CoreIs, SaneIs DEF Tick, TickInterrupt
<1>2. Proceeds(sched, sched')
  BY <1>1, CoreIs, TickProceeds
<1>3. Sane(sched') /\ Goes(sched, sched')
  BY <1>2 DEF Proceeds
<1>4. Runs(sched', pc')
  <2>1. IsReady(sched, cur) \/ pc[cur] = "yield"
    BY DEF Core, Runs, cur
  <2> QED BY <1>1, <1>2, <2>1, RunsProceeds
<1>5. Queued(sched', pc', call')
  <2>1. \A l \in Lock : Range(sched'.events[l]) \subseteq Range(sched.events[l])
    BY <1>3, MutexAssumption DEF Goes
  <2> QED BY <1>1, <2>1 DEF Core, Queued
<1>6. InCalls(pc', call') /\ Owned(mutex', held', pc', call')
  BY <1>1 DEF Core
<1>7. OwnPriority(sched', held')
  BY <1>1, <1>3, OwnProceeds
<1> QED BY <1>3, <1>4, <1>5, <1>6, <1>7 DEF Core

LEMMA InitCore == ASSUME Init PROVE Core
<1>1. /\ Settled(InitSched) /\ InitSched.prio = BasePriority /\ InitSched.pending = <<>>
      /\ InitSched.suspended = 0 /\ InitSched.isr = "none" /\ InitSched.cur \in Task
      /\ \A t \in Task : IsReady(InitSched, t)
      /\ \A l \in EventList : InitSched.events[l] = <<>>
  BY InitSchedIs
<1>2. /\ sched = InitSched /\ mutex = [l \in Lock |-> [count |-> 1, holder |-> NoTask]]
      /\ held = [t \in Task |-> 0] /\ pc = [t \in Task |-> "run"]
      /\ call = [t \in Task |-> NoCall]
  BY DEF Init
<1>3. Idle \in Task /\ NoTask \notin Task
  BY CreatedIs, MutexAssumption
<1>4. Sane(sched) /\ Runs(sched, pc)
  BY <1>1, <1>2, <1>3 DEF Sane, Settled, Runs
<1>5. InCalls(pc, call)
  BY <1>2, <1>3 DEF InCalls, CallFits, Points
<1>6. Queued(sched, pc, call)
  <2>1. \A l \in Lock : Range(sched.events[l]) = {}
    BY <1>1, <1>2, MutexAssumption DEF Range
  <2> QED BY <2>1 DEF Queued
<1>7. Owned(mutex, held, pc, call)
  <2>1. mutex \in Mutexes
    BY <1>2 DEF Mutexes
  <2>2. \A t \in Task : HeldBy(mutex, t) = {}
    BY <1>2, <1>3 DEF HeldBy
  <2>3. \A t \in Task : held[t] = Cardinality(HeldBy(mutex, t))
    BY <1>2, <2>2, FS_EmptySet
  <2> QED BY <1>2, <2>1, <2>3 DEF Owned
<1>8. OwnPriority(sched, held)
  BY <1>1, <1>2 DEF OwnPriority
<1> QED BY <1>4, <1>5, <1>6, <1>7, <1>8 DEF Core

LEMMA NextCore == ASSUME Core, [Next]_vars PROVE Core'
<1>1. CASE UNCHANGED vars
  BY <1>1 DEF vars, Core
<1>2. CASE Next
  BY <1>2, BeginCore, TakeCore, WaitCore, YieldCore, ExpiredCore, DisinheritCore,
     GiveCore, DelayCore, TickCore DEF Next
<1> QED BY <1>1, <1>2

(* All calls on mutexes, delays and ticks keep the inductive invariant        *)
THEOREM CoreHolds == Spec => []Core
<1>1. Init => Core
  BY InitCore
<1>2. Core /\ [Next]_vars => Core'
  BY NextCore
<1> QED BY <1>1, <1>2, PTL DEF Spec

LEMMA CoreTypes == ASSUME Core PROVE TypeOK
<1>1. SchedTypeOK
  BY CoreIs, TypesHold
<1>2. held \in [Task -> 0 .. Cardinality(Lock)]
  <2>1. ASSUME NEW t \in Task PROVE held[t] \in 0 .. Cardinality(Lock)
    <3>1. HeldBy(mutex, t) \subseteq Lock
      BY DEF HeldBy
    <3>2. /\ Cardinality(HeldBy(mutex, t)) <= Cardinality(Lock)
          /\ Cardinality(HeldBy(mutex, t)) \in Nat /\ Cardinality(Lock) \in Nat
      BY <3>1, MutexAssumption, FS_Subset, FS_CardinalityType
    <3>3. held[t] = Cardinality(HeldBy(mutex, t))
      BY DEF Core, Owned
    <3> QED BY <3>2, <3>3
  <2> QED BY <2>1, CoreIs
<1> QED BY <1>1, <1>2, CoreIs DEF TypeOK, Mutexes, Points

(* A task that holds no mutex has its own priority: what                      *)
(* xTaskPriorityInherit added, xTaskPriorityDisinherit and                    *)
(* vTaskPriorityDisinheritAfterTimeout have taken back                        *)
THEOREM RestoredHolds == Spec => []Restored
<1>1. Core => Restored
  <2> SUFFICES ASSUME Core PROVE Restored
    OBVIOUS
  <2>1. OneListEach
    BY CoreIs, ListsHold DEF Sane
  <2> QED BY <2>1, CoreTypes DEF Core, OwnPriority, Restored
<1> QED BY <1>1, CoreHolds, PTL

----------------------------------------------------------------------------
(* No mutex is left free while tasks wait for it                              *)

(* the tasks that are going to look at it                                     *)
Looker(s, p, k, t, l) ==
  /\ k[t].lock = l /\ t \notin Range(s.events[l])
  /\ p[t] \in {"take", "wait", "yield", "expired"}
Stranded(s, m, p, k, l) ==
  /\ m[l].count = 1 /\ s.events[l] # <<>>
  /\ ~ \E t \in Task : Looker(s, p, k, t, l)

LEMMA StrandedIs ==
  NoMutexStranded <=> \A l \in Lock : ~ Stranded(sched, mutex, pc, call, l)
BY DEF NoMutexStranded, Stranded, Looker, WaitsFor

(* a step that leaves a mutex free, or frees none                             *)
LEMMA StrandedStep ==
  ASSUME Core, NoMutexStranded, NEW a, NEW c, Continues(a, c), NEW l \in Lock,
         mutex'[l].count = 1 => mutex[l].count = 1,
         mutex'[l].count = 1 =>
           Range(sched'.events[l]) \subseteq Range(sched.events[l]),
         sched'.events[l] \in Seq(Task),
         mutex[l].count = 1 =>
           pc[cur] \notin {"take", "wait", "yield", "expired"} \/ call[cur].lock # l
             \/ (c.lock = l /\ a \in {"take", "wait", "yield", "expired"})
  PROVE  ~ Stranded(sched', mutex', pc', call', l)
<1> SUFFICES ASSUME mutex'[l].count = 1, sched'.events[l] # <<>>
             PROVE  \E t \in Task : Looker(sched', pc', call', t, l)
  BY DEF Stranded
<1>1. sched.events[l] # <<>>
  <2>1. Head(sched'.events[l]) \in Range(sched'.events[l])
    BY TailIs
  <2>2. Range(sched.events[l]) # {}
    BY <2>1
  <2> QED BY <2>2 DEF Range
<1>2. PICK t \in Task : Looker(sched, pc, call, t, l)
  BY <1>1, StrandedIs DEF Stranded
<1>3. t \notin Range(sched'.events[l])
  BY <1>2 DEF Looker
<1>4. CASE t = cur
  BY <1>2, <1>3, <1>4, ContinuesIs DEF Looker
<1>5. CASE t # cur
  BY <1>2, <1>3, <1>5, ContinuesIs DEF Looker
<1> QED BY <1>4, <1>5

(* the steps that leave the mutexes and the lists alone, or shorten the lists *)
LEMMA StrandedQuiet ==
  ASSUME Core, Core', NoMutexStranded, NEW a, NEW c, Continues(a, c), mutex' = mutex,
         \A l \in Lock : Range(sched'.events[l]) \subseteq Range(sched.events[l]),
         \A l \in Lock :
           mutex[l].count = 1 /\ call[cur].lock = l
             /\ pc[cur] \in {"take", "wait", "yield", "expired"} =>
           c.lock = l /\ a \in {"take", "wait", "yield", "expired"}
  PROVE  NoMutexStranded'
<1>1. Sane(sched')
  BY DEF Core
<1>2. ASSUME NEW l \in Lock PROVE ~ Stranded(sched', mutex', pc', call', l)
  <2>1. sched'.events[l] \in Seq(Task)
    BY <1>1, WaitersAre
  <2> QED BY <2>1, StrandedStep
<1> QED BY <1>2 DEF NoMutexStranded, Stranded, Looker, WaitsFor

LEMMA BeginStranded == ASSUME Core, Core', NoMutexStranded, Begin PROVE NoMutexStranded'
<1>1. pc[cur] = "run" /\ sched' = sched /\ mutex' = mutex
  BY DEF Begin, At
<1>2. \E a, c : Continues(a, c)
  <2>1. \E a, c : Goto(a) /\ call' = [call EXCEPT ![cur] = c]
    BY DEF Begin
  <2> QED BY <2>1, GoesWith
<1> QED BY <1>1, <1>2, StrandedQuiet

LEMMA TakeStranded == ASSUME Core, Core', NoMutexStranded, Take PROVE NoMutexStranded'
<1> DEFINE c == call[cur]
           l == c.lock
<1>1. pc[cur] = "take" /\ ~ At("run") /\ sched' = sched /\ cur \in Task
  BY CoreIs DEF Take, At
<1>2. l \in Lock
  BY <1>1, CurCall, CoreIs DEF CallFits
<1>3. \E a, d : Continues(a, d)
  <2>1. \/ Return
        \/ Goto("panic") /\ call' = call
        \/ Goto("wait") /\ call' = call
        \/ \E d : Goto("wait") /\ call' = [call EXCEPT ![cur] = d]
    BY DEF Take
  <2> QED BY <2>1, Returns, GoesTo, GoesWith
<1>4. CASE mutex[l].count > 0 /\ mutex' = [mutex EXCEPT ![l] = [count |-> @.count - 1, holder |-> cur]]
  <2>1. mutex[l].count \in 0 .. 1
    BY <1>2, CoreIs DEF Mutexes
  <2>2. mutex'[l].count = 0 /\ \A m \in Lock : m # l => mutex'[m] = mutex[m]
    BY <1>2, <1>4, <2>1, CoreIs DEF Mutexes
  <2>3. ASSUME NEW m \in Lock PROVE ~ Stranded(sched', mutex', pc', call', m)
    <3>1. CASE m = l
      BY <2>2, <3>1 DEF Stranded
    <3>2. CASE m # l
      <4>1. sched'.events[m] \in Seq(Task)
        BY <1>1, CoreIs, WaitersAre
      <4> QED BY <1>1, <1>3, <2>2, <3>2, <4>1, StrandedStep
    <3> QED BY <3>1, <3>2
  <2> QED BY <2>3 DEF NoMutexStranded, Stranded, Looker, WaitsFor
<1>5. CASE mutex[l].count = 0 /\ mutex' = mutex
  BY <1>1, <1>3, <1>5, StrandedQuiet
<1> QED BY <1>4, <1>5 DEF Take

LEMMA WaitStranded == ASSUME Core, Core', NoMutexStranded, Wait PROVE NoMutexStranded'
<1> DEFINE c == call[cur]
           l == c.lock
           h == mutex[l].holder
<1>1. pc[cur] = "wait" /\ ~ At("run") /\ ~ At("yield") /\ cur # Idle /\ mutex' = mutex
  BY NotIdle DEF Wait, At
<1>2. c \in Local /\ l \in Lock /\ c.wait > 0
  BY <1>1, CurCall, CoreIs DEF CallFits
<1>3. CASE /\ NotExpired(c) /\ mutex[l].count = 0
           /\ call' = [call EXCEPT ![cur] = [WaitLeft(c) EXCEPT !.inherited = Inherits(h)]]
           /\ sched' = vTaskPlaceOnEventList(xTaskPriorityInherit(sched, h), l, WaitLeft(c).wait)
           /\ Goto("yield")
  <2> DEFINE d == [WaitLeft(c) EXCEPT !.inherited = Inherits(h)]
             s == xTaskPriorityInherit(sched, h)
  <2>1. Continues("yield", d)
    BY <1>3, GoesWith
  <2>2. WaitLeft(c).wait \in 1 .. TickMax
    BY <1>2, <1>3, WaitLeftIs
  <2>3. s.events = sched.events /\ Waits(s, sched', l) /\ Sane(sched')
    BY <1>1, <1>2, <1>3, <2>2, WaitPlaces
  <2> HIDE DEF s, d
  <2>4. ASSUME NEW m \in Lock PROVE ~ Stranded(sched', mutex', pc', call', m)
    <3>1. CASE m = l
      BY <1>1, <1>3, <3>1 DEF Stranded
    <3>2. CASE m # l
      <4>1. sched'.events[m] = sched.events[m] /\ sched'.events[m] \in Seq(Task)
        BY <2>3, <3>2, CoreIs, WaitersAre DEF Waits
      <4> QED BY <1>1, <2>1, <3>2, <4>1, StrandedStep
    <3> QED BY <3>1, <3>2
  <2> QED BY <2>4 DEF NoMutexStranded, Stranded, Looker, WaitsFor
<1>4. CASE /\ NotExpired(c) /\ call' = [call EXCEPT ![cur] = WaitLeft(c)]
           /\ Goto("take") /\ sched' = sched
  <2>1. Continues("take", WaitLeft(c))
    BY <1>4, GoesWith
  <2>2. WaitLeft(c).lock = l
    BY <1>2, <1>4, WaitLeftIs
  <2> QED BY <1>1, <1>4, <2>1, <2>2, StrandedQuiet
<1>5. CASE /\ Goto("expired") /\ sched' = sched
           /\ call' = [call EXCEPT ![cur] = NothingLeft(c)]
  <2>1. Continues("expired", NothingLeft(c))
    BY <1>5, GoesWith
  <2>2. NothingLeft(c) \in Local /\ NothingLeft(c).lock = l
    BY <1>2, NothingLeftIs
  <2> QED BY <1>1, <1>5, <2>1, <2>2, StrandedQuiet
<1> QED BY <1>3, <1>4, <1>5 DEF Wait

LEMMA YieldStranded == ASSUME Core, Core', NoMutexStranded, Yield PROVE NoMutexStranded'
<1> DEFINE c == call[cur]
<1>1. pc[cur] = "yield" /\ ~ At("run") /\ mutex' = mutex /\ sched' = vTaskSwitchContext(sched)
  BY DEF Yield, At
<1>2. \A l \in Lock : Range(sched'.events[l]) \subseteq Range(sched.events[l])
  BY <1>1, CoreIs, SwitchProceeds
<1>3. CASE c.kind = "delay" /\ Return
  <2>1. Continues("run", NoCall)
    BY <1>3, Returns
  <2>2. c.lock \notin Lock
    BY <1>1, <1>3, CurCall, MutexAssumption
  <2> QED BY <1>1, <1>2, <2>1, <2>2, StrandedQuiet
<1>4. CASE Goto("take") /\ call' = call
  <2>1. Continues("take", c)
    BY <1>4, GoesTo
  <2> QED BY <1>1, <1>2, <2>1, StrandedQuiet
<1> QED BY <1>3, <1>4 DEF Yield

LEMMA ExpiredStranded == ASSUME Core, Core', NoMutexStranded, Expired PROVE NoMutexStranded'
<1> DEFINE c == call[cur]
<1>1. pc[cur] = "expired" /\ mutex' = mutex /\ sched' = sched
  BY DEF Expired, At
<1>2. CASE mutex[c.lock].count > 0 /\ Goto("take") /\ call' = call
  <2>1. Continues("take", c)
    BY <1>2, GoesTo
  <2> QED BY <1>1, <2>1, StrandedQuiet
<1>3. CASE ~ (mutex[c.lock].count > 0) /\ (Return \/ (Goto("disinherit") /\ call' = call))
  <2>1. \E a, d : Continues(a, d)
    BY <1>3, Returns, GoesTo
  <2>2. mutex[c.lock].count # 1
    BY <1>3
  <2> QED BY <1>1, <2>1, <2>2, StrandedQuiet
<1> QED BY <1>2, <1>3 DEF Expired

LEMMA DisinheritStranded ==
  ASSUME Core, Core', NoMutexStranded, DisinheritAfterTimeout PROVE NoMutexStranded'
<1> DEFINE l == call[cur].lock
<1>1. /\ pc[cur] = "disinherit" /\ ~ At("run") /\ mutex' = mutex /\ Return
      /\ sched' = vTaskPriorityDisinheritAfterTimeout(sched, mutex[l].holder, HighestWaiting(l))
  BY DEF DisinheritAfterTimeout, At
<1>2. l \in Lock
  BY <1>1, CurCall, CoreIs DEF CallFits
<1>3. Continues("run", NoCall)
  BY <1>1, Returns
<1>4. sched'.events = sched.events
  BY <1>1, <1>2, AfterTimeoutIs, MayRaiseIs
<1> QED BY <1>1, <1>3, <1>4, StrandedQuiet

(* the first of the tasks that wait is woken, and has still to look           *)
LEMMA GiveStranded == ASSUME Core, Core', NoMutexStranded, Give PROVE NoMutexStranded'
<1> DEFINE l == call[cur].lock
           q == sched.events[l]
<1>1. /\ pc[cur] = "give" /\ l \in Lock /\ Continues("run", NoCall)
      /\ mutex' = [mutex EXCEPT ![l] = [count |-> 1, holder |-> NoTask]]
      /\ q = <<>> => sched'.events = sched.events
      /\ q # <<>> => sched'.events = [sched.events EXCEPT ![l] = Tail(q)]
  BY GiveIs DEF Give, At
<1>2. \A m \in Lock : m # l => mutex'[m] = mutex[m]
  BY <1>1, CoreIs DEF Mutexes
<1>3. sched.events \in [EventList -> Seq(Task)] /\ EventList = Lock /\ Sane(sched')
  BY CoreIs DEF SchedStates, Core
<1> HIDE DEF l
<1>4. \A m \in Lock : m # l => sched'.events[m] = sched.events[m]
  BY <1>1, <1>3
<1>5. ASSUME NEW m \in Lock, m # l PROVE ~ Stranded(sched', mutex', pc', call', m)
  <2>1. sched'.events[m] \in Seq(Task)
    BY <1>3, WaitersAre
  <2> QED BY <1>1, <1>2, <1>4, <1>5, <2>1, StrandedStep
<1>6. ~ Stranded(sched', mutex', pc', call', l)
  <2> SUFFICES ASSUME sched'.events[l] # <<>>
               PROVE  \E t \in Task : Looker(sched', pc', call', t, l)
    BY DEF Stranded
  <2>1. q \in Seq(Task) /\ q # <<>>
    BY <1>1, <1>3
  <2> DEFINE t == Head(q)
  <2>2. IsInjective(q)
    BY <1>1, <1>3, CoreIs DEF Sane, Lists, Formed
  <2>3. sched'.events[l] = Tail(q)
    BY <1>1, <1>3, <2>1
  <2>4. t \in Task /\ t \in Range(q) /\ t \notin Range(sched'.events[l])
    BY <2>1, <2>2, <2>3, TailIs
  <2> HIDE DEF q, t
  <2>5. call[t].lock = l /\ pc[t] \in {"yield", "take"}
    BY <1>1, <2>4 DEF Core, Queued, q
  <2>6. t # cur
    BY <1>1, <2>5
  <2>7. Looker(sched', pc', call', t, l)
    BY <1>1, <2>4, <2>5, <2>6, ContinuesIs DEF Looker
  <2> QED BY <2>4, <2>7
<1>7. \A m \in Lock : ~ Stranded(sched', mutex', pc', call', m)
  BY <1>5, <1>6
<1> QED BY <1>7 DEF NoMutexStranded, Stranded, Looker, WaitsFor

LEMMA DelayStranded == ASSUME Core, Core', NoMutexStranded, Delay PROVE NoMutexStranded'
<1>1. pc[cur] = "delay" /\ mutex' = mutex /\ Goto("yield") /\ call' = call
  BY DEF Delay, At
<1>2. sched'.events = sched.events
  BY DelayIs DEF FallsAsleep
<1>3. Continues("yield", call[cur])
  BY <1>1, GoesTo
<1> QED BY <1>1, <1>2, <1>3, StrandedQuiet

LEMMA TickStranded == ASSUME Core, Core', NoMutexStranded, Tick PROVE NoMutexStranded'
<1>1. /\ sched' = LeaveIntr(SystemTick(sched))
      /\ mutex' = mutex /\ pc' = pc /\ call' = call
  BY CoreIs, SaneIs DEF Tick, TickInterrupt
<1>2. Proceeds(sched, sched')
  BY <1>1, CoreIs, TickProceeds
<1>3. \A l \in Lock : Range(sched'.events[l]) \subseteq Range(sched.events[l])
  BY <1>2, MutexAssumption DEF Proceeds, Goes
<1>4. Continues(pc[cur], call[cur])
  BY <1>1, CoreIs DEF Continues
<1> QED BY <1>1, <1>3, <1>4, StrandedQuiet

LEMMA NextStranded ==
  ASSUME Core, Core', NoMutexStranded, [Next]_vars PROVE NoMutexStranded'
<1>1. CASE UNCHANGED vars
  BY <1>1 DEF vars, NoMutexStranded, WaitsFor
<1>2. CASE Next
  BY <1>2, BeginStranded, TakeStranded, WaitStranded, YieldStranded, ExpiredStranded,
     DisinheritStranded, GiveStranded, DelayStranded, TickStranded DEF Next
<1> QED BY <1>1, <1>2

(* A mutex that is free while tasks wait for it is going to be looked at      *)
THEOREM NoMutexStrandedHolds == Spec => []NoMutexStranded
<1>1. Init => NoMutexStranded
  <2>1. ASSUME Init PROVE \A l \in Lock : sched.events[l] = <<>>
    BY <2>1, InitSchedIs, MutexAssumption DEF Init
  <2> QED BY <2>1 DEF NoMutexStranded
<1>2. Core /\ Core' /\ NoMutexStranded /\ [Next]_vars => NoMutexStranded'
  BY NextStranded
<1> QED BY <1>1, <1>2, CoreHolds, PTL DEF Spec

----------------------------------------------------------------------------
(* The holder of a mutex that is used alone has the priority of those who     *)
(* wait for it                                                                *)

(* A task takes what its program says, and nothing that it holds              *)
Legit(m, p, k) ==
  \A t \in Task :
    /\ p[t] # "run" /\ k[t].kind = "take" =>
         Takes(t, k[t].lock) /\ m[k[t].lock].holder # t
    /\ \A l \in Lock : m[l].holder = t => Takes(t, l)

(* no task that waits for l has a higher priority than t                      *)
Above(s, l, t) == \A u \in Range(s.events[l]) : BasePriority[u] <= BasePriority[t]

(* t can run, and is going to look at l                                       *)
Looks(s, p, k, t, l) ==
  IsReady(s, t) /\ k[t].lock = l /\ p[t] \in {"take", "wait", "yield", "expired"}

(* The list is in the order of the priorities, and the holder above it.  If   *)
(* the mutex is free, then one that is ready to take it is above those that   *)
(* still wait, and so is who runs, if it ever takes this mutex                *)
InOrder(s, l) == Descends(s.events[l], BasePriority)
Raised(s, m, l) ==
  m[l].holder # NoTask =>
    \A u \in Range(s.events[l]) : s.prio[m[l].holder] >= BasePriority[u]
Attended(s, m, p, k, l) ==
  m[l].count = 1 /\ s.events[l] # <<>> =>
    \E t \in Task : Looks(s, p, k, t, l) /\ Above(s, l, t)
Guarded(s, m, l) == m[l].count = 1 /\ Takes(s.cur, l) => Above(s, l, s.cur)

Kept(s, m, p, k, l) ==
  InOrder(s, l) /\ Raised(s, m, l) /\ Attended(s, m, p, k, l) /\ Guarded(s, m, l)

Just ==
  /\ Legit(mutex, pc, call)
  /\ \A l \in Lock : Alone(l) => Kept(sched, mutex, pc, call, l)

LEMMA BaseType == \A t \in Task : BasePriority[t] \in Int
BY PrioritiesAre

LEMMA AboveTrans ==
  ASSUME NEW s, NEW l, Range(s.events[l]) \subseteq Task, NEW t \in Task, NEW u \in Task,
         Above(s, l, t), BasePriority[t] <= BasePriority[u]
  PROVE  Above(s, l, u)
BY BaseType DEF Above

(* Who takes a mutex that is used alone holds none but that                   *)
LEMMA HoldsAlone ==
  ASSUME NEW m, NEW p, NEW k, Legit(m, p, k), NEW l \in Lock, Alone(l),
         NEW t \in Task, Takes(t, l)
  PROVE  HeldBy(m, t) \subseteq {l}
BY DEF HeldBy, Legit, Alone

LEMMA HoldsNone ==
  ASSUME NEW s, NEW m, NEW n, NEW p, NEW k, Owned(m, n, p, k), OwnPriority(s, n),
         Legit(m, p, k), NEW l \in Lock, Alone(l), NEW t \in Task, Takes(t, l),
         m[l].holder # t
  PROVE  n[t] = 0 /\ s.prio[t] = BasePriority[t]
<1>1. HeldBy(m, t) = {}
  BY HoldsAlone DEF HeldBy
<1>2. n[t] = Cardinality({})
  BY <1>1 DEF Owned
<1> QED BY <1>2, FS_EmptySet DEF OwnPriority

LEMMA HoldsOne ==
  ASSUME NEW m, NEW n, NEW p, NEW k, Owned(m, n, p, k), Legit(m, p, k),
         NEW l \in Lock, Alone(l), NEW t \in Task, m[l].holder = t
  PROVE  n[t] = 1 /\ \A j \in Lock : m[j].holder = t => j = l
<1>1. Takes(t, l)
  BY DEF Legit
<1>2. HeldBy(m, t) = {l}
  BY <1>1, HoldsAlone DEF HeldBy
<1>3. n[t] = Cardinality({l})
  BY <1>2 DEF Owned
<1>4. n[t] = 1
  BY <1>3, FS_Singleton
<1> QED BY <1>2, <1>4 DEF HeldBy

(* Who is on its way to a mutex, or waits for it, has its own priority        *)
LEMMA TakerTakes ==
  ASSUME NEW m, NEW p, NEW k, InCalls(p, k), Legit(m, p, k), NEW l \in Lock,
         NEW t \in Task, k[t].lock = l, p[t] \in {"take", "wait", "yield", "expired"}
  PROVE  Takes(t, l) /\ m[l].holder # t
<1>1. CallFits(p[t], k[t]) /\ l # NoLock
  BY MutexAssumption DEF InCalls
<1>2. k[t].kind = "take"
  BY <1>1 DEF CallFits
<1> QED BY <1>2 DEF Legit

LEMMA WaitersOwn ==
  ASSUME NEW s, NEW m, NEW n, NEW p, NEW k, Sane(s), Owned(m, n, p, k), OwnPriority(s, n),
         InCalls(p, k), Queued(s, p, k), Legit(m, p, k), NEW l \in Lock, Alone(l),
         NEW t \in Range(s.events[l])
  PROVE  t \in Task /\ n[t] = 0 /\ s.prio[t] = BasePriority[t]
<1>1. t \in Task
  BY WaitersAre
<1>2. k[t].lock = l /\ p[t] \in {"yield", "take"}
  BY DEF Queued
<1>3. Takes(t, l) /\ m[l].holder # t
  BY <1>1, <1>2, TakerTakes
<1> QED BY <1>1, <1>3, HoldsNone

(* a task that was switched to because no other has a higher priority         *)
LEMMA SwitchGuards ==
  ASSUME NEW s, NEW m, NEW n, NEW p, NEW k, Sane(s), Owned(m, n, p, k), OwnPriority(s, n),
         InCalls(p, k), Legit(m, p, k), NEW l \in Lock, Alone(l),
         Attended(s, m, p, k, l), ~ Higher(s)
  PROVE  Guarded(s, m, l)
<1> SUFFICES ASSUME m[l].count = 1, Takes(s.cur, l) PROVE Above(s, l, s.cur)
  BY DEF Guarded
<1>1. m[l].holder = NoTask /\ NoTask \notin Task /\ s.cur \in Task /\ s \in SchedStates
  BY SaneIs, MutexAssumption DEF Owned
<1>2. s.prio[s.cur] = BasePriority[s.cur]
  BY <1>1, HoldsNone
<1>3. CASE s.events[l] = <<>>
  BY <1>3 DEF Above, Range
<1>4. CASE s.events[l] # <<>>
  <2>1. PICK t \in Task : Looks(s, p, k, t, l) /\ Above(s, l, t)
    BY <1>4 DEF Attended
  <2>2. Takes(t, l)
    BY <2>1, TakerTakes DEF Looks
  <2>3. s.prio[t] = BasePriority[t]
    BY <1>1, <2>2, HoldsNone
  <2>4. ~ (s.prio[t] > s.prio[s.cur])
    BY <2>1 DEF Looks, Higher
  <2>5. BasePriority[t] <= BasePriority[s.cur]
    BY <1>1, <1>2, <2>3, <2>4, BaseType
  <2> QED BY <1>1, <2>1, <2>5, AboveTrans, WaitersAre
<1> QED BY <1>3, <1>4

(* The holder gets at least the priority of the task that starts to wait      *)
LEMMA InheritRaises ==
  ASSUME Core, NEW l \in Lock
  PROVE  LET h == mutex[l].holder
             r == xTaskPriorityInherit(sched, h)
         IN  /\ \A t \in Task : r.prio[t] \in Int /\ r.prio[t] >= sched.prio[t]
             /\ h # NoTask => r.prio[h] >= sched.prio[cur]
<1> DEFINE h == mutex[l].holder
           r == xTaskPriorityInherit(sched, h)
<1>1. sched \in SchedStates /\ cur \in Task /\ \A t \in Task : sched.prio[t] \in Int
  BY CoreIs, PriorityType
<1>2. h # NoTask => h \in Task
  BY HolderIs
<1>3. CASE h # NoTask /\ sched.prio[h] < sched.prio[cur]
  <2>1. r = WithPriority(sched, h, sched.prio[cur])
    BY <1>3 DEF xTaskPriorityInherit
  <2>2. sched.prio[cur] \in Priority
    BY <1>1, PriorityType
  <2>3. Reprioritised(sched, r, h, sched.prio[cur])
    BY <1>2, <1>3, <2>1, <2>2, CoreIs, WithPriorityIs DEF Sane
  <2> HIDE DEF r, h
  <2>4. r.prio = [sched.prio EXCEPT ![h] = sched.prio[cur]]
    BY <2>3 DEF Reprioritised
  <2>5. r.prio[h] = sched.prio[cur] /\ \A t \in Task : t # h => r.prio[t] = sched.prio[t]
    BY <1>1, <1>2, <1>3, <2>4, StateType
  <2>6. \A t \in Task : r.prio[t] \in Int /\ r.prio[t] >= sched.prio[t]
    BY <1>1, <1>3, <2>5
  <2> QED BY <1>1, <2>5, <2>6 DEF r, h
<1>4. CASE ~ (h # NoTask /\ sched.prio[h] < sched.prio[cur])
  <2>1. r = sched
    BY <1>4 DEF xTaskPriorityInherit
  <2> QED BY <1>1, <1>2, <1>4, <2>1
<1> QED BY <1>3, <1>4

(* After a time-out the holder keeps what the first of the list has           *)
LEMMA AfterTimeoutKeeps ==
  ASSUME Core, NEW l \in Lock
  PROVE  LET h == mutex[l].holder
             r == vTaskPriorityDisinheritAfterTimeout(sched, h, HighestWaiting(l))
         IN  /\ \A t \in Task : t # h => r.prio[t] = sched.prio[t]
             /\ h # NoTask => r.prio[h] = sched.prio[h] \/ r.prio[h] >= HighestWaiting(l)
<1> DEFINE h == mutex[l].holder
           w == HighestWaiting(l)
           p == Max({BasePriority[h], w})
           r == vTaskPriorityDisinheritAfterTimeout(sched, h, w)
<1>1. CASE r = sched
  BY <1>1
<1>2. CASE h # NoTask /\ r = WithPriority(sched, h, p)
  <2>1. h \in Task
    BY <1>2, HolderIs
  <2>2. w \in Priority
    <3>1. CASE sched.events[l] = <<>>
      BY <3>1, PrioritiesAre DEF HighestWaiting
    <3>2. CASE sched.events[l] # <<>>
      <4>1. Head(sched.events[l]) \in Task
        BY <3>2, CoreIs, WaitersAre, TailIs
      <4> QED BY <3>2, <4>1, CoreIs, PriorityType DEF HighestWaiting
    <3> QED BY <3>1, <3>2
  <2>3. BasePriority[h] \in Priority
    BY <2>1, PrioritiesAre
  <2> HIDE DEF w, h
  <2>4. p \in Priority /\ p >= w
    <3>1. {BasePriority[h], w} # {} /\ {BasePriority[h], w} \subseteq Priority
      BY <2>2, <2>3
    <3>2. p \in {BasePriority[h], w} /\ \A q \in {BasePriority[h], w} : p >= q
      BY <3>1, MaxIs
    <3> QED BY <3>1, <3>2
  <2> HIDE DEF p
  <2>5. Reprioritised(sched, r, h, p)
    BY <1>2, <2>1, <2>4, CoreIs, WithPriorityIs DEF Sane
  <2> HIDE DEF r
  <2>6. r.prio = [sched.prio EXCEPT ![h] = p] /\ sched \in SchedStates
    BY <2>5, CoreIs DEF Reprioritised
  <2>7. r.prio[h] = p /\ \A t \in Task : t # h => r.prio[t] = sched.prio[t]
    BY <2>1, <2>6, StateType
  <2> QED BY <2>4, <2>7 DEF r, w, h
<1>3. r = sched \/ (h # NoTask /\ r = WithPriority(sched, h, p))
  BY DEF vTaskPriorityDisinheritAfterTimeout
<1> QED BY <1>1, <1>2, <1>3

(* A step of the current task that takes no mutex                             *)
LEMMA LegitStep ==
  ASSUME Core, Legit(mutex, pc, call), NEW a, NEW c, Continues(a, c), mutex' = mutex,
         a # "run" /\ c.kind = "take" => Takes(cur, c.lock) /\ mutex[c.lock].holder # cur
  PROVE  Legit(mutex', pc', call')
<1> SUFFICES ASSUME NEW t \in Task
             PROVE  /\ pc'[t] # "run" /\ call'[t].kind = "take" =>
                         Takes(t, call'[t].lock) /\ mutex[call'[t].lock].holder # t
                    /\ \A l \in Lock : mutex[l].holder = t => Takes(t, l)
  BY DEF Legit
<1>1. CASE t = cur
  BY <1>1, ContinuesIs DEF Legit
<1>2. CASE t # cur
  BY <1>2, ContinuesIs DEF Legit
<1> QED BY <1>1, <1>2

(* Those that look at a mutex go on to do so                                  *)
LEMMA AttendedStep ==
  ASSUME Core, NEW a, NEW c, Continues(a, c), NEW l \in Lock,
         mutex'[l].count = 1 => mutex[l].count = 1,
         sched'.events[l] \in Seq(Task),
         Range(sched'.events[l]) \subseteq Range(sched.events[l]),
         \A t \in Task : t # cur /\ IsReady(sched, t) => IsReady(sched', t),
         mutex[l].count = 1 /\ Looks(sched, pc, call, cur, l) =>
           IsReady(sched', cur) /\ c.lock = l /\ a \in {"take", "wait", "yield", "expired"},
         Attended(sched, mutex, pc, call, l)
  PROVE  Attended(sched', mutex', pc', call', l)
<1> SUFFICES ASSUME mutex'[l].count = 1, sched'.events[l] # <<>>
             PROVE  \E t \in Task : Looks(sched', pc', call', t, l) /\ Above(sched', l, t)
  BY DEF Attended
<1>1. sched.events[l] # <<>>
  <2>1. Head(sched'.events[l]) \in Range(sched'.events[l])
    BY TailIs
  <2>2. Range(sched.events[l]) # {}
    BY <2>1
  <2> QED BY <2>2 DEF Range
<1>2. PICK t \in Task : Looks(sched, pc, call, t, l) /\ Above(sched, l, t)
  BY <1>1 DEF Attended
<1>3. Above(sched', l, t)
  BY <1>2 DEF Above
<1>4. CASE t = cur
  BY <1>2, <1>3, <1>4, ContinuesIs DEF Looks
<1>5. CASE t # cur
  BY <1>2, <1>3, <1>5, ContinuesIs DEF Looks
<1> QED BY <1>4, <1>5

(* A mutex whose holder stays raised, if it has one, while its list gets no   *)
(* longer                                                                     *)
LEMMA KeptStep ==
  ASSUME Core, Core', Just, NEW a, NEW c, Continues(a, c), Legit(mutex', pc', call'),
         NEW l \in Lock, Alone(l), mutex'[l] = mutex[l], Raised(sched', mutex', l),
         Range(sched'.events[l]) \subseteq Range(sched.events[l]),
         Pairs(sched'.events[l]) \subseteq Pairs(sched.events[l]),
         \A t \in Task : t # cur /\ IsReady(sched, t) => IsReady(sched', t),
         sched'.cur # cur => ~ Higher(sched'),
         mutex[l].count = 1 /\ Looks(sched, pc, call, cur, l) =>
           IsReady(sched', cur) /\ c.lock = l /\ a \in {"take", "wait", "yield", "expired"}
  PROVE  Kept(sched', mutex', pc', call', l)
<1>1. Kept(sched, mutex, pc, call, l)
  BY DEF Just
<1>2. InOrder(sched', l)
  BY <1>1, PairsDescend DEF Kept, InOrder
<1>3. Attended(sched', mutex', pc', call', l)
  <2>1. sched'.events[l] \in Seq(Task)
    BY WaitersAre DEF Core
  <2>2. Attended(sched, mutex, pc, call, l)
    BY <1>1 DEF Kept
  <2> QED BY <2>1, <2>2, AttendedStep
<1>4. Guarded(sched', mutex', l)
  <2>1. CASE sched'.cur = cur
    BY <1>1, <2>1 DEF Kept, Guarded, Above, cur
  <2>2. CASE sched'.cur # cur
    <3>1. /\ Sane(sched') /\ Owned(mutex', held', pc', call') /\ OwnPriority(sched', held')
          /\ InCalls(pc', call')
      BY DEF Core
    <3> QED BY <1>3, <2>2, <3>1, SwitchGuards
  <2> QED BY <2>1, <2>2
<1> QED BY <1>2, <1>3, <1>4 DEF Kept

LEMMA JustIs ==
  ASSUME Legit(mutex', pc', call'),
         \A l \in Lock : Alone(l) => Kept(sched', mutex', pc', call', l)
  PROVE  Just'
BY DEF Just

(* A step that only wakes tasks and switches between them, if at all          *)
LEMMA QuietJust ==
  ASSUME Core, Core', Just, NEW a, NEW c, Continues(a, c), mutex' = mutex,
         Proceeds(sched, sched'),
         a # "run" /\ c.kind = "take" => Takes(cur, c.lock) /\ mutex[c.lock].holder # cur,
         mutex[call[cur].lock].count = 1 /\ pc[cur] \in {"take", "wait", "yield", "expired"}
           /\ call[cur].lock \in Lock =>
             c.lock = call[cur].lock /\ a \in {"take", "wait", "yield", "expired"}
  PROVE  Just'
<1>1. Legit(mutex', pc', call')
  BY LegitStep DEF Just
<1>2. ASSUME NEW l \in Lock, Alone(l) PROVE Kept(sched', mutex', pc', call', l)
  <2>1. Goes(sched, sched') /\ EventList = Lock /\ cur \in Task
    BY CoreIs DEF Proceeds
  <2>2. /\ Range(sched'.events[l]) \subseteq Range(sched.events[l])
        /\ Pairs(sched'.events[l]) \subseteq Pairs(sched.events[l])
        /\ \A t \in Task : IsReady(sched, t) => IsReady(sched', t)
        /\ sched'.prio = sched.prio
    BY <2>1 DEF Goes
  <2>3. Raised(sched', mutex', l)
    BY <1>2, <2>2 DEF Just, Kept, Raised
  <2>4. sched'.cur # cur => ~ Higher(sched')
    BY DEF Proceeds, cur
  <2>5. mutex[l].count = 1 /\ Looks(sched, pc, call, cur, l) =>
          IsReady(sched', cur) /\ c.lock = l /\ a \in {"take", "wait", "yield", "expired"}
    BY <2>1, <2>2 DEF Looks
  <2> QED BY <1>1, <1>2, <2>2, <2>3, <2>4, <2>5, KeptStep
<1> QED BY <1>1, <1>2, JustIs

(* the current task takes what it is going to take legitimately               *)
LEMMA CurTakes ==
  ASSUME Core, Just, ~ At("run"), call[cur].kind = "take"
  PROVE  Takes(cur, call[cur].lock) /\ mutex[call[cur].lock].holder # cur
BY CoreIs DEF Just, Legit, At

LEMMA BeginJust == ASSUME Core, Core', Just, Begin PROVE Just'
<1>1. pc[cur] = "run" /\ sched' = sched /\ mutex' = mutex /\ cur \in Task
  BY CoreIs DEF Begin, At
<1>2. PICK c \in Program[cur] :
        /\ c.kind = "take" =>
             \A k \in Lock : mutex[k].holder = cur => <<k, c.lock>> \in Nesting
        /\ Goto(c.kind)
        /\ call' = [call EXCEPT ![cur] =
             [kind |-> c.kind, lock |-> c.lock, ticks |-> c.ticks,
              wait |-> c.ticks, timed |-> FALSE, entering |-> 0,
              overflows |-> 0, inherited |-> FALSE]]
  BY DEF Begin
<1> DEFINE d == [kind |-> c.kind, lock |-> c.lock, ticks |-> c.ticks,
                 wait |-> c.ticks, timed |-> FALSE, entering |-> 0,
                 overflows |-> 0, inherited |-> FALSE]
<1>3. Continues(c.kind, d)
  BY <1>2, GoesWith
<1>4. d.kind = "take" => Takes(cur, d.lock) /\ mutex[d.lock].holder # cur
  <2> SUFFICES ASSUME c.kind = "take" PROVE Takes(cur, c.lock) /\ mutex[c.lock].holder # cur
    OBVIOUS
  <2>1. c \in TakeCalls \cup GiveCalls \cup DelayCalls
    BY <1>1, MutexAssumption
  <2>2. c.lock \in Lock
    BY <2>1 DEF TakeCalls, GiveCalls, DelayCalls
  <2>3. <<c.lock, c.lock>> \notin Nesting
    BY <2>2, MutexAssumption
  <2> QED BY <1>2, <2>2, <2>3 DEF Takes
<1>5. Proceeds(sched, sched')
  BY <1>1, SameProceeds
<1> HIDE DEF d
<1> QED BY <1>1, <1>3, <1>4, <1>5, QuietJust

LEMMA YieldJust == ASSUME Core, Core', Just, Yield PROVE Just'
<1> DEFINE c == call[cur]
<1>1. /\ pc[cur] = "yield" /\ ~ At("run") /\ mutex' = mutex
      /\ sched' = vTaskSwitchContext(sched)
  BY DEF Yield, At
<1>2. Proceeds(sched, sched')
  BY <1>1, CoreIs, SwitchProceeds
<1>3. CASE c.kind = "delay" /\ Return
  <2>1. Continues("run", NoCall)
    BY <1>3, Returns
  <2>2. c.lock \notin Lock
    BY <1>1, <1>3, CurCall, MutexAssumption
  <2> QED BY <1>1, <1>2, <2>1, <2>2, QuietJust
<1>4. CASE Goto("take") /\ call' = call
  <2>1. Continues("take", c)
    BY <1>4, GoesTo
  <2> QED BY <1>1, <1>2, <2>1, CurTakes, QuietJust
<1> QED BY <1>3, <1>4 DEF Yield

LEMMA ExpiredJust == ASSUME Core, Core', Just, Expired PROVE Just'
<1> DEFINE c == call[cur]
<1>1. pc[cur] = "expired" /\ ~ At("run") /\ mutex' = mutex /\ sched' = sched
  BY DEF Expired, At
<1>2. Proceeds(sched, sched')
  BY <1>1, SameProceeds
<1>3. CASE mutex[c.lock].count > 0 /\ Goto("take") /\ call' = call
  <2>1. Continues("take", c)
    BY <1>3, GoesTo
  <2> QED BY <1>1, <1>2, <2>1, CurTakes, QuietJust
<1>4. CASE ~ (mutex[c.lock].count > 0) /\ (Return \/ (Goto("disinherit") /\ call' = call))
  <2>1. mutex[c.lock].count # 1
    BY <1>4
  <2>2. CASE Return
    <3>1. Continues("run", NoCall)
      BY <2>2, Returns
    <3> QED BY <1>1, <1>2, <2>1, <3>1, QuietJust
  <2>3. CASE Goto("disinherit") /\ call' = call
    <3>1. Continues("disinherit", c)
      BY <2>3, GoesTo
    <3> QED BY <1>1, <1>2, <2>1, <3>1, CurTakes, QuietJust
  <2> QED BY <1>4, <2>2, <2>3
<1> QED BY <1>3, <1>4 DEF Expired

LEMMA TickJust == ASSUME Core, Core', Just, Tick PROVE Just'
<1>1. /\ sched' = LeaveIntr(SystemTick(sched))
      /\ mutex' = mutex /\ pc' = pc /\ call' = call
  BY CoreIs, SaneIs DEF Tick, TickInterrupt
<1>2. Proceeds(sched, sched')
  BY <1>1, CoreIs, TickProceeds
<1>3. Continues(pc[cur], call[cur])
  BY <1>1, CoreIs DEF Continues
<1> QED BY <1>1, <1>2, <1>3, CurTakes, QuietJust DEF At

LEMMA DelayJust == ASSUME Core, Core', Just, Delay PROVE Just'
<1>1. pc[cur] = "delay" /\ mutex' = mutex
  BY DEF Delay, At
<1>2. Continues("yield", call[cur]) /\ FallsAsleep(sched, sched', cur) /\ OnTime(sched')
  BY DelayIs
<1>3. sched'.cur = cur /\ sched'.prio = sched.prio /\ sched'.events = sched.events
  BY <1>2 DEF FallsAsleep, SameFlags, cur
<1>4. \A t \in Task : t # cur /\ IsReady(sched, t) => IsReady(sched', t)
  BY <1>2, SameReady, CoreIs DEF FallsAsleep, OthersSame
<1>5. call[cur].kind # "take"
  BY <1>1, CoreIs DEF CallFits
<1>6. Legit(mutex', pc', call')
  BY <1>1, <1>2, <1>5, LegitStep DEF Just
<1>7. ASSUME NEW l \in Lock, Alone(l) PROVE Kept(sched', mutex', pc', call', l)
  <2>1. Raised(sched', mutex', l)
    BY <1>1, <1>3, <1>7 DEF Just, Kept, Raised
  <2> QED BY <1>1, <1>2, <1>3, <1>4, <1>6, <1>7, <2>1, KeptStep DEF Looks
<1> QED BY <1>6, <1>7, JustIs

(* a mutex changes hands                                                      *)
LEMMA LegitHands ==
  ASSUME Core, Legit(mutex, pc, call), Continues("run", NoCall), NEW l \in Lock, NEW x,
         mutex' = [mutex EXCEPT ![l] = x], x.holder \notin Task \/ x.holder = cur,
         x.holder = cur => Takes(cur, l)
  PROVE  Legit(mutex', pc', call')
<1>1. mutex'[l] = x /\ \A j \in Lock : j # l => mutex'[j] = mutex[j]
  BY CoreIs DEF Mutexes
<1> SUFFICES ASSUME NEW t \in Task
             PROVE  /\ pc'[t] # "run" /\ call'[t].kind = "take" =>
                         Takes(t, call'[t].lock) /\ mutex'[call'[t].lock].holder # t
                    /\ \A j \in Lock : mutex'[j].holder = t => Takes(t, j)
  BY DEF Legit
<1>2. \A j \in Lock : mutex'[j].holder = t => Takes(t, j)
  <2> SUFFICES ASSUME NEW j \in Lock, mutex'[j].holder = t PROVE Takes(t, j)
    OBVIOUS
  <2>1. CASE j = l
    BY <1>1, <2>1
  <2>2. CASE j # l
    BY <1>1, <2>2 DEF Legit
  <2> QED BY <2>1, <2>2
<1>3. ASSUME pc'[t] # "run", call'[t].kind = "take"
      PROVE  Takes(t, call'[t].lock) /\ mutex'[call'[t].lock].holder # t
  <2>1. t # cur /\ pc'[t] = pc[t] /\ call'[t] = call[t]
    BY <1>3, ContinuesIs
  <2>2. Takes(t, call[t].lock) /\ mutex[call[t].lock].holder # t
    BY <1>3, <2>1 DEF Legit
  <2>3. call[t].lock \in Lock
    BY <1>3, <2>1 DEF Core, InCalls, CallFits
  <2> QED BY <1>1, <2>1, <2>2, <2>3
<1> QED BY <1>2, <1>3

LEMMA TakeJust == ASSUME Core, Core', Just, Take PROVE Just'
<1> DEFINE c == call[cur]
           l == c.lock
<1>1. /\ pc[cur] = "take" /\ ~ At("run") /\ ~ At("yield") /\ sched' = sched /\ cur \in Task
      /\ c.kind = "take"
  BY CoreIs DEF Take, At, CallFits
<1>2. l \in Lock /\ Takes(cur, l) /\ mutex[l].holder # cur
  BY <1>1, CurCall, CurTakes
<1>3. Proceeds(sched, sched')
  BY <1>1, SameProceeds
<1>4. CASE /\ mutex[l].count > 0
           /\ mutex' = [mutex EXCEPT ![l] = [count |-> @.count - 1, holder |-> cur]]
           /\ Return
  <2>1. Continues("run", NoCall)
    BY <1>4, Returns
  <2>2. mutex[l].count = 1
    <3>1. mutex[l].count \in 0 .. 1
      BY <1>2, CoreIs DEF Mutexes
    <3> QED BY <1>4, <3>1
  <2>3. /\ mutex' = [mutex EXCEPT ![l] = [count |-> 0, holder |-> cur]]
        /\ mutex'[l] = [count |-> 0, holder |-> cur]
        /\ \A j \in Lock : j # l => mutex'[j] = mutex[j]
    BY <1>2, <1>4, <2>2, CoreIs DEF Mutexes
  <2>4. Legit(mutex', pc', call')
    BY <1>2, <2>1, <2>3, LegitHands DEF Just
  <2>5. ASSUME Alone(l) PROVE Kept(sched', mutex', pc', call', l)
    <3>1. Kept(sched, mutex, pc, call, l)
      BY <1>2, <2>5 DEF Just
    <3>2. Above(sched, l, cur)
      BY <1>2, <2>2, <3>1 DEF Kept, Guarded, cur
    <3>3. sched.prio[cur] = BasePriority[cur]
      BY <1>1, <1>2, <2>5, HoldsNone DEF Core, Just
    <3>4. Range(sched.events[l]) \subseteq Task
      BY <1>2, CoreIs, WaitersAre
    <3>5. \A u \in Range(sched.events[l]) : sched.prio[cur] >= BasePriority[u]
      BY <1>1, <3>2, <3>3, <3>4, BaseType DEF Above
    <3>6. Raised(sched', mutex', l)
      BY <1>1, <2>3, <3>5 DEF Raised
    <3> QED BY <1>1, <2>3, <3>1, <3>6 DEF Kept, InOrder, Attended, Guarded
  <2>6. ASSUME NEW j \in Lock, j # l, Alone(j) PROVE Kept(sched', mutex', pc', call', j)
    <3>1. Raised(sched', mutex', j)
      BY <1>1, <2>3, <2>6 DEF Just, Kept, Raised
    <3>2. /\ sched'.events = sched.events /\ sched'.cur = cur
          /\ \A t \in Task : IsReady(sched, t) => IsReady(sched', t)
      BY <1>1 DEF cur
    <3>3. ~ Looks(sched, pc, call, cur, j)
      BY <2>6 DEF Looks
    <3> QED BY <2>1, <2>3, <2>4, <2>6, <3>1, <3>2, <3>3, KeptStep
  <2> QED BY <2>4, <2>5, <2>6, JustIs
<1>5. CASE mutex[l].count = 0 /\ mutex' = mutex
  <2>1. CASE Return
    <3>1. Continues("run", NoCall)
      BY <2>1, Returns
    <3> QED BY <1>1, <1>3, <1>5, <3>1, QuietJust
  <2>2. ASSUME NEW d, Continues("wait", d), d.lock = l PROVE Just'
    BY <1>1, <1>2, <1>3, <1>5, <2>2, QuietJust
  <2>3. CASE Goto("wait") /\ call' = call
    <3>1. Continues("wait", c)
      BY <2>3, GoesTo
    <3> QED BY <2>2, <3>1
  <2>4. CASE /\ Goto("wait")
             /\ call' = [call EXCEPT ![cur] = [c EXCEPT !.timed = TRUE, !.entering = sched.tick,
                                                        !.overflows = sched.overflows]]
    <3> DEFINE d == [c EXCEPT !.timed = TRUE, !.entering = sched.tick,
                              !.overflows = sched.overflows]
    <3>1. Continues("wait", d)
      BY <2>4, GoesWith
    <3>2. c \in Local
      BY <1>1, CurCall
    <3>3. d.lock = l
      BY <3>2 DEF Local
    <3> HIDE DEF d
    <3> QED BY <2>2, <3>1, <3>3
  <2>5. CASE Goto("panic") /\ call' = call
    <3>1. Continues("panic", c)
      BY <2>5, GoesTo
    <3> QED BY <1>1, <1>2, <1>3, <1>5, <3>1, QuietJust
  <2> QED BY <1>5, <2>1, <2>3, <2>4, <2>5 DEF Take
<1> QED BY <1>4, <1>5 DEF Take

(* The current task joins a list                                              *)
LEMMA JoinsKept ==
  ASSUME Core, Core', Just, ~ At("yield"), cur # Idle, NEW c, Continues("yield", c),
         Legit(mutex', pc', call'), NEW l \in Lock, Alone(l), mutex' = mutex,
         mutex[l].count = 0, Takes(cur, l), mutex[l].holder # cur, NEW n \in 1 .. TickMax,
         sched' = vTaskPlaceOnEventList(xTaskPriorityInherit(sched, mutex[l].holder), l, n)
  PROVE  Kept(sched', mutex', pc', call', l)
<1> DEFINE h == mutex[l].holder
           s == xTaskPriorityInherit(sched, h)
           q == sched.events[l]
<1>1. /\ s.events = sched.events /\ s.cur = cur /\ Waits(s, sched', l)
      /\ Sane(sched') /\ sched'.cur = cur /\ sched'.prio = s.prio
      /\ \A t \in Task : held[t] = 0 => s.prio[t] = BasePriority[t]
  BY WaitPlaces
<1>2. /\ \A t \in Task : s.prio[t] \in Int /\ s.prio[t] >= sched.prio[t]
      /\ h # NoTask => s.prio[h] >= sched.prio[cur]
  BY InheritRaises
<1>3. Kept(sched, mutex, pc, call, l) /\ cur \in Task /\ h # NoTask /\ h \in Task
  <2>1. h # NoTask
    BY DEF Core, Owned
  <2> QED BY <2>1, CoreIs, HolderIs DEF Just
<1>4. held[cur] = 0 /\ sched.prio[cur] = BasePriority[cur]
  BY <1>3, HoldsNone DEF Core, Just
<1>5. \A t \in Range(q) : t \in Task /\ held[t] = 0
  BY WaitersOwn DEF Core, Just
<1> HIDE DEF s, h
<1>6. InOrder(sched', l)
  <2>1. Descends(q, BasePriority)
    BY <1>3 DEF Kept, InOrder
  <2>2. \A t \in Range(q) : BasePriority[t] = s.prio[t]
    BY <1>1, <1>5
  <2>3. Descends(q, s.prio)
    BY <2>1, <2>2, ValuesAgree
  <2>4. Descends(sched'.events[l], s.prio) /\ Range(sched'.events[l]) = Range(q) \cup {cur}
    BY <1>1, <2>3 DEF Waits
  <2>5. \A t \in Range(sched'.events[l]) : s.prio[t] = BasePriority[t]
    BY <1>1, <1>3, <1>4, <2>2, <2>4
  <2> QED BY <2>4, <2>5, ValuesAgree DEF InOrder
<1>7. Raised(sched', mutex', l)
  <2> SUFFICES ASSUME NEW u \in Range(sched'.events[l]) PROVE s.prio[h] >= BasePriority[u]
    BY <1>1 DEF Raised, h
  <2>1. u \in Range(q) \cup {cur}
    BY <1>1 DEF Waits
  <2>2. CASE u = cur
    BY <1>2, <1>3, <1>4, <2>2
  <2>3. CASE u \in Range(q)
    <3>1. sched.prio[h] >= BasePriority[u]
      BY <1>3, <2>3 DEF Kept, Raised, h
    <3>2. sched.prio[h] \in Int /\ BasePriority[u] \in Int
      BY <1>3, <1>5, <2>3, CoreIs, PriorityType, BaseType
    <3> QED BY <1>2, <1>3, <3>1, <3>2
  <2> QED BY <2>1, <2>2, <2>3
<1> QED BY <1>6, <1>7 DEF Kept, Attended, Guarded

LEMMA WaitJust == ASSUME Core, Core', Just, Wait PROVE Just'
<1> DEFINE c == call[cur]
           l == c.lock
           h == mutex[l].holder
<1>1. /\ pc[cur] = "wait" /\ ~ At("run") /\ ~ At("yield") /\ cur # Idle /\ mutex' = mutex
      /\ c.kind = "take"
  BY NotIdle, CoreIs DEF Wait, At, CallFits
<1>2. /\ c \in Local /\ l \in Lock /\ c.wait > 0 /\ Takes(cur, l)
      /\ mutex[l].holder # cur
  BY <1>1, CurCall, CurTakes, CoreIs DEF CallFits
<1>3. CASE /\ NotExpired(c) /\ mutex[l].count = 0
           /\ call' = [call EXCEPT ![cur] = [WaitLeft(c) EXCEPT !.inherited = Inherits(h)]]
           /\ sched' = vTaskPlaceOnEventList(xTaskPriorityInherit(sched, h), l, WaitLeft(c).wait)
           /\ Goto("yield")
  <2> DEFINE d == [WaitLeft(c) EXCEPT !.inherited = Inherits(h)]
             n == WaitLeft(c).wait
             s == xTaskPriorityInherit(sched, h)
  <2>1. Continues("yield", d)
    BY <1>3, GoesWith
  <2>2. n \in 1 .. TickMax /\ WaitLeft(c) \in Local /\ WaitLeft(c).lock = l
    BY <1>2, <1>3, WaitLeftIs
  <2>3. d.lock = l
    BY <2>2 DEF Local
  <2> HIDE DEF d, n
  <2>4. sched' = vTaskPlaceOnEventList(s, l, n)
    BY <1>3 DEF n
  <2>5. /\ s.events = sched.events /\ s.cur = cur /\ Waits(s, sched', l)
        /\ sched'.cur = cur /\ sched'.prio = s.prio /\ MayRaise(sched, s) /\ Sane(s)
    BY <1>1, <1>2, <2>2, <2>4, WaitPlaces
  <2>6. Legit(mutex', pc', call')
    BY <1>1, <1>2, <2>1, <2>3, LegitStep DEF Just
  <2>7. Alone(l) => Kept(sched', mutex', pc', call', l)
    BY <1>1, <1>2, <1>3, <2>1, <2>2, <2>4, <2>6, JoinsKept
  <2>8. ASSUME NEW j \in Lock, j # l, Alone(j) PROVE Kept(sched', mutex', pc', call', j)
    <3>1. \A t \in Task : s.prio[t] \in Int /\ s.prio[t] >= sched.prio[t]
      BY <1>2, InheritRaises
    <3> HIDE DEF s
    <3>2. sched'.events[j] = sched.events[j]
      BY <2>5, <2>8, CoreIs DEF Waits
    <3>3. Raised(sched', mutex', j)
      <4> SUFFICES ASSUME mutex[j].holder # NoTask, NEW u \in Range(sched.events[j])
                   PROVE  s.prio[mutex[j].holder] >= BasePriority[u]
        BY <1>1, <2>5, <3>2 DEF Raised
      <4>1. mutex[j].holder \in Task /\ u \in Task
        BY <2>8, HolderIs, CoreIs, WaitersAre
      <4>2. sched.prio[mutex[j].holder] >= BasePriority[u]
        BY <2>8 DEF Just, Kept, Raised
      <4>3. sched.prio[mutex[j].holder] \in Int /\ BasePriority[u] \in Int
        BY <4>1, CoreIs, PriorityType, BaseType
      <4> QED BY <3>1, <4>1, <4>2, <4>3
    <3>4. \A t \in Task : t # cur /\ IsReady(sched, t) => IsReady(sched', t)
      <4>1. \A t \in Task : IsReady(s, t) <=> IsReady(sched, t)
        BY <2>5, MayRaiseIs
      <4>2. s \in SchedStates
        BY <2>5, SaneIs
      <4> QED BY <2>5, <4>1, <4>2, SameReady DEF Waits, OthersSame
    <3> QED BY <1>1, <2>1, <2>5, <2>6, <2>8, <3>2, <3>3, <3>4, KeptStep DEF Looks
  <2> QED BY <2>6, <2>7, <2>8, JustIs
<1>4. CASE /\ NotExpired(c) /\ call' = [call EXCEPT ![cur] = WaitLeft(c)]
           /\ Goto("take") /\ sched' = sched
  <2>1. Continues("take", WaitLeft(c))
    BY <1>4, GoesWith
  <2>2. WaitLeft(c).lock = l
    BY <1>2, <1>4, WaitLeftIs
  <2> QED BY <1>1, <1>2, <1>4, <2>1, <2>2, SameProceeds, QuietJust
<1>5. CASE /\ Goto("expired") /\ sched' = sched
           /\ call' = [call EXCEPT ![cur] = NothingLeft(c)]
  <2>1. Continues("expired", NothingLeft(c))
    BY <1>5, GoesWith
  <2>2. NothingLeft(c) \in Local /\ NothingLeft(c).lock = l
    BY <1>2, NothingLeftIs
  <2> QED BY <1>1, <1>2, <1>5, <2>1, <2>2, SameProceeds, QuietJust
<1> QED BY <1>3, <1>4, <1>5 DEF Wait

LEMMA HeadHighest ==
  ASSUME NEW q \in Seq(Task), NEW v, \A t \in Task : v[t] \in Int, q # <<>>, Descends(q, v)
  PROVE  \A u \in Range(q) : v[u] <= v[Head(q)]
<1> SUFFICES ASSUME NEW u \in Range(q) PROVE v[u] <= v[Head(q)]
  OBVIOUS
<1>1. PICK i \in DOMAIN q : q[i] = u
  BY DEF Range
<1>2. i \in 1 .. Len(q) /\ 1 \in DOMAIN q /\ Head(q) = q[1] /\ u \in Task
  BY <1>1
<1>3. CASE i = 1
  BY <1>1, <1>2, <1>3
<1>4. CASE i # 1
  <2>1. 1 < i
    BY <1>2, <1>4
  <2>2. v[q[1]] >= v[q[i]]
    BY <1>1, <1>2, <2>1 DEF Descends
  <2>3. q[1] \in Task /\ v[q[1]] \in Int /\ v[u] \in Int
    BY <1>2
  <2> QED BY <1>1, <1>2, <2>2, <2>3
<1> QED BY <1>3, <1>4

(* The holder is left with what the first of those that still wait has        *)
LEMMA DisinheritJust == ASSUME Core, Core', Just, DisinheritAfterTimeout PROVE Just'
<1> DEFINE l == call[cur].lock
           h == mutex[l].holder
           w == HighestWaiting(l)
<1>1. /\ pc[cur] = "disinherit" /\ ~ At("run") /\ mutex' = mutex /\ Return
      /\ sched' = vTaskPriorityDisinheritAfterTimeout(sched, h, w)
  BY DEF DisinheritAfterTimeout, At
<1>2. l \in Lock
  BY <1>1, CurCall, CoreIs DEF CallFits
<1>3. Continues("run", NoCall)
  BY <1>1, Returns
<1>4. /\ sched'.events = sched.events /\ sched'.cur = cur
      /\ \A t \in Task : IsReady(sched', t) <=> IsReady(sched, t)
  BY <1>1, <1>2, AfterTimeoutIs, MayRaiseIs
<1>5. /\ \A t \in Task : t # h => sched'.prio[t] = sched.prio[t]
      /\ h # NoTask => sched'.prio[h] = sched.prio[h] \/ sched'.prio[h] >= w
  BY <1>1, <1>2, AfterTimeoutKeeps
<1>6. Legit(mutex', pc', call')
  BY <1>1, <1>3, LegitStep DEF Just
<1> HIDE DEF w
<1>7. ASSUME NEW j \in Lock, Alone(j) PROVE Kept(sched', mutex', pc', call', j)
  <2> DEFINE q == sched.events[j]
             k == mutex[j].holder
  <2>1. Kept(sched, mutex, pc, call, j)
    BY <1>7 DEF Just
  <2>2. Raised(sched', mutex', j)
    <3> SUFFICES ASSUME k # NoTask, NEW u \in Range(q) PROVE sched'.prio[k] >= BasePriority[u]
      BY <1>1, <1>4 DEF Raised
    <3>1. k \in Task /\ q \in Seq(Task) /\ Range(q) \subseteq Task
      BY <1>7, HolderIs, CoreIs, WaitersAre
    <3>2. sched.prio[k] >= BasePriority[u]
      BY <2>1 DEF Kept, Raised
    <3>3. CASE sched'.prio[k] = sched.prio[k]
      BY <3>2, <3>3
    <3>4. CASE sched'.prio[k] # sched.prio[k]
      <4>1. k = h /\ sched'.prio[h] >= w
        BY <1>5, <3>1, <3>4
      <4>2. l = j
        BY <1>2, <1>7, <3>1, <4>1, HoldsOne DEF Core, Just
      <4>3. q # <<>>
        BY DEF Range
      <4>4. Head(q) \in Range(q)
        BY <3>1, <4>3, TailIs
      <4>5. w = BasePriority[Head(q)]
        <5>1. w = sched.prio[Head(q)]
          BY <4>2, <4>3 DEF w, HighestWaiting
        <5>2. sched.prio[Head(q)] = BasePriority[Head(q)]
          BY <1>7, <4>4, WaitersOwn DEF Core, Just
        <5> QED BY <5>1, <5>2
      <4>6. BasePriority[u] <= BasePriority[Head(q)]
        BY <2>1, <3>1, <4>3, HeadHighest, BaseType DEF Kept, InOrder
      <4>7. sched'.prio[k] \in Int /\ BasePriority[u] \in Int /\ w \in Int
        <5>1. sched' \in SchedStates
          BY SaneIs DEF Core
        <5> QED BY <3>1, <4>4, <4>5, <5>1, PriorityType, BaseType
      <4> QED BY <4>1, <4>5, <4>6, <4>7
    <3> QED BY <3>3, <3>4
  <2>3. ~ Looks(sched, pc, call, cur, j)
    BY <1>1 DEF Looks
  <2> QED BY <1>1, <1>3, <1>4, <1>6, <1>7, <2>2, <2>3, KeptStep
<1> QED BY <1>6, <1>7, JustIs

(* A mutex is given back to the first of those that wait, and the current     *)
(* task goes on before that one only if its own priority is not lower         *)
LEMMA GivenKept ==
  ASSUME Core, Core', Just, Give, Legit(mutex', pc', call'), Alone(call[cur].lock)
  PROVE  Kept(sched', mutex', pc', call', call[cur].lock)
<1> DEFINE l == call[cur].lock
           s == xTaskPriorityDisinherit(sched, held[cur])
           q == sched.events[l]
           t == Head(q)
<1>1. /\ ~ At("yield") /\ l \in Lock /\ mutex[l].holder = cur /\ held[cur] # 0
      /\ Continues("run", NoCall)
      /\ mutex' = [mutex EXCEPT ![l] = [count |-> 1, holder |-> NoTask]]
      /\ Sane(s) /\ s.cur = cur /\ s.events = sched.events /\ Proceeds(s, sched')
      /\ q = <<>> => sched'.events = sched.events
      /\ q # <<>> => sched' = WakeFirst(s, l)
  BY GiveIs
<1>2. Kept(sched, mutex, pc, call, l) /\ cur \in Task /\ EventList = Lock
  BY <1>1, CoreIs DEF Just
<1>3. s.prio[cur] = BasePriority[cur] /\ \A u \in Task : u # cur => s.prio[u] = sched.prio[u]
  <2>1. held[cur] = 1
    BY <1>1, <1>2, HoldsOne DEF Core, Just
  <2> QED BY <1>1, <2>1, DisinheritIs
<1>4. mutex'[l] = [count |-> 1, holder |-> NoTask]
  BY <1>1, CoreIs DEF Mutexes
<1>5. /\ q \in Seq(Task) /\ Range(q) \subseteq Task
      /\ \A u \in Range(q) : sched.prio[u] = BasePriority[u]
  BY <1>1, CoreIs, WaitersAre, WaitersOwn DEF Core, Just
<1> HIDE DEF s, l
<1>6. Goes(s, sched') /\ Range(sched'.events[l]) \subseteq Range(q) /\ InOrder(sched', l)
  BY <1>1, <1>2, PairsDescend DEF Proceeds, Goes, Kept, InOrder
<1>7. ASSUME q # <<>>
      PROVE  /\ t \in Task /\ t # cur /\ Looks(sched', pc', call', t, l) /\ Above(sched', l, t)
             /\ s.prio[t] = BasePriority[t]
             /\ IF Outranks(s, l) THEN ~ Higher(sched') ELSE sched'.cur = cur
  <2>1. t \in Range(q) /\ t \in Task
    BY <1>5, <1>7, TailIs
  <2>2. IsReady(sched', t) /\ IF Outranks(s, l) THEN ~ Higher(sched') ELSE sched'.cur = cur
    <3>1. l \in EventList /\ s.events[l] # <<>> /\ Head(s.events[l]) = t
      BY <1>1, <1>2, <1>7
    <3> HIDE DEF t, q
    <3>2. /\ IsReady(WakeFirst(s, l), t)
          /\ IF Outranks(s, l) THEN ~ Higher(WakeFirst(s, l)) ELSE WakeFirst(s, l).cur = s.cur
      BY <1>1, <3>1, FirstProceeds
    <3>3. sched' = WakeFirst(s, l)
      BY <1>1, <1>7
    <3> QED BY <1>1, <3>2, <3>3
  <2>3. \A u \in Range(q) : BasePriority[u] <= BasePriority[t]
    BY <1>2, <1>5, <1>7, HeadHighest, BaseType DEF Kept, InOrder
  <2>4. Above(sched', l, t)
    BY <1>6, <2>3 DEF Above
  <2> HIDE DEF t, q
  <2>5. call[t].lock = l /\ pc[t] \in {"yield", "take"}
    BY <1>1, <2>1 DEF Core, Queued, q
  <2>6. t # cur
    BY <1>1, <2>1, CurIsFree, CoreIs DEF q
  <2>7. Looks(sched', pc', call', t, l)
    BY <1>1, <2>1, <2>2, <2>5, <2>6, ContinuesIs DEF Looks
  <2>8. s.prio[t] = BasePriority[t]
    BY <1>3, <1>5, <2>1, <2>6
  <2> QED BY <2>1, <2>2, <2>4, <2>6, <2>7, <2>8
<1>8. CASE q = <<>>
  <2>1. sched'.events[l] = <<>>
    BY <1>1, <1>8
  <2> QED BY <1>4, <1>6, <2>1 DEF Kept, Raised, Attended, Guarded, Above, Range, l
<1>9. CASE q # <<>>
  <2>1. Attended(sched', mutex', pc', call', l)
    BY <1>7, <1>9 DEF Attended
  <2>2. CASE Outranks(s, l)
    <3>1. /\ Sane(sched') /\ Owned(mutex', held', pc', call') /\ OwnPriority(sched', held')
          /\ InCalls(pc', call')
      BY DEF Core
    <3>2. Guarded(sched', mutex', l)
      BY <1>1, <1>7, <1>9, <2>1, <2>2, <3>1, SwitchGuards DEF l
    <3> QED BY <1>4, <1>6, <2>1, <3>2 DEF Kept, Raised, l
  <2>3. CASE ~ Outranks(s, l)
    <3>1. sched'.cur = cur
      BY <1>7, <1>9, <2>3
    <3>2. BasePriority[t] <= BasePriority[cur]
      BY <1>1, <1>2, <1>3, <1>7, <1>9, <2>3, BaseType DEF Outranks
    <3>3. Above(sched', l, cur)
      BY <1>2, <1>5, <1>6, <1>7, <1>9, <3>2, AboveTrans
    <3>4. Guarded(sched', mutex', l)
      BY <3>1, <3>3 DEF Guarded
    <3> QED BY <1>4, <1>6, <2>1, <3>4 DEF Kept, Raised, l
  <2> QED BY <2>2, <2>3
<1> QED BY <1>8, <1>9

LEMMA GiveJust == ASSUME Core, Core', Just, Give PROVE Just'
<1> DEFINE l == call[cur].lock
           s == xTaskPriorityDisinherit(sched, held[cur])
           x == [count |-> 1, holder |-> NoTask]
<1>1. /\ ~ At("yield") /\ l \in Lock /\ mutex[l].holder = cur /\ held[cur] # 0
      /\ Continues("run", NoCall) /\ mutex' = [mutex EXCEPT ![l] = x]
      /\ MayRaise(sched, s) /\ Sane(s) /\ s.cur = cur /\ s.events = sched.events
      /\ Proceeds(s, sched') /\ pc[cur] = "give"
  BY GiveIs DEF Give, At
<1>2. \A t \in Task : t # cur => s.prio[t] = sched.prio[t]
  BY <1>1, DisinheritIs
<1>3. cur \in Task /\ NoTask \notin Task /\ EventList = Lock
  BY CoreIs, MutexAssumption
<1>4. Legit(mutex', pc', call')
  <2>1. x.holder \notin Task /\ x.holder # cur
    BY <1>3
  <2> HIDE DEF x
  <2> QED BY <1>1, <2>1, LegitHands DEF Just
<1>5. Alone(l) => Kept(sched', mutex', pc', call', l)
  BY <1>4, GivenKept
<1>6. \A j \in Lock : j # l => mutex'[j] = mutex[j]
  BY <1>1, CoreIs DEF Mutexes
<1> HIDE DEF s, x
<1>7. Goes(s, sched') /\ (sched'.cur # cur => ~ Higher(sched'))
  BY <1>1 DEF Proceeds
<1>8. \A t \in Task : IsReady(sched, t) => IsReady(sched', t)
  BY <1>1, <1>7, MayRaiseIs DEF Goes
<1>9. ASSUME NEW j \in Lock, j # l, Alone(j) PROVE Kept(sched', mutex', pc', call', j)
  <2>1. /\ Range(sched'.events[j]) \subseteq Range(sched.events[j])
        /\ Pairs(sched'.events[j]) \subseteq Pairs(sched.events[j])
        /\ sched'.prio = s.prio
    BY <1>1, <1>3, <1>7 DEF Goes
  <2>2. mutex[j].holder # NoTask => mutex[j].holder \in Task /\ mutex[j].holder # cur
    <3>1. mutex[j].holder # NoTask => mutex[j].holder \in Task
      BY HolderIs
    <3>2. mutex[j].holder # cur
      BY <1>1, <1>3, <1>9, HoldsOne DEF Core, Just
    <3> QED BY <3>1, <3>2
  <2>3. Raised(sched', mutex', j)
    BY <1>2, <1>6, <1>9, <2>1, <2>2 DEF Just, Kept, Raised
  <2>4. ~ Looks(sched, pc, call, cur, j)
    BY <1>1 DEF Looks
  <2> QED BY <1>1, <1>4, <1>6, <1>7, <1>8, <1>9, <2>1, <2>3, <2>4, KeptStep
<1> QED BY <1>4, <1>5, <1>9, JustIs

LEMMA InitJust == ASSUME Init PROVE Just
<1>1. /\ \A l \in Lock : sched.events[l] = <<>>
      /\ mutex = [l \in Lock |-> [count |-> 1, holder |-> NoTask]]
      /\ pc = [t \in Task |-> "run"] /\ NoTask \notin Task
  BY InitSchedIs, MutexAssumption DEF Init
<1>2. Legit(mutex, pc, call)
  BY <1>1 DEF Legit
<1>3. ASSUME NEW l \in Lock PROVE Kept(sched, mutex, pc, call, l)
  BY <1>1 DEF Kept, InOrder, Descends, Raised, Attended, Guarded, Above, Range
<1> QED BY <1>2, <1>3 DEF Just

LEMMA NextJust == ASSUME Core, Core', Just, [Next]_vars PROVE Just'
<1>1. CASE UNCHANGED vars
  BY <1>1 DEF vars, Just
<1>2. CASE Next
  BY <1>2, BeginJust, TakeJust, WaitJust, YieldJust, ExpiredJust, DisinheritJust,
     GiveJust, DelayJust, TickJust DEF Next
<1> QED BY <1>1, <1>2

(* While tasks wait for a mutex whose users use no other, its holder has at   *)
(* least the priority of each of them                                         *)
THEOREM InheritedHolds == Spec => []Inherited
<1>1. Init => Just
  BY InitJust
<1>2. Core /\ Core' /\ Just /\ [Next]_vars => Just'
  BY NextJust
<1>3. Just => Inherited
  BY DEF Just, Kept, Raised, Inherited, HolderRaised, WaitsFor
<1> QED BY <1>1, <1>2, <1>3, CoreHolds, PTL DEF Spec
=============================================================================
