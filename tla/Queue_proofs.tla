---------------------------- MODULE Queue_proofs ------------------------------
(* Proofs about a queue between tasks and an interrupt handler, for any tasks *)
(* and programs, any length of the queue and any range of the tick counter.   *)
EXTENDS Queue, Sched_proofs, FiniteSetTheorems

(* Steps of the others: nobody is put to sleep, and only while the scheduler  *)
(* is suspended may tasks be kept for xTaskResumeAll                          *)
Moves(s, r) ==
  /\ Goes(s, r) /\ Now(r) >= Now(s) /\ r.suspended = s.suspended
  /\ s.suspended = 0 => r.pending = s.pending
  /\ r.cur # s.cur => s.suspended = 0 /\ IsReady(r, r.cur)

LEMMA AdvancesMoves == ASSUME NEW s, NEW r, Advances(s, r) PROVE Moves(s, r)
BY DEF Advances, Moves

LEMMA MovesRefl == ASSUME NEW s \in SchedStates PROVE Moves(s, s)
<1>1. Now(s) \in Nat
  BY NowType
<1>2. Now(s) >= Now(s)
  BY <1>1
<1> QED BY <1>2 DEF Moves, Goes

LEMMA MovesTrans ==
  ASSUME NEW s \in SchedStates, NEW r \in SchedStates, NEW u \in SchedStates,
         Moves(s, r), Moves(r, u), r.cur = s.cur
  PROVE  Moves(s, u)
<1>1. Goes(s, u)
  BY GoesTrans DEF Moves
<1>2. Now(u) >= Now(s)
  <2>1. Now(s) \in Nat /\ Now(r) \in Nat /\ Now(u) \in Nat
    BY NowType
  <2> QED BY <2>1 DEF Moves
<1> QED BY <1>1, <1>2 DEF Moves

(* one task woken while the scheduler is suspended                            *)
LEMMA KeptMoves ==
  ASSUME NEW s, Settled(s), s.suspended = 1, NEW l \in EventList, s.events[l] # <<>>
  PROVE  LET r == xTaskRemoveFromEventList(s, l)
         IN  /\ Settled(r) /\ Moves(s, r) /\ r.isr = s.isr /\ r.cur = s.cur
             /\ r.events = [s.events EXCEPT ![l] = Tail(s.events[l])]
             /\ ~ Higher(r)
<1> DEFINE r == xTaskRemoveFromEventList(s, l)
<1>1. Lists(s) /\ OnTime(s) /\ ~ Higher(s) /\ s \in SchedStates
  BY SettledState DEF Settled, Chosen
<1>2. /\ Freed(s, r, l)
      /\ \A u \in Task : IsReady(r, u) <=> IsReady(s, u)
  BY <1>1, KeptIs
<1> HIDE DEF r
<1>3. /\ Lists(r) /\ Woke(s, r) /\ SameTime(s, r) /\ r.next = s.next
      /\ r.events = [s.events EXCEPT ![l] = Tail(s.events[l])]
  BY <1>2 DEF Freed
<1>4. r.cur = s.cur /\ r.prio = s.prio /\ r.suspended = s.suspended /\ r.isr = s.isr
  BY <1>3 DEF Woke, SameFlags
<1>5. OnTime(r) /\ Now(r) = Now(s)
  BY <1>1, <1>3, SameTimeDated DEF OnTime
<1>6. ~ Higher(r)
  BY <1>1, <1>2, <1>4 DEF Higher
<1>7. Chosen(r)
  BY <1>6 DEF Chosen
<1>8. Moves(s, r)
  <2>1. Now(s) \in Nat
    BY <1>1, NowType
  <2>2. Now(r) >= Now(s)
    BY <1>5, <2>1
  <2>3. Goes(s, r)
    BY <1>3, WokeGoes
  <2> QED BY <1>4, <2>2, <2>3 DEF Moves
<1> QED BY <1>3, <1>4, <1>5, <1>6, <1>7, <1>8 DEF Settled, r

(* the flag an interrupt handler raises for the end of the interrupt          *)
LEMMA SentFromISRIs ==
  ASSUME NEW s, Settled(s), s.isr # "none", NEW l \in EventList, s.events[l] # <<>>
  PROVE  LET r == [xTaskRemoveFromEventList(s, l) EXCEPT !.need = @ \/ Outranks(s, l)]
         IN  /\ Settled(r) /\ Moves(s, r) /\ r.isr = s.isr /\ r.cur = s.cur
             /\ r.events = [s.events EXCEPT ![l] = Tail(s.events[l])]
<1> DEFINE m == xTaskRemoveFromEventList(s, l)
           b == m.need \/ Outranks(s, l)
           r == [m EXCEPT !.need = b]
<1>1. /\ Lists(s) /\ OnTime(s) /\ Chosen(s) /\ s \in SchedStates
      /\ s.suspended \in 0 .. 1 /\ s.isr \in {"running", "ticked"}
  BY SettledState, StateType DEF Settled
<1>0. r = [xTaskRemoveFromEventList(s, l) EXCEPT !.need = @ \/ Outranks(s, l)]
  OBVIOUS
<1>2. /\ Lists(m) /\ OnTime(m) /\ Moves(s, m) /\ m.cur = s.cur /\ m.isr = s.isr
      /\ m.events = [s.events EXCEPT ![l] = Tail(s.events[l])]
      /\ m.need = s.need /\ m \in SchedStates
      /\ s.yield => m.yield
      /\ Outranks(s, l) => m.yield
      /\ s.suspended = 1 => ~ Higher(m)
      /\ Higher(m) => Higher(s) \/ Outranks(s, l)
  <2>1. ASSUME s.suspended = 1 PROVE <1>2!:
    <3>1. /\ Settled(m) /\ Moves(s, m) /\ m.isr = s.isr /\ m.cur = s.cur
          /\ m.events = [s.events EXCEPT ![l] = Tail(s.events[l])]
          /\ ~ Higher(m)
      BY <2>1, KeptMoves
    <3>2. Freed(s, m, l)
      BY <1>1, <2>1, KeptIs
    <3> HIDE DEF m
    <3>3. m.need = s.need /\ m \in SchedStates
      BY <3>1, <3>2, SettledState DEF Freed, Woke, SameFlags, Settled
    <3>4. (s.yield => m.yield) /\ (Outranks(s, l) => m.yield)
      BY <3>2, Zenon DEF Freed
    <3> QED BY <3>1, <3>3, <3>4 DEF Settled
  <2>2. ASSUME s.suspended = 0 PROVE <1>2!:
    <3>1. /\ Freed(s, m, l) /\ m.pending = s.pending
          /\ IsReady(m, Head(s.events[l]))
          /\ \A u \in Task : u # Head(s.events[l]) => (IsReady(m, u) <=> IsReady(s, u))
      BY <1>1, <2>2, FreedIs
    <3> HIDE DEF m
    <3>2. /\ Lists(m) /\ Woke(s, m) /\ SameTime(s, m) /\ m.next = s.next
          /\ m.events = [s.events EXCEPT ![l] = Tail(s.events[l])]
      BY <3>1 DEF Freed
    <3>3. /\ m.cur = s.cur /\ m.prio = s.prio /\ m.suspended = s.suspended /\ m.isr = s.isr
          /\ m.need = s.need /\ m \in SchedStates
      BY <3>2, SettledState DEF Woke, SameFlags
    <3>4. (s.yield => m.yield) /\ (Outranks(s, l) => m.yield)
      BY <3>1, Zenon DEF Freed
    <3>5. OnTime(m) /\ Now(m) = Now(s)
      BY <1>1, <3>2, SameTimeDated DEF OnTime
    <3>6. Moves(s, m)
      <4>1. Now(s) \in Nat
        BY <1>1, NowType
      <4>2. Now(m) >= Now(s)
        BY <3>5, <4>1
      <4>3. Goes(s, m)
        BY <3>2, WokeGoes
      <4> QED BY <3>1, <3>3, <4>2, <4>3 DEF Moves
    <3>7. ASSUME Higher(m) PROVE Higher(s) \/ Outranks(s, l)
      <4>1. PICK u \in Task : IsReady(m, u) /\ m.prio[u] > m.prio[m.cur]
        BY <3>7 DEF Higher
      <4>2. s.prio[u] > s.prio[s.cur]
        BY <3>3, <4>1
      <4>3. CASE u = Head(s.events[l])
        BY <1>1, <4>2, <4>3, OutranksIs
      <4>4. CASE u # Head(s.events[l])
        BY <3>1, <4>1, <4>2, <4>4 DEF Higher
      <4> QED BY <4>3, <4>4
    <3> QED BY <2>2, <3>2, <3>3, <3>4, <3>5, <3>6, <3>7
  <2> QED BY <1>1, <2>1, <2>2
<1> HIDE DEF m
<1>3. b \in BOOLEAN
  BY <1>2, StateType DEF Outranks
<1>30. (m.need => b) /\ (Outranks(s, l) => b)
  BY Zenon
<1> HIDE DEF b
<1>4. FlagsOnly(m, r) /\ r.need = b /\ r.yield = m.yield /\ r.isr = m.isr
  BY <1>2, <1>3, NeedFields
<1> HIDE DEF r
<1>5. /\ Lists(r) /\ OnTime(r) /\ Advances(m, r) /\ Now(r) = Now(m)
      /\ Higher(r) => Higher(m)
  BY <1>2, <1>4, FlagsAdvance DEF FlagsOnly, SameClock
<1>6. r \in SchedStates /\ r.cur = s.cur /\ r.suspended = m.suspended /\ r.events = m.events
  BY <1>2, <1>4 DEF FlagsOnly, SameLists
<1>7. Moves(s, r)
  BY <1>1, <1>2, <1>5, <1>6, AdvancesMoves, MovesTrans
<1>8. Chosen(r)
  <2>1. m.suspended = s.suspended
    BY <1>2 DEF Moves
  <2>2. s.suspended > 0 => ~ Higher(r)
    BY <1>1, <1>2, <1>5
  <2>3. Higher(r) => r.need
    BY <1>1, <1>2, <1>30, <1>4, <1>5 DEF Chosen
  <2>4. s.isr = "running" /\ Higher(r) => r.yield
    BY <1>1, <1>2, <1>4, <1>5 DEF Chosen
  <2> QED BY <1>1, <1>2, <1>4, <1>6, <2>1, <2>2, <2>3, <2>4 DEF Chosen
<1> QED BY <1>0, <1>2, <1>4, <1>5, <1>6, <1>7, <1>8 DEF Settled

(* InputEventInjectFromISR begins: the handler runs                           *)
LEMMA EnterIs ==
  ASSUME NEW s, Settled(s), s.isr = "none"
  PROVE  LET r == [s EXCEPT !.isr = "running"]
         IN  Settled(r) /\ Moves(s, r) /\ r.isr = "running" /\ r.events = s.events
<1> DEFINE r == [s EXCEPT !.isr = "running"]
<1>1. Lists(s) /\ OnTime(s) /\ ~ Higher(s) /\ s \in SchedStates
  BY SettledState DEF Settled, Chosen
<1>2. FlagsOnly(s, r) /\ r.isr = "running"
  BY <1>1, IsrFields
<1> HIDE DEF r
<1>3. /\ Lists(r) /\ OnTime(r) /\ Advances(s, r)
      /\ Higher(r) => Higher(s)
  BY <1>1, <1>2, FlagsAdvance DEF FlagsOnly, SameClock
<1>4. Chosen(r)
  BY <1>1, <1>2, <1>3 DEF Chosen
<1> QED BY <1>2, <1>3, <1>4, AdvancesMoves DEF Settled, r, FlagsOnly, SameLists

----------------------------------------------------------------------------
(* The loop that wakes one task for each item                                 *)

WakesMany(g, s, l, n) ==
  g = [i \in 0 .. n |->
         IF i = 0 THEN s
         ELSE IF g[i - 1].events[l] = <<>> THEN g[i - 1]
         ELSE xTaskRemoveFromEventList(g[i - 1], l)]

LEMMA WakeManyLoop ==
  ASSUME NEW s, NEW l, NEW n, NEW f, WakesMany(f, s, l, n)
  PROVE  \E g : WakesMany(g, s, l, n) /\ WakeMany(s, l, n) = g[n]
<1>1. WakeMany(s, l, n) = (CHOOSE g : WakesMany(g, s, l, n))[n]
  BY DEF WakeMany, WakesMany
<1>2. WakesMany((CHOOSE g : WakesMany(g, s, l, n)), s, l, n)
  BY Zenon
<1> QED BY <1>1, <1>2, Zenon

(* the tasks that list l has lost                                             *)
Left(s, x, l) == Range(s.events[l]) \ Range(x.events[l])

Waking(s, l) ==
  {x \in SchedStates :
     /\ Settled(x) /\ Moves(s, x) /\ x.isr = s.isr /\ x.cur = s.cur
     /\ \A m \in EventList : m # l => x.events[m] = s.events[m]
     /\ Range(x.events[l]) \subseteq Range(s.events[l])}

WakeOne(x, l) == IF x.events[l] = <<>> THEN x ELSE xTaskRemoveFromEventList(x, l)

LEMMA WakeOneIs ==
  ASSUME NEW s \in SchedStates, s.suspended = 1, NEW l \in EventList, NEW x \in Waking(s, l)
  PROVE  /\ WakeOne(x, l) \in Waking(s, l)
         /\ x.events[l] # <<>> =>
              \E t \in Range(x.events[l]) :
                /\ t \in Range(s.events[l]) /\ t \notin Left(s, x, l)
                /\ Left(s, WakeOne(x, l), l) = Left(s, x, l) \cup {t}
<1>1. /\ Settled(x) /\ Moves(s, x) /\ x.isr = s.isr /\ x.cur = s.cur /\ x \in SchedStates
      /\ \A m \in EventList : m # l => x.events[m] = s.events[m]
      /\ Range(x.events[l]) \subseteq Range(s.events[l])
      /\ x.suspended = 1
  BY DEF Waking, Moves
<1>2. CASE x.events[l] = <<>>
  BY <1>2 DEF WakeOne
<1>3. CASE x.events[l] # <<>>
  <2> DEFINE r == xTaskRemoveFromEventList(x, l)
             t == Head(x.events[l])
  <2>1. WakeOne(x, l) = r
    BY <1>3 DEF WakeOne
  <2>2. /\ Settled(r) /\ Moves(x, r) /\ r.isr = x.isr /\ r.cur = x.cur
        /\ r.events = [x.events EXCEPT ![l] = Tail(x.events[l])]
    BY <1>1, <1>3, KeptMoves
  <2> HIDE DEF r
  <2>3. r \in SchedStates /\ DOMAIN x.events = EventList
    BY <1>1, <2>2, SettledState DEF Settled, SchedStates
  <2>4. /\ r.events[l] = Tail(x.events[l])
        /\ \A m \in EventList : m # l => r.events[m] = x.events[m]
    BY <2>2, <2>3
  <2>5. x.events[l] \in Seq(Task) /\ IsInjective(x.events[l])
    BY <1>1, StateType DEF Settled, Lists, Formed
  <2>6. /\ t \in Range(x.events[l]) /\ t \notin Range(Tail(x.events[l]))
        /\ Range(Tail(x.events[l])) \subseteq Range(x.events[l])
        /\ \A y \in Range(x.events[l]) : y = t \/ y \in Range(Tail(x.events[l]))
    BY <1>3, <2>5, TailIs
  <2> HIDE DEF t
  <2>7. Moves(s, r)
    BY <1>1, <2>2, <2>3, MovesTrans
  <2>8. r \in Waking(s, l)
    BY <1>1, <2>2, <2>3, <2>4, <2>6, <2>7 DEF Waking
  <2>9. Left(s, r, l) = Left(s, x, l) \cup {t}
    BY <1>1, <2>4, <2>6 DEF Left
  <2>10. t \in Range(s.events[l]) /\ t \notin Left(s, x, l)
    BY <1>1, <2>6 DEF Left
  <2> QED BY <2>1, <2>6, <2>8, <2>9, <2>10
<1> QED BY <1>2, <1>3

(* It stops early only when nobody waits any more                             *)
LEMMA WakeManyIs ==
  ASSUME NEW s, Settled(s), s.suspended = 1, NEW l \in EventList, NEW n \in Nat
  PROVE  LET r == WakeMany(s, l, n)
         IN  /\ r \in Waking(s, l)
             /\ r.events[l] # <<>> =>
                  IsFiniteSet(Left(s, r, l)) /\ Cardinality(Left(s, r, l)) = n
<1> DEFINE X == Waking(s, l)
           G == [i \in Nat |-> [x \in X |-> WakeOne(x, l)]]
<1>1. s \in SchedStates /\ s \in X
  BY SettledState, MovesRefl DEF Settled, Waking
<1>3. G \in [Nat -> [X -> X]]
  <2>1. \A x \in X : WakeOne(x, l) \in X
    BY <1>1, WakeOneIs
  <2> HIDE DEF X
  <2> QED BY <2>1
<1>4. PICK g \in [0 .. n -> X] : Steps(g, G, s, n)
  <2> HIDE DEF X, G
  <2> QED BY <1>1, <1>3, LoopExists
<1>5. WakesMany(g, s, l, n)
  <2> DEFINE f == [i \in 0 .. n |->
                     IF i = 0 THEN s
                     ELSE IF g[i - 1].events[l] = <<>> THEN g[i - 1]
                     ELSE xTaskRemoveFromEventList(g[i - 1], l)]
  <2> SUFFICES g = f
    BY DEF WakesMany
  <2> SUFFICES ASSUME NEW i \in 0 .. n PROVE g[i] = f[i]
    OBVIOUS
  <2>1. CASE i = 0
    BY <1>4, <2>1 DEF Steps
  <2>2. CASE i # 0
    <3>1. i \in 1 .. n /\ i - 1 \in 0 .. n /\ i \in Nat
      BY <2>2
    <3>2. g[i - 1] \in X
      BY <3>1
    <3> HIDE DEF X
    <3>3. g[i] = G[i][g[i - 1]]
      BY <1>4, <3>1 DEF Steps
    <3>4. g[i] = WakeOne(g[i - 1], l)
      BY <3>1, <3>2, <3>3
    <3> QED BY <2>2, <3>4 DEF WakeOne
  <2> QED BY <2>1, <2>2
<1> HIDE DEF G
<1>6. PICK h : WakesMany(h, s, l, n) /\ WakeMany(s, l, n) = h[n]
  BY <1>5, WakeManyLoop
<1>7. /\ h[0] = s
      /\ \A i \in 1 .. n : h[i] = WakeOne(h[i - 1], l)
  <2>1. h = [i \in 0 .. n |->
                     IF i = 0 THEN s
                     ELSE IF h[i - 1].events[l] = <<>> THEN h[i - 1]
                     ELSE xTaskRemoveFromEventList(h[i - 1], l)]
    BY <1>6 DEF WakesMany
  <2>2. \A i \in 0 .. n : h[i] = IF i = 0 THEN s ELSE WakeOne(h[i - 1], l)
    BY <2>1 DEF WakeOne
  <2>3. \A i \in 1 .. n : i \in 0 .. n /\ i # 0
    OBVIOUS
  <2>4. 0 \in 0 .. n
    OBVIOUS
  <2> QED BY <2>2, <2>3, <2>4
<1> HIDE DEF X
<1>8. \A i \in 0 .. n : h[i] \in X
  <2>1. \A i \in 1 .. n : h[i - 1] \in X => h[i] \in X
    BY <1>1, <1>7, WakeOneIs DEF X
  <2> QED BY <1>1, <1>7, <2>1, LoopKeeps
<1> DEFINE Count(i) == h[i].events[l] # <<>> =>
                         IsFiniteSet(Left(s, h[i], l)) /\ Cardinality(Left(s, h[i], l)) = i
<1>9. \A i \in 0 .. n : Count(i)
  <2> DEFINE Good == {i \in Nat : i \in 0 .. n => Count(i)}
  <2>1. 0 \in Good
    <3>1. Left(s, h[0], l) = {}
      BY <1>7 DEF Left
    <3>2. IsFiniteSet({}) /\ Cardinality({}) = 0
      BY FS_EmptySet
    <3> QED BY <3>1, <3>2
  <2>2. ASSUME NEW i \in Nat, i \in Good PROVE i + 1 \in Good
    <3> SUFFICES ASSUME i + 1 \in 0 .. n PROVE Count(i + 1)
      OBVIOUS
    <3>1. i + 1 \in 1 .. n /\ (i + 1) - 1 = i /\ i \in 0 .. n
      OBVIOUS
    <3> DEFINE x == h[i]
               y == h[i + 1]
    <3>2. x \in Waking(s, l) /\ y = WakeOne(x, l)
      BY <1>7, <1>8, <3>1 DEF X
    <3>3. Count(i)
      BY <2>2, <3>1
    <3> SUFFICES ASSUME y.events[l] # <<>>
                 PROVE  IsFiniteSet(Left(s, y, l)) /\ Cardinality(Left(s, y, l)) = i + 1
      OBVIOUS
    <3> HIDE DEF x, y
    <3>4. x.events[l] # <<>>
      <4> SUFFICES ASSUME x.events[l] = <<>> PROVE FALSE
        OBVIOUS
      <4>1. y = x
        BY <3>2 DEF WakeOne
      <4> QED BY <4>1
    <3>5. IsFiniteSet(Left(s, x, l)) /\ Cardinality(Left(s, x, l)) = i
      BY <3>3, <3>4 DEF x
    <3>6. PICK t : t \notin Left(s, x, l) /\ Left(s, y, l) = Left(s, x, l) \cup {t}
      BY <1>1, <3>2, <3>4, WakeOneIs
    <3> QED BY <3>5, <3>6, FS_AddElement
  <2> HIDE DEF Good
  <2>3. \A i \in Nat : i \in Good
    BY <2>1, <2>2, SetInduction
  <2> QED BY <2>3 DEF Good
<1>10. n \in 0 .. n
  OBVIOUS
<1> HIDE DEF Count
<1>11. h[n] \in Waking(s, l) /\ Count(n)
  BY <1>8, <1>9, <1>10 DEF X
<1> QED BY <1>6, <1>11 DEF Count

----------------------------------------------------------------------------
(* What the program counter of a task says about the scheduler                *)

Points == {"idle", "try", "suspend", "lock", "check", "delay",
           "unlockTx", "unlockRx", "resume", "yield", "recheck"}

(* where a task keeps the scheduler suspended                                 *)
Inside == {"lock", "check", "delay", "unlockTx", "unlockRx", "resume"}
(* where it is ready even if it does not run                                  *)
Standing == {"suspend", "lock", "check", "delay", "recheck"}
(* where it may wait although it runs: it is about to yield                   *)
Blocks(a, c) == a = "yield" \/ (a \in {"unlockTx", "unlockRx", "resume"} /\ c.then = "block")

Phase(s, p, k) ==
  /\ s.prio = BasePriority
  /\ \A t \in Task : p[t] \in Inside => t = s.cur
  /\ s.suspended = IF p[s.cur] \in Inside THEN 1 ELSE 0
  /\ s.suspended = 0 => s.pending = <<>>
  /\ \A t \in Task : p[t] \in Standing => IsReady(s, t)
  /\ IsReady(s, s.cur) \/ Blocks(p[s.cur], k[s.cur])
  /\ p[Idle] = "idle" /\ IsReady(s, Idle)

(* the current task goes on to a, with local variables c                      *)
LEMMA PointPhase ==
  ASSUME NEW s \in SchedStates, NEW p \in [Task -> Points], NEW k, DOMAIN k = Task,
         Phase(s, p, k), s.cur # Idle, NEW a, NEW c,
         a \in Inside <=> p[s.cur] \in Inside,
         a \in Standing => IsReady(s, s.cur),
         IsReady(s, s.cur) \/ Blocks(a, c)
  PROVE  Phase(s, [p EXCEPT ![s.cur] = a], [k EXCEPT ![s.cur] = c])
<1> DEFINE q == [p EXCEPT ![s.cur] = a]
           m == [k EXCEPT ![s.cur] = c]
<1>1. s.cur \in Task /\ Idle \in Task
  BY StateType, CreatedIs
<1>2. q[s.cur] = a /\ m[s.cur] = c /\ \A t \in Task : t # s.cur => q[t] = p[t]
  BY <1>1
<1> HIDE DEF q, m
<1>3. \A t \in Task : q[t] \in Inside => t = s.cur
  BY <1>2 DEF Phase
<1>4. \A t \in Task : q[t] \in Standing => IsReady(s, t)
  BY <1>1, <1>2 DEF Phase
<1>5. s.suspended = IF q[s.cur] \in Inside THEN 1 ELSE 0
  BY <1>2 DEF Phase
<1>6. q[Idle] = "idle"
  BY <1>1, <1>2 DEF Phase
<1> QED BY <1>2, <1>3, <1>4, <1>5, <1>6 DEF Phase, q, m

LEMMA MovesPhase ==
  ASSUME NEW s \in SchedStates, NEW r \in SchedStates, NEW p, NEW k,
         Phase(s, p, k), Moves(s, r)
  PROVE  Phase(r, p, k)
<1>1. s.cur \in Task /\ r.cur \in Task /\ Idle \in Task
  BY StateType, CreatedIs
<1>2. /\ r.prio = s.prio /\ r.suspended = s.suspended
      /\ \A t \in Task : IsReady(s, t) => IsReady(r, t)
  BY DEF Moves, Goes
<1>3. \A t \in Task : p[t] \in Inside => t = r.cur
  <2> SUFFICES ASSUME NEW t \in Task, p[t] \in Inside PROVE t = r.cur
    OBVIOUS
  <2>1. t = s.cur /\ s.suspended = 1
    BY DEF Phase
  <2> QED BY <2>1 DEF Moves
<1>4. r.suspended = IF p[r.cur] \in Inside THEN 1 ELSE 0
  <2>1. CASE r.cur = s.cur
    BY <1>2, <2>1 DEF Phase
  <2>2. CASE r.cur # s.cur
    <3>1. s.suspended = 0
      BY <2>2 DEF Moves
    <3>2. p[s.cur] \notin Inside
      BY <3>1 DEF Phase
    <3>3. p[r.cur] \notin Inside
      BY <1>1, <2>2 DEF Phase
    <3> QED BY <1>2, <3>1, <3>3
  <2> QED BY <2>1, <2>2
<1>5. r.suspended = 0 => r.pending = <<>>
  BY <1>2 DEF Moves, Phase
<1>6. IsReady(r, r.cur) \/ Blocks(p[r.cur], k[r.cur])
  <2>1. CASE r.cur = s.cur
    <3>1. IsReady(s, s.cur) => IsReady(r, r.cur)
      BY <1>1, <1>2, <2>1
    <3> QED BY <2>1, <3>1 DEF Phase
  <2>2. CASE r.cur # s.cur
    BY <2>2 DEF Moves
  <2> QED BY <2>1, <2>2
<1>7. \A t \in Task : p[t] \in Standing => IsReady(r, t)
  BY <1>2 DEF Phase
<1>8. IsReady(r, Idle) /\ p[Idle] = "idle"
  BY <1>1, <1>2 DEF Phase
<1> QED BY <1>2, <1>3, <1>4, <1>5, <1>6, <1>7, <1>8 DEF Phase

-----------------------------------------------------------------------
(* The local variables of a call                                              *)

TimeOut == [overflows : Nat, entering : 0 .. TickMax]
Local ==
  [kind : {"send", "receive", "delay"}, ticks : 0 .. TickMax, n : 1 .. MaxItems,
   wait : 0 .. TickMax, timed : BOOLEAN, timeout : TimeOut, since : Nat,
   then : {"block", "retry", "expired"}]

LocalFits(a, c) ==
  /\ a # "idle" => c \in Local
  /\ a \in {"try", "lock", "check", "unlockTx", "unlockRx", "recheck"} => c.kind # "delay"
  /\ a = "delay" => c.kind = "delay"
  /\ a = "recheck" => c.kind = "receive"
  /\ a \in {"suspend", "lock", "check"} /\ c.kind # "delay" => c.wait > 0
  /\ a \in {"suspend", "delay"} /\ c.kind = "delay" => c.ticks > 0
  /\ a \in {"suspend", "delay", "resume", "yield"} /\ c.kind = "delay" => c.then = "block"

InCalls(p, k) ==
  /\ p \in [Task -> Points] /\ DOMAIN k = Task /\ k = [t \in Task |-> k[t]]
  /\ \A t \in Task : LocalFits(p[t], k[t])

LEMMA LocalStep ==
  ASSUME NEW p, NEW k, InCalls(p, k), NEW t \in Task, NEW a \in Points, NEW c, LocalFits(a, c)
  PROVE  InCalls([p EXCEPT ![t] = a], [k EXCEPT ![t] = c])
<1> DEFINE q == [p EXCEPT ![t] = a]
           m == [k EXCEPT ![t] = c]
<1>1. p \in [Task -> Points] /\ DOMAIN k = Task /\ \A u \in Task : LocalFits(p[u], k[u])
  BY DEF InCalls
<1>2. /\ q \in [Task -> Points] /\ DOMAIN m = Task /\ m = [u \in Task |-> m[u]]
      /\ q[t] = a /\ m[t] = c
      /\ \A u \in Task : u # t => q[u] = p[u] /\ m[u] = k[u]
  BY <1>1
<1> HIDE DEF q, m
<1>3. \A u \in Task : LocalFits(q[u], m[u])
  BY <1>1, <1>2
<1> QED BY <1>2, <1>3 DEF InCalls, q, m

LEMMA LocalSame ==
  ASSUME NEW p, NEW k, InCalls(p, k), NEW t \in Task
  PROVE  [k EXCEPT ![t] = k[t]] = k
BY DEF InCalls

-----------------------------------------------------------------------
(* The queue                                                                  *)

Place == 0 .. EventQueueSize - 1
QueueStates ==
  [store : [Place -> Item \cup {NoItem}], pcWriteTo : Place, pcReadFrom : Place,
   uxMessagesWaiting : 0 .. EventQueueSize, cRxLock : {-1, 0}, cTxLock : Int]

(* while a task may still unlock it, the queue is locked                      *)
Locked(p, q) ==
  /\ q \in QueueStates /\ q.cTxLock >= -1
  /\ \A t \in Task : /\ p[t] \in {"check", "unlockTx"} => q.cTxLock >= 0
                     /\ p[t] \in {"check", "unlockTx", "unlockRx"} => q.cRxLock = 0

(* the handler that injects events has found room for them                    *)
Injecting(s, q, i, n) ==
  /\ i \in 0 .. MaxGroup /\ n \in Nat /\ n + i <= MaxItems
  /\ i > 0 => s.isr # "none"
  /\ i <= Avail(q) /\ q.cTxLock <= n

Core ==
  /\ Settled(sched) /\ Phase(sched, pc, call) /\ InCalls(pc, call)
  /\ Locked(pc, queue) /\ Injecting(sched, queue, inject, posted)

LEMMA SizeIs == EventQueueSize \in Nat /\ EventQueueSize > 0 /\ MaxItems \in Nat /\ MaxGroup \in Nat
BY QueueAssumption

LEMMA FollowingIs == ASSUME NEW i \in Place PROVE Following(i) \in Place
BY SizeIs DEF Place, Following

LEMMA QueueType ==
  ASSUME NEW q \in QueueStates
  PROVE  /\ q.store \in [Place -> Item \cup {NoItem}] /\ q.pcWriteTo \in Place
         /\ q.pcReadFrom \in Place /\ q.uxMessagesWaiting \in 0 .. EventQueueSize
         /\ q.cRxLock \in {-1, 0} /\ q.cTxLock \in Int
BY DEF QueueStates

Copied(q, r, item) ==
  /\ r \in QueueStates /\ r.cRxLock = q.cRxLock /\ r.cTxLock = q.cTxLock
  /\ r.uxMessagesWaiting = q.uxMessagesWaiting + 1
  /\ r.store = [q.store EXCEPT ![q.pcWriteTo] = item]
  /\ r.pcWriteTo = Following(q.pcWriteTo) /\ r.pcReadFrom = q.pcReadFrom

LEMMA CopyIs ==
  ASSUME NEW q \in QueueStates, ~ Full(q), NEW item \in Item
  PROVE  Copied(q, CopyDataToQueue(q, item), item)
<1>1. q.uxMessagesWaiting + 1 \in 0 .. EventQueueSize
  BY SizeIs, QueueType DEF Full
<1>2. Following(q.pcWriteTo) \in Place
  BY QueueType, FollowingIs
<1>3. [q.store EXCEPT ![q.pcWriteTo] = item] \in [Place -> Item \cup {NoItem}]
  BY QueueType
<1> DEFINE st == [q.store EXCEPT ![q.pcWriteTo] = item]
           w == Following(q.pcWriteTo)
           m == q.uxMessagesWaiting + 1
           r == [q EXCEPT !.store = st, !.uxMessagesWaiting = m, !.pcWriteTo = w]
<1>4. CopyDataToQueue(q, item) = r
  BY DEF CopyDataToQueue, QueueStates
<1> HIDE DEF st, w, m
<1>5. /\ r \in QueueStates /\ r.cRxLock = q.cRxLock /\ r.cTxLock = q.cTxLock
      /\ r.uxMessagesWaiting = m /\ r.store = st /\ r.pcWriteTo = w /\ r.pcReadFrom = q.pcReadFrom
  BY <1>1, <1>2, <1>3 DEF QueueStates, st, w, m
<1> HIDE DEF r
<1> QED BY <1>4, <1>5 DEF Copied, st, w, m

Consumed(q, r) ==
  /\ r \in QueueStates /\ r.cRxLock = q.cRxLock /\ r.cTxLock = q.cTxLock
  /\ r.uxMessagesWaiting = q.uxMessagesWaiting - 1
  /\ r.store = [q.store EXCEPT ![Following(q.pcReadFrom)] = NoItem]
  /\ r.pcReadFrom = Following(q.pcReadFrom) /\ r.pcWriteTo = q.pcWriteTo

LEMMA RemovedIs ==
  ASSUME NEW q \in QueueStates, ~ Empty(q)
  PROVE  Consumed(q, DataRemoved(q))
<1>1. q.uxMessagesWaiting - 1 \in 0 .. EventQueueSize
  BY SizeIs, QueueType DEF Empty
<1>2. Following(q.pcReadFrom) \in Place
  BY QueueType, FollowingIs
<1> DEFINE st == [q.store EXCEPT ![Following(q.pcReadFrom)] = NoItem]
           w == Following(q.pcReadFrom)
           m == q.uxMessagesWaiting - 1
           r == [q EXCEPT !.store = st, !.pcReadFrom = w, !.uxMessagesWaiting = m]
<1>3. st \in [Place -> Item \cup {NoItem}]
  BY QueueType
<1>4. DataRemoved(q) = r
  BY DEF DataRemoved, QueueStates
<1> HIDE DEF st, w, m
<1>5. /\ r \in QueueStates /\ r.cRxLock = q.cRxLock /\ r.cTxLock = q.cTxLock
      /\ r.uxMessagesWaiting = m /\ r.store = st /\ r.pcReadFrom = w /\ r.pcWriteTo = q.pcWriteTo
  BY <1>1, <1>2, <1>3 DEF QueueStates, st, w, m
<1> HIDE DEF r
<1> QED BY <1>4, <1>5 DEF Consumed, st, w, m

RxLocked(q, r, n) ==
  /\ r \in QueueStates /\ r.cRxLock = n /\ r.cTxLock = q.cTxLock
  /\ r.uxMessagesWaiting = q.uxMessagesWaiting /\ r.store = q.store
  /\ r.pcReadFrom = q.pcReadFrom /\ r.pcWriteTo = q.pcWriteTo
TxLocked(q, r, n) ==
  /\ r \in QueueStates /\ r.cTxLock = n /\ r.cRxLock = q.cRxLock
  /\ r.uxMessagesWaiting = q.uxMessagesWaiting /\ r.store = q.store
  /\ r.pcReadFrom = q.pcReadFrom /\ r.pcWriteTo = q.pcWriteTo

LEMMA LockFields ==
  ASSUME NEW q \in QueueStates
  PROVE  /\ \A n \in Int : TxLocked(q, [q EXCEPT !.cTxLock = n], n)
         /\ \A n \in {-1, 0} : RxLocked(q, [q EXCEPT !.cRxLock = n], n)
BY DEF QueueStates, TxLocked, RxLocked

LEMMA GreaterIs ==
  ASSUME NEW a \in Int
  PROVE  Max({a, 0}) = IF a >= 0 THEN a ELSE 0
<1>1. CASE a >= 0
  <2>1. a \in {a, 0} /\ \A y \in {a, 0} : a >= y
    BY <1>1
  <2>2. \A x \in {a, 0} : (\A y \in {a, 0} : x >= y) => x = a
    BY <1>1
  <2> QED BY <1>1, <2>1, <2>2 DEF Max
<1>2. CASE ~ (a >= 0)
  <2>1. 0 \in {a, 0} /\ \A y \in {a, 0} : 0 >= y
    BY <1>2
  <2>2. \A x \in {a, 0} : (\A y \in {a, 0} : x >= y) => x = 0
    BY <1>2
  <2> QED BY <1>2, <2>1, <2>2 DEF Max
<1> QED BY <1>1, <1>2

LEMMA LockQueueIs ==
  ASSUME NEW q \in QueueStates
  PROVE  LET r == prvLockQueue(q)
         IN  /\ r \in QueueStates /\ r.cRxLock = 0
             /\ r.cTxLock = IF q.cTxLock >= 0 THEN q.cTxLock ELSE 0
             /\ r.uxMessagesWaiting = q.uxMessagesWaiting /\ r.store = q.store
             /\ r.pcReadFrom = q.pcReadFrom /\ r.pcWriteTo = q.pcWriteTo
<1> DEFINE rx == Max({q.cRxLock, 0})
           tx == Max({q.cTxLock, 0})
           m == [q EXCEPT !.cRxLock = rx]
           r == [m EXCEPT !.cTxLock = tx]
<1>1. prvLockQueue(q) = r
  BY DEF prvLockQueue, queueLOCKED_UNMODIFIED, QueueStates
<1>2. rx = 0 /\ tx = (IF q.cTxLock >= 0 THEN q.cTxLock ELSE 0) /\ tx \in Int
  <2>1. q.cRxLock \in {-1, 0} /\ q.cRxLock \in Int /\ q.cTxLock \in Int
    BY QueueType
  <2>2. tx = (IF q.cTxLock >= 0 THEN q.cTxLock ELSE 0)
    BY <2>1, GreaterIs
  <2>3. rx = (IF q.cRxLock >= 0 THEN q.cRxLock ELSE 0)
    BY <2>1, GreaterIs
  <2> QED BY <2>1, <2>2, <2>3
<1> HIDE DEF rx, tx
<1>3. RxLocked(q, m, rx)
  BY <1>2, LockFields
<1> HIDE DEF m
<1>4. TxLocked(m, r, tx)
  BY <1>2, <1>3, LockFields DEF RxLocked
<1> QED BY <1>1, <1>2, <1>3, <1>4 DEF RxLocked, TxLocked

----------------------------------------------------------------------------
(* A step of the current task during which nobody is put to sleep             *)

LEMMA LockedStep ==
  ASSUME NEW s \in SchedStates, NEW p \in [Task -> Points], NEW k, Phase(s, p, k),
         NEW a \in Points, NEW q \in QueueStates, q.cTxLock >= -1,
         a \in {"check", "unlockTx"} => q.cTxLock >= 0,
         a \in {"check", "unlockTx", "unlockRx"} => q.cRxLock = 0
  PROVE  Locked([p EXCEPT ![s.cur] = a], q)
<1> DEFINE r == [p EXCEPT ![s.cur] = a]
<1>1. s.cur \in Task
  BY StateType
<1>2. r[s.cur] = a /\ \A t \in Task : t # s.cur => r[t] = p[t]
  BY <1>1
<1> HIDE DEF r
<1>3. \A t \in Task : t # s.cur => p[t] \notin Inside
  BY DEF Phase
<1>4. ASSUME NEW t \in Task
      PROVE  /\ r[t] \in {"check", "unlockTx"} => q.cTxLock >= 0
             /\ r[t] \in {"check", "unlockTx", "unlockRx"} => q.cRxLock = 0
  BY <1>2, <1>3 DEF Inside
<1> QED BY <1>4 DEF Locked, r

LEMMA CoreIs ==
  ASSUME Core
  PROVE  /\ sched \in SchedStates /\ Lists(sched) /\ OnTime(sched) /\ Chosen(sched)
         /\ pc \in [Task -> Points] /\ DOMAIN call = Task /\ queue \in QueueStates
         /\ cur \in Task /\ Idle \in Task /\ queue.cTxLock \in Int
         /\ sched.isr = "none" => inject = 0
         /\ \A t \in Task : LocalFits(pc[t], call[t])
         /\ IsReady(sched, Idle) /\ pc[Idle] = "idle"
         /\ inject \in Nat /\ posted \in Nat /\ posted <= MaxItems
<1>1. sched \in SchedStates /\ Lists(sched) /\ OnTime(sched) /\ Chosen(sched)
  BY SettledState DEF Core, Settled
<1>2. /\ pc \in [Task -> Points] /\ DOMAIN call = Task /\ queue \in QueueStates
      /\ \A t \in Task : LocalFits(pc[t], call[t])
  BY DEF Core, InCalls, Locked
<1>3. cur \in Task /\ Idle \in Task /\ queue.cTxLock \in Int
  BY <1>1, <1>2, StateType, CreatedIs, QueueType DEF cur
<1>4. inject \in Nat /\ posted \in Nat /\ posted <= MaxItems
  BY SizeIs DEF Core, Injecting
<1>5. sched.isr = "none" => inject = 0
  BY <1>4 DEF Core, Injecting
<1>6. IsReady(sched, Idle) /\ pc[Idle] = "idle"
  BY DEF Core, Phase
<1> QED BY <1>1, <1>2, <1>3, <1>4, <1>5, <1>6

LEMMA NoInjection ==
  ASSUME NEW s, NEW q \in QueueStates, NEW n \in Nat, n <= MaxItems, q.cTxLock <= n
  PROVE  Injecting(s, q, 0, n)
<1>1. Avail(q) \in Nat
  BY SizeIs, QueueType DEF Avail
<1> QED BY <1>1, SizeIs DEF Injecting

LEMMA TaskStep ==
  ASSUME Core, sched.isr = "none", cur # Idle,
         Settled(sched'), Moves(sched, sched'),
         NEW a \in Points, NEW c,
         pc' = [pc EXCEPT ![cur] = a], call' = [call EXCEPT ![cur] = c], LocalFits(a, c),
         a \in Inside <=> pc[cur] \in Inside,
         a \in Standing => IsReady(sched, cur),
         IsReady(sched, cur) \/ Blocks(a, c),
         queue' \in QueueStates, queue'.cTxLock >= -1,
         a \in {"check", "unlockTx"} => queue'.cTxLock >= 0,
         a \in {"check", "unlockTx", "unlockRx"} => queue'.cRxLock = 0,
         inject' = inject, posted' \in Nat, posted' <= MaxItems, queue'.cTxLock <= posted'
  PROVE  Core'
<1>1. /\ sched \in SchedStates /\ pc \in [Task -> Points] /\ DOMAIN call = Task
      /\ cur \in Task /\ inject = 0
  BY CoreIs
<1>2. Phase(sched, pc, call) /\ InCalls(pc, call)
  BY DEF Core
<1>3. sched' \in SchedStates
  BY SettledState DEF Settled
<1>4. Phase(sched, pc', call')
  BY <1>1, <1>2, PointPhase DEF cur
<1>5. Phase(sched', pc', call')
  BY <1>1, <1>3, <1>4, MovesPhase
<1>6. InCalls(pc', call')
  BY <1>1, <1>2, LocalStep
<1>7. Locked(pc', queue')
  BY <1>1, <1>2, LockedStep DEF cur
<1>8. Injecting(sched', queue', inject', posted')
  BY <1>1, NoInjection
<1> QED BY <1>5, <1>6, <1>7, <1>8 DEF Core

(* the task leaves the rest as it was                                         *)
LEMMA TaskStepQuiet ==
  ASSUME Core, sched.isr = "none", cur # Idle,
         Settled(sched'), Moves(sched, sched'),
         NEW a \in Points, NEW c,
         pc' = [pc EXCEPT ![cur] = a], call' = [call EXCEPT ![cur] = c], LocalFits(a, c),
         a \in Inside <=> pc[cur] \in Inside,
         a \in Standing => IsReady(sched, cur),
         IsReady(sched, cur) \/ Blocks(a, c),
         a \in {"check", "unlockTx"} => queue.cTxLock >= 0,
         a \in {"check", "unlockTx", "unlockRx"} => queue.cRxLock = 0,
         queue' = queue, inject' = inject, posted' = posted
  PROVE  Core'
<1>1. queue \in QueueStates /\ posted \in Nat /\ posted <= MaxItems
  BY CoreIs
<1>2. queue.cTxLock >= -1 /\ queue.cTxLock <= posted
  BY DEF Core, Locked, Injecting
<1> QED BY <1>1, <1>2, TaskStep

(* a task that makes a call is not the idle task                              *)
LEMMA NotIdle ==
  ASSUME Core, NEW p, At(p), p # "idle"
  PROVE  cur # Idle
BY DEF At, Core, Phase

LEMMA BeginCore == ASSUME Core, Begin PROVE Core'
<1>1. At("idle") /\ sched' = sched /\ queue' = queue /\ inject' = inject /\ posted' = posted
  BY DEF Begin
<1>2. PICK c \in Program[cur] :
        /\ call' = [call EXCEPT ![cur] =
            [kind |-> c.kind, ticks |-> c.ticks, n |-> c.n, wait |-> c.ticks,
             timed |-> FALSE, timeout |-> NoTimeOut, since |-> 0, then |-> "block"]]
        /\ Goto(IF c.kind # "delay" THEN "try"
                ELSE IF c.ticks > 0 THEN "suspend" ELSE "yield")
  BY DEF Begin
<1> DEFINE a == IF c.kind # "delay" THEN "try"
                ELSE IF c.ticks > 0 THEN "suspend" ELSE "yield"
           x == [kind |-> c.kind, ticks |-> c.ticks, n |-> c.n, wait |-> c.ticks,
             timed |-> FALSE, timeout |-> NoTimeOut, since |-> 0, then |-> "block"]
<1>3. /\ sched \in SchedStates /\ cur \in Task /\ Settled(sched)
  BY CoreIs DEF Core
<1>4. cur # Idle
  BY <1>2, QueueAssumption
<1>5. c \in Calls
  BY <1>2, <1>3, QueueAssumption
<1>6. sched.isr = "none" /\ pc[cur] = "idle"
  BY <1>1 DEF At
<1>7. x \in Local
  <2>1. NoTimeOut \in TimeOut
    BY Ticks DEF NoTimeOut, TimeOut
  <2>2. c.kind \in {"send", "receive", "delay"} /\ c.ticks \in 0 .. TickMax /\ c.n \in 1 .. MaxItems
    BY <1>5 DEF Calls
  <2> QED BY <2>1, <2>2 DEF Local
<1>8. /\ a \in {"try", "suspend", "yield"} /\ a \in Points
      /\ a = "try" => x.kind # "delay"
      /\ a = "suspend" => x.kind = "delay" /\ x.ticks > 0 /\ x.then = "block"
      /\ a = "yield" => x.kind = "delay" /\ x.then = "block"
  BY DEF Points
<1>9. pc' = [pc EXCEPT ![cur] = a] /\ call' = [call EXCEPT ![cur] = x]
  BY <1>2 DEF Goto
<1> HIDE DEF a, x
<1>10. LocalFits(a, x)
  BY <1>7, <1>8 DEF LocalFits
<1>11. IsReady(sched, cur)
  <2>1. ~ Blocks(pc[cur], call[cur])
    BY <1>6 DEF Blocks
  <2> QED BY <2>1 DEF Core, Phase, cur
<1>12. a \in Inside <=> pc[cur] \in Inside
  BY <1>6, <1>8 DEF Inside
<1>13. Moves(sched, sched')
  BY <1>1, <1>3, MovesRefl
<1>14. a \notin {"check", "unlockTx", "unlockRx"}
  BY <1>8
<1> QED BY <1>1, <1>3, <1>4, <1>6, <1>8, <1>9, <1>10, <1>11, <1>12, <1>13, <1>14, TaskStepQuiet

(* where the current task is ready                                            *)
LEMMA ReadyAt ==
  ASSUME Core, ~ Blocks(pc[cur], call[cur])
  PROVE  IsReady(sched, cur)
BY DEF Core, Phase, cur

LEMMA TimeOutStateIs ==
  ASSUME Core
  PROVE  TimeOutState \in TimeOut /\ Now(sched) \in Nat
BY CoreIs, StateType, NowType DEF TimeOutState, TimeOut

LEMMA NotYetCore ==
  ASSUME Core, At("try"), NotYet PROVE Core'
<1>1. /\ sched.isr = "none" /\ pc[cur] = "try" /\ sched' = sched /\ queue' = queue
      /\ inject' = inject /\ posted' = posted
  BY DEF At, NotYet, Quiet
<1> DEFINE b == call[cur]
           a == IF b.wait = 0 THEN "idle" ELSE "suspend"
           y == [b EXCEPT !.timed = TRUE, !.timeout = TimeOutState, !.since = Now(sched)]
           c == IF b.wait = 0 \/ b.timed THEN b ELSE y
<1>2. /\ sched \in SchedStates /\ cur \in Task /\ Settled(sched) /\ LocalFits(pc[cur], b)
      /\ DOMAIN call = Task
  BY CoreIs DEF Core
<1>3. pc' = [pc EXCEPT ![cur] = a] /\ call' = [call EXCEPT ![cur] = c]
  BY <1>2 DEF NotYet, Goto
<1>4. cur # Idle
  BY NotIdle
<1>5. b \in Local /\ b.kind # "delay"
  BY <1>1, <1>2 DEF LocalFits
<1>6. y \in Local /\ y.kind = b.kind /\ y.wait = b.wait
  BY <1>5, TimeOutStateIs DEF Local
<1> HIDE DEF b, y
<1>7. c \in Local /\ c.kind # "delay" /\ c.wait = b.wait /\ b.wait \in Nat
  BY <1>5, <1>6, Ticks DEF Local
<1>8. a \in {"idle", "suspend"} /\ a \in Points /\ (a = "suspend" => c.wait > 0)
  BY <1>7 DEF Points
<1> HIDE DEF a, c
<1>9. LocalFits(a, c)
  BY <1>7, <1>8 DEF LocalFits
<1>10. IsReady(sched, cur)
  BY <1>1, ReadyAt DEF Blocks
<1>11. a \in Inside <=> pc[cur] \in Inside
  BY <1>1, <1>8 DEF Inside
<1>12. Moves(sched, sched') /\ Settled(sched')
  BY <1>1, <1>2, MovesRefl
<1>13. a \notin {"check", "unlockTx", "unlockRx"}
  BY <1>8
<1> QED BY <1>1, <1>3, <1>4, <1>8, <1>9, <1>10, <1>11, <1>12, <1>13, TaskStepQuiet

----------------------------------------------------------------------------
(* Receiving and sending                                                      *)

LEMMA WokenFirst ==
  ASSUME Core, At("try"), NEW l \in EventList, sched' = WakeFirst(sched, l)
  PROVE  /\ Settled(sched') /\ Moves(sched, sched')
         /\ sched.events[l] = <<>> => sched' = sched
         /\ sched.events[l] # <<>> =>
              sched'.events = [sched.events EXCEPT ![l] = Tail(sched.events[l])]
<1>1. sched.isr = "none" /\ pc[cur] = "try"
  BY DEF At
<1>2. sched.suspended = 0
  BY <1>1 DEF Core, Phase, Inside, cur
<1>3. IsReady(sched, Idle) /\ Idle \in Task
  BY CoreIs
<1> QED BY <1>1, <1>2, <1>3, WakeFirstIs, AdvancesMoves DEF Core

LEMMA EventLists == Senders \in EventList /\ Receivers \in EventList /\ Senders # Receivers
BY QueueAssumption DEF Senders, Receivers

LEMMA NextReceiveIs ==
  ASSUME Core, At("try"), InCall("receive"), NextReceive
  PROVE  \E a \in {"try", "idle"}, c \in Local :
           /\ pc' = [pc EXCEPT ![cur] = a] /\ call' = [call EXCEPT ![cur] = c]
           /\ c.kind = "receive"
           /\ a = "idle" => c = call[cur]
           /\ a = "try" => c = [call[cur] EXCEPT !.n = call[cur].n - 1, !.wait = call[cur].ticks, !.timed = FALSE]
<1> DEFINE b == call[cur]
           y == [b EXCEPT !.n = b.n - 1, !.wait = b.ticks, !.timed = FALSE]
<1>1. cur \in Task /\ LocalFits(pc[cur], b) /\ pc[cur] = "try"
  BY CoreIs DEF At
<1>2. b \in Local /\ b.kind = "receive"
  BY <1>1 DEF LocalFits, InCall
<1>3. CASE b.n > 1
  <2>1. pc' = [pc EXCEPT ![cur] = "try"] /\ call' = [call EXCEPT ![cur] = y]
    BY <1>3 DEF NextReceive, Goto
  <2>2. b.n - 1 \in 1 .. MaxItems
    BY <1>2, <1>3, SizeIs DEF Local
  <2>3. y \in Local /\ y.kind = "receive"
    BY <1>2, <2>2 DEF Local
  <2> QED BY <2>1, <2>3
<1>4. CASE ~ (b.n > 1)
  <2>1. pc' = [pc EXCEPT ![cur] = "idle"] /\ call' = call
    BY <1>4 DEF NextReceive, Goto
  <2>2. call' = [call EXCEPT ![cur] = b]
    BY <1>1, <2>1, LocalSame DEF Core
  <2> QED BY <1>2, <2>1, <2>2
<1> QED BY <1>3, <1>4

LEMMA ReceiveCore == ASSUME Core, Receive PROVE Core'
<1>1. At("try") /\ InCall("receive")
  BY DEF Receive
<1>2. CASE Empty(queue) /\ NotYet
  BY <1>1, <1>2, NotYetCore
<1>3. CASE /\ ~ Empty(queue) /\ queue' = DataRemoved(queue)
           /\ sched' = WakeFirst(sched, Senders)
           /\ NextReceive
           /\ UNCHANGED <<inject, posted, calls>>
  <2>1. Settled(sched') /\ Moves(sched, sched')
    BY <1>1, <1>3, WokenFirst, EventLists
  <2>2. queue \in QueueStates /\ posted \in Nat /\ posted <= MaxItems
    BY CoreIs
  <2>3. queue' \in QueueStates /\ queue'.cTxLock = queue.cTxLock
    BY <1>3, <2>2, RemovedIs DEF Consumed
  <2>4. PICK a \in {"try", "idle"}, c \in Local :
           /\ pc' = [pc EXCEPT ![cur] = a] /\ call' = [call EXCEPT ![cur] = c]
           /\ c.kind = "receive"
    BY <1>1, <1>3, NextReceiveIs
  <2>5. LocalFits(a, c) /\ a \in Points /\ a \notin {"check", "unlockTx", "unlockRx"}
    BY <2>4 DEF LocalFits, Points
  <2>6. cur # Idle /\ sched.isr = "none" /\ pc[cur] = "try"
    BY <1>1, NotIdle DEF At
  <2>7. IsReady(sched, cur)
    BY <2>6, ReadyAt DEF Blocks
  <2>8. a \in Inside <=> pc[cur] \in Inside
    BY <2>4, <2>6 DEF Inside
  <2>9. queue'.cTxLock >= -1 /\ queue'.cTxLock <= posted' /\ inject' = inject /\ posted' = posted
    BY <1>3, <2>3 DEF Core, Locked, Injecting
  <2> QED BY <2>1, <2>2, <2>3, <2>4, <2>5, <2>6, <2>7, <2>8, <2>9, TaskStep
<1> QED BY <1>2, <1>3 DEF Receive

LEMMA SendCore == ASSUME Core, Send PROVE Core'
<1>1. At("try") /\ InCall("send")
  BY DEF Send
<1>2. CASE Full(queue) /\ NotYet
  BY <1>1, <1>2, NotYetCore
<1>3. CASE /\ ~ Full(queue) /\ posted < MaxItems
           /\ posted' = posted + 1
           /\ queue' = CopyDataToQueue(queue, posted')
           /\ sched' = WakeFirst(sched, Receivers)
           /\ Goto("idle")
           /\ UNCHANGED <<call, inject, calls, got>>
  <2>1. Settled(sched') /\ Moves(sched, sched')
    BY <1>1, <1>3, WokenFirst, EventLists
  <2>2. queue \in QueueStates /\ posted \in Nat /\ cur \in Task /\ DOMAIN call = Task
        /\ queue.cTxLock \in Int /\ LocalFits(pc[cur], call[cur])
    BY CoreIs
  <2>3. posted' \in Nat /\ posted' <= MaxItems /\ posted' \in Item
    BY <1>3, <2>2, SizeIs DEF Item
  <2>4. queue' \in QueueStates /\ queue'.cTxLock = queue.cTxLock
    BY <1>3, <2>2, <2>3, CopyIs DEF Copied
  <2>5. queue'.cTxLock >= -1 /\ queue'.cTxLock <= posted' /\ inject' = inject
    BY <1>3, <2>2, <2>4 DEF Core, Locked, Injecting
  <2>6. cur # Idle /\ sched.isr = "none" /\ pc[cur] = "try"
    BY <1>1, NotIdle DEF At
  <2>7. IsReady(sched, cur)
    BY <2>6, ReadyAt DEF Blocks
  <2>8. pc' = [pc EXCEPT ![cur] = "idle"] /\ call' = [call EXCEPT ![cur] = call[cur]]
    BY <1>3, <2>2, LocalSame DEF Core, Goto
  <2>9. LocalFits("idle", call[cur]) /\ "idle" \in Points
    BY DEF LocalFits, Points
  <2>10. "idle" \in Inside <=> pc[cur] \in Inside
    BY <2>6 DEF Inside
  <2>11. "idle" \notin {"check", "unlockTx", "unlockRx"} /\ "idle" \notin Standing
    BY DEF Standing
  <2> QED BY <2>1, <2>3, <2>4, <2>5, <2>6, <2>7, <2>8, <2>9, <2>10, <2>11, TaskStep
<1> QED BY <1>2, <1>3 DEF Send

LEMMA RecheckCore == ASSUME Core, Recheck PROVE Core'
<1>1. /\ At("recheck") /\ sched' = sched /\ queue' = queue /\ call' = call
      /\ inject' = inject /\ posted' = posted
  BY DEF Recheck, Quiet
<1>2. cur # Idle /\ sched.isr = "none" /\ pc[cur] = "recheck"
  BY <1>1, NotIdle DEF At
<1> DEFINE a == IF Empty(queue) THEN "idle" ELSE "try"
<1>3. pc' = [pc EXCEPT ![cur] = a]
  BY DEF Recheck, Goto
<1>4. a \in {"idle", "try"} /\ a \in Points /\ a \notin {"check", "unlockTx", "unlockRx"}
  BY DEF Points
<1> HIDE DEF a
<1>5. /\ cur \in Task /\ DOMAIN call = Task /\ LocalFits(pc[cur], call[cur])
      /\ sched \in SchedStates
  BY CoreIs
<1>6. call' = [call EXCEPT ![cur] = call[cur]]
  BY <1>1, <1>5, LocalSame DEF Core
<1>7. LocalFits(a, call[cur])
  BY <1>2, <1>4, <1>5 DEF LocalFits
<1>8. IsReady(sched, cur)
  BY <1>2, ReadyAt DEF Blocks
<1>9. a \in Inside <=> pc[cur] \in Inside
  BY <1>2, <1>4 DEF Inside
<1>10. Settled(sched') /\ Moves(sched, sched')
  BY <1>1, <1>5, MovesRefl DEF Core
<1> QED BY <1>1, <1>2, <1>3, <1>4, <1>6, <1>7, <1>8, <1>9, <1>10, TaskStepQuiet

-----------------------------------------------------------------------
(* The time a call still has                                                  *)

LEMMA RemainderIs ==
  ASSUME NEW m \in Nat, m > 0, NEW n \in Int
  PROVE  n % m \in 0 .. m - 1
OBVIOUS

LEMMA ElapsedSinceIs ==
  ASSUME Core, NEW o \in TimeOut
  PROVE  ElapsedSince(o) \in 0 .. TickMax
<1>1. sched.tick \in Int /\ o.entering \in Int /\ TickMax + 1 \in Nat /\ TickMax + 1 > 0
  BY CoreIs, StateType, Ticks DEF TimeOut
<1>2. sched.tick - o.entering \in Int
  BY <1>1
<1>3. (sched.tick - o.entering) % (TickMax + 1) \in 0 .. (TickMax + 1) - 1
  BY <1>1, <1>2, RemainderIs
<1> QED BY <1>3, Ticks DEF ElapsedSince, TickType

LEMMA CheckForTimeOutIs ==
  ASSUME Core, NEW c \in Local, NEW h \in {"expired", "block"}
  PROVE  LET d == [CheckForTimeOut(c) EXCEPT !.then = h]
         IN  /\ d \in Local /\ d.kind = c.kind /\ d.ticks = c.ticks /\ d.since = c.since
             /\ d.timed = c.timed /\ d.then = h
             /\ ~ TimedOut(c) /\ c.wait > 0 => d.wait > 0
<1> DEFINE e == ElapsedSince(c.timeout)
           d == [CheckForTimeOut(c) EXCEPT !.then = h]
           w == IF WrappedPast(c.timeout) THEN c.wait ELSE 0
           v == c.wait - e
           x == [c EXCEPT !.wait = w]
           y == [c EXCEPT !.wait = v, !.timeout = TimeOutState]
<1>1. c.timeout \in TimeOut /\ c.wait \in 0 .. TickMax
  BY DEF Local
<1>2. e \in 0 .. TickMax
  BY <1>1, ElapsedSinceIs
<1>3. CheckForTimeOut(c) = IF c.wait = portMAX_DELAY THEN c ELSE IF TimedOut(c) THEN x ELSE y
  BY DEF CheckForTimeOut
<1>4. h \in {"block", "retry", "expired"}
  OBVIOUS
<1>5. CASE c.wait = portMAX_DELAY
  <2>1. d = [c EXCEPT !.then = h]
    BY <1>3, <1>5
  <2> QED BY <1>4, <2>1 DEF Local
<1>6. CASE c.wait # portMAX_DELAY /\ TimedOut(c)
  <2>1. d = [x EXCEPT !.then = h]
    BY <1>3, <1>6
  <2>2. w \in 0 .. TickMax
    BY <1>1, Ticks
  <2> HIDE DEF w
  <2> QED BY <1>4, <1>6, <2>1, <2>2 DEF Local
<1>7. CASE c.wait # portMAX_DELAY /\ ~ TimedOut(c)
  <2>1. d = [y EXCEPT !.then = h]
    BY <1>3, <1>7
  <2>2. v \in 0 .. TickMax /\ v > 0
    <3>1. ~ (e >= c.wait)
      BY <1>7 DEF TimedOut
    <3> HIDE DEF e
    <3> QED BY <1>1, <1>2, <3>1, Ticks
  <2>3. TimeOutState \in TimeOut
    BY TimeOutStateIs
  <2> HIDE DEF v
  <2> QED BY <1>4, <1>7, <2>1, <2>2, <2>3 DEF Local
<1> QED BY <1>5, <1>6, <1>7

LEMMA LockCore == ASSUME Core, LockQueue PROVE Core'
<1> DEFINE b == call[cur]
           out == TimedOut(b)
           h == IF out THEN "expired" ELSE "block"
           d == [CheckForTimeOut(b) EXCEPT !.then = h]
           a == IF out THEN "unlockTx" ELSE "check"
<1>1. /\ At("lock") /\ sched' = sched /\ queue' = prvLockQueue(queue)
      /\ inject' = inject /\ posted' = posted
  BY DEF LockQueue, Quiet
<1>2. cur # Idle /\ sched.isr = "none" /\ pc[cur] = "lock"
  BY <1>1, NotIdle DEF At
<1>3. /\ cur \in Task /\ DOMAIN call = Task /\ LocalFits(pc[cur], b)
      /\ sched \in SchedStates /\ queue \in QueueStates /\ queue.cTxLock \in Int
      /\ posted \in Nat /\ posted <= MaxItems
  BY CoreIs
<1>4. pc' = [pc EXCEPT ![cur] = a] /\ call' = [call EXCEPT ![cur] = d]
  BY <1>3 DEF LockQueue, Goto
<1>5. b \in Local /\ b.kind # "delay" /\ b.wait > 0
  BY <1>2, <1>3 DEF LocalFits
<1>6. d \in Local /\ d.kind = b.kind /\ d.then = h /\ (~ out => d.wait > 0)
  BY <1>5, CheckForTimeOutIs
<1>7. a \in {"unlockTx", "check"} /\ (a = "check" => ~ out) /\ a \in Points
  BY DEF Points
<1> HIDE DEF d, b
<1>8. IsReady(sched, cur)
  BY <1>2, ReadyAt DEF Blocks
<1> HIDE DEF a, out
<1>9. LocalFits(a, d)
  BY <1>5, <1>6, <1>7 DEF LocalFits
<1>10. a \in Inside <=> pc[cur] \in Inside
  BY <1>2, <1>7 DEF Inside
<1>11. /\ queue' \in QueueStates /\ queue'.cRxLock = 0
       /\ queue'.cTxLock = IF queue.cTxLock >= 0 THEN queue.cTxLock ELSE 0
  BY <1>1, <1>3, LockQueueIs
<1>12. queue'.cTxLock >= 0 /\ queue'.cTxLock >= -1 /\ queue'.cTxLock <= posted'
  BY <1>1, <1>3, <1>11 DEF Core, Injecting
<1>13. Settled(sched') /\ Moves(sched, sched')
  BY <1>1, <1>3, MovesRefl DEF Core
<1> QED BY <1>1, <1>2, <1>3, <1>4, <1>7, <1>8, <1>9, <1>10, <1>11, <1>12, <1>13, TaskStep

----------------------------------------------------------------------------
(* Suspending the scheduler, and what happens while it is suspended           *)

LEMMA SuspendFields ==
  ASSUME NEW s \in SchedStates, s.suspended = 0
  PROVE  LET r == vTaskSuspendAll(s)
         IN  /\ r \in SchedStates /\ SameLists(s, r) /\ SameClock(s, r) /\ r.next = s.next
             /\ r.cur = s.cur /\ r.suspended = 1 /\ r.isr = s.isr
<1> DEFINE r == [s EXCEPT !.suspended = 1]
<1>1. vTaskSuspendAll(s) = r
  BY DEF vTaskSuspendAll, SchedStates
<1>2. 1 \in 0 .. 1
  OBVIOUS
<1>3. /\ r \in SchedStates /\ SameLists(s, r) /\ SameClock(s, r) /\ r.next = s.next
      /\ r.cur = s.cur /\ r.suspended = 1 /\ r.isr = s.isr
  BY <1>2 DEF SchedStates, SameLists, SameClock
<1> QED BY <1>1, <1>3

LEMMA SuspendIs ==
  ASSUME NEW s, Settled(s), s.isr = "none", s.suspended = 0
  PROVE  LET r == vTaskSuspendAll(s)
         IN  /\ Settled(r) /\ SameLists(s, r) /\ r.cur = s.cur /\ r.suspended = 1
             /\ r.isr = s.isr /\ Now(r) = Now(s)
             /\ \A t \in Task : IsReady(r, t) <=> IsReady(s, t)
<1> DEFINE r == vTaskSuspendAll(s)
<1>1. Lists(s) /\ OnTime(s) /\ ~ Higher(s) /\ s \in SchedStates
  BY SettledState DEF Settled, Chosen
<1>2. /\ r \in SchedStates /\ SameLists(s, r) /\ SameClock(s, r) /\ r.next = s.next
      /\ r.cur = s.cur /\ r.suspended = 1 /\ r.isr = s.isr
  BY <1>1, SuspendFields
<1> HIDE DEF r
<1>3. Lists(r) /\ \A t \in Task : IsReady(r, t) <=> IsReady(s, t)
  BY <1>1, <1>2, SameListsAre
<1>4. OnTime(r) /\ Now(r) = Now(s)
  BY <1>1, <1>2, SameListsTime DEF OnTime, SameClock
<1>5. ~ Higher(r)
  BY <1>1, <1>2, <1>3 DEF Higher, SameLists
<1>6. Chosen(r)
  BY <1>5 DEF Chosen
<1> QED BY <1>2, <1>3, <1>4, <1>6 DEF Settled, r

LEMMA SuspendCore == ASSUME Core, SuspendAll PROVE Core'
<1> DEFINE a == IF InCall("delay") THEN "delay" ELSE "lock"
           b == call[cur]
<1>1. /\ At("suspend") /\ sched' = vTaskSuspendAll(sched) /\ queue' = queue /\ call' = call
      /\ inject' = inject /\ posted' = posted /\ pc' = [pc EXCEPT ![cur] = a]
  BY DEF SuspendAll, Quiet, Goto
<1>2. cur # Idle /\ sched.isr = "none" /\ pc[cur] = "suspend"
  BY <1>1, NotIdle DEF At
<1>3. /\ cur \in Task /\ Idle \in Task /\ DOMAIN call = Task /\ LocalFits(pc[cur], b)
      /\ sched \in SchedStates /\ queue \in QueueStates /\ pc \in [Task -> Points]
      /\ posted \in Nat /\ posted <= MaxItems /\ inject = 0
  BY <1>2, CoreIs
<1>4. Phase(sched, pc, call) /\ InCalls(pc, call) /\ Settled(sched)
  BY DEF Core
<1>5. sched.suspended = 0
  BY <1>2, <1>4 DEF Phase, Inside, cur
<1>6. /\ Settled(sched') /\ SameLists(sched, sched') /\ sched'.cur = sched.cur
      /\ sched'.suspended = 1 /\ sched'.isr = "none"
      /\ \A t \in Task : IsReady(sched', t) <=> IsReady(sched, t)
  BY <1>1, <1>2, <1>4, <1>5, SuspendIs
<1>7. a \in {"delay", "lock"} /\ a \in Points /\ a \in Inside
      /\ (a = "delay" => b.kind = "delay") /\ (a = "lock" => b.kind # "delay")
  BY DEF Points, Inside, InCall
<1> HIDE DEF a, b
<1>8. LocalFits(a, b)
  BY <1>2, <1>3, <1>7 DEF LocalFits
<1>9. InCalls(pc', call')
  <2>1. call' = [call EXCEPT ![cur] = b]
    BY <1>1, <1>3, <1>4, LocalSame DEF b
  <2>2. InCalls([pc EXCEPT ![cur] = a], [call EXCEPT ![cur] = b])
    BY <1>3, <1>4, <1>7, <1>8, LocalStep
  <2> QED BY <1>1, <2>1, <2>2
<1>10. Phase(sched', pc', call')
  <2>1. pc'[cur] = a /\ \A t \in Task : t # cur => pc'[t] = pc[t]
    BY <1>1, <1>3
  <2>2. sched'.cur = cur
    BY <1>6 DEF cur
  <2>3. \A t \in Task : pc'[t] \in Inside => t = cur
    BY <1>4, <2>1 DEF Phase, cur
  <2>4. \A t \in Task : pc'[t] \in Standing => IsReady(sched', t)
    BY <1>2, <1>4, <1>6, <2>1 DEF Phase, Standing
  <2>5. IsReady(sched', cur)
    BY <1>2, <1>3, <1>6, ReadyAt DEF Blocks
  <2>6. pc'[Idle] = "idle" /\ IsReady(sched', Idle)
    BY <1>2, <1>3, <1>4, <1>6, <2>1 DEF Phase
  <2>7. sched'.prio = BasePriority
    BY <1>4, <1>6 DEF Phase, SameLists
  <2> QED BY <1>6, <1>7, <2>1, <2>2, <2>3, <2>4, <2>5, <2>6, <2>7 DEF Phase
<1>11. Locked(pc', queue')
  <2>1. queue.cTxLock >= -1
    BY DEF Core, Locked
  <2>2. a \notin {"check", "unlockTx", "unlockRx"}
    BY <1>7
  <2>3. Locked([pc EXCEPT ![sched.cur] = a], queue)
    BY <1>3, <1>4, <1>7, <2>1, <2>2, LockedStep
  <2> QED BY <1>1, <2>3 DEF cur
<1>12. Injecting(sched', queue', inject', posted')
  <2>1. queue.cTxLock <= posted
    BY DEF Core, Injecting
  <2> QED BY <1>1, <1>3, <2>1, NoInjection
<1> QED BY <1>6, <1>9, <1>10, <1>11, <1>12 DEF Core

(* the current task goes to sleep while the scheduler is suspended            *)
LEMMA SleepPhase ==
  ASSUME NEW s, Settled(s), s.isr = "none", NEW p \in [Task -> Points], NEW k,
         DOMAIN k = Task, Phase(s, p, k), s.cur # Idle, s.suspended = 1,
         NEW r, Lists(r), OnTime(r), OthersSame(s, r, s.cur), ~ IsReady(r, s.cur),
         SameFlags(s, r), r.pending = s.pending,
         NEW a \in {"unlockTx", "resume"}, NEW c, c.then = "block"
  PROVE  Settled(r) /\ Phase(r, [p EXCEPT ![s.cur] = a], [k EXCEPT ![s.cur] = c])
<1> DEFINE q == [p EXCEPT ![s.cur] = a]
           m == [k EXCEPT ![s.cur] = c]
<1>1. s \in SchedStates /\ s.cur \in Task /\ ~ Higher(s) /\ Idle \in Task
  BY SettledState, StateType, CreatedIs DEF Settled, Chosen
<1>2. q[s.cur] = a /\ m[s.cur] = c /\ \A t \in Task : t # s.cur => q[t] = p[t]
  BY <1>1
<1> HIDE DEF q, m
<1>3. \A t \in Task : t # s.cur => (IsReady(r, t) <=> IsReady(s, t))
  BY <1>1, SameReady DEF OthersSame
<1>4. r.cur = s.cur /\ r.prio = s.prio /\ r.suspended = 1 /\ r.isr = "none"
  BY DEF SameFlags
<1>5. ~ Higher(r)
  BY <1>1, <1>3, <1>4 DEF Higher
<1>6. Settled(r)
  BY <1>4, <1>5 DEF Chosen, Settled
<1>7. \A t \in Task : q[t] \in Inside => t = s.cur
  BY <1>2 DEF Phase
<1>8. \A t \in Task : q[t] \in Standing => IsReady(r, t)
  BY <1>2, <1>3 DEF Phase, Standing
<1>9. a \in Inside /\ Blocks(a, c)
  BY DEF Inside, Blocks
<1>10. q[Idle] = "idle" /\ IsReady(r, Idle)
  BY <1>1, <1>2, <1>3 DEF Phase
<1>11. r.prio = BasePriority
  BY <1>4 DEF Phase
<1> QED BY <1>2, <1>4, <1>6, <1>7, <1>8, <1>9, <1>10, <1>11 DEF Phase, q, m

LEMMA SleepStep ==
  ASSUME Core, sched.isr = "none", cur # Idle, pc[cur] \in Inside,
         Lists(sched'), OnTime(sched'), OthersSame(sched, sched', cur),
         ~ IsReady(sched', cur), SameFlags(sched, sched'), sched'.pending = sched.pending,
         NEW a \in {"unlockTx", "resume"}, NEW c, c.then = "block",
         pc' = [pc EXCEPT ![cur] = a], call' = [call EXCEPT ![cur] = c], LocalFits(a, c),
         a = "unlockTx" => queue.cTxLock >= 0 /\ queue.cRxLock = 0,
         queue' = queue, inject' = inject, posted' = posted
  PROVE  Core'
<1>1. /\ sched \in SchedStates /\ pc \in [Task -> Points] /\ DOMAIN call = Task
      /\ cur \in Task /\ inject = 0 /\ queue \in QueueStates
      /\ posted \in Nat /\ posted <= MaxItems
  BY CoreIs
<1>2. Phase(sched, pc, call) /\ InCalls(pc, call) /\ Settled(sched)
  BY DEF Core
<1>3. sched.suspended = 1
  BY <1>2 DEF Phase, cur
<1>4. a \in Points
  BY DEF Points
<1>5. Settled(sched') /\ Phase(sched', pc', call')
  <2>1. /\ Settled(sched')
        /\ Phase(sched', [pc EXCEPT ![sched.cur] = a], [call EXCEPT ![sched.cur] = c])
    BY <1>1, <1>2, <1>3, SleepPhase DEF cur
  <2> QED BY <2>1 DEF cur
<1>6. InCalls(pc', call')
  <2>1. InCalls([pc EXCEPT ![cur] = a], [call EXCEPT ![cur] = c])
    BY <1>1, <1>2, <1>4, LocalStep
  <2> QED BY <2>1
<1>7. Locked(pc', queue')
  <2>1. queue.cTxLock >= -1
    BY DEF Core, Locked
  <2>2. Locked([pc EXCEPT ![sched.cur] = a], queue)
    BY <1>1, <1>2, <1>4, <2>1, LockedStep
  <2> QED BY <2>2 DEF cur
<1>8. Injecting(sched', queue', inject', posted')
  <2>1. queue.cTxLock <= posted
    BY DEF Core, Injecting
  <2> QED BY <1>1, <2>1, NoInjection
<1> QED BY <1>5, <1>6, <1>7, <1>8 DEF Core

LEMMA DelayCore == ASSUME Core, Delay PROVE Core'
<1> DEFINE b == call[cur]
<1>1. /\ At("delay") /\ sched' = AddCurrentTaskToDelayedList(sched, b.ticks, FALSE)
      /\ queue' = queue /\ call' = call /\ inject' = inject /\ posted' = posted
      /\ pc' = [pc EXCEPT ![cur] = "resume"]
  BY DEF Delay, Quiet, Goto
<1>2. cur # Idle /\ sched.isr = "none" /\ pc[cur] = "delay" /\ pc[cur] \in Inside
  BY <1>1, NotIdle DEF At, Inside
<1>3. /\ cur \in Task /\ DOMAIN call = Task /\ LocalFits(pc[cur], b)
      /\ Lists(sched) /\ OnTime(sched) /\ InCalls(pc, call)
  BY CoreIs DEF Core
<1>4. b.kind = "delay" /\ b.ticks > 0 /\ b \in Local /\ b.then = "block"
  BY <1>2, <1>3 DEF LocalFits
<1>5. b.ticks \in 1 .. TickMax
  <2>1. b.ticks \in 0 .. TickMax
    BY <1>4 DEF Local
  <2> QED BY <1>4, <2>1, Ticks
<1>6. IsReady(sched, cur)
  BY <1>2, ReadyAt DEF Blocks
<1>7. MaySleep(sched, cur, FALSE)
  <2>1. Placed(sched, cur) /\ Formed(sched) /\ sched.cur = cur
    BY <1>3 DEF Lists, cur
  <2>2. ~ Dormant(sched, cur) /\ ~ Held(sched, cur)
    BY <1>6, <2>1 DEF Placed
  <2> QED BY <1>3, <1>6, <2>1, <2>2 DEF MaySleep, Lists, Placed
<1>8. FallsAsleep(sched, sched', cur) /\ OnTime(sched')
  <2>1. FALSE \in BOOLEAN
    OBVIOUS
  <2> QED BY <1>1, <1>3, <1>5, <1>7, <2>1, SleepIs
<1>9. call' = [call EXCEPT ![cur] = b]
  BY <1>1, <1>3, LocalSame
<1>10. LocalFits("resume", b)
  BY <1>4 DEF LocalFits
<1> HIDE DEF b
<1>11. "resume" \in {"unlockTx", "resume"} /\ "resume" # "unlockTx"
  OBVIOUS
<1>12. /\ Lists(sched') /\ OthersSame(sched, sched', cur)
       /\ ~ IsReady(sched', cur) /\ SameFlags(sched, sched') /\ sched'.pending = sched.pending
  BY <1>8 DEF FallsAsleep
<1> QED BY <1>1, <1>2, <1>4, <1>8, <1>9, <1>10, <1>11, <1>12, SleepStep

LEMMA CheckCore == ASSUME Core, Check PROVE Core'
<1> DEFINE b == call[cur]
           h == IF MustWait THEN "block" ELSE "retry"
           c == [b EXCEPT !.then = h]
<1>1. /\ At("check")
      /\ sched' = IF MustWait THEN vTaskPlaceOnEventList(sched, WaitList, b.wait) ELSE sched
      /\ queue' = queue /\ inject' = inject /\ posted' = posted
      /\ pc' = [pc EXCEPT ![cur] = "unlockTx"]
  BY DEF Check, Quiet, Goto
<1>2. cur # Idle /\ sched.isr = "none" /\ pc[cur] = "check" /\ pc[cur] \in Inside
  BY <1>1, NotIdle DEF At, Inside
<1>3. /\ cur \in Task /\ DOMAIN call = Task /\ LocalFits(pc[cur], b) /\ sched \in SchedStates
      /\ Lists(sched) /\ OnTime(sched) /\ InCalls(pc, call) /\ Settled(sched)
  BY CoreIs DEF Core
<1>4. call' = [call EXCEPT ![cur] = c]
  BY <1>3 DEF Check
<1>5. b.kind # "delay" /\ b.wait > 0 /\ b \in Local
  BY <1>2, <1>3 DEF LocalFits
<1>6. b.wait \in 1 .. TickMax
  <2>1. b.wait \in 0 .. TickMax
    BY <1>5 DEF Local
  <2> QED BY <1>5, <2>1, Ticks
<1>7. IsReady(sched, cur)
  BY <1>2, ReadyAt DEF Blocks
<1>8. c \in Local /\ c.kind = b.kind /\ c.then = h
  BY <1>5 DEF Local
<1> HIDE DEF b, c
<1>9. LocalFits("unlockTx", c) /\ "unlockTx" \in {"unlockTx", "resume"}
  BY <1>5, <1>8 DEF LocalFits
<1>10. queue.cTxLock >= 0 /\ queue.cRxLock = 0
  BY <1>2, <1>3 DEF Core, Locked
<1>11. CASE MustWait
  <2>1. c.then = "block"
    BY <1>8, <1>11
  <2>2. WaitList \in EventList
    BY EventLists DEF WaitList
  <2>3. Waits(sched, sched', WaitList)
    BY <1>1, <1>3, <1>6, <1>7, <1>11, <2>2, PlaceIs DEF cur
  <2>4. /\ Lists(sched') /\ OnTime(sched') /\ OthersSame(sched, sched', cur)
        /\ ~ IsReady(sched', cur) /\ SameFlags(sched, sched') /\ sched'.pending = sched.pending
    BY <2>3 DEF Waits, cur
  <2> QED BY <1>1, <1>2, <1>4, <1>9, <1>10, <2>1, <2>4, SleepStep
<1>12. CASE ~ MustWait
  <2>1. Settled(sched') /\ Moves(sched, sched')
    BY <1>1, <1>3, <1>12, MovesRefl
  <2>2. "unlockTx" \in Points /\ "unlockTx" \in Inside
    BY DEF Points, Inside
  <2> HIDE DEF h
  <2> QED BY <1>1, <1>2, <1>4, <1>7, <1>9, <1>10, <2>1, <2>2, TaskStepQuiet
<1> QED BY <1>11, <1>12

----------------------------------------------------------------------------
(* Unlocking the queue and resuming the scheduler                             *)

LEMMA UnlockTxCore == ASSUME Core, UnlockTx PROVE Core'
<1> DEFINE b == call[cur]
<1>1. /\ At("unlockTx") /\ sched' = WakeMany(sched, Receivers, queue.cTxLock)
      /\ queue' = [queue EXCEPT !.cTxLock = -1]
      /\ call' = call /\ inject' = inject /\ posted' = posted
      /\ pc' = [pc EXCEPT ![cur] = "unlockRx"]
  BY DEF UnlockTx, Quiet, Goto, queueUNLOCKED
<1>2. cur # Idle /\ sched.isr = "none" /\ pc[cur] = "unlockTx" /\ pc[cur] \in Inside
  BY <1>1, NotIdle DEF At, Inside
<1>3. /\ cur \in Task /\ DOMAIN call = Task /\ LocalFits(pc[cur], b) /\ sched \in SchedStates
      /\ queue \in QueueStates /\ queue.cTxLock \in Int /\ InCalls(pc, call) /\ Settled(sched)
      /\ Phase(sched, pc, call) /\ Locked(pc, queue) /\ posted \in Nat /\ posted <= MaxItems
  BY CoreIs DEF Core
<1>4. queue.cTxLock \in Nat /\ queue.cRxLock = 0
  BY <1>2, <1>3 DEF Locked
<1>5. sched.suspended = 1
  BY <1>2, <1>3 DEF Phase, cur
<1>6. sched' \in Waking(sched, Receivers)
  BY <1>1, <1>3, <1>4, <1>5, EventLists, WakeManyIs
<1>7. Settled(sched') /\ Moves(sched, sched')
  BY <1>6 DEF Waking
<1>8. call' = [call EXCEPT ![cur] = b]
  BY <1>1, <1>3, LocalSame
<1>9. LocalFits("unlockRx", b) /\ "unlockRx" \in Points /\ "unlockRx" \in Inside
  BY <1>2, <1>3 DEF LocalFits, Points, Inside
<1>10. IsReady(sched, cur) \/ Blocks("unlockRx", b)
  BY <1>2, <1>3 DEF Phase, cur, Blocks
<1> HIDE DEF b
<1>11. "unlockRx" \notin Standing /\ "unlockRx" \notin {"check", "unlockTx"}
  BY DEF Standing
<1>12. queue' \in QueueStates /\ queue'.cTxLock = -1 /\ queue'.cRxLock = 0
  <2>1. TxLocked(queue, [queue EXCEPT !.cTxLock = -1], -1)
    <3>1. -1 \in Int
      OBVIOUS
    <3> QED BY <1>3, <3>1, LockFields
  <2> QED BY <1>1, <1>4, <2>1 DEF TxLocked
<1>13. queue'.cTxLock >= -1 /\ queue'.cTxLock <= posted' /\ posted' \in Nat /\ posted' <= MaxItems
  BY <1>1, <1>3, <1>12
<1> QED BY <1>1, <1>2, <1>7, <1>8, <1>9, <1>10, <1>11, <1>12, <1>13, TaskStep

LEMMA UnlockRxCore == ASSUME Core, UnlockRx PROVE Core'
<1> DEFINE b == call[cur]
<1>1. /\ At("unlockRx") /\ sched' = WakeMany(sched, Senders, queue.cRxLock)
      /\ queue' = [queue EXCEPT !.cRxLock = -1]
      /\ call' = call /\ inject' = inject /\ posted' = posted
      /\ pc' = [pc EXCEPT ![cur] = "resume"]
  BY DEF UnlockRx, Quiet, Goto, queueUNLOCKED
<1>2. cur # Idle /\ sched.isr = "none" /\ pc[cur] = "unlockRx" /\ pc[cur] \in Inside
  BY <1>1, NotIdle DEF At, Inside
<1>3. /\ cur \in Task /\ DOMAIN call = Task /\ LocalFits(pc[cur], b) /\ sched \in SchedStates
      /\ queue \in QueueStates /\ queue.cTxLock \in Int /\ InCalls(pc, call) /\ Settled(sched)
      /\ Phase(sched, pc, call) /\ Locked(pc, queue) /\ posted \in Nat /\ posted <= MaxItems
  BY CoreIs DEF Core
<1>4. queue.cRxLock = 0 /\ 0 \in Nat
  BY <1>2, <1>3 DEF Locked
<1>5. sched.suspended = 1
  BY <1>2, <1>3 DEF Phase, cur
<1>6. sched' \in Waking(sched, Senders)
  BY <1>1, <1>3, <1>4, <1>5, EventLists, WakeManyIs
<1>7. Settled(sched') /\ Moves(sched, sched')
  BY <1>6 DEF Waking
<1>8. call' = [call EXCEPT ![cur] = b]
  BY <1>1, <1>3, LocalSame
<1>9. LocalFits("resume", b) /\ "resume" \in Points /\ "resume" \in Inside
  BY <1>2, <1>3 DEF LocalFits, Points, Inside
<1>10. IsReady(sched, cur) \/ Blocks("resume", b)
  BY <1>2, <1>3 DEF Phase, cur, Blocks
<1> HIDE DEF b
<1>11. "resume" \notin Standing /\ "resume" \notin {"check", "unlockTx", "unlockRx"}
  BY DEF Standing
<1>12. queue' \in QueueStates /\ queue'.cTxLock = queue.cTxLock
  <2>1. RxLocked(queue, queue', -1)
    BY <1>1, <1>3, LockFields
  <2> QED BY <2>1 DEF RxLocked
<1>13. queue'.cTxLock >= -1 /\ queue'.cTxLock <= posted' /\ posted' \in Nat /\ posted' <= MaxItems
  BY <1>1, <1>3, <1>12 DEF Core, Locked, Injecting
<1> QED BY <1>1, <1>2, <1>7, <1>8, <1>9, <1>10, <1>11, <1>12, <1>13, TaskStep

LEMMA YieldCore == ASSUME Core, Yield PROVE Core'
<1> DEFINE b == call[cur]
           a == IF InCall("delay") THEN "idle" ELSE "try"
<1>1. /\ At("yield") /\ sched' = vTaskSwitchContext(sched) /\ queue' = queue
      /\ call' = call /\ inject' = inject /\ posted' = posted
      /\ pc' = [pc EXCEPT ![cur] = a]
  BY DEF Yield, Quiet, Goto
<1>2. cur # Idle /\ sched.isr = "none" /\ pc[cur] = "yield" /\ pc[cur] \notin Inside
  BY <1>1, NotIdle DEF At, Inside
<1>3. /\ cur \in Task /\ Idle \in Task /\ DOMAIN call = Task /\ LocalFits(pc[cur], b)
      /\ sched \in SchedStates /\ pc \in [Task -> Points] /\ queue \in QueueStates
      /\ InCalls(pc, call) /\ Lists(sched) /\ OnTime(sched) /\ Phase(sched, pc, call)
      /\ posted \in Nat /\ posted <= MaxItems /\ inject = 0 /\ IsReady(sched, Idle)
  BY <1>2, CoreIs DEF Core
<1>4. sched.suspended = 0
  BY <1>2, <1>3 DEF Phase, cur
<1>5. Settled(sched') /\ Advances(sched, sched') /\ IsReady(sched', sched'.cur)
  BY <1>1, <1>3, <1>4, SwitchSettles
<1>6. a \in {"idle", "try"} /\ a \in Points /\ a \notin Inside /\ a \notin Standing
  BY DEF Points, Inside, Standing
<1>7. LocalFits(a, b)
  BY <1>2, <1>3 DEF LocalFits, InCall
<1>8. call' = [call EXCEPT ![cur] = b]
  BY <1>1, <1>3, LocalSame
<1> HIDE DEF a, b
<1>9. InCalls(pc', call')
  <2>1. InCalls([pc EXCEPT ![cur] = a], [call EXCEPT ![cur] = b])
    BY <1>3, <1>6, <1>7, LocalStep
  <2> QED BY <1>1, <1>8, <2>1
<1>10. pc'[cur] = a /\ \A t \in Task : t # cur => pc'[t] = pc[t]
  BY <1>1, <1>3
<1>11. /\ sched'.prio = sched.prio /\ sched'.suspended = 0 /\ sched'.pending = sched.pending
       /\ \A t \in Task : IsReady(sched, t) => IsReady(sched', t)
       /\ sched'.cur \in Task
  BY <1>4, <1>5, SettledState, StateType DEF Advances, Goes, Settled
<1>12. \A t \in Task : pc'[t] \notin Inside
  BY <1>2, <1>3, <1>6, <1>10 DEF Phase, cur
<1>13. \A t \in Task : pc'[t] \in Standing => IsReady(sched', t)
  BY <1>3, <1>6, <1>10, <1>11 DEF Phase
<1>14. Phase(sched', pc', call')
  <2>1. pc'[Idle] = "idle"
    BY <1>2, <1>3, <1>10 DEF Phase
  <2>2. sched'.prio = BasePriority /\ sched'.pending = <<>>
    BY <1>3, <1>4, <1>11 DEF Phase
  <2> QED BY <1>3, <1>5, <1>11, <1>12, <1>13, <2>1, <2>2 DEF Phase
<1>15. Locked(pc', queue')
  <2>1. queue.cTxLock >= -1
    BY DEF Core, Locked
  <2>2. a \notin {"check", "unlockTx", "unlockRx"}
    BY <1>6
  <2>3. Locked([pc EXCEPT ![sched.cur] = a], queue)
    BY <1>3, <1>6, <2>1, <2>2, LockedStep
  <2> QED BY <1>1, <2>3 DEF cur
<1>16. Injecting(sched', queue', inject', posted')
  <2>1. queue.cTxLock <= posted
    BY DEF Core, Injecting
  <2> QED BY <1>1, <1>3, <2>1, NoInjection
<1> QED BY <1>5, <1>9, <1>14, <1>15, <1>16 DEF Core

(* where a call goes on when the scheduler runs again                         *)
LEMMA ResumeGoes ==
  ASSUME Core, Resume
  PROVE  LET c == call[cur]
         IN  \E a \in {"idle", "try", "yield", "recheck"} :
               /\ pc' = [pc EXCEPT ![cur] = a] /\ LocalFits(a, c)
               /\ a = "yield" => c.then = "block" /\ ~ Resumed(sched).yield
               /\ a # "yield" /\ c.then = "block" => Resumed(sched).yield
               /\ a = "recheck" => c.then = "expired" /\ c.kind = "receive"
               /\ a = "idle" => c.kind = "delay" \/ (c.then = "expired" /\ c.kind = "send")
<1> DEFINE c == call[cur]
           end == IF c.kind = "delay" THEN "idle" ELSE "try"
           a == CASE c.then = "block" -> IF Resumed(sched).yield THEN end ELSE "yield"
                  [] c.then = "retry" -> "try"
                  [] c.then = "expired" -> IF c.kind = "send" THEN "idle" ELSE "recheck"
<1>1. At("resume") /\ pc' = [pc EXCEPT ![cur] = a]
  BY DEF Resume, Goto
<1>2. pc[cur] = "resume" /\ LocalFits(pc[cur], c)
  BY <1>1, CoreIs DEF At
<1>3. c \in Local /\ (c.kind = "delay" => c.then = "block")
  BY <1>2 DEF LocalFits
<1>4. c.then \in {"block", "retry", "expired"} /\ c.kind \in {"send", "receive", "delay"}
  BY <1>3 DEF Local
<1> HIDE DEF c
<1>5. CASE c.then = "block"
  <2>1. a = IF Resumed(sched).yield THEN end ELSE "yield"
    BY <1>5
  <2>2. CASE Resumed(sched).yield
    <3>1. a = end
      BY <2>1, <2>2
    <3> HIDE DEF a
    <3>2. LocalFits(a, c)
      BY <1>3, <1>4, <1>5, <3>1 DEF LocalFits
    <3>3. a \in {"idle", "try"} /\ (a = "idle" => c.kind = "delay")
      BY <3>1
    <3> QED BY <1>1, <1>5, <2>2, <3>2, <3>3 DEF c
  <2>3. CASE ~ Resumed(sched).yield
    <3>1. a = "yield"
      BY <2>1, <2>3
    <3> HIDE DEF a
    <3>2. LocalFits(a, c)
      BY <1>3, <1>4, <1>5, <3>1 DEF LocalFits
    <3> QED BY <1>1, <1>5, <2>3, <3>1, <3>2 DEF c
  <2> QED BY <2>2, <2>3
<1>6. CASE c.then = "retry"
  <2>1. a = "try"
    BY <1>6
  <2> HIDE DEF a
  <2>2. LocalFits(a, c)
    BY <1>3, <1>4, <1>6, <2>1 DEF LocalFits
  <2> QED BY <1>1, <1>6, <2>1, <2>2 DEF c
<1>7. CASE c.then = "expired"
  <2>1. a = IF c.kind = "send" THEN "idle" ELSE "recheck"
    BY <1>7
  <2> HIDE DEF a
  <2>2. LocalFits(a, c)
    BY <1>3, <1>4, <1>7, <2>1 DEF LocalFits
  <2>3. a \in {"idle", "recheck"} /\ (a = "idle" => c.kind = "send") /\ (a = "recheck" => c.kind = "receive")
    BY <1>3, <1>4, <1>7, <2>1
  <2> QED BY <1>1, <1>7, <2>2, <2>3 DEF c
<1> QED BY <1>4, <1>5, <1>6, <1>7

LEMMA ResumeCore == ASSUME Core, Resume PROVE Core'
<1> DEFINE b == call[cur]
<1>1. /\ At("resume") /\ sched' = xTaskResumeAll(sched) /\ queue' = queue
      /\ call' = call /\ inject' = inject /\ posted' = posted
  BY DEF Resume, Quiet
<1>2. cur # Idle /\ sched.isr = "none" /\ pc[cur] = "resume" /\ pc[cur] \in Inside
  BY <1>1, NotIdle DEF At, Inside
<1>3. /\ cur \in Task /\ Idle \in Task /\ DOMAIN call = Task
      /\ sched \in SchedStates /\ pc \in [Task -> Points] /\ queue \in QueueStates
      /\ InCalls(pc, call) /\ Lists(sched) /\ OnTime(sched) /\ Phase(sched, pc, call)
      /\ posted \in Nat /\ posted <= MaxItems /\ inject = 0 /\ IsReady(sched, Idle)
      /\ ~ Higher(sched)
  BY <1>2, CoreIs DEF Core, Chosen
<1>4. sched.suspended = 1
  BY <1>2, <1>3 DEF Phase, cur
<1>5. /\ Lists(sched') /\ OnTime(sched') /\ Goes(sched, sched') /\ ~ Higher(sched')
      /\ sched'.suspended = 0 /\ sched'.pending = <<>>
      /\ sched'.cur = cur \/ IsReady(sched', sched'.cur)
      /\ Resumed(sched).yield => IsReady(sched', sched'.cur)
      /\ sched'.isr = sched.isr
  BY <1>1, <1>3, <1>4, ResumeAllIs DEF cur
<1>6. PICK a \in {"idle", "try", "yield", "recheck"} :
         /\ pc' = [pc EXCEPT ![cur] = a] /\ LocalFits(a, b)
         /\ a # "yield" /\ b.then = "block" => Resumed(sched).yield
         /\ a = "recheck" => b.then = "expired"
  BY ResumeGoes
<1>7. call' = [call EXCEPT ![cur] = b]
  BY <1>1, <1>3, LocalSame
<1>70. IsReady(sched, cur) \/ b.then = "block"
  BY <1>2, <1>3 DEF Phase, cur, Blocks
<1> HIDE DEF b
<1>8. a \in Points /\ a \notin Inside /\ a \notin {"check", "unlockTx", "unlockRx"}
      /\ (a \in Standing => a = "recheck")
  BY <1>6 DEF Points, Inside, Standing
<1>9. InCalls(pc', call')
  <2>1. InCalls([pc EXCEPT ![cur] = a], [call EXCEPT ![cur] = b])
    BY <1>3, <1>6, <1>8, LocalStep
  <2> QED BY <1>6, <1>7, <2>1
<1>10. pc'[cur] = a /\ call'[cur] = b /\ \A t \in Task : t # cur => pc'[t] = pc[t]
  BY <1>1, <1>3, <1>6, <1>7
<1>11. /\ sched'.prio = BasePriority /\ sched'.cur \in Task
       /\ \A t \in Task : IsReady(sched, t) => IsReady(sched', t)
  BY <1>3, <1>5, SettledState, StateType DEF Goes, Phase
<1>12. \A t \in Task : pc'[t] \notin Inside
  BY <1>3, <1>8, <1>10 DEF Phase, cur
<1>13. a # "yield" => IsReady(sched', sched'.cur)
  BY <1>3, <1>5, <1>6, <1>70, <1>11
<1>14. \A t \in Task : pc'[t] \in Standing => IsReady(sched', t)
  <2>1. ASSUME a = "recheck" PROVE IsReady(sched', cur)
    <3>1. b.then # "block"
      BY <1>6, <2>1
    <3> QED BY <1>3, <1>11, <1>70, <3>1
  <2> QED BY <1>3, <1>8, <1>10, <1>11, <2>1 DEF Phase
<1>15. IsReady(sched', sched'.cur) \/ Blocks(pc'[sched'.cur], call'[sched'.cur])
  <2>1. CASE a = "yield"
    <3>1. CASE sched'.cur = cur
      BY <1>10, <2>1, <3>1 DEF Blocks
    <3>2. CASE sched'.cur # cur
      BY <1>5, <3>2
    <3> QED BY <3>1, <3>2
  <2> QED BY <1>13, <2>1
<1>16. Phase(sched', pc', call')
  <2>1. pc'[Idle] = "idle" /\ IsReady(sched', Idle)
    BY <1>2, <1>3, <1>10, <1>11 DEF Phase
  <2>2. pc'[sched'.cur] \notin Inside
    BY <1>11, <1>12
  <2> QED BY <1>5, <1>11, <1>12, <1>14, <1>15, <2>1, <2>2 DEF Phase
<1>17. Settled(sched')
  BY <1>2, <1>5 DEF Settled, Chosen
<1>18. Locked(pc', queue')
  <2>1. queue.cTxLock >= -1
    BY DEF Core, Locked
  <2>3. Locked([pc EXCEPT ![sched.cur] = a], queue)
    BY <1>3, <1>8, <2>1, LockedStep
  <2> QED BY <1>1, <1>6, <2>3 DEF cur
<1>19. Injecting(sched', queue', inject', posted')
  <2>1. queue.cTxLock <= posted
    BY DEF Core, Injecting
  <2> QED BY <1>1, <1>3, <2>1, NoInjection
<1> QED BY <1>9, <1>16, <1>17, <1>18, <1>19 DEF Core

----------------------------------------------------------------------------
(* Interrupts, and all steps together                                         *)

LEMMA InterruptStep ==
  ASSUME Core, Settled(sched'), Moves(sched, sched'), pc' = pc, call' = call,
         queue' \in QueueStates, queue'.cTxLock >= -1,
         queue.cTxLock >= 0 => queue'.cTxLock >= 0, queue'.cRxLock = queue.cRxLock,
         Injecting(sched', queue', inject', posted')
  PROVE  Core'
<1>1. sched \in SchedStates /\ sched' \in SchedStates
  BY CoreIs, SettledState DEF Settled
<1>2. Phase(sched', pc', call')
  BY <1>1, MovesPhase DEF Core
<1>3. InCalls(pc', call')
  BY DEF Core
<1>4. Locked(pc', queue')
  <2>1. Locked(pc, queue)
    BY DEF Core
  <2> QED BY <2>1 DEF Locked
<1> QED BY <1>2, <1>3, <1>4 DEF Core

LEMMA EnterCore == ASSUME Core, InputEventInjectFromISR PROVE Core'
<1>1. /\ sched.isr = "none" /\ sched' = [sched EXCEPT !.isr = "running"]
      /\ queue' = queue /\ pc' = pc /\ call' = call /\ posted' = posted
  BY DEF InputEventInjectFromISR
<1>2. PICK n \in 1 .. MaxGroup : posted + n <= MaxItems /\ inject' = IF Fits(n) THEN n ELSE 0
  BY DEF InputEventInjectFromISR
<1>3. /\ Settled(sched') /\ Moves(sched, sched') /\ sched'.isr = "running"
  BY <1>1, EnterIs DEF Core
<1>4. /\ queue \in QueueStates /\ queue.cTxLock \in Int /\ posted \in Nat /\ posted <= MaxItems
      /\ queue.cTxLock >= -1 /\ queue.cTxLock <= posted
  BY CoreIs DEF Core, Locked, Injecting
<1>5. Injecting(sched', queue', inject', posted')
  <2>1. CASE Fits(n)
    <3>1. inject' = n /\ n <= Avail(queue) /\ n \in 0 .. MaxGroup
      BY <1>2, <2>1, SizeIs DEF Fits
    <3> QED BY <1>1, <1>2, <1>3, <1>4, <3>1 DEF Injecting
  <2>2. CASE ~ Fits(n)
    BY <1>1, <1>2, <1>4, <2>2, NoInjection
  <2> QED BY <2>1, <2>2
<1> QED BY <1>1, <1>3, <1>4, <1>5, InterruptStep

(* what a handler does to the queue, and whom it wakes                        *)
LEMMA SendFromISRIs ==
  ASSUME Core, xQueueSendFromISR
  PROVE  /\ ~ Full(queue) /\ sched.isr # "none" /\ pc' = pc /\ call' = call
         /\ posted' = posted + 1 /\ posted' \in Item /\ inject' = inject - 1 /\ inject > 0
         /\ queue.cTxLock # -1 =>
              /\ sched' = sched
              /\ \E q \in QueueStates : Copied(queue, q, posted') /\ TxLocked(q, queue', queue.cTxLock + 1)
         /\ queue.cTxLock = -1 =>
              /\ Copied(queue, queue', posted')
              /\ sched.events[Receivers] = <<>> => sched' = sched
              /\ sched.events[Receivers] # <<>> =>
                   sched'.events = [sched.events EXCEPT ![Receivers] = Tail(sched.events[Receivers])]
         /\ Settled(sched') /\ Moves(sched, sched') /\ sched'.isr = sched.isr
         /\ sched'.cur = sched.cur
<1>1. /\ inject > 0 /\ inject' = inject - 1 /\ posted' = posted + 1 /\ pc' = pc /\ call' = call
  BY DEF xQueueSendFromISR
<1>2. /\ queue \in QueueStates /\ queue.cTxLock \in Int /\ posted \in Nat /\ inject \in Nat
      /\ sched \in SchedStates /\ Settled(sched)
  BY CoreIs DEF Core
<1>3. sched.isr # "none" /\ inject <= Avail(queue) /\ posted + inject <= MaxItems
  BY <1>1 DEF Core, Injecting
<1>4. ~ Full(queue)
  BY <1>1, <1>2, <1>3, SizeIs, QueueType DEF Full, Avail
<1>5. posted' \in Item
  BY <1>1, <1>2, <1>3, SizeIs DEF Item
<1> DEFINE q == CopyDataToQueue(queue, posted')
           locked == queue.cTxLock # -1
           r == [xTaskRemoveFromEventList(sched, Receivers) EXCEPT !.need = @ \/ Outranks(sched, Receivers)]
<1>6. /\ queue' = IF locked THEN [q EXCEPT !.cTxLock = @ + 1] ELSE q
      /\ sched' = IF locked \/ sched.events[Receivers] = <<>> THEN sched ELSE r
  BY <1>4 DEF xQueueSendFromISR, queueUNLOCKED
<1>7. Copied(queue, q, posted')
  BY <1>2, <1>4, <1>5, CopyIs
<1> HIDE DEF q
<1>8. [q EXCEPT !.cTxLock = @ + 1] = [q EXCEPT !.cTxLock = q.cTxLock + 1] /\ q.cTxLock = queue.cTxLock
      /\ q \in QueueStates
  BY <1>7 DEF Copied, QueueStates
<1>9. locked => TxLocked(q, queue', queue.cTxLock + 1)
  <2>1. queue.cTxLock + 1 \in Int
    BY <1>2
  <2>2. TxLocked(q, [q EXCEPT !.cTxLock = queue.cTxLock + 1], queue.cTxLock + 1)
    BY <1>8, <2>1, LockFields
  <2> QED BY <1>6, <1>8, <2>2
<1>10. CASE locked \/ sched.events[Receivers] = <<>>
  <2>1. sched' = sched
    BY <1>6, <1>10
  <2>2. Moves(sched, sched')
    BY <1>2, <2>1, MovesRefl
  <2> QED BY <1>1, <1>2, <1>3, <1>4, <1>5, <1>6, <1>7, <1>8, <1>9, <1>10, <2>1, <2>2
<1>11. CASE ~ (locked \/ sched.events[Receivers] = <<>>)
  <2>1. sched' = r
    BY <1>6, <1>11
  <2>2. /\ Settled(sched') /\ Moves(sched, sched') /\ sched'.isr = sched.isr
        /\ sched'.cur = sched.cur
        /\ sched'.events = [sched.events EXCEPT ![Receivers] = Tail(sched.events[Receivers])]
    BY <1>2, <1>3, <1>11, <2>1, EventLists, SentFromISRIs
  <2> HIDE DEF r
  <2> QED BY <1>1, <1>3, <1>4, <1>5, <1>6, <1>7, <1>11, <2>2
<1> QED BY <1>10, <1>11

LEMMA SendFromISRCore == ASSUME Core, xQueueSendFromISR PROVE Core'
<1>1. /\ sched.isr # "none" /\ pc' = pc /\ call' = call
      /\ posted' = posted + 1 /\ inject' = inject - 1 /\ inject > 0
      /\ Settled(sched') /\ Moves(sched, sched') /\ sched'.isr = sched.isr
  BY SendFromISRIs
<1>2. /\ queue \in QueueStates /\ queue.cTxLock \in Int /\ posted \in Nat /\ inject \in Nat
  BY CoreIs
<1>3. /\ inject <= Avail(queue) /\ posted + inject <= MaxItems /\ inject \in 0 .. MaxGroup
      /\ queue.cTxLock >= -1 /\ queue.cTxLock <= posted
  BY DEF Core, Injecting, Locked
<1>4. /\ queue' \in QueueStates /\ queue'.cRxLock = queue.cRxLock
      /\ queue'.uxMessagesWaiting = queue.uxMessagesWaiting + 1
      /\ queue'.cTxLock = IF queue.cTxLock # -1 THEN queue.cTxLock + 1 ELSE queue.cTxLock
  <2>1. CASE queue.cTxLock # -1
    <3>1. PICK q \in QueueStates : Copied(queue, q, posted') /\ TxLocked(q, queue', queue.cTxLock + 1)
      BY <2>1, SendFromISRIs
    <3> QED BY <2>1, <3>1 DEF Copied, TxLocked
  <2>2. CASE queue.cTxLock = -1
    <3>1. Copied(queue, queue', posted')
      BY <2>2, SendFromISRIs
    <3> QED BY <2>2, <3>1 DEF Copied
  <2> QED BY <2>1, <2>2
<1>5. /\ queue'.cTxLock >= -1 /\ queue'.cTxLock <= posted' /\ (queue.cTxLock >= 0 => queue'.cTxLock >= 0)
  BY <1>1, <1>2, <1>3, <1>4
<1>6. inject' <= Avail(queue')
  BY <1>1, <1>2, <1>3, <1>4, SizeIs, QueueType DEF Avail
<1>7. inject' \in 0 .. MaxGroup /\ posted' \in Nat /\ posted' + inject' <= MaxItems
  BY <1>1, <1>2, <1>3, SizeIs
<1>8. Injecting(sched', queue', inject', posted')
  BY <1>1, <1>5, <1>6, <1>7 DEF Injecting
<1> QED BY <1>1, <1>4, <1>5, <1>8, InterruptStep

(* the others change neither the queue nor the tasks                          *)
LEMMA QuietInterrupt ==
  ASSUME Core, Settled(sched'), Moves(sched, sched'),
         UNCHANGED <<queue, pc, call, inject, posted>>,
         inject > 0 => sched'.isr # "none"
  PROVE  Core'
<1>1. queue \in QueueStates /\ queue.cTxLock >= -1
  BY CoreIs DEF Core, Locked
<1>2. Injecting(sched, queue, inject, posted)
  BY DEF Core
<1>3. Injecting(sched', queue', inject', posted')
  BY <1>2 DEF Injecting
<1> QED BY <1>1, <1>3, InterruptStep

LEMMA TickCore == ASSUME Core, Tick PROVE Core' /\ Moves(sched, sched')
<1>1. /\ sched.isr # "ticked"
      /\ sched' = IF sched.isr = "none" THEN LeaveIntr(SystemTick(sched))
                  ELSE [SystemTick(sched) EXCEPT !.isr = "ticked"]
      /\ UNCHANGED <<queue, pc, call, inject, posted>>
  BY DEF Tick, TickInterrupt, Quiet
<1>2. /\ Settled(sched) /\ Idle \in Task /\ IsReady(sched, Idle)
      /\ sched.suspended = 0 => sched.pending = <<>>
  BY CoreIs DEF Core, Phase
<1>3. /\ Settled(sched') /\ Advances(sched, sched')
      /\ sched'.isr = (IF sched.isr = "none" THEN "none" ELSE "ticked")
  BY <1>1, <1>2, TickInterruptIs
<1>4. Moves(sched, sched')
  BY <1>3, AdvancesMoves
<1>5. inject > 0 => sched'.isr # "none"
  BY <1>3 DEF Core, Injecting
<1> QED BY <1>1, <1>3, <1>4, <1>5, QuietInterrupt

LEMMA LeaveCore == ASSUME Core, Leave PROVE Core' /\ Moves(sched, sched')
<1>1. /\ sched.isr # "none" /\ inject = 0
      /\ sched' = LeaveIntr([sched EXCEPT !.isr = "none"])
      /\ UNCHANGED <<queue, pc, call, inject, posted>>
  BY DEF Leave, LeaveInterrupt, Quiet
<1>2. Settled(sched) /\ Idle \in Task /\ IsReady(sched, Idle)
  BY CoreIs DEF Core
<1>3. Settled(sched') /\ Advances(sched, sched')
  BY <1>1, <1>2, LeaveInterruptIs
<1>4. Moves(sched, sched')
  BY <1>3, AdvancesMoves
<1>5. ~ (inject > 0)
  BY <1>1
<1> QED BY <1>1, <1>3, <1>4, <1>5, QuietInterrupt

LEMMA NewQueueIs ==
  /\ NewQueue \in QueueStates /\ NewQueue.cTxLock = -1 /\ NewQueue.cRxLock = -1
  /\ NewQueue.uxMessagesWaiting = 0 /\ NewQueue.pcWriteTo = 0
  /\ NewQueue.pcReadFrom = EventQueueSize - 1
<1>1. [i \in 0 .. EventQueueSize - 1 |-> NoItem] \in [Place -> Item \cup {NoItem}]
  BY DEF Place
<1>2. 0 \in Place /\ EventQueueSize - 1 \in Place /\ 0 \in 0 .. EventQueueSize
  BY SizeIs DEF Place
<1>3. -1 \in {-1, 0} /\ -1 \in Int
  OBVIOUS
<1> QED BY <1>1, <1>2, <1>3 DEF NewQueue, QueueStates, queueUNLOCKED

LEMMA InitCore == ASSUME Init PROVE Core
<1>1. /\ sched = InitSched /\ queue = NewQueue /\ pc = [t \in Task |-> "idle"]
      /\ call = [t \in Task |-> [kind |-> "none"]] /\ inject = 0 /\ posted = 0
  BY DEF Init
<1>2. /\ Settled(sched) /\ sched.prio = BasePriority /\ sched.pending = <<>> /\ sched.suspended = 0
      /\ sched.isr = "none" /\ sched.cur \in Task /\ \A t \in Task : IsReady(sched, t)
  BY <1>1, InitSchedIs
<1>3. Idle \in Task /\ \A t \in Task : pc[t] = "idle"
  BY <1>1, CreatedIs
<1>4. Phase(sched, pc, call)
  BY <1>2, <1>3 DEF Phase, Inside
<1>5. InCalls(pc, call)
  <2>1. "idle" \in Points
    BY DEF Points
  <2>2. \A t \in Task : LocalFits(pc[t], call[t])
    BY <1>1, <1>3 DEF LocalFits
  <2> QED BY <1>1, <2>1, <2>2 DEF InCalls
<1>6. Locked(pc, queue)
  BY <1>1, <1>3, NewQueueIs DEF Locked
<1>7. Injecting(sched, queue, inject, posted)
  <2>1. queue.cTxLock <= 0 /\ 0 \in Nat /\ 0 <= MaxItems
    BY <1>1, NewQueueIs, SizeIs
  <2> QED BY <1>1, <2>1, NewQueueIs, NoInjection
<1> QED BY <1>2, <1>4, <1>5, <1>6, <1>7 DEF Core

LEMMA StutterCore == ASSUME Core, UNCHANGED vars PROVE Core'
<1>1. /\ sched' = sched /\ queue' = queue /\ pc' = pc /\ call' = call
      /\ inject' = inject /\ posted' = posted
  BY DEF vars
<1> QED BY <1>1 DEF Core

LEMMA NextCore == ASSUME Core, [Next]_vars PROVE Core'
<1>1. CASE Begin
  BY <1>1, BeginCore
<1>2. CASE Receive
  BY <1>2, ReceiveCore
<1>3. CASE Send
  BY <1>3, SendCore
<1>4. CASE SuspendAll
  BY <1>4, SuspendCore
<1>5. CASE LockQueue
  BY <1>5, LockCore
<1>6. CASE Check
  BY <1>6, CheckCore
<1>7. CASE Delay
  BY <1>7, DelayCore
<1>8. CASE UnlockTx
  BY <1>8, UnlockTxCore
<1>9. CASE UnlockRx
  BY <1>9, UnlockRxCore
<1>10. CASE Resume
  BY <1>10, ResumeCore
<1>11. CASE Yield
  BY <1>11, YieldCore
<1>12. CASE Recheck
  BY <1>12, RecheckCore
<1>13. CASE InputEventInjectFromISR
  BY <1>13, EnterCore
<1>14. CASE xQueueSendFromISR
  BY <1>14, SendFromISRCore
<1>15. CASE Tick
  BY <1>15, TickCore
<1>16. CASE Leave
  BY <1>16, LeaveCore
<1>17. CASE UNCHANGED vars
  BY <1>17, StutterCore
<1> QED BY <1>1, <1>2, <1>3, <1>4, <1>5, <1>6, <1>7, <1>8, <1>9, <1>10, <1>11,
           <1>12, <1>13, <1>14, <1>15, <1>16, <1>17 DEF Next

----------------------------------------------------------------------------
(* Every state the queue can be in satisfies the inductive invariant          *)
THEOREM CoreHolds == Spec => []Core
<1>1. Init => Core
  BY InitCore
<1>2. Core /\ [Next]_vars => Core'
  BY NextCore
<1> QED BY <1>1, <1>2, PTL DEF Spec

LEMMA CoreTypes == ASSUME Core PROVE SchedTypeOK
BY CoreIs, TypesHold

LEMMA CoreLists == ASSUME Core PROVE OneListEach
BY CoreIs, ListsHold

LEMMA CoreHighest == ASSUME Core PROVE HighestRuns
<1> SUFFICES ASSUME sched.suspended = 0, sched.isr = "none", NEW t \in Task, IsReady(sched, t)
             PROVE  sched.prio[t] <= sched.prio[sched.cur]
  BY DEF HighestRuns
<1>1. ~ (sched.prio[t] > sched.prio[sched.cur])
  BY CoreIs DEF Chosen, Higher
<1>2. sched.prio[t] \in Priority /\ sched.prio[sched.cur] \in Priority /\ Priority \subseteq Int
  BY CoreIs, StateType, PrioritiesAre
<1>3. sched.prio[t] \in Int /\ sched.prio[sched.cur] \in Int
  BY <1>2
<1> QED BY <1>1, <1>3

(* Each task is in one state list, waits on an event list only while it is    *)
(* not ready, and while tasks can be switched the one that runs has the       *)
(* highest priority of all that are ready (vListInsertEnd, uxListRemove,      *)
(* vTaskSwitchContext, xYieldPending, xNeedRescheduleTask)                    *)
THEOREM ScheduledHolds == Spec => []Scheduled
<1>1. Core => Scheduled
  BY CoreTypes, CoreLists, CoreHighest DEF Scheduled
<1> QED BY <1>1, CoreHolds, PTL

(* No task that sleeps is overlooked: every wake time lies ahead, also when   *)
(* the counter wraps around and when ticks were held back while the scheduler *)
(* was suspended (xTaskIncrementTick, xTaskResumeAll)                         *)
THEOREM PunctualHolds == Spec => []Punctual
<1>1. ASSUME Core PROVE Punctual
  <2>1. sched \in SchedStates /\ Dated(sched) /\ Timely(sched)
    BY <1>1, CoreIs DEF OnTime
  <2>2. ASSUME NEW d \in Range(sched.delayed)
        PROVE  d.due = sched.overflows * (TickMax + 1) + d.wake /\ d.due > Now(sched)
    <3>1. d \in Sleeper
      BY <2>1, <2>2, StateType, InRange
    <3>2. d.wake \in Int /\ sched.tick \in Int
      <4>1. d.wake \in 0 .. TickMax /\ sched.tick \in 0 .. TickMax
        BY <2>1, <3>1, StateType DEF Sleeper
      <4> QED BY <4>1, Ticks
    <3>3. d.due = sched.overflows * (TickMax + 1) + d.wake /\ d.wake > sched.tick
      BY <2>1, <2>2 DEF Dated, Timely
    <3>4. sched.overflows * (TickMax + 1) \in Nat
      BY <2>1, StateType, Rounds
    <3> DEFINE base == sched.overflows * (TickMax + 1)
    <3>5. Now(sched) = base + sched.tick /\ d.due = base + d.wake /\ base \in Nat
      BY <3>3, <3>4 DEF Now
    <3> HIDE DEF base
    <3>6. d.due > Now(sched)
      BY <3>2, <3>3, <3>5
    <3> QED BY <3>3, <3>6
  <2> QED BY <2>1, <2>2 DEF Dated, Punctual
<1> QED BY <1>1, CoreHolds, PTL

(* The handler that injects a group of events looks for room once, and every  *)
(* event of the group finds a place (InputEventInjectFromISR)                 *)
THEOREM GroupsWholeHolds == Spec => []GroupsWhole
<1>1. Core => GroupsWhole
  BY DEF Core, Injecting, GroupsWhole
<1> QED BY <1>1, CoreHolds, PTL

----------------------------------------------------------------------------
(* The ring of items                                                          *)

(* i places after place r                                                     *)
Shift(r, i) == IF r + i >= EventQueueSize THEN r + i - EventQueueSize ELSE r + i

LEMMA ShiftIs ==
  ASSUME NEW r \in Place, NEW i \in 0 .. EventQueueSize
  PROVE  /\ Shift(r, i) \in Place /\ Following(r) = Shift(r, 1)
         /\ i > 0 => (r + i) % EventQueueSize = Shift(r, i)
         /\ i < EventQueueSize =>
              /\ Shift(Following(r), i) = Shift(r, i + 1)
              /\ Following(Shift(r, i)) = Shift(r, i + 1)
<1>1. r \in Nat /\ r < EventQueueSize /\ i \in Nat /\ i <= EventQueueSize
      /\ EventQueueSize \in Nat /\ EventQueueSize > 0
  BY SizeIs DEF Place
<1>2. Shift(r, i) \in Place
  BY <1>1 DEF Shift, Place
<1>3. Following(r) = Shift(r, 1)
  BY <1>1 DEF Shift, Following
<1>4. (r + i) % EventQueueSize = Shift(r, i)
  <2>1. r + i \in Nat /\ r + i < EventQueueSize + EventQueueSize
    BY <1>1
  <2>2. (r + i) % EventQueueSize = IF r + i < EventQueueSize THEN r + i ELSE (r + i) - EventQueueSize
    BY <1>1, <2>1, ModIs
  <2> QED BY <1>1, <2>2 DEF Shift
<1>5. ASSUME i < EventQueueSize
      PROVE  /\ Shift(Following(r), i) = Shift(r, i + 1)
             /\ Following(Shift(r, i)) = Shift(r, i + 1)
  BY <1>1, <1>5 DEF Shift, Following
<1> QED BY <1>2, <1>3, <1>4, <1>5

LEMMA ShiftInjective ==
  ASSUME NEW r \in Place, NEW i \in 1 .. EventQueueSize, NEW j \in 1 .. EventQueueSize,
         Shift(r, i) = Shift(r, j)
  PROVE  i = j
BY SizeIs DEF Shift, Place

Ring(q) == q.pcWriteTo = Shift(Following(q.pcReadFrom), q.uxMessagesWaiting)

SameItems(q, r) ==
  /\ r.store = q.store /\ r.pcWriteTo = q.pcWriteTo /\ r.pcReadFrom = q.pcReadFrom
  /\ r.uxMessagesWaiting = q.uxMessagesWaiting

ItemPut(q, r, item) ==
  /\ r.uxMessagesWaiting = q.uxMessagesWaiting + 1
  /\ r.store = [q.store EXCEPT ![q.pcWriteTo] = item]
  /\ r.pcWriteTo = Following(q.pcWriteTo) /\ r.pcReadFrom = q.pcReadFrom

LEMMA ContentsAre ==
  ASSUME NEW q \in QueueStates
  PROVE  /\ Contents(q) \in Seq(Item \cup {NoItem})
         /\ Len(Contents(q)) = q.uxMessagesWaiting
         /\ \A i \in 1 .. q.uxMessagesWaiting : Contents(q)[i] = q.store[Shift(q.pcReadFrom, i)]
<1> DEFINE n == q.uxMessagesWaiting
           c == [i \in 1 .. n |-> q.store[(q.pcReadFrom + i) % EventQueueSize]]
<1>1. /\ n \in Nat /\ n \in 0 .. EventQueueSize /\ q.pcReadFrom \in Place
      /\ q.store \in [Place -> Item \cup {NoItem}]
  BY QueueType, SizeIs
<1>2. ASSUME NEW i \in 1 .. n
      PROVE  /\ (q.pcReadFrom + i) % EventQueueSize = Shift(q.pcReadFrom, i)
             /\ Shift(q.pcReadFrom, i) \in Place
  <2>1. i \in 0 .. EventQueueSize /\ i > 0
    BY <1>1, SizeIs
  <2> QED BY <1>1, <2>1, ShiftIs
<1>3. Contents(q) = c
  BY DEF Contents
<1> HIDE DEF n
<1>4. \A i \in 1 .. n : c[i] = q.store[Shift(q.pcReadFrom, i)] /\ c[i] \in Item \cup {NoItem}
  BY <1>1, <1>2
<1>5. c \in Seq(Item \cup {NoItem}) /\ Len(c) = n
  BY <1>1, <1>4
<1> QED BY <1>3, <1>4, <1>5 DEF n

LEMMA ItemPutIs ==
  ASSUME NEW q \in QueueStates, NEW r \in QueueStates, Ring(q), NEW item \in Item, ItemPut(q, r, item)
  PROVE  /\ Ring(r) /\ Contents(r) = Append(Contents(q), item)
         /\ Len(Contents(r)) <= EventQueueSize
<1> DEFINE n == q.uxMessagesWaiting
           f == q.pcReadFrom
<1>1. /\ n \in Nat /\ f \in Place /\ Following(f) \in Place
      /\ q.store \in [Place -> Item \cup {NoItem}] /\ q.pcWriteTo \in Place
  BY QueueType, SizeIs, FollowingIs
<1>2. r.uxMessagesWaiting = n + 1 /\ n + 1 <= EventQueueSize /\ n < EventQueueSize
  BY <1>1, QueueType, SizeIs DEF ItemPut
<1>3. /\ n \in 0 .. EventQueueSize /\ n + 1 \in 1 .. EventQueueSize
      /\ EventQueueSize \in Nat
  BY <1>1, <1>2, SizeIs
<1>4. q.pcWriteTo = Shift(f, n + 1)
  <2>1. q.pcWriteTo = Shift(Following(f), n)
    BY DEF Ring
  <2> HIDE DEF n, f
  <2> QED BY <1>1, <1>2, <1>3, <2>1, ShiftIs
<1>5. Ring(r)
  <2>1. q.pcWriteTo = Shift(Following(f), n)
    BY DEF Ring
  <2>2. r.pcReadFrom = f /\ r.pcWriteTo = Following(q.pcWriteTo)
    BY DEF ItemPut
  <2> HIDE DEF n, f
  <2>3. Following(Shift(Following(f), n)) = Shift(Following(f), n + 1)
    BY <1>1, <1>2, <1>3, ShiftIs
  <2> QED BY <1>2, <2>1, <2>2, <2>3 DEF Ring
<1>6. /\ Contents(q) \in Seq(Item \cup {NoItem}) /\ Len(Contents(q)) = n
      /\ \A i \in 1 .. n : Contents(q)[i] = q.store[Shift(f, i)]
  BY ContentsAre
<1>7. /\ Contents(r) \in Seq(Item \cup {NoItem}) /\ Len(Contents(r)) = n + 1
      /\ \A i \in 1 .. n + 1 : Contents(r)[i] = r.store[Shift(f, i)]
  BY <1>2, ContentsAre DEF ItemPut
<1>8. r.store = [q.store EXCEPT ![q.pcWriteTo] = item]
  BY DEF ItemPut
<1> HIDE DEF n, f
<1>9. \A i \in 1 .. n : Contents(r)[i] = Contents(q)[i]
  <2> SUFFICES ASSUME NEW i \in 1 .. n PROVE Contents(r)[i] = Contents(q)[i]
    OBVIOUS
  <2>1. i \in 1 .. EventQueueSize /\ i \in 1 .. n + 1 /\ i # n + 1 /\ i \in 0 .. EventQueueSize
    BY <1>1, <1>2, <1>3
  <2>2. Shift(f, i) \in Place
    BY <1>1, <2>1, ShiftIs
  <2>3. Shift(f, i) # q.pcWriteTo
    BY <1>1, <1>3, <1>4, <2>1, ShiftInjective
  <2>4. r.store[Shift(f, i)] = q.store[Shift(f, i)]
    BY <1>1, <1>8, <2>2, <2>3
  <2> QED BY <1>6, <1>7, <2>1, <2>4
<1>10. Contents(r)[n + 1] = item
  <2>1. n + 1 \in 1 .. n + 1
    BY <1>1
  <2> QED BY <1>1, <1>4, <1>7, <1>8, <2>1
<1>11. Contents(r) = Append(Contents(q), item)
  <2> DEFINE a == Append(Contents(q), item)
  <2>1. /\ a \in Seq(Item \cup {NoItem}) /\ Len(a) = n + 1
        /\ \A i \in 1 .. n : a[i] = Contents(q)[i]
        /\ a[n + 1] = item
    BY <1>6, AppendProperties
  <2> HIDE DEF a
  <2>2. \A i \in 1 .. n + 1 : i \in 1 .. n \/ i = n + 1
    BY <1>1
  <2>3. \A i \in 1 .. n + 1 : a[i] = Contents(r)[i]
    BY <1>9, <1>10, <2>1, <2>2
  <2>4. Contents(r) = a
    BY <1>7, <2>1, <2>3, SeqEqual
  <2> QED BY <2>4 DEF a
<1> QED BY <1>2, <1>5, <1>7, <1>11

LEMMA ItemTakenIs ==
  ASSUME NEW q \in QueueStates, NEW r \in QueueStates, Ring(q), ~ Empty(q), Consumed(q, r)
  PROVE  /\ Ring(r) /\ Len(Contents(q)) >= 1
         /\ SubSeq(Contents(q), 1, 1) = <<NextItem(q)>>
         /\ Contents(r) = SubSeq(Contents(q), 2, Len(Contents(q)))
<1> DEFINE n == q.uxMessagesWaiting
           f == q.pcReadFrom
           g == Following(f)
<1>1. /\ n \in 0 .. EventQueueSize /\ f \in Place /\ g \in Place /\ Following(g) \in Place
      /\ q.store \in [Place -> Item \cup {NoItem}] /\ n # 0
  BY QueueType, SizeIs, FollowingIs DEF Empty
<1>2. n \in Nat /\ n >= 1 /\ n - 1 \in 0 .. EventQueueSize /\ n - 1 < EventQueueSize
      /\ EventQueueSize \in Nat /\ (n - 1) + 1 = n
  BY <1>1, SizeIs
<1>3. r.uxMessagesWaiting = n - 1 /\ r.pcReadFrom = g /\ r.pcWriteTo = q.pcWriteTo
      /\ r.store = [q.store EXCEPT ![g] = NoItem]
  BY DEF Consumed
<1>4. q.pcWriteTo = Shift(g, n)
  BY DEF Ring
<1>5. /\ Contents(q) \in Seq(Item \cup {NoItem}) /\ Len(Contents(q)) = n
      /\ \A i \in 1 .. n : Contents(q)[i] = q.store[Shift(f, i)]
  BY ContentsAre
<1>6. /\ Contents(r) \in Seq(Item \cup {NoItem}) /\ Len(Contents(r)) = n - 1
      /\ \A i \in 1 .. n - 1 : Contents(r)[i] = r.store[Shift(g, i)]
  <2>1. /\ Contents(r) \in Seq(Item \cup {NoItem}) /\ Len(Contents(r)) = r.uxMessagesWaiting
        /\ \A i \in 1 .. r.uxMessagesWaiting : Contents(r)[i] = r.store[Shift(r.pcReadFrom, i)]
    BY ContentsAre
  <2> QED BY <1>3, <2>1
<1>7. NextItem(q) = q.store[g]
  BY DEF NextItem
<1>70. g = Shift(f, 1)
  BY <1>1, ShiftIs
<1> HIDE DEF n, g, f
<1>8. Ring(r)
  <2>1. Shift(Following(g), n - 1) = Shift(g, (n - 1) + 1)
    BY <1>1, <1>2, ShiftIs
  <2> QED BY <1>2, <1>3, <1>4, <2>1 DEF Ring
<1>9. \A i \in 1 .. n - 1 : Contents(r)[i] = Contents(q)[i + 1]
  <2> SUFFICES ASSUME NEW i \in 1 .. n - 1 PROVE Contents(r)[i] = Contents(q)[i + 1]
    OBVIOUS
  <2>1. /\ i \in 0 .. EventQueueSize /\ i < EventQueueSize /\ i + 1 \in 1 .. n
        /\ i + 1 \in 0 .. EventQueueSize /\ i + 1 \in 1 .. EventQueueSize /\ 1 \in 1 .. EventQueueSize
        /\ i + 1 # 1
    BY <1>1, <1>2
  <2>2. Shift(g, i) = Shift(f, i + 1)
    BY <1>1, <2>1, ShiftIs DEF g
  <2>3. Shift(f, i + 1) \in Place
    BY <1>1, <2>1, ShiftIs
  <2>4. Shift(f, i + 1) # g
    BY <1>1, <1>70, <2>1, ShiftInjective
  <2>5. r.store[Shift(g, i)] = q.store[Shift(f, i + 1)]
    BY <1>1, <1>3, <2>2, <2>3, <2>4
  <2> QED BY <1>5, <1>6, <2>1, <2>5
<1>10. SubSeq(Contents(q), 1, 1) = <<NextItem(q)>>
  <2> DEFINE c == SubSeq(Contents(q), 1, 1)
  <2>1. 1 \in 1 .. n
    BY <1>2
  <2>2. Contents(q)[1] = NextItem(q)
    BY <1>5, <1>7, <1>70, <2>1
  <2>3. Len(c) = 1 /\ c[1] = Contents(q)[1] /\ c \in Seq(Item \cup {NoItem})
    BY <1>2, <1>5, SubSeqProperties
  <2> HIDE DEF c
  <2>4. c = <<NextItem(q)>>
    BY <2>2, <2>3
  <2> QED BY <2>4 DEF c
<1>11. Contents(r) = SubSeq(Contents(q), 2, n)
  <2> DEFINE c == SubSeq(Contents(q), 2, n)
  <2>1. /\ c \in Seq(Item \cup {NoItem}) /\ Len(c) = n - 1
        /\ \A i \in 1 .. n - 1 : c[i] = Contents(q)[i + 1]
    <3>1. 2 \in 1 .. n + 1 /\ n \in 1 .. n
      BY <1>2
    <3>2. Len(c) = IF 2 <= n THEN n - 2 + 1 ELSE 0
      BY <1>2, <1>5, <3>1, SubSeqProperties
    <3>3. \A i \in 1 .. n - 2 + 1 : c[i] = Contents(q)[2 + i - 1]
      BY <1>2, <1>5, <3>1, SubSeqProperties
    <3>4. c \in Seq(Item \cup {NoItem})
      BY <1>2, <1>5, <3>1, SubSeqProperties
    <3> HIDE DEF c
    <3>5. Len(c) = n - 1
      BY <1>2, <3>2
    <3>6. ASSUME NEW i \in 1 .. n - 1 PROVE c[i] = Contents(q)[i + 1]
      <4>1. i \in 1 .. n - 2 + 1 /\ 2 + i - 1 = i + 1
        BY <1>2
      <4> QED BY <3>3, <4>1
    <3> QED BY <3>4, <3>5, <3>6
  <2> HIDE DEF c
  <2>2. Contents(r) = c
    BY <1>6, <1>9, <2>1, SeqEqual
  <2> QED BY <2>2 DEF c
<1> QED BY <1>2, <1>5, <1>8, <1>10, <1>11

----------------------------------------------------------------------------
(* what a step does to the items                                              *)
QueueStep ==
  \/ SameItems(queue, queue') /\ got' = got
  \/ \E item \in Item : ItemPut(queue, queue', item) /\ got' = got
  \/ ~ Empty(queue) /\ Consumed(queue, queue') /\ got' = <<NextItem(queue)>>

LEMMA QueueStepIs == ASSUME Core, [Next]_vars PROVE QueueStep
<1> USE DEF QueueStep
<1>0. queue \in QueueStates /\ queue.cTxLock \in Int
  BY CoreIs
<1>1. ASSUME queue' = queue, got' = got PROVE QueueStep
  BY <1>1 DEF SameItems
<1>2. CASE Begin
  BY <1>1, <1>2 DEF Begin
<1>3. CASE Receive
  <2>1. CASE Empty(queue) /\ NotYet
    BY <1>1, <2>1 DEF NotYet, Quiet
  <2>2. CASE /\ ~ Empty(queue) /\ got' = <<NextItem(queue)>>
             /\ queue' = DataRemoved(queue)
    BY <1>0, <2>2, RemovedIs
  <2> QED BY <1>3, <2>1, <2>2 DEF Receive
<1>4. CASE Send
  <2>1. CASE Full(queue) /\ NotYet
    BY <1>1, <2>1 DEF NotYet, Quiet
  <2>2. CASE /\ ~ Full(queue) /\ posted < MaxItems /\ posted' = posted + 1
             /\ queue' = CopyDataToQueue(queue, posted') /\ got' = got
    <3>1. posted' \in Item
      BY <2>2, CoreIs, SizeIs DEF Item
    <3>2. Copied(queue, queue', posted')
      BY <1>0, <2>2, <3>1, CopyIs
    <3>3. ItemPut(queue, queue', posted')
      BY <3>2 DEF Copied, ItemPut
    <3> QED BY <2>2, <3>1, <3>3
  <2> QED BY <1>4, <2>1, <2>2 DEF Send
<1>5. CASE SuspendAll
  BY <1>1, <1>5 DEF SuspendAll, Quiet
<1>6. CASE LockQueue
  <2>1. queue' = prvLockQueue(queue) /\ got' = got
    BY <1>6 DEF LockQueue, Quiet
  <2>2. SameItems(queue, queue')
    BY <1>0, <2>1, LockQueueIs DEF SameItems
  <2> QED BY <2>1, <2>2
<1>7. CASE Check
  BY <1>1, <1>7 DEF Check, Quiet
<1>8. CASE Delay
  BY <1>1, <1>8 DEF Delay, Quiet
<1>9. CASE UnlockTx
  <2>1. queue' = [queue EXCEPT !.cTxLock = queueUNLOCKED] /\ got' = got
    BY <1>9 DEF UnlockTx, Quiet
  <2>2. SameItems(queue, queue')
    BY <1>0, <2>1 DEF SameItems, QueueStates
  <2> QED BY <2>1, <2>2
<1>10. CASE UnlockRx
  <2>1. queue' = [queue EXCEPT !.cRxLock = queueUNLOCKED] /\ got' = got
    BY <1>10 DEF UnlockRx, Quiet
  <2>2. SameItems(queue, queue')
    BY <1>0, <2>1 DEF SameItems, QueueStates
  <2> QED BY <2>1, <2>2
<1>11. CASE Resume
  BY <1>1, <1>11 DEF Resume, Quiet
<1>12. CASE Yield
  BY <1>1, <1>12 DEF Yield, Quiet
<1>13. CASE Recheck
  BY <1>1, <1>13 DEF Recheck, Quiet
<1>14. CASE InputEventInjectFromISR
  BY <1>1, <1>14 DEF InputEventInjectFromISR
<1>15. CASE xQueueSendFromISR
  <2>1. got' = got
    BY <1>15 DEF xQueueSendFromISR
  <2>2. posted' \in Item
    BY <1>15, SendFromISRIs
  <2>3. ItemPut(queue, queue', posted')
    <3>1. CASE queue.cTxLock # -1
      <4>1. PICK q \in QueueStates : Copied(queue, q, posted') /\ TxLocked(q, queue', queue.cTxLock + 1)
        BY <1>15, <3>1, SendFromISRIs
      <4> QED BY <4>1 DEF Copied, TxLocked, ItemPut
    <3>2. CASE queue.cTxLock = -1
      <4>1. Copied(queue, queue', posted')
        BY <1>15, <3>2, SendFromISRIs
      <4> QED BY <4>1 DEF Copied, ItemPut
    <3> QED BY <3>1, <3>2
  <2> QED BY <2>1, <2>2, <2>3
<1>16. CASE Tick
  BY <1>1, <1>16 DEF Tick, Quiet
<1>17. CASE Leave
  BY <1>1, <1>17 DEF Leave, Quiet
<1>18. CASE UNCHANGED vars
  BY <1>1, <1>18 DEF vars
<1> QED BY <1>2, <1>3, <1>4, <1>5, <1>6, <1>7, <1>8, <1>9, <1>10, <1>11,
           <1>12, <1>13, <1>14, <1>15, <1>16, <1>17, <1>18 DEF Next

Ringed == Ring(queue)

LEMMA InitRinged == ASSUME Init PROVE Ringed /\ Contents(queue) = <<>>
<1>1. queue = NewQueue
  BY DEF Init
<1>2. queue \in QueueStates /\ queue.uxMessagesWaiting = 0 /\ queue.pcWriteTo = 0
      /\ queue.pcReadFrom = EventQueueSize - 1
  BY <1>1, NewQueueIs
<1>3. Ringed
  BY <1>2, SizeIs DEF Ringed, Ring, Shift, Following
<1>4. Contents(queue) \in Seq(Item \cup {NoItem}) /\ Len(Contents(queue)) = 0
  BY <1>2, ContentsAre
<1> QED BY <1>3, <1>4

LEMMA SameItemsAre ==
  ASSUME NEW q, NEW r, SameItems(q, r)
  PROVE  (Ring(q) => Ring(r)) /\ Contents(r) = Contents(q)
BY DEF SameItems, Ring, Contents

LEMMA NextRinged == ASSUME Core, Core', Ringed, [Next]_vars PROVE Ringed'
<1>1. queue \in QueueStates /\ queue' \in QueueStates /\ Ring(queue)
  BY DEF Core, Locked, Ringed
<1>2. QueueStep
  BY QueueStepIs
<1>3. CASE SameItems(queue, queue')
  BY <1>1, <1>3, SameItemsAre DEF Ringed
<1>4. CASE \E item \in Item : ItemPut(queue, queue', item)
  BY <1>1, <1>4, ItemPutIs DEF Ringed
<1>5. CASE ~ Empty(queue) /\ Consumed(queue, queue')
  BY <1>1, <1>5, ItemTakenIs DEF Ringed
<1> QED BY <1>2, <1>3, <1>4, <1>5 DEF QueueStep

LEMMA FifoStep ==
  ASSUME Core, Core', Ringed, [Next]_vars
  PROVE  [Fifo!Put \/ Fifo!Take]_(Fifo!vars)
<1>1. queue \in QueueStates /\ queue' \in QueueStates /\ Ring(queue)
  BY DEF Core, Locked, Ringed
<1>2. QueueStep
  BY QueueStepIs
<1>3. CASE SameItems(queue, queue') /\ got' = got
  <2>1. Contents(queue') = Contents(queue)
    BY <1>3, SameItemsAre
  <2> QED BY <1>3, <2>1 DEF Fifo!vars
<1>4. CASE \E item \in Item : ItemPut(queue, queue', item) /\ got' = got
  <2>1. PICK item \in Item : ItemPut(queue, queue', item) /\ got' = got
    BY <1>4
  <2>2. Contents(queue') = Append(Contents(queue), item) /\ Len(Contents(queue')) <= EventQueueSize
    BY <1>1, <2>1, ItemPutIs
  <2> DEFINE new == <<item>>
  <2>3. 1 \in 1 .. EventQueueSize /\ new \in [1 .. 1 -> Item]
    BY SizeIs
  <2>4. Contents(queue') = Contents(queue) \o new
    <3>1. Contents(queue) \in Seq(Item \cup {NoItem}) /\ item \in Item \cup {NoItem}
      BY <1>1, ContentsAre
    <3> QED BY <2>2, <3>1, AppendIsConcat
  <2> HIDE DEF new
  <2>5. \E k \in 1 .. EventQueueSize : \E x \in [1 .. k -> Item] :
          /\ Contents(queue') = Contents(queue) \o x
          /\ Len(Contents(queue')) <= EventQueueSize
          /\ UNCHANGED got
    BY <2>1, <2>2, <2>3, <2>4
  <2>6. Fifo!Put
    BY <2>5 DEF Fifo!Put
  <2> QED BY <2>6
<1>5. CASE ~ Empty(queue) /\ Consumed(queue, queue') /\ got' = <<NextItem(queue)>>
  <2>1. /\ Len(Contents(queue)) >= 1
        /\ SubSeq(Contents(queue), 1, 1) = <<NextItem(queue)>>
        /\ Contents(queue') = SubSeq(Contents(queue), 2, Len(Contents(queue)))
    BY <1>1, <1>5, ItemTakenIs
  <2>2. Len(Contents(queue)) \in Nat
    BY <1>1, ContentsAre
  <2>3. 1 \in 1 .. Len(Contents(queue)) /\ 1 + 1 = 2
    BY <2>1, <2>2
  <2>4. \E n \in 1 .. Len(Contents(queue)) :
          /\ got' = SubSeq(Contents(queue), 1, n)
          /\ Contents(queue') = SubSeq(Contents(queue), n + 1, Len(Contents(queue)))
    BY <1>5, <2>1, <2>3
  <2>5. Fifo!Take
    BY <2>4 DEF Fifo!Take
  <2> QED BY <2>5
<1> QED BY <1>2, <1>3, <1>4, <1>5 DEF QueueStep

(* A queue delivers every item once and in the order it was sent, whoever     *)
(* sends, and although items come from interrupts while tasks hold the queue  *)
(* locked (prvCopyDataToQueue, prvCopyDataFromQueue)                          *)
THEOREM DeliversInOrderHolds == Spec => DeliversInOrder
<1>1. Init => Ringed /\ Fifo!Init
  <2>1. ASSUME Init PROVE Ringed /\ Fifo!Init
    <3>1. got = <<>>
      BY <2>1 DEF Init
    <3> QED BY <2>1, <3>1, InitRinged DEF Fifo!Init
  <2> QED BY <2>1
<1>2. Core /\ Core' /\ Ringed /\ [Next]_vars => Ringed'
  BY NextRinged
<1>3. Core /\ Core' /\ Ringed /\ [Next]_vars => [Fifo!Put \/ Fifo!Take]_(Fifo!vars)
  BY FifoStep
<1> QED BY <1>1, <1>2, <1>3, CoreHolds, PTL DEF Spec, DeliversInOrder, Fifo!Spec

----------------------------------------------------------------------------
(* Time does not go back                                                      *)

LEMMA NowIs ==
  ASSUME NEW s \in SchedStates
  PROVE  /\ Now(s) \in Nat /\ s.overflows \in Nat /\ s.tick \in 0 .. TickMax
         /\ Now(s) = s.overflows * (TickMax + 1) + s.tick
<1>1. s.overflows \in Nat /\ s.tick \in 0 .. TickMax
  BY StateType
<1>2. s.overflows * (TickMax + 1) \in Nat
  BY <1>1, Rounds
<1> QED BY <1>1, <1>2 DEF Now

LEMMA SameClockNow ==
  ASSUME NEW s, NEW r, SameClock(s, r) PROVE Now(r) = Now(s)
BY DEF SameClock, Now

LEMMA DelaySched == ASSUME Core, Delay PROVE FallsAsleep(sched, sched', cur)
<1> DEFINE b == call[cur]
<1>1. /\ At("delay") /\ sched' = AddCurrentTaskToDelayedList(sched, b.ticks, FALSE)
  BY DEF Delay
<1>2. cur # Idle /\ sched.isr = "none" /\ pc[cur] = "delay"
  BY <1>1, NotIdle DEF At
<1>3. cur \in Task /\ LocalFits(pc[cur], b) /\ Lists(sched) /\ OnTime(sched)
  BY CoreIs
<1>4. b.kind = "delay" /\ b.ticks > 0 /\ b \in Local
  BY <1>2, <1>3 DEF LocalFits
<1>5. b.ticks \in 1 .. TickMax
  <2>1. b.ticks \in 0 .. TickMax
    BY <1>4 DEF Local
  <2> QED BY <1>4, <2>1, Ticks
<1>6. IsReady(sched, cur)
  BY <1>2, ReadyAt DEF Blocks
<1>7. MaySleep(sched, cur, FALSE)
  <2>1. Placed(sched, cur) /\ Formed(sched) /\ sched.cur = cur
    BY <1>3 DEF Lists, cur
  <2>2. ~ Dormant(sched, cur) /\ ~ Held(sched, cur)
    BY <1>6, <2>1 DEF Placed
  <2> QED BY <1>3, <1>6, <2>1, <2>2 DEF MaySleep, Lists, Placed
<1>8. FallsAsleep(sched, sched', cur)
  <2>1. FALSE \in BOOLEAN
    OBVIOUS
  <2> QED BY <1>1, <1>3, <1>5, <1>7, <2>1, SleepIs
<1> QED BY <1>8

LEMMA DelayNow == ASSUME Core, Delay PROVE Now(sched') = Now(sched)
BY DelaySched, SameClockNow DEF FallsAsleep

(* what Check makes of the scheduler                                          *)
LEMMA CheckSched ==
  ASSUME Core, Check
  PROVE  IF MustWait THEN Waits(sched, sched', WaitList) ELSE sched' = sched
<1> DEFINE b == call[cur]
<1>1. /\ At("check")
      /\ sched' = IF MustWait THEN vTaskPlaceOnEventList(sched, WaitList, b.wait) ELSE sched
  BY DEF Check
<1>2. cur # Idle /\ sched.isr = "none" /\ pc[cur] = "check"
  BY <1>1, NotIdle DEF At
<1>3. /\ cur \in Task /\ LocalFits(pc[cur], b) /\ Lists(sched) /\ OnTime(sched)
  BY CoreIs
<1>4. b.kind # "delay" /\ b.wait > 0 /\ b \in Local
  BY <1>2, <1>3 DEF LocalFits
<1>5. b.wait \in 1 .. TickMax
  <2>1. b.wait \in 0 .. TickMax
    BY <1>4 DEF Local
  <2> QED BY <1>4, <2>1, Ticks
<1>6. IsReady(sched, cur)
  BY <1>2, ReadyAt DEF Blocks
<1>7. WaitList \in EventList
  BY EventLists DEF WaitList
<1>8. CASE MustWait
  <2>1. Waits(sched, sched', WaitList)
    BY <1>1, <1>3, <1>5, <1>6, <1>7, <1>8, PlaceIs DEF cur
  <2> QED BY <1>8, <2>1
<1>9. CASE ~ MustWait
  BY <1>1, <1>9
<1> QED BY <1>8, <1>9

LEMMA ResumeSched ==
  ASSUME Core, Resume
  PROVE  Goes(sched, sched') /\ Now(sched') >= Now(sched)
<1>1. At("resume") /\ sched' = xTaskResumeAll(sched)
  BY DEF Resume
<1>2. sched.isr = "none" /\ pc[cur] = "resume" /\ pc[cur] \in Inside
  BY <1>1 DEF At, Inside
<1>3. /\ Idle \in Task /\ Lists(sched) /\ OnTime(sched) /\ Phase(sched, pc, call)
      /\ IsReady(sched, Idle) /\ ~ Higher(sched)
  BY <1>2, CoreIs DEF Core, Chosen
<1>4. sched.suspended = 1
  BY <1>2, <1>3 DEF Phase, cur
<1> QED BY <1>1, <1>3, <1>4, ResumeAllIs

LEMMA YieldSched ==
  ASSUME Core, Yield
  PROVE  Goes(sched, sched') /\ Now(sched') >= Now(sched)
<1>1. At("yield") /\ sched' = vTaskSwitchContext(sched)
  BY DEF Yield
<1>2. sched.isr = "none" /\ pc[cur] = "yield" /\ pc[cur] \notin Inside
  BY <1>1 DEF At, Inside
<1>3. /\ Idle \in Task /\ Lists(sched) /\ OnTime(sched) /\ Phase(sched, pc, call)
      /\ IsReady(sched, Idle)
  BY <1>2, CoreIs DEF Core
<1>4. sched.suspended = 0
  BY <1>2, <1>3 DEF Phase, cur
<1>5. Advances(sched, sched')
  BY <1>1, <1>2, <1>3, <1>4, SwitchSettles
<1> QED BY <1>5 DEF Advances

LEMMA UnlockTxSched ==
  ASSUME Core, UnlockTx
  PROVE  /\ sched' \in Waking(sched, Receivers)
         /\ sched'.events[Receivers] # <<>> =>
              /\ IsFiniteSet(Left(sched, sched', Receivers))
              /\ Cardinality(Left(sched, sched', Receivers)) = queue.cTxLock
<1>1. At("unlockTx") /\ sched' = WakeMany(sched, Receivers, queue.cTxLock)
  BY DEF UnlockTx
<1>2. pc[cur] = "unlockTx" /\ pc[cur] \in Inside
  BY <1>1 DEF At, Inside
<1>3. /\ cur \in Task /\ Settled(sched) /\ queue.cTxLock \in Int
      /\ Phase(sched, pc, call) /\ Locked(pc, queue)
  BY CoreIs DEF Core
<1>4. queue.cTxLock \in Nat
  BY <1>2, <1>3 DEF Locked
<1>5. sched.suspended = 1
  BY <1>2, <1>3 DEF Phase, cur
<1> QED BY <1>1, <1>3, <1>4, <1>5, EventLists, WakeManyIs

LEMMA UnlockRxSched ==
  ASSUME Core, UnlockRx
  PROVE  /\ sched' \in Waking(sched, Senders) /\ queue.cRxLock = 0
<1>1. At("unlockRx") /\ sched' = WakeMany(sched, Senders, queue.cRxLock)
  BY DEF UnlockRx
<1>2. pc[cur] = "unlockRx" /\ pc[cur] \in Inside
  BY <1>1 DEF At, Inside
<1>3. /\ cur \in Task /\ Settled(sched) /\ Phase(sched, pc, call) /\ Locked(pc, queue)
  BY CoreIs DEF Core
<1>4. queue.cRxLock = 0 /\ 0 \in Nat
  BY <1>2, <1>3 DEF Locked
<1>5. sched.suspended = 1
  BY <1>2, <1>3 DEF Phase, cur
<1> QED BY <1>1, <1>3, <1>4, <1>5, EventLists, WakeManyIs

LEMMA SuspendSched ==
  ASSUME Core, SuspendAll
  PROVE  Now(sched') = Now(sched) /\ SameLists(sched, sched')
<1>1. At("suspend") /\ sched' = vTaskSuspendAll(sched)
  BY DEF SuspendAll
<1>2. sched.isr = "none" /\ pc[cur] = "suspend" /\ pc[cur] \notin Inside
  BY <1>1 DEF At, Inside
<1>3. Settled(sched) /\ Phase(sched, pc, call)
  BY CoreIs DEF Core
<1>4. sched.suspended = 0
  BY <1>2, <1>3 DEF Phase, cur
<1> QED BY <1>1, <1>2, <1>3, <1>4, SuspendIs

LEMMA EnterSched ==
  ASSUME Core, InputEventInjectFromISR
  PROVE  Moves(sched, sched') /\ sched'.events = sched.events
<1>1. sched.isr = "none" /\ sched' = [sched EXCEPT !.isr = "running"]
  BY DEF InputEventInjectFromISR
<1>2. Settled(sched)
  BY DEF Core
<1> QED BY <1>1, <1>2, EnterIs

LEMMA NowStep ==
  ASSUME Core, Core', [Next]_vars
  PROVE  /\ Now(sched) \in Nat /\ Now(sched') \in Nat /\ Now(sched') >= Now(sched)
<1>1. Now(sched) \in Nat /\ sched \in SchedStates
  BY CoreIs, NowIs
<1>2. Now(sched') \in Nat
  <2>1. Settled(sched')
    BY DEF Core
  <2> QED BY <2>1, SettledState, NowIs DEF Settled
<1> SUFFICES Now(sched') >= Now(sched)
  BY <1>1, <1>2
<1>3. ASSUME sched' = sched PROVE Now(sched') >= Now(sched)
  BY <1>1, <1>3
<1>4. ASSUME Moves(sched, sched') PROVE Now(sched') >= Now(sched)
  BY <1>4 DEF Moves
<1>5. CASE Begin \/ LockQueue \/ Recheck \/ UNCHANGED vars
  BY <1>3, <1>5 DEF Begin, LockQueue, Recheck, vars
<1>6. CASE Receive
  <2>1. CASE NotYet
    BY <1>3, <2>1 DEF NotYet
  <2>2. CASE sched' = WakeFirst(sched, Senders)
    <3>1. At("try")
      BY <1>6 DEF Receive
    <3> QED BY <1>4, <2>2, <3>1, WokenFirst, EventLists
  <2> QED BY <1>6, <2>1, <2>2 DEF Receive
<1>7. CASE Send
  <2>1. CASE NotYet
    BY <1>3, <2>1 DEF NotYet
  <2>2. CASE sched' = WakeFirst(sched, Receivers)
    <3>1. At("try")
      BY <1>7 DEF Send
    <3> QED BY <1>4, <2>2, <3>1, WokenFirst, EventLists
  <2> QED BY <1>7, <2>1, <2>2 DEF Send
<1>8. CASE SuspendAll
  BY <1>1, <1>2, <1>8, SuspendSched
<1>9. CASE Check
  <2>1. CASE MustWait
    <3>1. Waits(sched, sched', WaitList)
      BY <1>9, <2>1, CheckSched
    <3>2. Now(sched') = Now(sched)
      BY <3>1, SameClockNow DEF Waits
    <3> QED BY <1>1, <3>2
  <2>2. CASE ~ MustWait
    BY <1>3, <1>9, <2>2, CheckSched
  <2> QED BY <2>1, <2>2
<1>10. CASE Delay
  BY <1>1, <1>2, <1>10, DelayNow
<1>11. CASE UnlockTx
  BY <1>4, <1>11, UnlockTxSched DEF Waking
<1>12. CASE UnlockRx
  BY <1>4, <1>12, UnlockRxSched DEF Waking
<1>13. CASE Resume
  BY <1>13, ResumeSched
<1>14. CASE Yield
  BY <1>14, YieldSched
<1>15. CASE InputEventInjectFromISR
  BY <1>4, <1>15, EnterSched
<1>16. CASE xQueueSendFromISR
  BY <1>4, <1>16, SendFromISRIs
<1>17. CASE Tick \/ Leave
  BY <1>4, <1>17, TickCore, LeaveCore
<1> QED BY <1>1, <1>2, <1>5, <1>6, <1>7, <1>8, <1>9, <1>10, <1>11, <1>12, <1>13,
           <1>14, <1>15, <1>16, <1>17 DEF Next

----------------------------------------------------------------------------
(* Time-outs                                                                  *)

Began(o) == o.overflows * (TickMax + 1) + o.entering

LEMMA RoundsGrow ==
  ASSUME NEW j \in Nat, NEW k \in Nat, j < k
  PROVE  j * (TickMax + 1) + (TickMax + 1) <= k * (TickMax + 1)
<1> DEFINE m == TickMax + 1
<1>1. m \in Nat
  BY Ticks
<1>2. \A a, b \in Nat : a < b => a * m + m <= b * m
  <2> HIDE DEF m
  <2>1. \A d \in Nat : d * m \in Nat
    BY <1>1
  <2>2. \A a, d \in Nat : (a + 1 + d) * m = a * m + m + d * m
    BY <1>1
  <2> SUFFICES ASSUME NEW a \in Nat, NEW b \in Nat, a < b PROVE a * m + m <= b * m
    OBVIOUS
  <2> DEFINE d == b - (a + 1)
  <2>3. d \in Nat /\ b = a + 1 + d
    OBVIOUS
  <2>4. b * m = a * m + m + d * m /\ d * m \in Nat /\ a * m \in Nat
    <3> HIDE DEF d
    <3> QED BY <2>1, <2>2, <2>3
  <2> QED BY <2>4, <1>1
<1> QED BY <1>2

(* xTaskCheckForTimeOut knows how much time has passed at least               *)
LEMMA ElapsedIs ==
  ASSUME sched \in SchedStates, NEW o \in TimeOut, Began(o) <= Now(sched)
  PROVE  /\ Began(o) \in Nat /\ ElapsedSince(o) \in 0 .. TickMax
         /\ Began(o) + ElapsedSince(o) <= Now(sched)
         /\ WrappedPast(o) => Began(o) + TickMax < Now(sched)
<1> DEFINE m == TickMax + 1
           a == sched.overflows
           b == o.overflows
           t == sched.tick
           e == o.entering
           am == a * (TickMax + 1)
           bm == b * (TickMax + 1)
<1>1. a \in Nat /\ t \in 0 .. TickMax /\ b \in Nat /\ e \in 0 .. TickMax
  BY NowIs DEF TimeOut
<1>2. TickMax \in Nat /\ m \in Nat /\ m > 0 /\ am \in Nat /\ bm \in Nat
  BY <1>1, Ticks, Rounds
<1>3. Now(sched) = am + t /\ Began(o) = bm + e
  BY NowIs DEF Began
<1>4. (a < b => am + m <= bm) /\ (b < a => bm + m <= am)
  BY <1>1, RoundsGrow
<1>5. a = b => am = bm
  OBVIOUS
<1>6. ElapsedSince(o) = (t - e) % m /\ (WrappedPast(o) <=> a # b /\ t >= e)
  BY DEF ElapsedSince, TickType, WrappedPast
<1>7. bm + e <= am + t
  BY <1>3
<1> HIDE DEF a, b, t, e, am, bm
<1>8. b <= a
  BY <1>1, <1>2, <1>4, <1>7
<1>9. (t - e) % m = IF t >= e THEN t - e ELSE t - e + m
  <2>1. CASE t >= e
    <3>1. t - e \in Nat /\ t - e < m
      BY <1>1, <1>2, <2>1
    <3> HIDE DEF m
    <3>2. (t - e) % m = t - e
      BY <1>2, <3>1, ModIs
    <3> QED BY <2>1, <3>2
  <2>2. CASE ~ (t >= e)
    <3>1. t - e \in Int /\ t - e < 0 /\ (t - e) + m >= 0
      BY <1>1, <1>2, <2>2
    <3> HIDE DEF m
    <3>2. \A k \in Int : k < 0 /\ k + m >= 0 => k % m = k + m
      BY <1>2
    <3>3. (t - e) % m = (t - e) + m
      BY <3>1, <3>2
    <3> QED BY <1>1, <1>2, <2>2, <3>3
  <2> QED BY <2>1, <2>2
<1> DEFINE x == IF t >= e THEN t - e ELSE t - e + m
<1>10. x \in 0 .. TickMax /\ bm + e + x <= am + t /\ bm + e \in Nat
  <2>1. CASE t >= e
    BY <1>1, <1>2, <1>4, <1>5, <1>7, <1>8, <2>1
  <2>2. CASE ~ (t >= e)
    <3>1. b < a
      BY <1>1, <1>2, <1>5, <1>7, <1>8, <2>2
    <3> QED BY <1>1, <1>2, <1>4, <2>2, <3>1
  <2> QED BY <2>1, <2>2
<1>11. ASSUME a # b, t >= e PROVE bm + e + TickMax < am + t
  <2>1. b < a
    BY <1>1, <1>8, <1>11
  <2> QED BY <1>1, <1>2, <1>4, <1>11, <2>1
<1> QED BY <1>3, <1>6, <1>9, <1>10, <1>11

(* what the local variables of a call say about the time it has waited: a     *)
(* time-out ends no sooner than the call is to wait, and a call that has no   *)
(* time left has waited that long                                             *)
Keeps(s, c) ==
  /\ Began(c.timeout) <= Now(s)
  /\ c.wait \notin {0, TickMax} => c.since + c.ticks <= Began(c.timeout) + c.wait
Over(s, c) == c.since + c.ticks <= Now(s)

TimeFits(s, a, c) ==
  a # "idle" /\ c.kind # "delay" =>
    /\ c.since <= Now(s)
    /\ IF c.timed THEN Keeps(s, c) ELSE c.wait = c.ticks
    /\ c.wait = 0 => Over(s, c)
    /\ a = "recheck" => Over(s, c)
    /\ a \in {"unlockTx", "unlockRx", "resume"} /\ c.then = "expired" => Over(s, c)
    /\ a \in {"suspend", "lock"} => c.timed

TimeInv == \A t \in Task : TimeFits(sched, pc[t], call[t])

LEMMA LocalType ==
  ASSUME NEW c \in Local
  PROVE  /\ c.ticks \in 0 .. TickMax /\ c.wait \in 0 .. TickMax /\ c.timed \in BOOLEAN
         /\ c.timeout \in TimeOut /\ c.since \in Nat /\ c.n \in 1 .. MaxItems
         /\ c.ticks \in Nat /\ c.wait \in Nat /\ Began(c.timeout) \in Nat
<1>1. /\ c.ticks \in 0 .. TickMax /\ c.wait \in 0 .. TickMax /\ c.timed \in BOOLEAN
      /\ c.timeout \in TimeOut /\ c.since \in Nat /\ c.n \in 1 .. MaxItems
  BY DEF Local
<1>2. c.timeout.overflows * (TickMax + 1) \in Nat /\ c.timeout.entering \in Nat
  BY <1>1, Rounds, Ticks DEF TimeOut
<1> QED BY <1>1, <1>2, Ticks DEF Began

LEMMA TimeLater ==
  ASSUME NEW s, NEW r, Now(s) \in Nat, Now(r) \in Nat, Now(s) <= Now(r),
         NEW a, NEW c, a # "idle" => c \in Local, TimeFits(s, a, c)
  PROVE  TimeFits(r, a, c)
<1> SUFFICES ASSUME a # "idle", c.kind # "delay" PROVE TimeFits(r, a, c)
  BY DEF TimeFits
<1>1. c \in Local
  OBVIOUS
<1>2. /\ c.since \in Nat /\ c.ticks \in Nat /\ Began(c.timeout) \in Nat
  BY <1>1, LocalType
<1>3. Over(s, c) => Over(r, c)
  BY <1>2 DEF Over
<1>4. Keeps(s, c) => Keeps(r, c)
  BY <1>2 DEF Keeps
<1>5. c.since <= Now(s) => c.since <= Now(r)
  BY <1>2
<1> QED BY <1>3, <1>4, <1>5 DEF TimeFits

(* a step of the current task, or of nobody                                   *)
LEMMA TimeStep ==
  ASSUME Core, Core', TimeInv, [Next]_vars, NEW a, NEW c,
         pc' = [pc EXCEPT ![cur] = a], call' = [call EXCEPT ![cur] = c],
         TimeFits(sched', a, c)
  PROVE  TimeInv'
<1>1. cur \in Task /\ pc \in [Task -> Points] /\ DOMAIN call = Task
  BY CoreIs
<1>2. pc'[cur] = a /\ call'[cur] = c
  BY <1>1
<1>3. \A t \in Task : t # cur => pc'[t] = pc[t] /\ call'[t] = call[t]
  BY <1>1
<1>4. \A t \in Task : TimeFits(sched', pc'[t], call'[t])
  <2> SUFFICES ASSUME NEW t \in Task, t # cur PROVE TimeFits(sched', pc'[t], call'[t])
    BY <1>2
  <2>1. TimeFits(sched, pc[t], call[t]) /\ LocalFits(pc[t], call[t])
    BY CoreIs DEF TimeInv
  <2>2. pc[t] # "idle" => call[t] \in Local
    BY <2>1 DEF LocalFits
  <2>3. TimeFits(sched', pc[t], call[t])
    BY <2>1, <2>2, NowStep, TimeLater
  <2> QED BY <1>3, <2>3
<1> QED BY <1>4 DEF TimeInv

LEMMA TimeQuiet ==
  ASSUME Core, Core', TimeInv, [Next]_vars, pc' = pc, call' = call
  PROVE  TimeInv'
<1> SUFFICES ASSUME NEW t \in Task PROVE TimeFits(sched', pc[t], call[t])
  BY DEF TimeInv
<1>1. TimeFits(sched, pc[t], call[t]) /\ LocalFits(pc[t], call[t])
  BY CoreIs DEF TimeInv
<1>2. pc[t] # "idle" => call[t] \in Local
  BY <1>1 DEF LocalFits
<1> QED BY <1>1, <1>2, NowStep, TimeLater

(* a step of the current task that leaves its local variables alone           *)
LEMMA TimeGoes ==
  ASSUME Core, Core', TimeInv, [Next]_vars, NEW a, pc[cur] # "idle",
         pc' = [pc EXCEPT ![cur] = a], call' = call,
         LET c == call[cur]
         IN  c.kind = "delay" \/
               /\ a = "recheck" => Over(sched, c)
               /\ a \in {"unlockTx", "unlockRx", "resume"} /\ c.then = "expired" => Over(sched, c)
               /\ a \in {"suspend", "lock"} => c.timed
  PROVE  TimeInv'
<1> DEFINE c == call[cur]
<1>1. cur \in Task /\ DOMAIN call = Task /\ LocalFits(pc[cur], c) /\ TimeFits(sched, pc[cur], c)
  BY CoreIs DEF TimeInv
<1>2. c \in Local
  BY <1>1 DEF LocalFits
<1>3. call' = [call EXCEPT ![cur] = c]
  BY <1>1, LocalSame DEF Core
<1>4. c.kind = "delay" \/
               /\ a = "recheck" => Over(sched, c)
               /\ a \in {"unlockTx", "unlockRx", "resume"} /\ c.then = "expired" => Over(sched, c)
               /\ a \in {"suspend", "lock"} => c.timed
  OBVIOUS
<1> HIDE DEF c
<1>5. TimeFits(sched, a, c)
  BY <1>1, <1>4 DEF TimeFits
<1>6. TimeFits(sched', a, c)
  BY <1>2, <1>5, NowStep, TimeLater
<1> QED BY <1>3, <1>6, TimeStep

----------------------------------------------------------------------------
(* A call that waits gives up only when its time is over                      *)

(* one step of NeverEarly                                                     *)
Early(t) ==
  /\ call[t].kind \in {"send", "receive"}
  /\ pc[t] # "idle" /\ pc'[t] = "idle" /\ queue' = queue
  /\ ~ Over(sched, call[t])

LEMMA EarlyCur ==
  ASSUME Core, NEW a, pc' = [pc EXCEPT ![cur] = a],
         a = "idle" /\ pc[cur] # "idle" /\ call[cur].kind # "delay" =>
           queue' # queue \/ Over(sched, call[cur])
  PROVE  \A t \in Task : ~ Early(t)
<1>1. cur \in Task /\ pc \in [Task -> Points]
  BY CoreIs
<1> SUFFICES ASSUME NEW t \in Task, Early(t) PROVE FALSE
  OBVIOUS
<1>2. t = cur /\ a = "idle"
  BY <1>1 DEF Early
<1> QED BY <1>2 DEF Early

LEMMA EarlySame ==
  ASSUME pc' = pc PROVE \A t \in Task : ~ Early(t)
BY DEF Early

(* what the first look at the queue makes of the call if there is nothing yet *)
LEMMA NotYetIs ==
  ASSUME Core, At("try"), NotYet
  PROVE  LET b == call[cur]
         IN  /\ sched' = sched /\ queue' = queue /\ b \in Local /\ b.kind # "delay"
             /\ pc' = [pc EXCEPT ![cur] = IF b.wait = 0 THEN "idle" ELSE "suspend"]
             /\ \E c \in Local :
                  /\ call' = [call EXCEPT ![cur] = c]
                  /\ c.kind = b.kind /\ c.wait = b.wait /\ c.ticks = b.ticks /\ c.then = b.then
                  /\ \/ c = b /\ (b.wait = 0 \/ b.timed)
                     \/ /\ b.wait # 0 /\ ~ b.timed /\ c.timed
                        /\ c.timeout = TimeOutState /\ c.since = Now(sched)
<1> DEFINE b == call[cur]
           y == [b EXCEPT !.timed = TRUE, !.timeout = TimeOutState, !.since = Now(sched)]
           c == IF b.wait = 0 \/ b.timed THEN b ELSE y
<1>1. /\ pc[cur] = "try" /\ sched' = sched /\ queue' = queue
  BY DEF At, NotYet
<1>2. cur \in Task /\ LocalFits(pc[cur], b) /\ DOMAIN call = Task
  BY CoreIs
<1>3. /\ pc' = [pc EXCEPT ![cur] = IF b.wait = 0 THEN "idle" ELSE "suspend"]
      /\ call' = [call EXCEPT ![cur] = c]
  BY <1>2 DEF NotYet, Goto
<1>4. b \in Local /\ b.kind # "delay"
  BY <1>1, <1>2 DEF LocalFits
<1>5. /\ y \in Local /\ y.kind = b.kind /\ y.wait = b.wait /\ y.ticks = b.ticks /\ y.then = b.then
      /\ y.timed /\ y.timeout = TimeOutState /\ y.since = Now(sched)
  BY <1>4, TimeOutStateIs DEF Local
<1>6. c \in Local
  BY <1>4, <1>5
<1> HIDE DEF b, y
<1>7. CASE b.wait = 0 \/ b.timed
  <2>1. c = b
    BY <1>7
  <2> QED BY <1>1, <1>3, <1>4, <1>6, <1>7, <2>1 DEF b
<1>8. CASE ~ (b.wait = 0 \/ b.timed)
  <2>1. c = y /\ b.wait # 0 /\ ~ b.timed
    BY <1>8
  <2> HIDE DEF c
  <2> QED BY <1>1, <1>3, <1>4, <1>5, <1>6, <2>1 DEF b
<1> QED BY <1>7, <1>8

LEMMA NotYetTime ==
  ASSUME Core, Core', TimeInv, [Next]_vars, At("try"), NotYet
  PROVE  TimeInv' /\ \A t \in Task : ~ Early(t)
<1> DEFINE b == call[cur]
           a == IF b.wait = 0 THEN "idle" ELSE "suspend"
<1>1. PICK c \in Local :
         /\ call' = [call EXCEPT ![cur] = c]
         /\ c.kind = b.kind /\ c.wait = b.wait /\ c.ticks = b.ticks /\ c.then = b.then
         /\ \/ c = b /\ (b.wait = 0 \/ b.timed)
            \/ /\ b.wait # 0 /\ ~ b.timed /\ c.timed
               /\ c.timeout = TimeOutState /\ c.since = Now(sched)
  BY NotYetIs
<1>2. /\ sched' = sched /\ b \in Local /\ b.kind # "delay"
      /\ pc' = [pc EXCEPT ![cur] = a] /\ pc[cur] = "try"
  BY NotYetIs DEF At
<1>3. TimeFits(sched, "try", b)
  <2>1. cur \in Task
    BY CoreIs
  <2> QED BY <1>2, <2>1 DEF TimeInv
<1>4. /\ b.since <= Now(sched) /\ (b.wait = 0 => Over(sched, b))
      /\ (b.timed => Keeps(sched, b)) /\ (~ b.timed => b.wait = b.ticks)
  BY <1>2, <1>3 DEF TimeFits
<1>5. Now(sched) \in Nat /\ Began(TimeOutState) = Now(sched)
  <2>1. sched \in SchedStates
    BY CoreIs
  <2> QED BY <2>1, NowIs DEF Began, TimeOutState, Now
<1>6. a \in {"idle", "suspend"} /\ (a = "idle" <=> b.wait = 0)
  OBVIOUS
<1> HIDE DEF a, b
<1>7. TimeFits(sched, a, c)
  <2>1. CASE c = b /\ (b.wait = 0 \/ b.timed)
    <3>1. a = "suspend" => b.timed
      BY <1>6, <2>1
    <3>2. TimeFits(sched, a, b)
      BY <1>2, <1>4, <1>6, <3>1 DEF TimeFits
    <3> QED BY <2>1, <3>2
  <2>2. CASE /\ b.wait # 0 /\ ~ b.timed /\ c.timed
             /\ c.timeout = TimeOutState /\ c.since = Now(sched)
    <3>1. /\ a = "suspend" /\ c.wait # 0 /\ c.ticks \in Nat /\ c.wait = c.ticks
      BY <1>1, <1>2, <1>4, <1>6, <2>2, LocalType
    <3>2. Keeps(sched, c)
      BY <1>5, <2>2, <3>1 DEF Keeps
    <3>3. c.since <= Now(sched)
      BY <1>5, <2>2
    <3> QED BY <2>2, <3>1, <3>2, <3>3 DEF TimeFits
  <2> QED BY <1>1, <2>1, <2>2
<1>8. TimeFits(sched', a, c)
  BY <1>2, <1>7
<1>9. TimeInv'
  BY <1>1, <1>2, <1>8, TimeStep
<1>10. \A t \in Task : ~ Early(t)
  <2>1. a = "idle" => Over(sched, b)
    BY <1>4, <1>6
  <2> QED BY <1>2, <2>1, EarlyCur DEF b
<1> QED BY <1>9, <1>10

LEMMA BeginTime ==
  ASSUME Core, Core', TimeInv, [Next]_vars, Begin
  PROVE  TimeInv' /\ \A t \in Task : ~ Early(t)
<1>1. At("idle") /\ sched' = sched
  BY DEF Begin
<1>2. PICK c \in Program[cur] :
        /\ call' = [call EXCEPT ![cur] =
            [kind |-> c.kind, ticks |-> c.ticks, n |-> c.n, wait |-> c.ticks,
             timed |-> FALSE, timeout |-> NoTimeOut, since |-> 0, then |-> "block"]]
        /\ Goto(IF c.kind # "delay" THEN "try"
                ELSE IF c.ticks > 0 THEN "suspend" ELSE "yield")
  BY DEF Begin
<1> DEFINE a == IF c.kind # "delay" THEN "try"
                ELSE IF c.ticks > 0 THEN "suspend" ELSE "yield"
           x == [kind |-> c.kind, ticks |-> c.ticks, n |-> c.n, wait |-> c.ticks,
             timed |-> FALSE, timeout |-> NoTimeOut, since |-> 0, then |-> "block"]
<1>3. Now(sched) \in Nat /\ cur \in Task
  BY CoreIs, NowIs
<1>4. c.ticks \in Nat
  <2>1. c \in Calls
    BY <1>2, <1>3, QueueAssumption
  <2> QED BY <2>1, Ticks DEF Calls
<1>5. /\ x.since = 0 /\ x.wait = c.ticks /\ x.ticks = c.ticks /\ ~ x.timed /\ x.kind = c.kind
      /\ x.then = "block"
  OBVIOUS
<1>6. pc' = [pc EXCEPT ![cur] = a] /\ call' = [call EXCEPT ![cur] = x]
  BY <1>2 DEF Goto
<1>7. a # "idle" /\ a # "recheck" /\ (c.kind # "delay" => a = "try")
  OBVIOUS
<1> HIDE DEF a, x
<1>8. TimeFits(sched', a, x)
  <2>1. x.since <= Now(sched) /\ (x.wait = 0 => Over(sched, x))
    BY <1>3, <1>4, <1>5 DEF Over
  <2>2. TimeFits(sched, a, x)
    BY <1>5, <1>7, <2>1 DEF TimeFits
  <2> QED BY <1>1, <2>2
<1>9. TimeInv'
  BY <1>6, <1>8, TimeStep
<1> QED BY <1>6, <1>7, <1>9, EarlyCur

LEMMA ReceiveTime ==
  ASSUME Core, Core', TimeInv, [Next]_vars, Receive
  PROVE  TimeInv' /\ \A t \in Task : ~ Early(t)
<1>1. At("try") /\ InCall("receive") /\ pc[cur] = "try"
  BY DEF Receive, At
<1>2. CASE Empty(queue) /\ NotYet
  BY <1>1, <1>2, NotYetTime
<1>3. CASE ~ Empty(queue) /\ queue' = DataRemoved(queue) /\ NextReceive
  <2> DEFINE b == call[cur]
  <2>1. PICK a \in {"try", "idle"}, c \in Local :
           /\ pc' = [pc EXCEPT ![cur] = a] /\ call' = [call EXCEPT ![cur] = c]
           /\ c.kind = "receive"
           /\ a = "idle" => c = b
           /\ a = "try" => c = [b EXCEPT !.n = b.n - 1, !.wait = b.ticks, !.timed = FALSE]
    BY <1>1, <1>3, NextReceiveIs
  <2>2. /\ cur \in Task /\ queue \in QueueStates /\ LocalFits(pc[cur], b)
        /\ TimeFits(sched, pc[cur], b)
    BY CoreIs DEF TimeInv
  <2>3. b \in Local /\ b.kind # "delay"
    BY <1>1, <2>2 DEF LocalFits
  <2>4. b.since <= Now(sched) /\ b.since \in Nat /\ b.ticks \in Nat
    BY <1>1, <2>2, <2>3, LocalType DEF TimeFits
  <2>5. ASSUME a = "try"
        PROVE  c.since = b.since /\ c.wait = b.ticks /\ c.ticks = b.ticks /\ ~ c.timed
    BY <2>1, <2>3, <2>5 DEF Local
  <2> HIDE DEF b
  <2>6. TimeFits(sched, a, c)
    <3> SUFFICES ASSUME a = "try" PROVE TimeFits(sched, a, c)
      BY <2>1 DEF TimeFits
    <3>1. c.wait = 0 => Over(sched, c)
      BY <2>4, <2>5 DEF Over
    <3> QED BY <2>4, <2>5, <3>1 DEF TimeFits
  <2>7. TimeInv'
    <3>1. TimeFits(sched', a, c)
      BY <2>6, NowStep, TimeLater
    <3> QED BY <2>1, <3>1, TimeStep
  <2>8. queue' # queue
    <3>1. queue'.uxMessagesWaiting = queue.uxMessagesWaiting - 1
      BY <1>3, <2>2, RemovedIs DEF Consumed
    <3>2. queue.uxMessagesWaiting \in Nat
      BY <2>2, QueueType, SizeIs
    <3> QED BY <3>1, <3>2
  <2> QED BY <2>1, <2>7, <2>8, EarlyCur
<1> QED BY <1>2, <1>3 DEF Receive

LEMMA SendTime ==
  ASSUME Core, Core', TimeInv, [Next]_vars, Send
  PROVE  TimeInv' /\ \A t \in Task : ~ Early(t)
<1>1. At("try") /\ pc[cur] = "try"
  BY DEF Send, At
<1>2. CASE Full(queue) /\ NotYet
  BY <1>1, <1>2, NotYetTime
<1>3. CASE /\ ~ Full(queue) /\ posted < MaxItems /\ posted' = posted + 1
           /\ queue' = CopyDataToQueue(queue, posted') /\ Goto("idle") /\ call' = call
  <2>1. queue \in QueueStates /\ posted \in Nat
    BY CoreIs
  <2>2. posted' \in Item
    BY <1>3, <2>1, SizeIs DEF Item
  <2>3. queue'.uxMessagesWaiting = queue.uxMessagesWaiting + 1
    BY <1>3, <2>1, <2>2, CopyIs DEF Copied
  <2>4. queue.uxMessagesWaiting \in Nat
    BY <2>1, QueueType, SizeIs
  <2>5. queue' # queue
    BY <2>3, <2>4
  <2>6. pc' = [pc EXCEPT ![cur] = "idle"]
    BY <1>3 DEF Goto
  <2>7. TimeInv'
    BY <1>1, <1>3, <2>6, TimeGoes
  <2> QED BY <2>5, <2>6, <2>7, EarlyCur
<1> QED BY <1>2, <1>3 DEF Send

LEMMA RecheckTime ==
  ASSUME Core, Core', TimeInv, [Next]_vars, Recheck
  PROVE  TimeInv' /\ \A t \in Task : ~ Early(t)
<1> DEFINE a == IF Empty(queue) THEN "idle" ELSE "try"
<1>1. pc[cur] = "recheck" /\ call' = call /\ pc' = [pc EXCEPT ![cur] = a]
  BY DEF Recheck, At, Goto
<1>2. a \in {"idle", "try"}
  OBVIOUS
<1> HIDE DEF a
<1>3. LocalFits(pc[cur], call[cur]) /\ TimeFits(sched, pc[cur], call[cur])
  BY CoreIs DEF TimeInv
<1>4. call[cur].kind # "delay"
  BY <1>1, <1>3 DEF LocalFits
<1>5. Over(sched, call[cur])
  BY <1>1, <1>3, <1>4 DEF TimeFits
<1>6. TimeInv'
  BY <1>1, <1>2, TimeGoes
<1> QED BY <1>1, <1>5, <1>6, EarlyCur

----------------------------------------------------------------------------
LEMMA SuspendTime ==
  ASSUME Core, Core', TimeInv, [Next]_vars, SuspendAll
  PROVE  TimeInv' /\ \A t \in Task : ~ Early(t)
<1> DEFINE a == IF InCall("delay") THEN "delay" ELSE "lock"
<1>1. pc[cur] = "suspend" /\ call' = call /\ pc' = [pc EXCEPT ![cur] = a]
  BY DEF SuspendAll, At, Goto
<1>2. a \in {"delay", "lock"} /\ (a = "lock" => call[cur].kind # "delay")
  BY DEF InCall
<1> HIDE DEF a
<1>3. TimeFits(sched, pc[cur], call[cur])
  BY CoreIs DEF TimeInv
<1>4. call[cur].kind = "delay" \/ call[cur].timed
  BY <1>1, <1>3 DEF TimeFits
<1>5. TimeInv'
  BY <1>1, <1>2, <1>4, TimeGoes
<1> QED BY <1>1, <1>2, <1>5, EarlyCur

LEMMA LockTime ==
  ASSUME Core, Core', TimeInv, [Next]_vars, LockQueue
  PROVE  TimeInv' /\ \A t \in Task : ~ Early(t)
<1> DEFINE b == call[cur]
           out == TimedOut(b)
           h == IF out THEN "expired" ELSE "block"
           x == CheckForTimeOut(b)
           d == [x EXCEPT !.then = h]
           a == IF out THEN "unlockTx" ELSE "check"
<1>1. /\ At("lock") /\ sched' = sched /\ pc[cur] = "lock"
  BY DEF LockQueue, At
<1>2. cur \in Task /\ DOMAIN call = Task /\ LocalFits(pc[cur], b) /\ sched \in SchedStates
      /\ TimeFits(sched, pc[cur], b)
  BY CoreIs DEF TimeInv
<1>3. pc' = [pc EXCEPT ![cur] = a] /\ call' = [call EXCEPT ![cur] = d]
  BY <1>2 DEF LockQueue, Goto
<1>4. b \in Local /\ b.kind # "delay" /\ b.wait > 0
  BY <1>1, <1>2 DEF LocalFits
<1>5. /\ d \in Local /\ d.kind = b.kind /\ d.ticks = b.ticks /\ d.since = b.since
      /\ d.timed = b.timed /\ d.then = h /\ (~ out => d.wait > 0)
  <2>1. h \in {"expired", "block"}
    OBVIOUS
  <2> HIDE DEF h
  <2> QED BY <1>4, <2>1, CheckForTimeOutIs
<1>6. /\ b.since <= Now(sched) /\ b.timed /\ Keeps(sched, b)
  BY <1>1, <1>2, <1>4 DEF TimeFits
<1>7. /\ b.timeout \in TimeOut /\ b.wait \in 1 .. TickMax /\ b.since \in Nat /\ b.ticks \in Nat
      /\ Began(b.timeout) \in Nat /\ Now(sched) \in Nat
  BY <1>2, <1>4, LocalType, NowIs, Ticks
<1> DEFINE e == ElapsedSince(b.timeout)
<1>8. /\ e \in 0 .. TickMax /\ Began(b.timeout) + e <= Now(sched)
      /\ WrappedPast(b.timeout) => Began(b.timeout) + TickMax < Now(sched)
  <2>1. Began(b.timeout) <= Now(sched)
    BY <1>6 DEF Keeps
  <2> QED BY <1>2, <1>7, <2>1, ElapsedIs
<1>9. b.wait # TickMax => b.since + b.ticks <= Began(b.timeout) + b.wait
  BY <1>7, <1>6 DEF Keeps
<1>10. ASSUME out PROVE b.wait # TickMax /\ Over(sched, b)
  <2>1. b.wait # TickMax /\ (WrappedPast(b.timeout) \/ e >= b.wait)
    BY <1>10 DEF TimedOut, portMAX_DELAY
  <2> HIDE DEF e
  <2>2. Began(b.timeout) + b.wait <= Now(sched)
    BY <1>7, <1>8, <2>1, Ticks
  <2> QED BY <1>7, <1>9, <2>1, <2>2 DEF Over
<1>11. ASSUME out
       PROVE  (d.wait = b.wait \/ d.wait = 0) /\ d.timeout = b.timeout
  <2>1. x = [b EXCEPT !.wait = IF WrappedPast(b.timeout) THEN b.wait ELSE 0]
    BY <1>10, <1>11 DEF CheckForTimeOut, portMAX_DELAY
  <2> QED BY <1>4, <2>1 DEF Local
<1>12. ASSUME ~ out, b.wait # TickMax
       PROVE  d.wait = b.wait - e /\ d.timeout = TimeOutState
  <2>1. x = [b EXCEPT !.wait = b.wait - e, !.timeout = TimeOutState]
    BY <1>12 DEF CheckForTimeOut, portMAX_DELAY
  <2> HIDE DEF e
  <2> QED BY <1>4, <2>1 DEF Local
<1>13. ASSUME b.wait = TickMax PROVE d.wait = b.wait /\ d.timeout = b.timeout
  <2>1. x = b
    BY <1>13 DEF CheckForTimeOut, portMAX_DELAY
  <2> QED BY <1>4, <2>1 DEF Local
<1>14. Began(TimeOutState) = Now(sched)
  BY <1>2, NowIs DEF Began, TimeOutState, Now
<1>15. a \in {"unlockTx", "check"} /\ (a = "check" <=> ~ out) /\ (h = "expired" <=> out)
  OBVIOUS
<1> HIDE DEF a, h, x, d, e, out, b
<1>16. Keeps(sched, d)
  <2>1. CASE out \/ b.wait = TickMax
    <3>1. (d.wait = b.wait \/ d.wait = 0) /\ d.timeout = b.timeout
      BY <1>11, <1>13, <2>1
    <3> QED BY <1>5, <1>6, <3>1 DEF Keeps
  <2>2. CASE ~ out /\ b.wait # TickMax
    <3>1. d.wait = b.wait - e /\ d.timeout = TimeOutState
      BY <1>12, <2>2
    <3>2. d.since + d.ticks <= Now(sched) + d.wait
      BY <1>5, <1>7, <1>8, <1>9, <2>2, <3>1
    <3> QED BY <1>7, <1>14, <3>1, <3>2 DEF Keeps
  <2> QED BY <2>1, <2>2
<1>17. out => Over(sched, d)
  BY <1>5, <1>10 DEF Over
<1>18. d.wait = 0 => Over(sched, d)
  <2>1. d.wait = 0 => out
    BY <1>5
  <2> QED BY <1>17, <2>1
<1>19. TimeFits(sched, a, d)
  BY <1>5, <1>6, <1>15, <1>16, <1>17, <1>18 DEF TimeFits
<1>20. TimeInv'
  <2>1. TimeFits(sched', a, d)
    BY <1>1, <1>19
  <2> QED BY <1>3, <2>1, TimeStep
<1> QED BY <1>3, <1>15, <1>20, EarlyCur

LEMMA CheckTime ==
  ASSUME Core, Core', TimeInv, [Next]_vars, Check
  PROVE  TimeInv' /\ \A t \in Task : ~ Early(t)
<1> DEFINE b == call[cur]
           h == IF MustWait THEN "block" ELSE "retry"
           c == [b EXCEPT !.then = h]
<1>1. pc[cur] = "check" /\ pc' = [pc EXCEPT ![cur] = "unlockTx"]
  BY DEF Check, At, Goto
<1>2. cur \in Task /\ DOMAIN call = Task /\ LocalFits(pc[cur], b) /\ TimeFits(sched, pc[cur], b)
  BY CoreIs DEF TimeInv
<1>3. call' = [call EXCEPT ![cur] = c]
  BY <1>2 DEF Check
<1>4. b \in Local /\ b.kind # "delay"
  BY <1>1, <1>2 DEF LocalFits
<1>5. /\ c \in Local /\ c.kind = b.kind /\ c.then = h /\ c.since = b.since /\ c.wait = b.wait
      /\ c.timed = b.timed /\ c.timeout = b.timeout /\ c.ticks = b.ticks
  BY <1>4 DEF Local
<1>6. h # "expired"
  OBVIOUS
<1> HIDE DEF b, c, h
<1>7. (Keeps(sched, b) => Keeps(sched, c)) /\ (Over(sched, b) => Over(sched, c))
  BY <1>5 DEF Keeps, Over
<1>8. TimeFits(sched, "unlockTx", c)
  BY <1>1, <1>2, <1>4, <1>5, <1>6, <1>7 DEF TimeFits
<1>9. TimeFits(sched', "unlockTx", c)
  BY <1>5, <1>8, NowStep, TimeLater
<1>10. TimeInv'
  BY <1>1, <1>3, <1>9, TimeStep
<1> QED BY <1>1, <1>10, EarlyCur

LEMMA DelayTime ==
  ASSUME Core, Core', TimeInv, [Next]_vars, Delay
  PROVE  TimeInv' /\ \A t \in Task : ~ Early(t)
<1>1. pc[cur] = "delay" /\ call' = call /\ pc' = [pc EXCEPT ![cur] = "resume"]
  BY DEF Delay, At, Goto
<1>2. LocalFits(pc[cur], call[cur])
  BY CoreIs
<1>3. call[cur].kind = "delay"
  BY <1>1, <1>2 DEF LocalFits
<1>4. TimeInv'
  BY <1>1, <1>3, TimeGoes
<1> QED BY <1>1, <1>4, EarlyCur

LEMMA UnlockTime ==
  ASSUME Core, Core', TimeInv, [Next]_vars, UnlockTx \/ UnlockRx
  PROVE  TimeInv' /\ \A t \in Task : ~ Early(t)
<1>1. PICK a \in {"unlockRx", "resume"} :
        /\ pc[cur] \in {"unlockTx", "unlockRx"} /\ call' = call /\ pc' = [pc EXCEPT ![cur] = a]
  BY DEF UnlockTx, UnlockRx, At, Goto
<1>2. TimeFits(sched, pc[cur], call[cur])
  BY CoreIs DEF TimeInv
<1>3. call[cur].kind = "delay" \/ (call[cur].then = "expired" => Over(sched, call[cur]))
  BY <1>1, <1>2 DEF TimeFits
<1>4. TimeInv'
  BY <1>1, <1>3, TimeGoes
<1> QED BY <1>1, <1>4, EarlyCur

LEMMA ResumeTime ==
  ASSUME Core, Core', TimeInv, [Next]_vars, Resume
  PROVE  TimeInv' /\ \A t \in Task : ~ Early(t)
<1> DEFINE b == call[cur]
<1>1. pc[cur] = "resume" /\ call' = call
  BY DEF Resume, At
<1>2. PICK a \in {"idle", "try", "yield", "recheck"} :
         /\ pc' = [pc EXCEPT ![cur] = a]
         /\ a = "recheck" => b.then = "expired" /\ b.kind = "receive"
         /\ a = "idle" => b.kind = "delay" \/ (b.then = "expired" /\ b.kind = "send")
  BY ResumeGoes
<1>3. TimeFits(sched, pc[cur], b)
  BY CoreIs DEF TimeInv
<1>4. b.kind # "delay" /\ b.then = "expired" => Over(sched, b)
  BY <1>1, <1>3 DEF TimeFits
<1>5. TimeInv'
  BY <1>1, <1>2, <1>4, TimeGoes
<1> QED BY <1>2, <1>4, <1>5, EarlyCur

LEMMA YieldTime ==
  ASSUME Core, Core', TimeInv, [Next]_vars, Yield
  PROVE  TimeInv' /\ \A t \in Task : ~ Early(t)
<1> DEFINE a == IF InCall("delay") THEN "idle" ELSE "try"
<1>1. pc[cur] = "yield" /\ call' = call /\ pc' = [pc EXCEPT ![cur] = a]
  BY DEF Yield, At, Goto
<1>2. a \in {"idle", "try"} /\ (a = "idle" => call[cur].kind = "delay")
  BY DEF InCall
<1> HIDE DEF a
<1>3. TimeInv'
  BY <1>1, <1>2, TimeGoes
<1> QED BY <1>1, <1>2, <1>3, EarlyCur

LEMMA InitTime == ASSUME Init PROVE TimeInv
BY DEF Init, TimeInv, TimeFits

LEMMA NextTime ==
  ASSUME Core, Core', TimeInv, [Next]_vars
  PROVE  TimeInv' /\ \A t \in Task : ~ Early(t)
<1>1. CASE \/ InputEventInjectFromISR \/ xQueueSendFromISR \/ Tick \/ Leave
           \/ UNCHANGED vars
  <2>1. pc' = pc /\ call' = call
    BY <1>1 DEF InputEventInjectFromISR, xQueueSendFromISR, Tick, Leave, vars
  <2> QED BY <2>1, TimeQuiet, EarlySame
<1>2. CASE Begin
  BY <1>2, BeginTime
<1>3. CASE Receive
  BY <1>3, ReceiveTime
<1>4. CASE Send
  BY <1>4, SendTime
<1>5. CASE SuspendAll
  BY <1>5, SuspendTime
<1>6. CASE LockQueue
  BY <1>6, LockTime
<1>7. CASE Check
  BY <1>7, CheckTime
<1>8. CASE Delay
  BY <1>8, DelayTime
<1>9. CASE UnlockTx \/ UnlockRx
  BY <1>9, UnlockTime
<1>10. CASE Resume
  BY <1>10, ResumeTime
<1>11. CASE Yield
  BY <1>11, YieldTime
<1>12. CASE Recheck
  BY <1>12, RecheckTime
<1> QED BY <1>1, <1>2, <1>3, <1>4, <1>5, <1>6, <1>7, <1>8, <1>9, <1>10, <1>11, <1>12 DEF Next

(* A call that waits for some ticks gives up only when they are over, however *)
(* often it is woken for nothing, and although the tick counter wraps around  *)
(* (xTaskCheckForTimeOut)                                                     *)
THEOREM NeverEarlyHolds == Spec => NeverEarly
<1>1. Init => TimeInv
  BY InitTime
<1>2. Core /\ Core' /\ TimeInv /\ [Next]_vars => TimeInv'
  BY NextTime
<1>3. Core /\ Core' /\ TimeInv /\ [Next]_vars =>
        [\A t \in Task :
           /\ call[t].kind \in {"send", "receive"}
           /\ pc[t] # "idle" /\ pc'[t] = "idle" /\ queue' = queue
           => Now(sched) >= call[t].since + call[t].ticks]_vars
  <2> SUFFICES ASSUME Core, Core', TimeInv, [Next]_vars, NEW t \in Task,
                      call[t].kind \in {"send", "receive"},
                      pc[t] # "idle", pc'[t] = "idle", queue' = queue
               PROVE  Now(sched) >= call[t].since + call[t].ticks
    OBVIOUS
  <2>1. Over(sched, call[t])
    <3>1. ~ Early(t)
      BY NextTime
    <3> QED BY <3>1 DEF Early
  <2>2. call[t].since \in Nat /\ call[t].ticks \in Nat /\ Now(sched) \in Nat
    <3>1. LocalFits(pc[t], call[t])
      BY CoreIs
    <3> QED BY <3>1, LocalType, NowStep DEF LocalFits
  <2> QED BY <2>1, <2>2 DEF Over
<1> QED BY <1>1, <1>2, <1>3, CoreHolds, PTL DEF Spec, NeverEarly

----------------------------------------------------------------------------
(* Wake-ups                                                                   *)

LEMMA TasksFinite == IsFiniteSet(Task)
<1> DEFINE n == Len(Created)
<1>1. n \in Nat /\ Created \in [1 .. n -> Task]
  BY SchedAssumption
<1>2. \A t \in Task : \E i \in 1 .. n : Created[i] = t
  BY CreatedIs
<1> HIDE DEF n
<1>3. Created \in Surjection(1 .. n, Task)
  BY <1>1, <1>2 DEF Surjection
<1>4. ExistsSurjection(1 .. n, Task)
  BY <1>3 DEF ExistsSurjection
<1> QED BY <1>1, <1>4, FS_NatSurjection

LEMMA TasksAre ==
  ASSUME NEW S, S \subseteq Task
  PROVE  IsFiniteSet(S) /\ Cardinality(S) \in Nat
<1>1. S \in SUBSET Task
  OBVIOUS
<1>2. IsFiniteSet(S)
  BY <1>1, TasksFinite, FS_Subset
<1> QED BY <1>2, FS_CardinalityType

(* a set that gains others, or loses one at most                              *)
LEMMA MoreTasks ==
  ASSUME NEW S, NEW T, NEW U, S \subseteq Task, T \subseteq Task, U \subseteq Task,
         S \cap T = {}, S \cup T \subseteq U
  PROVE  Cardinality(S) + Cardinality(T) <= Cardinality(U)
<1>1. IsFiniteSet(S) /\ IsFiniteSet(T) /\ IsFiniteSet(U)
  BY TasksAre
<1>2. Cardinality(S \cup T) = Cardinality(S) + Cardinality(T) - Cardinality({})
  BY <1>1, FS_Union
<1>3. S \cup T \in SUBSET U
  OBVIOUS
<1>4. Cardinality(S \cup T) <= Cardinality(U)
  BY <1>1, <1>3, FS_Subset
<1>5. Cardinality(S) \in Nat /\ Cardinality(T) \in Nat /\ Cardinality(U) \in Nat
  BY TasksAre
<1> QED BY <1>2, <1>4, <1>5, FS_EmptySet

LEMMA FewerTasks ==
  ASSUME NEW S, NEW U, NEW x, S \subseteq Task, U \subseteq Task, S \ {x} \subseteq U
  PROVE  Cardinality(S) - 1 <= Cardinality(U)
<1>1. IsFiniteSet(S) /\ IsFiniteSet(U)
  BY TasksAre
<1>2. Cardinality(S \ {x}) = IF x \in S THEN Cardinality(S) - 1 ELSE Cardinality(S)
  BY <1>1, FS_RemoveElement
<1>3. S \ {x} \in SUBSET U
  OBVIOUS
<1>4. Cardinality(S \ {x}) <= Cardinality(U)
  BY <1>1, <1>3, FS_Subset
<1>5. Cardinality(S) \in Nat /\ Cardinality(U) \in Nat
  BY TasksAre
<1> QED BY <1>2, <1>4, <1>5

LEMMA OneTask ==
  ASSUME NEW t PROVE Cardinality({t}) = 1
<1>1. Cardinality({} \cup {t}) = 0 + 1
  BY FS_EmptySet, FS_AddElement
<1>2. {} \cup {t} = {t}
  OBVIOUS
<1> QED BY <1>1, <1>2

(* Who waits, and who is about to look at the queue                           *)

KindOf(l) == IF l = Senders THEN "send" ELSE "receive"

(* where a task may be on an event list: in the loop of its call              *)
Asking == {"unlockTx", "unlockRx", "resume", "yield", "try"}

GivesUp(a, c) ==
  c.kind = "send" /\ c.then = "expired" /\ a \in {"unlockTx", "unlockRx", "resume"}
Looker(a, c, l) ==
  c.kind = KindOf(l) /\ a \in Asking \cup {"recheck"} /\ ~ GivesUp(a, c)

Looks(s, p, k, l) ==
  {t \in Task : Looker(p[t], k[t], l) /\ t \notin Range(s.events[l])}

WaitInv ==
  \A l \in EventList : \A t \in Range(sched.events[l]) :
    call[t].kind = KindOf(l) /\ pc[t] \in Asking

Amount(q, l) == IF l = Senders THEN Avail(q) ELSE q.uxMessagesWaiting
Counted(q, l) ==
  LET n == IF l = Senders THEN q.cRxLock ELSE q.cTxLock
  IN  IF n >= 0 THEN n ELSE 0

(* while tasks wait, every item or place has one that looks, or is counted    *)
Covered(s, p, k, q, l) ==
  s.events[l] # <<>> => Amount(q, l) <= Cardinality(Looks(s, p, k, l)) + Counted(q, l)

CoverInv == \A l \in EventList : Covered(sched, pc, call, queue, l)

LEMMA TwoLists ==
  /\ \A l \in EventList : l = Senders \/ l = Receivers
  /\ Senders \in EventList /\ Receivers \in EventList /\ Senders # Receivers
BY QueueAssumption DEF Senders, Receivers

LEMMA Amounts ==
  ASSUME NEW q \in QueueStates, NEW l
  PROVE  Amount(q, l) \in Nat /\ Counted(q, l) \in Nat
<1>1. /\ q.uxMessagesWaiting \in 0 .. EventQueueSize /\ q.cRxLock \in {-1, 0}
      /\ q.cTxLock \in Int /\ EventQueueSize \in Nat
  BY QueueType, SizeIs
<1>2. q.uxMessagesWaiting \in Nat /\ EventQueueSize - q.uxMessagesWaiting \in Nat
  BY <1>1
<1>3. q.cRxLock \in Int /\ q.cTxLock \in Int
  BY <1>1
<1> QED BY <1>2, <1>3 DEF Amount, Counted, Avail

LEMMA EventsAre ==
  ASSUME NEW s \in SchedStates, NEW l \in EventList
  PROVE  /\ s.events[l] \in Seq(Task) /\ Range(s.events[l]) \subseteq Task
         /\ s.events[l] # <<>> => \E t \in Range(s.events[l]) : TRUE
         /\ s.events[l] = <<>> => Range(s.events[l]) = {}
<1>1. s.events[l] \in Seq(Task)
  BY StateType
<1>2. Range(s.events[l]) \subseteq Task
  BY <1>1, InRange
<1>3. ASSUME s.events[l] # <<>> PROVE \E t \in Range(s.events[l]) : TRUE
  BY <1>1, <1>3, TailIs
<1>4. ASSUME s.events[l] = <<>> PROVE Range(s.events[l]) = {}
  BY <1>4 DEF Range
<1> QED BY <1>1, <1>2, <1>3, <1>4

(* the current task waits only where it has just put itself on a list         *)
LEMMA CurWaits ==
  ASSUME Core, NEW l \in EventList, cur \in Range(sched.events[l])
  PROVE  ~ IsReady(sched, cur) /\ Blocks(pc[cur], call[cur])
<1>1. cur \in Task /\ Placed(sched, cur)
  BY CoreIs DEF Lists
<1>2. Waiting(sched, cur)
  BY DEF Waiting
<1>3. ~ IsReady(sched, cur)
  BY <1>1, <1>2 DEF Placed
<1> QED BY <1>3, ReadyAt

(* a task that waits does not give up                                         *)
LEMMA WaiterLooks ==
  ASSUME Core, WaitInv, NEW l \in EventList, NEW t \in Range(sched.events[l])
  PROVE  t \in Task /\ Looker(pc[t], call[t], l) /\ t \notin Looks(sched, pc, call, l)
<1>1. t \in Task /\ call[t].kind = KindOf(l) /\ pc[t] \in Asking
  BY CoreIs, EventsAre DEF WaitInv
<1>2. ~ GivesUp(pc[t], call[t])
  <2> SUFFICES ASSUME GivesUp(pc[t], call[t]) PROVE FALSE
    OBVIOUS
  <2>1. pc[t] \in Inside /\ call[t].then = "expired" /\ pc[t] # "yield"
    BY DEF GivesUp, Inside
  <2>2. t = cur
    BY <1>1, <2>1 DEF Core, Phase, cur
  <2>3. Blocks(pc[t], call[t])
    BY <2>2, CurWaits
  <2> QED BY <2>1, <2>3 DEF Blocks
<1>3. t \notin Looks(sched, pc, call, l)
  BY DEF Looks
<1> QED BY <1>1, <1>2, <1>3 DEF Looker

----------------------------------------------------------------------------
(* What a step of the current task, or of nobody, does to those that look     *)

Shrinks(s, r, l) == Range(r.events[l]) \subseteq Range(s.events[l])

(* the current task goes on, at a and with c                                  *)
Continues(a, c) == pc' = [pc EXCEPT ![cur] = a] /\ call' = [call EXCEPT ![cur] = c]

(* and it still looks at what list l is about                                 *)
StillLooks(a, c, l) == Looker(pc[cur], call[cur], l) => Looker(a, c, l)

LEMMA GoesOn ==
  ASSUME Core, NEW a, NEW c, Continues(a, c)
  PROVE  /\ cur \in Task /\ pc'[cur] = a /\ call'[cur] = c
         /\ \A t \in Task : t # cur => pc'[t] = pc[t] /\ call'[t] = call[t]
<1>1. cur \in Task /\ pc \in [Task -> Points] /\ DOMAIN call = Task
  BY CoreIs
<1> QED BY <1>1 DEF Continues

LEMMA LooksGrow ==
  ASSUME Core, NEW a, NEW c, Continues(a, c), NEW l, Shrinks(sched, sched', l)
  PROVE  /\ Looks(sched, pc, call, l) \ {cur} \subseteq Looks(sched', pc', call', l)
         /\ StillLooks(a, c, l) =>
              Looks(sched, pc, call, l) \subseteq Looks(sched', pc', call', l)
BY GoesOn DEF Looks, Shrinks, StillLooks

LEMMA LooksNew ==
  ASSUME Core, WaitInv, NEW a, NEW c, Continues(a, c), NEW l \in EventList, StillLooks(a, c, l),
         NEW t \in Range(sched.events[l]), t \notin Range(sched'.events[l])
  PROVE  t \in Looks(sched', pc', call', l) /\ t \notin Looks(sched, pc, call, l)
<1>1. t \in Task /\ Looker(pc[t], call[t], l) /\ t \notin Looks(sched, pc, call, l)
  BY WaiterLooks
<1>2. Looker(pc'[t], call'[t], l)
  BY <1>1, GoesOn DEF StillLooks
<1> QED BY <1>1, <1>2 DEF Looks

LEMMA LooksAre ==
  /\ \A l : Looks(sched, pc, call, l) \subseteq Task
  /\ \A l : Looks(sched', pc', call', l) \subseteq Task
BY DEF Looks

LEMMA WaitStep ==
  ASSUME Core, WaitInv, NEW a, NEW c, Continues(a, c), \A l \in EventList : Shrinks(sched, sched', l),
         \A l \in EventList : cur \in Range(sched.events[l]) /\ cur \in Range(sched'.events[l]) =>
                                c.kind = KindOf(l) /\ a \in Asking
  PROVE  WaitInv'
<1> SUFFICES ASSUME NEW l \in EventList, NEW t \in Range(sched'.events[l])
             PROVE  call'[t].kind = KindOf(l) /\ pc'[t] \in Asking
  BY DEF WaitInv, KindOf, Asking
<1>1. t \in Range(sched.events[l])
  BY DEF Shrinks
<1>2. t \in Task /\ call[t].kind = KindOf(l) /\ pc[t] \in Asking
  BY <1>1, CoreIs, EventsAre DEF WaitInv
<1>3. CASE t = cur
  BY <1>1, <1>3, GoesOn
<1>4. CASE t # cur
  BY <1>2, <1>4, GoesOn
<1> QED BY <1>3, <1>4

(* a list whose waiters remain, and what it is about                          *)
LEMMA StillWait ==
  ASSUME Core, Core', NEW l \in EventList, Shrinks(sched, sched', l), sched'.events[l] # <<>>
  PROVE  sched.events[l] # <<>>
<1>1. sched \in SchedStates /\ sched' \in SchedStates
  BY CoreIs, SettledState DEF Core, Settled
<1>2. PICK t \in Range(sched'.events[l]) : TRUE
  BY <1>1, EventsAre
<1>3. t \in Range(sched.events[l])
  BY <1>2 DEF Shrinks
<1> QED BY <1>1, <1>3, EventsAre

LEMMA AmountTypes ==
  ASSUME Core, Core', NEW l
  PROVE  /\ Amount(queue, l) \in Nat /\ Counted(queue, l) \in Nat
         /\ Amount(queue', l) \in Nat /\ Counted(queue', l) \in Nat
         /\ Cardinality(Looks(sched, pc, call, l)) \in Nat
         /\ Cardinality(Looks(sched', pc', call', l)) \in Nat
<1>1. queue \in QueueStates /\ queue' \in QueueStates
  BY DEF Core, Locked
<1> QED BY <1>1, Amounts, LooksAre, TasksAre

(* Four ways in which a list stays covered                                    *)

LEMMA CoverSame ==
  ASSUME Core, Core', NEW a, NEW c, Continues(a, c), NEW l \in EventList,
         Shrinks(sched, sched', l), StillLooks(a, c, l),
         Covered(sched, pc, call, queue, l),
         Amount(queue', l) + Counted(queue, l) <= Amount(queue, l) + Counted(queue', l)
  PROVE  Covered(sched', pc', call', queue', l)
<1> SUFFICES ASSUME sched'.events[l] # <<>>
             PROVE  Amount(queue', l)
                      <= Cardinality(Looks(sched', pc', call', l)) + Counted(queue', l)
  BY DEF Covered
<1>1. Amount(queue, l) <= Cardinality(Looks(sched, pc, call, l)) + Counted(queue, l)
  BY StillWait DEF Covered
<1>2. Cardinality(Looks(sched, pc, call, l)) + Cardinality({})
        <= Cardinality(Looks(sched', pc', call', l))
  <2>1. Looks(sched, pc, call, l) \subseteq Looks(sched', pc', call', l)
    BY LooksGrow
  <2> QED BY <2>1, LooksAre, MoreTasks
<1> QED BY <1>1, <1>2, FS_EmptySet, AmountTypes

LEMMA CoverNone ==
  ASSUME Core, Core', NEW l, Amount(queue', l) = 0
  PROVE  Covered(sched', pc', call', queue', l)
BY AmountTypes DEF Covered

LEMMA CoverLess ==
  ASSUME Core, Core', NEW a, NEW c, Continues(a, c), NEW l \in EventList,
         Shrinks(sched, sched', l),
         Covered(sched, pc, call, queue, l),
         Amount(queue', l) + 1 = Amount(queue, l), Counted(queue', l) = Counted(queue, l)
  PROVE  Covered(sched', pc', call', queue', l)
<1> SUFFICES ASSUME sched'.events[l] # <<>>
             PROVE  Amount(queue', l)
                      <= Cardinality(Looks(sched', pc', call', l)) + Counted(queue', l)
  BY DEF Covered
<1>1. Amount(queue, l) <= Cardinality(Looks(sched, pc, call, l)) + Counted(queue, l)
  BY StillWait DEF Covered
<1>2. Cardinality(Looks(sched, pc, call, l)) - 1
        <= Cardinality(Looks(sched', pc', call', l))
  <2>1. Looks(sched, pc, call, l) \ {cur} \subseteq Looks(sched', pc', call', l)
    BY LooksGrow
  <2> QED BY <2>1, LooksAre, FewerTasks
<1> QED BY <1>1, <1>2, AmountTypes

(* the first task of the list is woken, if there is one                       *)
FirstWoken(l) ==
  /\ sched.events[l] = <<>> => sched' = sched
  /\ sched.events[l] # <<>> => sched'.events = [sched.events EXCEPT ![l] = Tail(sched.events[l])]

LEMMA FirstWokenIs ==
  ASSUME Core, NEW l \in EventList, FirstWoken(l)
  PROVE  /\ \A m \in EventList : Shrinks(sched, sched', m)
         /\ \A m \in EventList : m # l => sched'.events[m] = sched.events[m]
         /\ sched.events[l] # <<>> =>
              \E t \in Range(sched.events[l]) : t \notin Range(sched'.events[l])
         /\ sched.events[l] = <<>> => sched'.events[l] = <<>>
<1>1. sched \in SchedStates /\ DOMAIN sched.events = EventList
  BY CoreIs DEF SchedStates
<1>2. CASE sched.events[l] = <<>>
  <2>1. sched' = sched
    BY <1>2 DEF FirstWoken
  <2> QED BY <1>2, <2>1 DEF Shrinks
<1>3. CASE sched.events[l] # <<>>
  <2> DEFINE q == sched.events[l]
             h == Head(q)
  <2>1. q \in Seq(Task) /\ IsInjective(q)
    BY <1>1, CoreIs, EventsAre DEF Lists, Formed
  <2>2. h \in Range(q) /\ h \notin Range(Tail(q)) /\ Range(Tail(q)) \subseteq Range(q)
    BY <1>3, <2>1, TailIs
  <2>3. sched'.events[l] = Tail(q) /\ \A m \in EventList : m # l => sched'.events[m] = sched.events[m]
    BY <1>1, <1>3 DEF FirstWoken
  <2> QED BY <1>3, <2>2, <2>3 DEF Shrinks
<1> QED BY <1>2, <1>3

LEMMA CoverMore ==
  ASSUME Core, Core', WaitInv, NEW a, NEW c, Continues(a, c), NEW l \in EventList,
         FirstWoken(l), StillLooks(a, c, l),
         Covered(sched, pc, call, queue, l),
         Amount(queue', l) = Amount(queue, l) + 1, Counted(queue', l) = Counted(queue, l)
  PROVE  Covered(sched', pc', call', queue', l)
<1> SUFFICES ASSUME sched'.events[l] # <<>>
             PROVE  Amount(queue', l)
                      <= Cardinality(Looks(sched', pc', call', l)) + Counted(queue', l)
  BY DEF Covered
<1>1. Shrinks(sched, sched', l) /\ sched.events[l] # <<>>
  BY FirstWokenIs
<1>2. Amount(queue, l) <= Cardinality(Looks(sched, pc, call, l)) + Counted(queue, l)
  BY <1>1 DEF Covered
<1>3. PICK t \in Range(sched.events[l]) : t \notin Range(sched'.events[l])
  BY <1>1, FirstWokenIs
<1>4. Cardinality(Looks(sched, pc, call, l)) + Cardinality({t})
        <= Cardinality(Looks(sched', pc', call', l))
  <2>1. Looks(sched, pc, call, l) \subseteq Looks(sched', pc', call', l)
    BY <1>1, LooksGrow
  <2>2. t \in Looks(sched', pc', call', l) /\ t \notin Looks(sched, pc, call, l)
    BY <1>3, LooksNew
  <2>3. {t} \subseteq Task
    BY <2>2, LooksAre
  <2> QED BY <2>1, <2>2, <2>3, LooksAre, MoreTasks
<1>5. Cardinality({t}) = 1
  BY OneTask
<1> QED BY <1>2, <1>4, <1>5, AmountTypes

----------------------------------------------------------------------------
Awaited == WaitInv /\ CoverInv

LEMMA NextState == ASSUME Core' PROVE sched' \in SchedStates
<1>1. Settled(sched')
  BY DEF Core
<1> QED BY <1>1, SettledState DEF Settled

(* the current task waits after the step only if it goes on asking            *)
MayWait(a, c) ==
  \/ ~ Blocks(pc[cur], call[cur])
  \/ c = call[cur] /\ (a \in Asking \/ c.kind = "delay")

LEMMA WaitKept ==
  ASSUME Core, WaitInv, NEW a, NEW c, Continues(a, c), \A l \in EventList : Shrinks(sched, sched', l),
         MayWait(a, c)
  PROVE  WaitInv'
<1> SUFFICES ASSUME NEW l \in EventList, cur \in Range(sched.events[l])
             PROVE  c.kind = KindOf(l) /\ a \in Asking
  BY WaitStep
<1>1. Blocks(pc[cur], call[cur])
  BY CurWaits
<1>2. c = call[cur] /\ (a \in Asking \/ c.kind = "delay")
  BY <1>1 DEF MayWait
<1>3. call[cur].kind = KindOf(l)
  BY DEF WaitInv
<1>4. KindOf(l) # "delay"
  BY DEF KindOf
<1> QED BY <1>2, <1>3, <1>4

(* a step that moves no item: who looks still looks, and what was counted     *)
(* still is                                                                   *)
SameCount(l) == Amount(queue', l) + Counted(queue, l) <= Amount(queue, l) + Counted(queue', l)

LEMMA AwaitedStep ==
  ASSUME Core, Core', Awaited, NEW a, NEW c, Continues(a, c),
         \A l \in EventList : Shrinks(sched, sched', l), MayWait(a, c),
         \A l \in EventList : Amount(queue', l) = 0 \/ (StillLooks(a, c, l) /\ SameCount(l))
  PROVE  Awaited'
<1>1. WaitInv'
  BY WaitKept DEF Awaited
<1> SUFFICES ASSUME NEW l \in EventList PROVE Covered(sched', pc', call', queue', l)
  BY <1>1 DEF Awaited, CoverInv
<1>2. CASE Amount(queue', l) = 0
  BY <1>2, CoverNone
<1>3. CASE StillLooks(a, c, l) /\ SameCount(l)
  <2>1. Covered(sched, pc, call, queue, l) /\ Shrinks(sched, sched', l)
    BY DEF Awaited, CoverInv
  <2> QED BY <1>3, <2>1, CoverSame DEF SameCount
<1> QED BY <1>2, <1>3

LEMMA SameQueueCount == ASSUME Core, NEW l, queue' = queue PROVE SameCount(l)
<1>1. Amount(queue, l) \in Nat /\ Counted(queue, l) \in Nat
  BY CoreIs, Amounts
<1>2. Amount(queue, l) + Counted(queue, l) <= Amount(queue, l) + Counted(queue, l)
  BY <1>1
<1> QED BY <1>2 DEF SameCount

LEMMA SameShrinks ==
  ASSUME NEW s, NEW r, r.events = s.events PROVE \A l : Shrinks(s, r, l)
BY DEF Shrinks

LEMMA MovesShrinks ==
  ASSUME NEW s, NEW r, Moves(s, r) PROVE \A l \in EventList : Shrinks(s, r, l)
BY DEF Moves, Goes, Shrinks

(* a task outside the loop of its call does not look                          *)
LEMMA LooksNot ==
  ASSUME NEW a, NEW c, NEW l, pc[cur] \notin Asking \cup {"recheck"}
  PROVE  StillLooks(a, c, l)
BY DEF StillLooks, Looker

(* nor does it look at what the other list is about                           *)
LEMMA LooksOther ==
  ASSUME NEW a, NEW c, NEW l, call[cur].kind # KindOf(l)
  PROVE  StillLooks(a, c, l)
BY DEF StillLooks, Looker

LEMMA BeginAwaited == ASSUME Core, Core', Awaited, Begin PROVE Awaited'
<1>1. At("idle") /\ sched' = sched /\ queue' = queue
  BY DEF Begin
<1>2. PICK b \in Program[cur] :
        /\ call' = [call EXCEPT ![cur] =
             [kind |-> b.kind, ticks |-> b.ticks, n |-> b.n, wait |-> b.ticks,
              timed |-> FALSE, timeout |-> NoTimeOut, since |-> 0, then |-> "block"]]
        /\ Goto(IF b.kind # "delay" THEN "try"
                ELSE IF b.ticks > 0 THEN "suspend" ELSE "yield")
  BY DEF Begin
<1> DEFINE c == [kind |-> b.kind, ticks |-> b.ticks, n |-> b.n, wait |-> b.ticks,
                 timed |-> FALSE, timeout |-> NoTimeOut, since |-> 0, then |-> "block"]
           a == IF b.kind # "delay" THEN "try" ELSE IF b.ticks > 0 THEN "suspend" ELSE "yield"
<1>3. Continues(a, c)
  BY <1>2 DEF Goto, Continues
<1> HIDE DEF a, c
<1>4. pc[cur] = "idle"
  BY <1>1 DEF At
<1>5. MayWait(a, c)
  BY <1>4 DEF MayWait, Blocks
<1>6. \A l \in EventList : Shrinks(sched, sched', l)
  BY <1>1, SameShrinks
<1>7. \A l \in EventList : StillLooks(a, c, l)
  BY <1>4, LooksNot DEF Asking
<1>8. \A l \in EventList : SameCount(l)
  BY <1>1, SameQueueCount
<1> QED BY <1>3, <1>5, <1>6, <1>7, <1>8, AwaitedStep

(* there is nothing to do yet: no item, or no place, is left                  *)
LEMMA NotYetAwaited ==
  ASSUME Core, Core', Awaited, At("try"), NotYet,
         \A l \in EventList : call[cur].kind = KindOf(l) => Amount(queue, l) = 0
  PROVE  Awaited'
<1> DEFINE b == call[cur]
           d == [b EXCEPT !.timed = TRUE, !.timeout = TimeOutState, !.since = Now(sched)]
           a == IF b.wait = 0 THEN "idle" ELSE "suspend"
           c == IF b.wait = 0 \/ b.timed THEN b ELSE d
<1>1. sched' = sched /\ queue' = queue
  BY DEF NotYet
<1>2. cur \in Task /\ DOMAIN call = Task /\ pc[cur] = "try"
  BY CoreIs DEF At
<1>3. Continues(a, c)
  <2>1. pc' = [pc EXCEPT ![cur] = a]
    BY DEF NotYet, Goto
  <2>2. call' = [call EXCEPT ![cur] = c]
    BY <1>2 DEF NotYet
  <2> QED BY <2>1, <2>2 DEF Continues
<1> HIDE DEF a, c
<1>5. MayWait(a, c)
  BY <1>2 DEF MayWait, Blocks
<1>6. \A l \in EventList : Shrinks(sched, sched', l)
  BY <1>1, SameShrinks
<1>7. ASSUME NEW l \in EventList
      PROVE  Amount(queue', l) = 0 \/ (StillLooks(a, c, l) /\ SameCount(l))
  <2>1. CASE call[cur].kind = KindOf(l)
    BY <1>1, <2>1
  <2>2. CASE call[cur].kind # KindOf(l)
    BY <1>1, <2>2, LooksOther, SameQueueCount
  <2> QED BY <2>1, <2>2
<1> QED BY <1>3, <1>5, <1>6, <1>7, AwaitedStep

LEMMA KindsAre ==
  /\ KindOf(Senders) = "send" /\ KindOf(Receivers) = "receive"
  /\ \A l \in EventList : KindOf(l) = "send" => l = Senders
  /\ \A l \in EventList : KindOf(l) = "receive" => l = Receivers
BY TwoLists DEF KindOf

(* an item is moved: a place, or an item, more for those on list l            *)
LEMMA AwaitedMove ==
  ASSUME Core, Core', Awaited, NEW a, NEW c, Continues(a, c), NEW l \in EventList, FirstWoken(l),
         MayWait(a, c), StillLooks(a, c, l),
         Amount(queue', l) = Amount(queue, l) + 1, Counted(queue', l) = Counted(queue, l),
         NEW m \in EventList, m # l, Amount(queue', m) + 1 = Amount(queue, m),
         Counted(queue', m) = Counted(queue, m)
  PROVE  Awaited'
<1>1. \A k \in EventList : Shrinks(sched, sched', k)
  BY FirstWokenIs
<1>2. WaitInv'
  BY <1>1, WaitKept DEF Awaited
<1>3. Covered(sched, pc, call, queue, l) /\ Covered(sched, pc, call, queue, m) /\ WaitInv
  BY DEF Awaited, CoverInv
<1>4. Covered(sched', pc', call', queue', l)
  BY <1>3, CoverMore
<1>5. Covered(sched', pc', call', queue', m)
  BY <1>1, <1>3, CoverLess
<1>6. \A k \in EventList : k = l \/ k = m
  BY TwoLists
<1> QED BY <1>2, <1>4, <1>5, <1>6 DEF Awaited, CoverInv

----------------------------------------------------------------------------
LEMMA ReceiveAwaited == ASSUME Core, Core', Awaited, Receive PROVE Awaited'
<1>1. At("try") /\ call[cur].kind = "receive"
  BY DEF Receive, InCall
<1>2. queue \in QueueStates
  BY CoreIs
<1>3. CASE Empty(queue) /\ NotYet
  <2>1. \A l \in EventList : call[cur].kind = KindOf(l) => Amount(queue, l) = 0
    BY <1>1, <1>3, KindsAre, TwoLists DEF Amount, Empty
  <2> QED BY <1>1, <1>3, <2>1, NotYetAwaited
<1>4. CASE /\ ~ Empty(queue) /\ queue' = DataRemoved(queue)
           /\ sched' = WakeFirst(sched, Senders) /\ NextReceive
  <2>1. PICK a \in {"try", "idle"}, c \in Local :
           /\ pc' = [pc EXCEPT ![cur] = a] /\ call' = [call EXCEPT ![cur] = c]
    BY <1>1, <1>4, NextReceiveIs DEF InCall
  <2>2. Continues(a, c)
    BY <2>1 DEF Continues
  <2>3. FirstWoken(Senders)
    BY <1>1, <1>4, WokenFirst, TwoLists DEF FirstWoken
  <2>4. MayWait(a, c)
    BY <1>1 DEF MayWait, Blocks, At
  <2>5. StillLooks(a, c, Senders)
    BY <1>1, KindsAre, LooksOther
  <2>6. Consumed(queue, queue')
    BY <1>2, <1>4, RemovedIs
  <2>7. /\ queue.uxMessagesWaiting \in Int /\ EventQueueSize \in Int
        /\ queue'.uxMessagesWaiting = queue.uxMessagesWaiting - 1
        /\ queue'.cRxLock = queue.cRxLock /\ queue'.cTxLock = queue.cTxLock
    BY <1>2, <2>6, QueueType, SizeIs DEF Consumed
  <2>8. Amount(queue', Senders) = Amount(queue, Senders) + 1
    BY <2>7 DEF Amount, Avail
  <2>9. Amount(queue', Receivers) + 1 = Amount(queue, Receivers)
    BY <2>7, TwoLists DEF Amount
  <2>10. \A l : Counted(queue', l) = Counted(queue, l)
    BY <2>7 DEF Counted
  <2> QED BY <2>2, <2>3, <2>4, <2>5, <2>8, <2>9, <2>10, TwoLists, AwaitedMove
<1> QED BY <1>3, <1>4 DEF Receive

LEMMA SendAwaited == ASSUME Core, Core', Awaited, Send PROVE Awaited'
<1>1. At("try") /\ call[cur].kind = "send"
  BY DEF Send, InCall
<1>2. queue \in QueueStates /\ EventQueueSize \in Int
  BY CoreIs, SizeIs
<1>3. CASE Full(queue) /\ NotYet
  <2>1. \A l \in EventList : call[cur].kind = KindOf(l) => Amount(queue, l) = 0
    BY <1>1, <1>2, <1>3, KindsAre, TwoLists DEF Amount, Full, Avail
  <2> QED BY <1>1, <1>3, <2>1, NotYetAwaited
<1>4. CASE /\ ~ Full(queue) /\ posted < MaxItems /\ posted' = posted + 1
           /\ queue' = CopyDataToQueue(queue, posted')
           /\ sched' = WakeFirst(sched, Receivers) /\ Goto("idle") /\ call' = call
  <2>1. cur \in Task /\ posted \in Nat
    BY CoreIs
  <2>2. Continues("idle", call[cur])
    BY <1>4, <2>1, LocalSame DEF Core, Continues, Goto
  <2>3. FirstWoken(Receivers)
    BY <1>1, <1>4, WokenFirst, TwoLists DEF FirstWoken
  <2>4. MayWait("idle", call[cur])
    BY <1>1 DEF MayWait, Blocks, At
  <2>5. StillLooks("idle", call[cur], Receivers)
    BY <1>1, KindsAre, LooksOther
  <2>6. posted' \in Item
    BY <1>4, <2>1, SizeIs DEF Item
  <2>7. Copied(queue, queue', posted')
    BY <1>2, <1>4, <2>6, CopyIs
  <2>8. /\ queue.uxMessagesWaiting \in Int
        /\ queue'.uxMessagesWaiting = queue.uxMessagesWaiting + 1
        /\ queue'.cRxLock = queue.cRxLock /\ queue'.cTxLock = queue.cTxLock
    BY <1>2, <2>7, QueueType DEF Copied
  <2>9. Amount(queue', Receivers) = Amount(queue, Receivers) + 1
    BY <2>8, TwoLists DEF Amount
  <2>10. Amount(queue', Senders) + 1 = Amount(queue, Senders)
    BY <1>2, <2>8 DEF Amount, Avail
  <2>11. \A l : Counted(queue', l) = Counted(queue, l)
    BY <2>8 DEF Counted
  <2> QED BY <2>2, <2>3, <2>4, <2>5, <2>9, <2>10, <2>11, TwoLists, AwaitedMove
<1> QED BY <1>3, <1>4 DEF Send

LEMMA SuspendAwaited == ASSUME Core, Core', Awaited, SuspendAll PROVE Awaited'
<1> DEFINE a == IF InCall("delay") THEN "delay" ELSE "lock"
<1>1. At("suspend") /\ queue' = queue /\ call' = call /\ Goto(a)
  BY DEF SuspendAll
<1>2. cur \in Task /\ pc[cur] = "suspend"
  BY <1>1, CoreIs DEF At
<1>3. Continues(a, call[cur])
  BY <1>1, <1>2, LocalSame DEF Core, Continues, Goto
<1> HIDE DEF a
<1>4. MayWait(a, call[cur])
  BY <1>2 DEF MayWait, Blocks
<1>5. \A l \in EventList : Shrinks(sched, sched', l)
  BY SuspendSched, SameShrinks DEF SameLists
<1>6. \A l \in EventList : StillLooks(a, call[cur], l) /\ SameCount(l)
  BY <1>1, <1>2, LooksNot, SameQueueCount DEF Asking
<1> QED BY <1>3, <1>4, <1>5, <1>6, AwaitedStep

(* locking the queue counts nothing                                           *)
LEMMA LockAwaited == ASSUME Core, Core', Awaited, LockQueue PROVE Awaited'
<1> DEFINE out == TimedOut(call[cur])
           c == [CheckForTimeOut(call[cur]) EXCEPT !.then = IF out THEN "expired" ELSE "block"]
           a == IF out THEN "unlockTx" ELSE "check"
<1>1. At("lock") /\ sched' = sched /\ queue' = prvLockQueue(queue)
  BY DEF LockQueue
<1>2. /\ cur \in Task /\ DOMAIN call = Task /\ pc[cur] = "lock" /\ queue \in QueueStates
      /\ queue.cRxLock \in {-1, 0} /\ queue.cTxLock \in Int
  BY <1>1, CoreIs, QueueType DEF At
<1>3. Continues(a, c)
  BY <1>2 DEF LockQueue, Continues, Goto
<1> HIDE DEF a, c
<1>4. MayWait(a, c)
  BY <1>2 DEF MayWait, Blocks
<1>5. \A l \in EventList : Shrinks(sched, sched', l)
  BY <1>1, SameShrinks
<1>6. /\ queue'.cRxLock = 0 /\ queue'.uxMessagesWaiting = queue.uxMessagesWaiting
      /\ queue'.cTxLock = IF queue.cTxLock >= 0 THEN queue.cTxLock ELSE 0
  BY <1>1, <1>2, LockQueueIs
<1>7. ASSUME NEW l \in EventList PROVE StillLooks(a, c, l) /\ SameCount(l)
  <2>1. StillLooks(a, c, l)
    BY <1>2, LooksNot DEF Asking
  <2>2. Amount(queue', l) = Amount(queue, l)
    BY <1>6 DEF Amount, Avail
  <2>3. Counted(queue', l) = Counted(queue, l)
    BY <1>2, <1>6 DEF Counted
  <2>4. Amount(queue, l) \in Nat /\ Counted(queue, l) \in Nat
    BY <1>2, Amounts
  <2>5. SameCount(l)
    BY <2>2, <2>3, <2>4 DEF SameCount
  <2> QED BY <2>1, <2>5
<1> QED BY <1>3, <1>4, <1>5, <1>7, AwaitedStep

LEMMA DelayAwaited == ASSUME Core, Core', Awaited, Delay PROVE Awaited'
<1>1. At("delay") /\ queue' = queue /\ call' = call /\ Goto("resume")
  BY DEF Delay
<1>2. cur \in Task /\ pc[cur] = "delay"
  BY <1>1, CoreIs DEF At
<1>3. Continues("resume", call[cur])
  BY <1>1, <1>2, LocalSame DEF Core, Continues, Goto
<1>4. MayWait("resume", call[cur])
  BY <1>2 DEF MayWait, Blocks
<1>5. \A l \in EventList : Shrinks(sched, sched', l)
  BY DelaySched, SameShrinks DEF FallsAsleep
<1>6. \A l \in EventList : StillLooks("resume", call[cur], l) /\ SameCount(l)
  BY <1>1, <1>2, LooksNot, SameQueueCount DEF Asking
<1> QED BY <1>3, <1>4, <1>5, <1>6, AwaitedStep

----------------------------------------------------------------------------
(* the current task puts itself on the list of a queue that has nothing left  *)
LEMMA CheckAwaited == ASSUME Core, Core', Awaited, Check PROVE Awaited'
<1> DEFINE b == call[cur]
           c == [b EXCEPT !.then = IF MustWait THEN "block" ELSE "retry"]
<1>1. At("check") /\ queue' = queue
  BY DEF Check
<1>2. /\ cur \in Task /\ DOMAIN call = Task /\ pc[cur] = "check" /\ LocalFits(pc[cur], b)
  BY <1>1, CoreIs DEF At
<1>3. Continues("unlockTx", c)
  BY <1>2 DEF Check, Continues, Goto
<1>4. b \in Local /\ b.kind # "delay"
  BY <1>2 DEF LocalFits
<1>5. c.kind = b.kind /\ b.kind \in {"send", "receive"}
  BY <1>4 DEF Local
<1> HIDE DEF c
<1>6. \A l \in EventList : StillLooks("unlockTx", c, l) /\ SameCount(l)
  BY <1>1, <1>2, LooksNot, SameQueueCount DEF Asking
<1>7. ~ Blocks(pc[cur], call[cur])
  BY <1>2 DEF Blocks
<1>8. CASE ~ MustWait
  <2>1. sched' = sched
    BY <1>8, CheckSched
  <2>2. \A l \in EventList : Shrinks(sched, sched', l)
    BY <2>1, SameShrinks
  <2>3. MayWait("unlockTx", c)
    BY <1>7 DEF MayWait
  <2> QED BY <1>3, <1>6, <2>2, <2>3, AwaitedStep
<1>9. CASE MustWait
  <2> DEFINE m == WaitList
  <2>1. m \in EventList /\ KindOf(m) = b.kind
    BY <1>5, KindsAre, TwoLists DEF WaitList, InCall
  <2>2. Amount(queue', m) = 0
    <3>1. CASE b.kind = "send"
      <4>1. Full(queue) /\ m = Senders
        BY <1>9, <3>1 DEF MustWait, WaitList, InCall
      <4>2. EventQueueSize \in Int
        BY SizeIs
      <4> QED BY <1>1, <4>1, <4>2 DEF Amount, Full, Avail
    <3>2. CASE b.kind # "send"
      <4>1. Empty(queue) /\ m = Receivers
        BY <1>9, <3>2 DEF MustWait, WaitList, InCall
      <4> QED BY <1>1, <4>1, TwoLists DEF Amount, Empty
    <3> QED BY <3>1, <3>2
  <2>3. Waits(sched, sched', m)
    BY <1>9, CheckSched
  <2> HIDE DEF m
  <2>4. /\ Range(sched'.events[m]) = Range(sched.events[m]) \cup {cur}
        /\ \A l \in EventList : l # m => sched'.events[l] = sched.events[l]
    BY <2>3 DEF Waits, cur
  <2>5. WaitInv'
    <3> SUFFICES ASSUME NEW l \in EventList, NEW t \in Range(sched'.events[l])
                 PROVE  call'[t].kind = KindOf(l) /\ pc'[t] \in Asking
      BY DEF WaitInv, KindOf, Asking
    <3>1. CASE t = cur
      <4>1. cur \notin Range(sched.events[l])
        BY <1>7, CurWaits
      <4>2. l = m
        BY <2>4, <3>1, <4>1
      <4> QED BY <1>3, <1>5, <2>1, <3>1, <4>2, GoesOn DEF Asking
    <3>2. CASE t # cur
      <4>1. t \in Range(sched.events[l])
        BY <2>4, <3>2
      <4>2. t \in Task /\ call[t].kind = KindOf(l) /\ pc[t] \in Asking
        BY <4>1, CoreIs, EventsAre DEF Awaited, WaitInv
      <4> QED BY <1>3, <3>2, <4>2, GoesOn
    <3> QED BY <3>1, <3>2
  <2>6. ASSUME NEW l \in EventList PROVE Covered(sched', pc', call', queue', l)
    <3>1. CASE l = m
      BY <2>2, <3>1, CoverNone
    <3>2. CASE l # m
      <4>1. Shrinks(sched, sched', l)
        BY <2>4, <3>2 DEF Shrinks
      <4>2. Covered(sched, pc, call, queue, l)
        BY DEF Awaited, CoverInv
      <4>3. StillLooks("unlockTx", c, l) /\ SameCount(l)
        BY <1>6
      <4> QED BY <1>3, <4>1, <4>2, <4>3, CoverSame DEF SameCount
    <3> QED BY <3>1, <3>2
  <2> QED BY <2>5, <2>6 DEF Awaited, CoverInv
<1> QED BY <1>8, <1>9

(* each item that was counted has woken a task, if any still waits            *)
LEMMA UnlockTxAwaited == ASSUME Core, Core', Awaited, UnlockTx PROVE Awaited'
<1> DEFINE c == call[cur]
<1>1. /\ At("unlockTx") /\ call' = call /\ Goto("unlockRx")
      /\ queue' = [queue EXCEPT !.cTxLock = -1]
  BY DEF UnlockTx, queueUNLOCKED
<1>2. cur \in Task /\ pc[cur] = "unlockTx" /\ queue \in QueueStates
  BY <1>1, CoreIs DEF At
<1>3. Continues("unlockRx", c)
  BY <1>1, <1>2, LocalSame DEF Core, Continues, Goto
<1>4. MayWait("unlockRx", c)
  BY DEF MayWait, Asking
<1>5. \A l : StillLooks("unlockRx", c, l)
  BY <1>2 DEF StillLooks, Looker, GivesUp, Asking
<1> HIDE DEF c
<1>6. \A l \in EventList : Shrinks(sched, sched', l)
  BY UnlockTxSched, MovesShrinks DEF Waking
<1>7. TxLocked(queue, queue', -1)
  <2>1. -1 \in Int
    OBVIOUS
  <2> QED BY <1>1, <1>2, <2>1, LockFields
<1>8. \A l : Amount(queue', l) = Amount(queue, l)
  BY <1>7 DEF TxLocked, Amount, Avail
<1>9. Counted(queue', Senders) = Counted(queue, Senders)
  BY <1>7 DEF TxLocked, Counted
<1>10. queue.cTxLock \in Nat
  BY <1>2, CoreIs DEF Core, Locked
<1>11. Counted(queue, Receivers) = queue.cTxLock /\ Counted(queue', Receivers) = 0
  BY <1>7, <1>10, TwoLists DEF TxLocked, Counted
<1>12. WaitInv' /\ WaitInv /\ CoverInv
  BY <1>3, <1>4, <1>6, WaitKept DEF Awaited
<1>13. Covered(sched', pc', call', queue', Senders)
  <2>1. Amount(queue, Senders) \in Nat /\ Counted(queue, Senders) \in Nat
    BY <1>2, Amounts
  <2>2. Amount(queue', Senders) + Counted(queue, Senders)
           <= Amount(queue, Senders) + Counted(queue', Senders)
    BY <1>8, <1>9, <2>1
  <2>3. Covered(sched, pc, call, queue, Senders) /\ Shrinks(sched, sched', Senders)
    BY <1>6, <1>12, TwoLists DEF CoverInv
  <2> QED BY <1>3, <1>5, <2>2, <2>3, TwoLists, CoverSame
<1>14. Covered(sched', pc', call', queue', Receivers)
  <2> SUFFICES ASSUME sched'.events[Receivers] # <<>>
               PROVE  Amount(queue', Receivers)
                        <= Cardinality(Looks(sched', pc', call', Receivers)) + Counted(queue', Receivers)
    BY DEF Covered
  <2> DEFINE L == Left(sched, sched', Receivers)
  <2>1. Shrinks(sched, sched', Receivers) /\ sched.events[Receivers] # <<>>
    BY <1>6, TwoLists, StillWait
  <2>2. Amount(queue, Receivers)
          <= Cardinality(Looks(sched, pc, call, Receivers)) + queue.cTxLock
    BY <1>11, <1>12, <2>1, TwoLists DEF CoverInv, Covered
  <2>3. Cardinality(L) = queue.cTxLock
    BY UnlockTxSched
  <2>4. L \subseteq Looks(sched', pc', call', Receivers)
    BY <1>3, <1>5, <1>12, TwoLists, LooksNew DEF Left
  <2>5. L \cap Looks(sched, pc, call, Receivers) = {}
    BY <1>3, <1>5, <1>12, TwoLists, LooksNew DEF Left
  <2> HIDE DEF L
  <2>6. Looks(sched, pc, call, Receivers) \subseteq Looks(sched', pc', call', Receivers)
    BY <1>3, <1>5, <2>1, LooksGrow
  <2>7. L \subseteq Task
    BY <2>4, LooksAre
  <2>8. Cardinality(Looks(sched, pc, call, Receivers)) + Cardinality(L)
          <= Cardinality(Looks(sched', pc', call', Receivers))
    BY <2>4, <2>5, <2>6, <2>7, LooksAre, MoreTasks
  <2>9. /\ Amount(queue, Receivers) \in Nat
        /\ Cardinality(Looks(sched, pc, call, Receivers)) \in Nat
        /\ Cardinality(Looks(sched', pc', call', Receivers)) \in Nat
    BY AmountTypes
  <2>10. Amount(queue', Receivers) = Amount(queue, Receivers)
    BY <1>8
  <2> QED BY <1>10, <1>11, <2>2, <2>3, <2>8, <2>9, <2>10
<1> QED BY <1>12, <1>13, <1>14, TwoLists DEF Awaited, CoverInv

(* no place can have been freed while the scheduler was suspended             *)
LEMMA UnlockRxAwaited == ASSUME Core, Core', Awaited, UnlockRx PROVE Awaited'
<1> DEFINE c == call[cur]
<1>1. /\ At("unlockRx") /\ call' = call /\ Goto("resume")
      /\ queue' = [queue EXCEPT !.cRxLock = -1]
  BY DEF UnlockRx, queueUNLOCKED
<1>2. cur \in Task /\ pc[cur] = "unlockRx" /\ queue \in QueueStates /\ queue.cRxLock = 0
  BY <1>1, UnlockRxSched, CoreIs DEF At
<1>3. Continues("resume", c)
  BY <1>1, <1>2, LocalSame DEF Core, Continues, Goto
<1>4. MayWait("resume", c)
  BY DEF MayWait, Asking
<1>5. \A l : StillLooks("resume", c, l)
  BY <1>2 DEF StillLooks, Looker, GivesUp, Asking
<1> HIDE DEF c
<1>6. \A l \in EventList : Shrinks(sched, sched', l)
  BY UnlockRxSched, MovesShrinks DEF Waking
<1>7. RxLocked(queue, queue', -1)
  BY <1>1, <1>2, LockFields
<1>8. ASSUME NEW l \in EventList PROVE SameCount(l)
  <2>1. Amount(queue', l) = Amount(queue, l) /\ Counted(queue', l) = Counted(queue, l)
    BY <1>2, <1>7 DEF RxLocked, Amount, Avail, Counted
  <2>2. Amount(queue, l) \in Nat /\ Counted(queue, l) \in Nat
    BY <1>2, Amounts
  <2> QED BY <2>1, <2>2 DEF SameCount
<1> QED BY <1>3, <1>4, <1>5, <1>6, <1>8, AwaitedStep

LEMMA ResumeAwaited == ASSUME Core, Core', Awaited, Resume PROVE Awaited'
<1> DEFINE c == call[cur]
<1>1. At("resume") /\ call' = call /\ queue' = queue
  BY DEF Resume
<1>2. cur \in Task /\ pc[cur] = "resume"
  BY <1>1, CoreIs DEF At
<1>3. PICK a \in {"idle", "try", "yield", "recheck"} :
               /\ pc' = [pc EXCEPT ![cur] = a]
               /\ a = "recheck" => c.then = "expired" /\ c.kind = "receive"
               /\ a = "idle" => c.kind = "delay" \/ (c.then = "expired" /\ c.kind = "send")
  BY ResumeGoes
<1>4. Continues(a, c)
  BY <1>1, <1>2, <1>3, LocalSame DEF Core, Continues
<1>5. MayWait(a, c)
  <2>1. CASE a \in {"try", "yield"}
    BY <2>1 DEF MayWait, Asking
  <2>2. CASE a = "recheck" \/ c.then = "expired"
    BY <1>2, <1>3, <2>2 DEF MayWait, Blocks
  <2>3. CASE c.kind = "delay"
    BY <2>3 DEF MayWait
  <2> QED BY <1>3, <2>1, <2>2, <2>3
<1>6. ASSUME NEW l \in EventList PROVE StillLooks(a, c, l)
  <2>1. CASE a # "idle"
    BY <1>3, <2>1 DEF StillLooks, Looker, GivesUp, Asking
  <2>2. CASE a = "idle"
    BY <1>2, <1>3, <2>2 DEF StillLooks, Looker, GivesUp, KindOf
  <2> QED BY <2>1, <2>2
<1> HIDE DEF c
<1>7. \A l \in EventList : Shrinks(sched, sched', l)
  BY ResumeSched DEF Goes, Shrinks
<1>8. \A l \in EventList : SameCount(l)
  BY <1>1, SameQueueCount
<1> QED BY <1>4, <1>5, <1>6, <1>7, <1>8, AwaitedStep

LEMMA YieldAwaited == ASSUME Core, Core', Awaited, Yield PROVE Awaited'
<1> DEFINE c == call[cur]
           a == IF c.kind = "delay" THEN "idle" ELSE "try"
<1>1. At("yield") /\ call' = call /\ queue' = queue /\ Goto(a)
  BY DEF Yield, InCall
<1>2. cur \in Task /\ pc[cur] = "yield"
  BY <1>1, CoreIs DEF At
<1>3. Continues(a, c)
  BY <1>1, <1>2, LocalSame DEF Core, Continues, Goto
<1>4. MayWait(a, c)
  BY DEF MayWait, Asking
<1>5. \A l : StillLooks(a, c, l)
  BY <1>2 DEF StillLooks, Looker, GivesUp, Asking, KindOf
<1> HIDE DEF a, c
<1>6. \A l \in EventList : Shrinks(sched, sched', l)
  BY YieldSched DEF Goes, Shrinks
<1>7. \A l \in EventList : SameCount(l)
  BY <1>1, SameQueueCount
<1> QED BY <1>3, <1>4, <1>5, <1>6, <1>7, AwaitedStep

(* a call to receive ends for good only when there is nothing                 *)
LEMMA RecheckAwaited == ASSUME Core, Core', Awaited, Recheck PROVE Awaited'
<1> DEFINE c == call[cur]
           a == IF Empty(queue) THEN "idle" ELSE "try"
<1>1. At("recheck") /\ call' = call /\ queue' = queue /\ sched' = sched /\ Goto(a)
  BY DEF Recheck
<1>2. cur \in Task /\ pc[cur] = "recheck" /\ c.kind = "receive"
  BY <1>1, CoreIs DEF At, LocalFits
<1>3. Continues(a, c)
  BY <1>1, <1>2, LocalSame DEF Core, Continues, Goto
<1>4. MayWait(a, c)
  BY <1>2 DEF MayWait, Blocks
<1>5. ASSUME NEW l \in EventList
      PROVE  Amount(queue', l) = 0 \/ StillLooks(a, c, l)
  <2>1. CASE l = Senders
    BY <1>2, <2>1, KindsAre, LooksOther
  <2>2. CASE l # Senders /\ Empty(queue)
    BY <1>1, <2>2 DEF Amount, Empty
  <2>3. CASE ~ Empty(queue)
    BY <2>3 DEF StillLooks, Looker, GivesUp, Asking
  <2> QED BY <2>1, <2>2, <2>3
<1> HIDE DEF a, c
<1>6. \A l \in EventList : Shrinks(sched, sched', l) /\ SameCount(l)
  BY <1>1, SameShrinks, SameQueueCount
<1> QED BY <1>3, <1>4, <1>5, <1>6, AwaitedStep

----------------------------------------------------------------------------
(* Interrupts move no task on in its call                                     *)
LEMMA HandlerGoes ==
  ASSUME Core, WaitInv, pc' = pc, call' = call
  PROVE  /\ Continues(pc[cur], call[cur])
         /\ \A l : StillLooks(pc[cur], call[cur], l)
         /\ \A l \in EventList : cur \in Range(sched.events[l]) =>
              call[cur].kind = KindOf(l) /\ pc[cur] \in Asking
<1>1. cur \in Task /\ pc \in [Task -> Points]
  BY CoreIs
<1>2. pc' = [pc EXCEPT ![cur] = pc[cur]] /\ call' = [call EXCEPT ![cur] = call[cur]]
  BY <1>1, LocalSame DEF Core
<1> QED BY <1>2 DEF Continues, StillLooks, WaitInv

LEMMA HandlerWaits ==
  ASSUME Core, WaitInv, pc' = pc, call' = call, \A l \in EventList : Shrinks(sched, sched', l)
  PROVE  WaitInv'
BY HandlerGoes, WaitStep

LEMMA QuietAwaited ==
  ASSUME Core, Core', Awaited, pc' = pc, call' = call, queue' = queue,
         \A l \in EventList : Shrinks(sched, sched', l)
  PROVE  Awaited'
<1> DEFINE a == pc[cur]
           c == call[cur]
<1>1. WaitInv' /\ WaitInv /\ CoverInv
  BY HandlerWaits DEF Awaited
<1>2. Continues(a, c) /\ \A l : StillLooks(a, c, l)
  BY <1>1, HandlerGoes
<1> HIDE DEF a, c
<1>3. ASSUME NEW l \in EventList PROVE Covered(sched', pc', call', queue', l)
  <2>1. SameCount(l) /\ Covered(sched, pc, call, queue, l)
    BY <1>1, SameQueueCount DEF CoverInv
  <2> QED BY <1>2, <2>1, CoverSame DEF SameCount
<1> QED BY <1>1, <1>3 DEF Awaited, CoverInv

LEMMA EnterAwaited == ASSUME Core, Core', Awaited, InputEventInjectFromISR PROVE Awaited'
<1>1. pc' = pc /\ call' = call /\ queue' = queue
  BY DEF InputEventInjectFromISR
<1> QED BY <1>1, EnterSched, SameShrinks, QuietAwaited

LEMMA TickAwaited == ASSUME Core, Core', Awaited, Tick PROVE Awaited'
<1>1. pc' = pc /\ call' = call /\ queue' = queue
  BY DEF Tick
<1> QED BY <1>1, TickCore, MovesShrinks, QuietAwaited

LEMMA LeaveAwaited == ASSUME Core, Core', Awaited, Leave PROVE Awaited'
<1>1. pc' = pc /\ call' = call /\ queue' = queue
  BY DEF Leave
<1> QED BY <1>1, LeaveCore, MovesShrinks, QuietAwaited

LEMMA StutterAwaited == ASSUME Core, Core', Awaited, UNCHANGED vars PROVE Awaited'
<1>1. pc' = pc /\ call' = call /\ queue' = queue /\ sched' = sched
  BY DEF vars
<1> QED BY <1>1, SameShrinks, QuietAwaited

(* an item sent by a handler wakes a task, or is counted                      *)
LEMMA SendFromISRAwaited == ASSUME Core, Core', Awaited, xQueueSendFromISR PROVE Awaited'
<1> DEFINE a == pc[cur]
           c == call[cur]
<1>1. pc' = pc /\ call' = call /\ WaitInv /\ CoverInv
  BY SendFromISRIs DEF Awaited
<1>2. /\ Continues(a, c) /\ \A l : StillLooks(a, c, l)
      /\ \A l \in EventList : cur \in Range(sched.events[l]) => c.kind = KindOf(l) /\ a \in Asking
  BY <1>1, HandlerGoes
<1> HIDE DEF a, c
<1>3. /\ queue \in QueueStates /\ queue.cTxLock \in Int /\ queue.cTxLock >= -1
      /\ queue.uxMessagesWaiting \in Int /\ EventQueueSize \in Int
      /\ queue' \in QueueStates
  BY CoreIs, QueueType, SizeIs DEF Core, Locked
<1>4. \A l \in EventList : Covered(sched, pc, call, queue, l)
  BY <1>1 DEF CoverInv
<1>5. CASE queue.cTxLock # -1
  <2>1. sched' = sched
    BY <1>5, SendFromISRIs
  <2>2. \A l \in EventList : Shrinks(sched, sched', l)
    BY <2>1, SameShrinks
  <2>3. PICK q \in QueueStates :
          Copied(queue, q, posted') /\ TxLocked(q, queue', queue.cTxLock + 1)
    BY <1>5, SendFromISRIs
  <2>4. /\ queue'.uxMessagesWaiting = queue.uxMessagesWaiting + 1
        /\ queue'.cRxLock = queue.cRxLock /\ queue'.cTxLock = queue.cTxLock + 1
    BY <2>3 DEF Copied, TxLocked
  <2>5. WaitInv'
    BY <1>1, <2>2, HandlerWaits
  <2>6. Covered(sched', pc', call', queue', Receivers)
    <3>1. /\ Amount(queue', Receivers) = Amount(queue, Receivers) + 1
          /\ Amount(queue, Receivers) \in Int
      BY <1>3, <2>4, TwoLists DEF Amount
    <3>2. /\ Counted(queue', Receivers) = Counted(queue, Receivers) + 1
          /\ Counted(queue, Receivers) \in Int
      BY <1>3, <1>5, <2>4, TwoLists DEF Counted
    <3>3. Amount(queue', Receivers) + Counted(queue, Receivers)
             <= Amount(queue, Receivers) + Counted(queue', Receivers)
      BY <3>1, <3>2
    <3> QED BY <1>2, <1>4, <2>2, <3>3, TwoLists, CoverSame
  <2>7. Covered(sched', pc', call', queue', Senders)
    <3>1. Amount(queue', Senders) + 1 = Amount(queue, Senders)
      BY <1>3, <2>4 DEF Amount, Avail
    <3>2. Counted(queue', Senders) = Counted(queue, Senders)
      BY <2>4 DEF Counted
    <3> QED BY <1>2, <1>4, <2>2, <3>1, <3>2, TwoLists, CoverLess
  <2> QED BY <2>5, <2>6, <2>7, TwoLists DEF Awaited, CoverInv
<1>6. CASE queue.cTxLock = -1
  <2>1. Copied(queue, queue', posted') /\ FirstWoken(Receivers)
    BY <1>6, SendFromISRIs DEF FirstWoken
  <2>2. \A l \in EventList : Shrinks(sched, sched', l)
    BY <2>1, TwoLists, FirstWokenIs
  <2>3. /\ queue'.uxMessagesWaiting = queue.uxMessagesWaiting + 1
        /\ queue'.cRxLock = queue.cRxLock /\ queue'.cTxLock = queue.cTxLock
    BY <2>1 DEF Copied
  <2>4. WaitInv'
    BY <1>1, <2>2, HandlerWaits
  <2>5. \A l : Counted(queue', l) = Counted(queue, l)
    BY <2>3 DEF Counted
  <2>6. Covered(sched', pc', call', queue', Receivers)
    <3>1. Amount(queue', Receivers) = Amount(queue, Receivers) + 1
      BY <2>3, TwoLists DEF Amount
    <3> QED BY <1>1, <1>2, <1>4, <2>1, <2>5, <3>1, TwoLists, CoverMore
  <2>7. Covered(sched', pc', call', queue', Senders)
    <3>1. Amount(queue', Senders) + 1 = Amount(queue, Senders)
      BY <1>3, <2>3 DEF Amount, Avail
    <3> QED BY <1>2, <1>4, <2>2, <2>5, <3>1, TwoLists, CoverLess
  <2> QED BY <2>4, <2>6, <2>7, TwoLists DEF Awaited, CoverInv
<1> QED BY <1>5, <1>6

LEMMA InitAwaited == ASSUME Init PROVE Awaited
<1>1. sched = InitSched /\ Core
  BY InitCore DEF Init
<1>2. \A t \in Task : IsReady(sched, t)
  BY <1>1, InitSchedIs
<1>3. \A l \in EventList : Range(sched.events[l]) = {}
  <2> SUFFICES ASSUME NEW l \in EventList, NEW t \in Range(sched.events[l]) PROVE FALSE
    OBVIOUS
  <2>1. sched \in SchedStates /\ Lists(sched)
    BY <1>1, CoreIs
  <2>2. t \in Task
    BY <2>1, EventsAre
  <2>3. Waiting(sched, t) /\ Placed(sched, t)
    BY <2>1, <2>2 DEF Waiting, Lists
  <2> QED BY <1>2, <2>2, <2>3 DEF Placed
<1>4. \A l \in EventList : sched.events[l] = <<>>
  <2>1. sched \in SchedStates
    BY <1>1, CoreIs
  <2> QED BY <1>3, <2>1, EventsAre
<1> QED BY <1>3, <1>4 DEF Awaited, WaitInv, CoverInv, Covered

LEMMA NextAwaited == ASSUME Core, Core', Awaited, [Next]_vars PROVE Awaited'
<1>1. CASE Begin
  BY <1>1, BeginAwaited
<1>2. CASE Receive
  BY <1>2, ReceiveAwaited
<1>3. CASE Send
  BY <1>3, SendAwaited
<1>4. CASE SuspendAll
  BY <1>4, SuspendAwaited
<1>5. CASE LockQueue
  BY <1>5, LockAwaited
<1>6. CASE Check
  BY <1>6, CheckAwaited
<1>7. CASE Delay
  BY <1>7, DelayAwaited
<1>8. CASE UnlockTx
  BY <1>8, UnlockTxAwaited
<1>9. CASE UnlockRx
  BY <1>9, UnlockRxAwaited
<1>10. CASE Resume
  BY <1>10, ResumeAwaited
<1>11. CASE Yield
  BY <1>11, YieldAwaited
<1>12. CASE Recheck
  BY <1>12, RecheckAwaited
<1>13. CASE InputEventInjectFromISR
  BY <1>13, EnterAwaited
<1>14. CASE xQueueSendFromISR
  BY <1>14, SendFromISRAwaited
<1>15. CASE Tick
  BY <1>15, TickAwaited
<1>16. CASE Leave
  BY <1>16, LeaveAwaited
<1>17. CASE UNCHANGED vars
  BY <1>17, StutterAwaited
<1> QED BY <1>1, <1>2, <1>3, <1>4, <1>5, <1>6, <1>7, <1>8, <1>9, <1>10, <1>11,
           <1>12, <1>13, <1>14, <1>15, <1>16, <1>17 DEF Next

LEMMA QueueTyped == ASSUME Core PROVE TypeOK
<1>1. SchedTypeOK /\ queue \in QueueStates /\ EventQueueSize \in Nat /\ MaxItems \in Nat
  BY CoreTypes, CoreIs, SizeIs
<1>2. /\ queue.uxMessagesWaiting \in 0 .. EventQueueSize
      /\ queue.pcWriteTo \in 0 .. EventQueueSize - 1 /\ queue.pcReadFrom \in 0 .. EventQueueSize - 1
  BY <1>1, QueueType DEF Place
<1>3. /\ queue.cRxLock \in {-1, 0} /\ queue.cTxLock \in Int /\ queue.cTxLock >= -1
      /\ queue.cTxLock <= posted /\ posted \in Nat /\ posted <= MaxItems
  BY <1>1, QueueType, CoreIs DEF Core, Locked, Injecting
<1>4. {queue.cRxLock, queue.cTxLock} \subseteq queueUNLOCKED .. MaxItems
  BY <1>1, <1>3 DEF queueUNLOCKED
<1>5. pc \in [Task -> Points] /\ inject \in 0 .. MaxGroup /\ posted \in 0 .. MaxItems
  BY <1>1, <1>3, CoreIs DEF Core, Injecting
<1> QED BY <1>1, <1>2, <1>4, <1>5 DEF TypeOK, Points

LEMMA AwaitedCounts ==
  ASSUME Core, Awaited, NEW l \in EventList, sched.events[l] # <<>>
  PROVE  Amount(queue, l)
           <= Cardinality(WillLook(KindOf(l), l)) + Counted(queue, l)
<1>1. Amount(queue, l) <= Cardinality(Looks(sched, pc, call, l)) + Counted(queue, l)
  BY DEF Awaited, CoverInv, Covered
<1>2. Looks(sched, pc, call, l) \subseteq WillLook(KindOf(l), l)
  BY DEF Looks, Looker, WillLook, Asking
<1>3. WillLook(KindOf(l), l) \subseteq Task
  BY DEF WillLook
<1>4. Cardinality(Looks(sched, pc, call, l)) + Cardinality({})
        <= Cardinality(WillLook(KindOf(l), l))
  BY <1>2, <1>3, LooksAre, MoreTasks
<1>5. /\ Cardinality(Looks(sched, pc, call, l)) \in Nat
      /\ Cardinality(WillLook(KindOf(l), l)) \in Nat
      /\ Amount(queue, l) \in Nat /\ Counted(queue, l) \in Nat
  BY <1>3, LooksAre, TasksAre, CoreIs, Amounts
<1> QED BY <1>1, <1>4, <1>5, FS_EmptySet

LEMMA AwaitedMeans == ASSUME Core, Awaited PROVE NoLostWakeup
<1>1. TypeOK
  BY QueueTyped
<1>2. queue \in QueueStates
  BY CoreIs
<1>3. queue.cTxLock \in Int /\ queue.cRxLock \in Int
  <2>1. queue.cRxLock \in {-1, 0}
    BY <1>2, QueueType
  <2> QED BY <1>2, <2>1, QueueType
<1>4. Max({queue.cTxLock, 0}) = Counted(queue, Receivers)
  BY <1>3, GreaterIs, TwoLists DEF Counted
<1>5. Max({queue.cRxLock, 0}) = Counted(queue, Senders)
  BY <1>3, GreaterIs DEF Counted
<1>6. Amount(queue, Receivers) = queue.uxMessagesWaiting /\ Amount(queue, Senders) = Avail(queue)
  BY TwoLists DEF Amount
<1>7. sched.events[Receivers] # <<>> =>
        queue.uxMessagesWaiting
          <= Cardinality(WillLook("receive", Receivers)) + Max({queue.cTxLock, 0})
  BY <1>4, <1>6, AwaitedCounts, KindsAre, TwoLists
<1>8. sched.events[Senders] # <<>> =>
        Avail(queue) <= Cardinality(WillLook("send", Senders)) + Max({queue.cRxLock, 0})
  BY <1>5, <1>6, AwaitedCounts, KindsAre, TwoLists
<1> QED BY <1>1, <1>7, <1>8 DEF NoLostWakeup

(* No wake-up is lost: while tasks wait at the queue, each item, or free      *)
(* place, has a task that will look at it before it waits again, or is        *)
(* counted in the lock, whatever times out or is interrupted in between       *)
(* (prvLockQueue, prvUnlockQueue, xQueueGenericSendFromISR, xQueueReceive)    *)
THEOREM NoLostWakeupHolds == Spec => []NoLostWakeup
<1>1. Init => Awaited
  BY InitAwaited
<1>2. Core /\ Core' /\ Awaited /\ [Next]_vars => Awaited'
  BY NextAwaited
<1>3. Core /\ Awaited => NoLostWakeup
  BY AwaitedMeans
<1> QED BY <1>1, <1>2, <1>3, CoreHolds, PTL DEF Spec
===============================================================================
