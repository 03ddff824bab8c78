----------------------------- MODULE NotifyWait -----------------------------
(* NotifyWait (kernel/notify.c) against the tick counter: one task waits for  *)
(* bits with a timeout while interrupts set bits and the counter advances.    *)
(* TickType_t has 32 bits; here it has as many values as TickMax + 1, and     *)
(* portMAX_DELAY is TickMax.                                                  *)
EXTENDS Naturals

CONSTANTS
  TickMax,   \* the largest TickType_t
  Timeouts,  \* the timeouts the task waits with
  Masks,     \* the sets of bits it waits for
  MaxElapsed \* bound on the ticks the system runs for

AllBits == {"NB_MSGPORT", "NB_EVENT", "NB_IRQ"}

ASSUME TicksAssumption ==
  /\ TickMax \in Nat \ {0}
  /\ Timeouts \subseteq 0 .. TickMax
  /\ Masks \subseteq SUBSET AllBits
  /\ MaxElapsed \in Nat

VARIABLES
  elapsed,  \* ticks since boot; xTickCount is what fits of it in a TickType_t
  own,      \* its notification fields
  phase,    \* "run", "blocked" or "ready" (made ready in the middle of a wait)
  mask,     \* bitsToWaitFor
  ticks,    \* ticksToWait of the current xTaskNotifyWait
  end,      \* the tick NotifyWait means to give up at
  wake,     \* when the delayed list releases the task, Forever if it does not
  asked,    \* [since, ticks] of the current or last call
  result    \* the bits NotifyWait returned last

waitVars == <<elapsed, own, phase, mask, ticks, end, wake, asked, result>>

WN == INSTANCE TaskNotify WITH NB <- AllBits

portMAX_DELAY == TickMax
Tick(n) == n % (TickMax + 1)
Now == Tick(elapsed)
Forever == MaxElapsed + TickMax + 1

WaitTypeOK ==
  /\ elapsed \in 0 .. MaxElapsed
  /\ own \in WN!TCB
  /\ phase \in {"run", "blocked", "ready"}
  /\ mask \in Masks \cup {{}}
  /\ ticks \in 0 .. TickMax
  /\ end \in 0 .. TickMax
  /\ wake \in 0 .. Forever
  /\ asked \in [since: 0 .. MaxElapsed, ticks: 0 .. TickMax]
  /\ result \in SUBSET AllBits

WaitInit ==
  /\ elapsed = 0
  /\ own = WN!FreshTCB
  /\ phase = "run"
  /\ mask = {}
  /\ ticks = 0
  /\ end = 0
  /\ wake = Forever
  /\ asked = [since |-> 0, ticks |-> 0]
  /\ result = {}

(* prvAddCurrentTaskToDelayedList: portMAX_DELAY suspends the task for good   *)
Block(t, n) ==
  /\ own' = WN!Blocked(t)
  /\ ticks' = n
  /\ wake' = IF n = portMAX_DELAY THEN Forever ELSE elapsed + n
  /\ phase' = "blocked"

(* Definitions named Fault... are plausible slips in the code they stand      *)
(* beside.  No specification uses them.                                       *)

(* Fault: the poll forgets the bits other than the awaited ones               *)
FaultForget(m, n) ==
  /\ phase = "run"
  /\ mask' = m
  /\ asked' = [since |-> elapsed, ticks |-> n]
  /\ own' = [WN!FreshTCB EXCEPT !.state = IF n = 0 THEN "none" ELSE "waiting"]
  /\ IF n = 0
       THEN result' = own.value \cap m /\ UNCHANGED <<phase, ticks, end, wake>>
       ELSE /\ end' = Tick(elapsed + n) /\ ticks' = n /\ wake' = elapsed + n
            /\ phase' = "blocked" /\ UNCHANGED result
  /\ UNCHANGED elapsed

(* Fault: wait without polling first                                          *)
FaultNoPoll(m, n) ==
  /\ phase = "run"
  /\ mask' = m
  /\ asked' = [since |-> elapsed, ticks |-> n]
  /\ end' = Tick(elapsed + n)
  /\ Block(own, n)
  /\ UNCHANGED <<elapsed, result>>

(* NotifyWait up to the first wait: poll, and block unless a bit was there or *)
(* the caller does not want to wait                                           *)
Enter(m, n) ==
  LET polled == WN!Polled(own, m)
  IN  /\ phase = "run"
      /\ mask' = m
      /\ asked' = [since |-> elapsed, ticks |-> n]
      /\ IF own.value \cap m # {} \/ n = 0
           THEN /\ own' = polled
                /\ result' = own.value \cap m
                /\ UNCHANGED <<phase, ticks, end, wake>>
           ELSE /\ end' = Tick(elapsed + n)
                /\ Block(polled, n)
                /\ UNCHANGED result
      /\ UNCHANGED elapsed

(* Fault: the loop waits for the whole timeout again                          *)
FaultRestart ==
  /\ phase = "ready"
  /\ IF (own.state = "received" /\ own.value \cap mask # {}) \/ end <= Now
       THEN /\ own' = WN!Resumed(own, mask)
            /\ result' = own.value \cap mask
            /\ phase' = "run"
            /\ wake' = Forever
            /\ UNCHANGED ticks
       ELSE Block(WN!Resumed(own, mask), ticks) /\ UNCHANGED result
  /\ UNCHANGED <<elapsed, mask, end, asked>>

(* Fault: any notification ends the wait                                      *)
FaultAnyWakeup ==
  /\ phase = "ready"
  /\ own' = WN!Resumed(own, mask)
  /\ result' = own.value \cap mask
  /\ phase' = "run"
  /\ wake' = Forever
  /\ UNCHANGED <<elapsed, mask, ticks, end, asked>>

(* The rest of an iteration: leave with an awaited bit, leave because `end`   *)
(* has passed, or wait for the remaining ticks                                *)
Resume ==
  LET bits == own.value \cap mask
      resumed == WN!Resumed(own, mask)
  IN  /\ phase = "ready"
      /\ IF (own.state = "received" /\ bits # {}) \/ end <= Now
           THEN /\ own' = resumed
                /\ result' = bits
                /\ phase' = "run"
                /\ wake' = Forever
                /\ UNCHANGED ticks
           ELSE /\ Block(resumed, end - Now)
                /\ UNCHANGED result
      /\ UNCHANGED <<elapsed, mask, end, asked>>

NotifySendFromISR(bits) ==
  /\ own' = WN!Notified(own, bits)
  /\ phase' = IF phase = "blocked" THEN "ready" ELSE phase
  /\ UNCHANGED <<elapsed, mask, ticks, end, wake, asked, result>>

(* xTaskIncrementTick: a task whose time has come is made ready, still in the *)
(* state of one that waits for a notification                                 *)
IncrementTick ==
  /\ elapsed < MaxElapsed
  /\ elapsed' = elapsed + 1
  /\ phase' = IF phase = "blocked" /\ elapsed' >= wake THEN "ready" ELSE phase
  /\ UNCHANGED <<own, mask, ticks, end, wake, asked, result>>

WaitNext ==
  \/ \E m \in Masks, n \in Timeouts : Enter(m, n)
  \/ Resume
  \/ \E b \in AllBits : NotifySendFromISR({b})
  \/ IncrementTick

WaitSpec == WaitInit /\ [][WaitNext]_waitVars

----------------------------------------------------------------------------
(* A wait ends when a step of the task brings it back to its caller *)
Returns ==
  \/ phase = "ready" /\ phase' = "run"
  \/ \E m \in Masks, n \in Timeouts : Enter(m, n) /\ phase' = "run"

(* notify.h: "0 when no `bitsToWaitFor` was set within ticksToWait timespan": *)
(* NotifyWait returns 0 only when that time has passed                        *)
ZeroOnlyAfterTimeout ==
  [][Returns /\ result' = {} =>
       /\ asked'.ticks # portMAX_DELAY
       /\ elapsed >= asked'.since + asked'.ticks]_waitVars

(* A bit is never lost: it leaves the notified value only when a NotifyWait   *)
(* that awaited it returns it                                                 *)
BitsConsumedOnce ==
  [][\A b \in own.value : b \in own'.value \/ (Returns /\ b \in result')]_waitVars

(* Early wake-ups do not stretch a wait: whenever it sleeps, a task that gave *)
(* a finite timeout will be released at the deadline it set when it called    *)
DeadlineKept ==
  phase = "blocked" /\ asked.ticks # portMAX_DELAY
    => wake = asked.since + asked.ticks

(* The task never sleeps with an awaited bit on                               *)
NoSleepOnBit ==
  phase = "blocked" => own.state = "waiting" /\ own.value \cap mask = {}
=============================================================================
