--------------------------------- MODULE Cia ---------------------------------
(* The two CIA chips: their one-shot timers (drivers/cia-timer.c), the        *)
(* interrupt control registers the handlers of a chip share                   *)
(* (drivers/cia-icr.c), the chains of interrupt servers (kernel/intsrv.c) and *)
(* the keyboard, which holds a timer for its handshake and waits for it in    *)
(* its handler (drivers/keyboard.c).  Tasks acquire timers, sleep until they  *)
(* run out, and release them.  A task that another notification wakes in its  *)
(* sleep goes on with its timer counting.                                     *)
(*                                                                            *)
(* Reading the ICR of a chip clears it.  The chip pulls its interrupt line    *)
(* while a flag is set that the mask enables, and INTREQ is set for as long   *)
(* as the line is pulled: clearing it in EnterIntr, before the ICR has been   *)
(* read, makes the handler run once more.                                     *)
EXTENDS Integers, SequencesExt

CONSTANTS
  Task,
  Nobody,
  MaxWaits,  \* bound on the delays of each task
  MaxKeys    \* bound on the keys that are pressed

Timer == 0 .. 3
Keyboard == 4   \* the interrupt server of the keyboard
KeyTimer == 0   \* the timer it has acquired when it was attached
Server == Timer \cup {Keyboard}
Chips == {"A", "B"}

ASSUME CiaAssumption ==
  /\ {MaxWaits, MaxKeys} \subseteq Nat
  /\ Nobody # Keyboard /\ {Nobody, Keyboard} \cap Task = {}

VARIABLES
  icr,      \* the flags set in each chip
  mask,     \* the flags that interrupt, in the chip and in _ICREnabled
  pending,  \* _ICRPending: flags read from the chip that nobody asked for
  latch,    \* the flag of the chip's interrupt in INTREQ
  chain,    \* PortsChain and ExterChain
  rest,     \* the servers RunIntChain has still to call
  key,      \* whether the keyboard has sent a key and waits for a handshake
  spin,     \* whether the keyboard handler is in WaitTimerSpin
  running,  \* the timers that count
  waiter,   \* CIATimer_t: the task to be notified
  owner,    \* who has acquired a timer, InUse
  pc,
  notified, \* whether NB_IRQ is pending for a task
  other,    \* whether another notification has come while a task slept
  waits,
  keys,
  stray     \* whether a timer has run out while no task slept for it

chips == <<icr, mask, pending, latch>>
keyboard == <<key, spin, keys>>
tasks == <<owner, pc, waits>>
sleep == <<other, stray>>
ciaVars == <<chips, chain, rest, running, waiter, notified, keyboard, tasks, sleep>>

Chip(s) == IF s \in {2, 3} THEN "B" ELSE "A"
Flag(s) == IF s = Keyboard THEN "SP" ELSE IF s % 2 = 0 THEN "TA" ELSE "TB"

(* The server priorities, highest first: timers have 0, the keyboard -10      *)
Behind(s) == IF s = Keyboard THEN 10 ELSE 0

CiaInit ==
  /\ icr = [c \in Chips |-> {}] /\ pending = [c \in Chips |-> {}]
  /\ mask = [c \in Chips |-> IF c = "A" THEN {"SP"} ELSE {}]
  /\ latch = [c \in Chips |-> FALSE]
  /\ chain = [c \in Chips |-> IF c = "A" THEN <<KeyTimer, Keyboard>> ELSE <<>>]
  /\ rest = [c \in Chips |-> <<>>]
  /\ key = FALSE /\ spin = FALSE
  /\ running = {}
  /\ waiter = [m \in Timer |-> Nobody]
  /\ owner = [m \in Timer |-> IF m = KeyTimer THEN Keyboard ELSE Nobody]
  /\ pc = [t \in Task |-> "none"]
  /\ notified = [t \in Task |-> FALSE]
  /\ waits = [t \in Task |-> 0]
  /\ keys = 0
  /\ other = [t \in Task |-> FALSE] /\ stray = FALSE

TimerOf(t) == CHOOSE m \in Timer : owner[m] = t

----------------------------------------------------------------------------
(* Interrupt control registers                                                *)

(* INTREQ follows the interrupt lines and otherwise keeps what it held        *)
Latched(held) ==
  latch' = [c \in Chips |-> held[c] \/ icr'[c] \cap mask'[c] # {}]

Sampled(c, flags) == (icr[c] \cup pending[c]) \cap flags # {}

(* Definitions named Fault... are plausible slips in the code they stand      *)
(* beside.  No specification uses them.                                       *)

(* Fault: the flags nobody asked for are dropped                              *)
FaultSampleICR(c, flags) ==
  /\ icr' = [icr EXCEPT ![c] = {}]
  /\ pending' = [pending EXCEPT ![c] = @ \ flags]
  /\ UNCHANGED mask
  /\ Latched(latch)

(* Fault: the flags that were asked for stay in the cache                     *)
FaultSampleKeeps(c, flags) ==
  /\ icr' = [icr EXCEPT ![c] = {}]
  /\ pending' = [pending EXCEPT ![c] = @ \cup icr[c]]
  /\ UNCHANGED mask
  /\ Latched(latch)

SampleICR(c, flags) ==
  /\ icr' = [icr EXCEPT ![c] = {}]
  /\ pending' = [pending EXCEPT ![c] = (@ \cup icr[c]) \ flags]
  /\ UNCHANGED mask
  /\ Latched(latch)

WriteICR(c, flags) ==
  /\ mask' = [mask EXCEPT ![c] = flags]
  /\ UNCHANGED <<icr, pending>>
  /\ Latched(latch)

----------------------------------------------------------------------------
(* Tasks                                                                      *)

(* A task runs while no handler does                                          *)
At(t, l) == pc[t] = l /\ \A c \in Chips : rest[c] = <<>>
Goto(t, l) == pc' = [pc EXCEPT ![t] = l]

(* AcquireTimer(TIMER_ANY): the first that is free                            *)
AcquireTimer(t) ==
  LET free == {m \in Timer : owner[m] = Nobody}
  IN  /\ At(t, "none") /\ free # {}
      /\ owner' = [owner EXCEPT ![Min(free)] = t]
      /\ Goto(t, "acquired")
      /\ UNCHANGED <<chips, chain, rest, running, waiter, notified, waits, keyboard, sleep>>

(* AddIntServer: behind the servers of its priority.  The first server clears *)
(* what INTREQ holds                                                          *)
AddIntServer(t) ==
  LET m == TimerOf(t)
      c == Chip(m)
      later == {i \in DOMAIN chain[c] : Behind(chain[c][i]) > Behind(m)}
      place == IF later = {} THEN Len(chain[c]) + 1 ELSE Min(later)
  IN  /\ At(t, "acquired")
      /\ chain' = [chain EXCEPT ![c] = InsertAt(@, place, m)]
      /\ UNCHANGED <<icr, mask, pending>>
      /\ Latched([latch EXCEPT ![c] = @ /\ chain[c] # <<>>])
      /\ Goto(t, "idle")
      /\ UNCHANGED <<rest, running, waiter, owner, notified, waits, keyboard, sleep>>

ReleaseTimer(t) ==
  LET m == TimerOf(t)
      c == Chip(m)
  IN  /\ At(t, "idle")
      /\ \E i \in DOMAIN chain[c] :
           chain[c][i] = m /\ chain' = [chain EXCEPT ![c] = RemoveAt(@, i)]
      /\ owner' = [owner EXCEPT ![m] = Nobody]
      /\ Goto(t, "none")
      /\ UNCHANGED <<chips, rest, running, waiter, notified, waits, keyboard, sleep>>

(* WaitTimerSleep: the interrupt is turned off, the timer started, the waiter *)
(* noted and the interrupt turned on                                          *)
TurnOff(t) ==
  LET m == TimerOf(t)
  IN  /\ At(t, "idle") /\ waits[t] < MaxWaits
      /\ waits' = [waits EXCEPT ![t] = @ + 1]
      /\ WriteICR(Chip(m), mask[Chip(m)] \ {Flag(m)})
      /\ Goto(t, "load")
      /\ UNCHANGED <<chain, rest, running, waiter, owner, notified, keyboard, sleep>>

Load(t) ==
  /\ At(t, "load")
  /\ running' = running \cup {TimerOf(t)}
  /\ Goto(t, "wait")
  /\ UNCHANGED <<chips, chain, rest, waiter, owner, notified, waits, keyboard, sleep>>

SetWaiter(t) ==
  /\ At(t, "wait")
  /\ waiter' = [waiter EXCEPT ![TimerOf(t)] = t]
  /\ Goto(t, "turn on")
  /\ UNCHANGED <<chips, chain, rest, running, owner, notified, waits, keyboard, sleep>>

TurnOn(t) ==
  LET m == TimerOf(t)
  IN  /\ At(t, "turn on")
      /\ WriteICR(Chip(m), mask[Chip(m)] \cup {Flag(m)})
      /\ Goto(t, "sleep")
      /\ UNCHANGED <<chain, rest, running, waiter, owner, notified, waits, keyboard, sleep>>

(* A notification with another bit, like the one of a message for a task that *)
(* serves a port (DoMsg).  It does not matter to a task that is not asleep    *)
NotifyOther(t) ==
  /\ pc[t] = "sleep" /\ other' = [other EXCEPT ![t] = TRUE]
  /\ UNCHANGED <<chips, chain, rest, running, waiter, notified, keyboard, tasks, stray>>

(* The task leaves its sleep when its timer has run out unseen                *)
Unseen(t) == ~ notified[t] /\ TimerOf(t) \notin running

(* Fault: the bit stays pending                                               *)
FaultNotifyWait(t) ==
  /\ At(t, "sleep") /\ (notified[t] \/ other[t])
  /\ other' = [other EXCEPT ![t] = FALSE]
  /\ stray' = (stray \/ Unseen(t))
  /\ Goto(t, "idle")
  /\ UNCHANGED <<chips, chain, rest, running, waiter, owner, notified, waits, keyboard>>

(* NotifyWait(NB_IRQ, portMAX_DELAY), whose result WaitTimerSleep ignores: any *)
(* notification ends it, unless the system has just started (NotifyWait.tla).  *)
(* That is a step in which NotifyOther does not occur                          *)
NotifyWait(t) ==
  /\ At(t, "sleep") /\ (notified[t] \/ other[t])
  /\ notified' = [notified EXCEPT ![t] = FALSE]
  /\ other' = [other EXCEPT ![t] = FALSE]
  /\ stray' = (stray \/ Unseen(t))
  /\ Goto(t, "idle")
  /\ UNCHANGED <<chips, chain, rest, running, waiter, owner, waits, keyboard>>

----------------------------------------------------------------------------
(* The hardware                                                               *)

(* Whether a task sleeps for a timer                                          *)
Awaited(m) == m = KeyTimer \/ \E t \in Task : owner[m] = t /\ pc[t] = "sleep"

(* A timer runs out                                                           *)
Underflow(m) ==
  /\ m \in running
  /\ running' = running \ {m}
  /\ icr' = [icr EXCEPT ![Chip(m)] = @ \cup {Flag(m)}]
  /\ stray' = (stray \/ ~ Awaited(m))
  /\ UNCHANGED <<mask, pending>>
  /\ Latched(latch)
  /\ UNCHANGED <<chain, rest, waiter, notified, other, keyboard, tasks>>

(* The keyboard sends a key when the handshake for the last one is over       *)
Key ==
  /\ ~ key /\ keys < MaxKeys
  /\ key' = TRUE /\ keys' = keys + 1
  /\ icr' = [icr EXCEPT !["A"] = @ \cup {"SP"}]
  /\ UNCHANGED <<mask, pending>>
  /\ Latched(latch)
  /\ UNCHANGED <<chain, rest, spin, running, waiter, notified, tasks, sleep>>

----------------------------------------------------------------------------
(* Handlers                                                                   *)

(* The handler of chip B, on level 6, interrupts that of chip A, on level 2   *)
Running(c) == rest[c] # <<>> /\ (c = "A" => rest["B"] = <<>>)

(* EnterIntr clears the flag in INTREQ first                                  *)
EnterIntr(c) ==
  /\ latch[c] /\ chain[c] # <<>> /\ rest[c] = <<>> /\ rest["B"] = <<>>
  /\ rest' = [rest EXCEPT ![c] = chain[c]]
  /\ UNCHANGED <<icr, mask, pending>>
  /\ Latched([latch EXCEPT ![c] = FALSE])
  /\ UNCHANGED <<chain, running, waiter, notified, keyboard, tasks, sleep>>

Returns(c) == rest' = [rest EXCEPT ![c] = Tail(@)]

(* xTaskNotifyFromISR asserts that it is given a task                         *)
CIATimerHandler(c) ==
  LET m == Head(rest[c])
  IN  /\ Running(c) /\ m \in Timer /\ ~ (spin /\ c = "A")
      /\ SampleICR(c, {Flag(m)})
      /\ IF Sampled(c, {Flag(m)})
         THEN /\ waiter[m] # Nobody
              /\ notified' = [notified EXCEPT ![waiter[m]] = TRUE]
              /\ waiter' = [waiter EXCEPT ![m] = Nobody]
         ELSE UNCHANGED <<notified, waiter>>
      /\ Returns(c)
      /\ UNCHANGED <<chain, running, keyboard, tasks, sleep>>

(* KeyboardIntHandler without a key, and with one up to WaitTimerSpin, which  *)
(* turns the interrupt of its timer off and starts it.  The interrupt is off  *)
(* already                                                                    *)
KeyboardIntHandler ==
  /\ Running("A") /\ Head(rest["A"]) = Keyboard /\ ~ spin
  /\ SampleICR("A", {"SP"})
  /\ IF Sampled("A", {"SP"})
     THEN spin' = TRUE /\ running' = running \cup {KeyTimer} /\ UNCHANGED rest
     ELSE Returns("A") /\ UNCHANGED <<spin, running>>
  /\ UNCHANGED <<chain, key, keys, waiter, notified, tasks, sleep>>

(* Once round the loop of WaitTimerSpin                                       *)
WaitTimerSpin ==
  /\ Running("A") /\ spin
  /\ SampleICR("A", {Flag(KeyTimer)})
  /\ IF Sampled("A", {Flag(KeyTimer)})
     THEN spin' = FALSE /\ key' = FALSE /\ Returns("A")
     ELSE UNCHANGED <<spin, key, rest>>
  /\ UNCHANGED <<chain, running, keys, waiter, notified, tasks, sleep>>

TaskStep(t) ==
  \/ TurnOff(t) \/ Load(t) \/ SetWaiter(t) \/ TurnOn(t) \/ NotifyWait(t)
  \/ AcquireTimer(t) \/ AddIntServer(t) \/ ReleaseTimer(t)

HandlerStep ==
  \/ \E c \in Chips : EnterIntr(c) \/ CIATimerHandler(c)
  \/ KeyboardIntHandler
  \/ WaitTimerSpin

CiaNext ==
  \/ \E t \in Task : TaskStep(t) \/ NotifyOther(t)
  \/ HandlerStep
  \/ \E m \in Timer : Underflow(m)
  \/ Key

CiaSpec == CiaInit /\ [][CiaNext]_ciaVars

(* A timer that counts runs out, the processor takes interrupts, and each     *)
(* task that is ready runs                                                    *)
CiaFairSpec ==
  /\ CiaSpec
  /\ \A m \in Timer : WF_ciaVars(Underflow(m))
  /\ WF_ciaVars(HandlerStep)
  /\ \A t \in Task : WF_ciaVars(NotifyWait(t))

----------------------------------------------------------------------------
(* Properties                                                                 *)

(* What a server waits for reaches it, although reading the ICR for one       *)
(* server clears the flags of all and a wait in a handler reads it again and  *)
(* again: the flag is in the chip or in the cache, and the server is still to *)
(* be called in this run of the chain, or INTREQ is set for another run       *)
Due(s) ==
  IF s = Keyboard THEN key /\ ~ spin
  ELSE waiter[s] # Nobody /\ Flag(s) \in mask[Chip(s)] /\ s \notin running

FlagsServed ==
  \A c \in Chips : \A s \in Range(chain[c]) : Due(s) =>
    /\ Flag(s) \in icr[c] \cup pending[c]
    /\ latch[c] \/ s \in Range(rest[c])

(* When a handler takes the flag of its timer there is a task to notify, as   *)
(* xTaskNotifyFromISR asserts                                                 *)
WaiterKnown ==
  \A c \in Chips :
    Running(c) /\ ~ (spin /\ c = "A") /\ Head(rest[c]) \in Timer
      /\ Sampled(c, {Flag(Head(rest[c]))}) => waiter[Head(rest[c])] # Nobody

(* Handlers find their flags, and the tasks they serve, as long as no timer   *)
(* runs out while no task sleeps for it: delays that are cut short and timers *)
(* that are released while they count do no harm by themselves                *)
TimersSound == ~ stray => WaiterKnown /\ FlagsServed

(* No task leaves WaitTimerSleep before its timer has run out, and none takes *)
(* a notification or a flag that was meant for an earlier delay, if no other  *)
(* notification ends its sleep and no timer has run out for nobody.  That an  *)
(* earlier delay was cut short, and its timer set again while it counted,     *)
(* makes no difference                                                        *)
FullDelay ==
  [][\A t \in Task :
       pc[t] = "sleep" /\ pc'[t] = "idle" /\ ~ other[t] /\ ~ stray' =>
         TimerOf(t) \notin running]_ciaVars

NoStray == ~ stray

(* "Sleep while waiting for timer to underflow" (cia.h:42), without these     *)
(* conditions.  It is not so, see CiaCut.cfg                                  *)
AlwaysFullDelay ==
  [][\A t \in Task : pc[t] = "sleep" /\ pc'[t] = "idle" =>
       TimerOf(t) \notin running]_ciaVars

(* Every delay ends, unless the machine has stopped at a timer that ran out   *)
(* for nobody                                                                 *)
Wakes == \A t \in Task : pc[t] = "sleep" ~> pc[t] = "idle" \/ stray
=============================================================================
