# Verification of FreeRTOS-Amiga in TLA+

FreeRTOS-Amiga is a port of FreeRTOS 10.3.1 to Amiga computers together with a
small kernel and drivers written for it: message ports, an allocator, device
files, a serial port, a terminal, a floppy drive, timers and input devices. The
modules here model the parts of it that run concurrently or keep intricate
state, TLC checks them on small instances, and TLAPS proves what matters most
for all instances. Paths below are relative to `src/`.

## Inventory

Configuration that shapes everything (`FreeRTOSConfig.h`): preemptive scheduling
by fixed priorities (four of them), a tick of 50 Hz counted in 32 bits, mutexes,
critical sections that nest per task. A task may block inside a critical
section: the section ends while it sleeps and begins again when it runs on.
A failed `configASSERT`, and running out of memory, stops the machine.

| Component | State | Operations | Correct if |
|---|---|---|---|
| Notifications, `kernel/notify.c` | two fields of each task's control block | `NotifyWait`, `NotifySend`, `NotifySendFromISR` | no bit is lost or consumed twice, nobody sleeps on an awaited bit, timeouts are kept |
| Message ports, `kernel/msgport.c` | owner and a FreeRTOS queue of length one; messages live in the senders' stack frames | `DoMsg`, `GetMsgData`, `ReplyMsg` | a call is answered exactly once, before its caller goes on, and the frame is not touched afterwards |
| Allocator, `kernel/memory.c` | per region: boundary tags, a free list, counters | `MemAlloc`, `MemFree`, `MemRealloc`, `MemCheck` | blocks never overlap or leak; tags, list and counters agree |
| Ring buffers, `kernel/ring.c` | head, tail, count, data | put, get, read, write | first in, first out, across the wrap |
| Serial driver, `drivers/serial.c` | two rings, the reader and the writer task, UART registers | `SerialOpen/Close/Read/Write/Event`, three interrupt handlers | bytes keep their order, readers and writers wake up, transmission recovers from lost interrupts |
| Event lists, `kernel/event.c` | listeners of a file | `EventMonitor`, `EventNotifyFromISR` | a listener is registered once and hears every event |
| Terminal, `drivers/tty.c` | line buffer, output queue, three ports, console file | `TtyTask` and the calls that send it messages | lines reach readers whole and in order, everything typed is echoed, every call is answered |
| Scheduler, `FreeRTOS/tasks.c`, `list.c` | ready, delayed, pending and event lists, tick counter, flags for a switch that is due | block, wake, suspend and resume all, tick, switch | the right task runs, every sleeper is in one list and wakes on time, also across a wrap |
| Queues, `FreeRTOS/queue.c` | storage, two lists of waiters, two lock counts | send, receive, send from an interrupt | items arrive in order, nobody sleeps over one, time-outs are kept |
| Mutexes, `FreeRTOS/queue.c`, `tasks.c` | holder; mutexes held and priority of each task | take, give | a holder has the priority of those who wait, and its own again in the end |
| Floppy, `drivers/floppy.c` | track cache, sector states, heads, motor, a port | `FloppyIoTask`, delays, transfers | clients see an array of bytes; the driver knows where the heads are |
| CIA timers, `drivers/cia-timer.c`, `cia-icr.c` | timers in use, waiters, cached interrupt registers | acquire, release, sleep, spin, `SampleICR` | an expiry wakes its own waiter, no flag is lost |
| Files, `kernel/file.c`, `devfile.c`, `filedesc.c` | use counts, device list, descriptor tables | open, close, hold, drop, dup | a device is set up exactly while it is used |
| Processes, `kernel/proc.c`, `sysent.c` | descriptors, image, user stack | system calls | all resources are released |
| Interrupts, `kernel/intr.S`, `intsrv.c` | vectors, server chains | `AddIntServer`, `RemIntServer`, `RunIntChain` | every server that is due is called, a switch that is due is made |
| Input, `drivers/input.c`, `keyboard.c`, `mouse.c` | event queue, key and mouse state | inject, read | groups of events arrive whole and in order |
| Display, blitter, copper, sprites | screen memory, registers | drawing | (output only) |

How they interact. A *client* task calls a file operation, which ends in a
driver. The serial driver works in the caller's context and sleeps in
`NotifyWait(NB_IRQ)` until an interrupt handler notifies it. The terminal and
the floppy are tasks of their own: the client sends them a message with `DoMsg`
and sleeps in `NotifyWait(NB_MSGPORT)`; the terminal in turn uses the serial
driver without blocking and is told of news by `NB_EVENT`. The floppy task waits
for timers and transfers, both with `NB_IRQ`. Keyboard, mouse and timers hang
their servers into the chains that interrupt handlers walk along; input events
go into a queue. All of them allocate memory from the same regions.
Notifications are the one mechanism everything else stands on, message ports and
queues the next, and below them the scheduler.

What is hard here: `NotifyWait` polls before it sleeps, and the two have to be
one step for the notifiers; a message is a pointer into a stack frame that goes
away when `DoMsg` returns; interrupt handlers of several levels share the rings
with each other and with tasks; allocation happens in many tasks at once, and
`MemRealloc` is not one critical section; the tick counter wraps;
reading an interrupt register clears it for everybody; one notification bit
stands for delays and for transfers; several tasks open and close one device.
The full list, each hazard at its line, is `hazards` in `PROJECT.json`.

## Modules

| Module | Models | Stands on |
|---|---|---|
| `TaskNotify` | the notification fields of a TCB and the steps on them | |
| `NotifyWait` | one waiter, interrupts and the tick counter | `TaskNotify` |
| `RemoteCall` | abstract: what message ports promise | |
| `MsgPort` | clients, port owners, the scheduler and queues | `TaskNotify`, implements `RemoteCall` |
| `Heap` | abstract: what the allocator promises | |
| `Memory` | the allocator and the tasks that call it | implements `Heap` |
| `Ring` | ring buffers as operators on a record | |
| `ByteStream` | abstract: one direction of a serial line | |
| `Serial` | the serial driver, its interrupts and the UART | `Ring`, `TaskNotify`, implements `ByteStream` twice |
| `Terminal` | abstract: what readers take a terminal for | |
| `Tty` | the terminal between its clients and the serial port | implements `Terminal` |
| `Sched` | the scheduler: operators on the record of its lists, counters and flags | |
| `Queue` | a queue between tasks and the interrupt handler of an input device | `Sched`, implements `ByteStream` |
| `Mutex` | mutexes with priority inheritance, nested and with time-outs | `Sched` |
| `Drive` | abstract: what a disk drive promises its clients | |
| `Floppy` | the floppy task, its track cache, heads and timer, and the drive | implements `Drive` |
| `Cia` | both CIA chips: timers, interrupt registers, server chains, the keyboard's handshake | |
| `Devices` | device files and event lists over an input device | |
| `MC...` | constants and symmetry for TLC | |
| `..._proofs` | theorems | |

Definitions named `Fault...` are plausible slips in the code they stand beside;
no specification uses them. Put in the place of the definition that follows,
each breaks the property it is listed with under `mutants` in `PROJECT.json`.

### TaskNotify and NotifyWait

The notified value is a set of bits, the notify state one of *none*, *waiting*
and *received*. `NotifyWait` of `kernel/notify.c` is split where other code can
run: `Enter` is the poll up to the point where the task blocks, `Resume` one
iteration of the loop after it has been made ready, `NotifySendFromISR` and
`IncrementTick` come in between. The whole function is a critical section, so
nothing comes between poll and block; the proofs and the mutant that leaves the
poll out show that this is what keeps the task from sleeping on a bit. Ticks
are counted from boot in `elapsed`; what the code sees is that count modulo
`TickMax + 1`, and `portMAX_DELAY` is `TickMax`.

### MsgPort

A message is named by the client that sent it, as it lies in that client's
frame. The steps of `DoMsg` are `DoMsg` (fill in the task), `QueueSend` and
`QueueBlock` (`xQueueSend`, which looks twice before it blocks), `NotifyOwner`,
and `ClientWait`; those of an owner `OwnerWait`, one `Skip` or `ReplyMsg` per
port, `NotifySender`, `ClearTask`, `Rescan`. `ReplyMsg` runs with the scheduler
suspended, which `CanRun` models together with strict priorities: a task takes
a step only when no ready task has a higher priority. Owners come in two kinds
taken from the two that exist: the terminal waits for ever for two bits and may
leave a request in its port until input arrives (`Deferred`), the floppy waits
with a timeout (`Timed`). `InputFromISR` and `OtherIRQ` come at any time.
Creating and deleting ports is left out.

### Memory

A unit is 16 bytes, the allocator's alignment, as every block is a multiple of
it. `hdr` and `ftr` give the first and last word of every unit, so that the tags,
footers and canaries the code reads and writes are exactly where it puts them,
and stale ones stay where they were. The static functions are operators on an
arena, each one atomic because it suspends the scheduler; the actions are the
pieces between which another task can run: one region visited by
`_pvPortMallocBelow`, reading the size in `ar_realloc`, the rest of it, freeing
the old block after a move. When no region has room the malloc-failed hook
panics and the system stops; that is why the runs do not check for deadlock.
The word behind each arena is memory nobody initialises; `EndWordUsed` says
what happens to be in it. The low-water mark is a statistic and left out.

### Ring and Serial

A step of `Serial` is a stretch of code nothing can interrupt, or a step of the
hardware. `SerialTransmit` masks all interrupts; `SendIntHandler` then lowers
the mask again before it looks at the ring, so it is two steps, while nothing
that changes its outcome can interrupt the receive handler (level 5), and the
vertical blank handler consists of `SerialTransmit` alone. Reading `SERDATR`
hands over the byte received and clears it, a byte written to `SERDAT` moves
into an empty shift register at once, and the transmit interrupt is raised when
the data register empties: this is how the code uses the chip, and it is marked
external. `LoseTBE` is the hardware fault that the comment at
`drivers/serial.c:106` describes. The mutexes let one reader and one writer in,
so that a task that waits for one has simply not called yet. Bytes are numbered
modulo `Bytes`.

### Tty

Each `Handle...` function of `TtyTask` is an action, and so are `ProcessInput`,
the wake-up and the end of the task; between them users type (`Type`), the
console sends (`Drain`) and clients call. A client's `DoMsg` is two steps, the
message put into the port and the notification, because the task may find the
message in between. What makes the rest of `DoMsg` safe is shown by `MsgPort`.
A loop that goes on until the console has nothing more, or takes nothing more,
is one step: whatever arrives during the loop might as well have come before
it. The line buffer is a sequence; the output queue is only a length, as the
position of `head` and `tail` affects nothing but how a chunk is split. Both
kinds of notification are one flag, since the task waits for both and does not
look which it got. `TypeAhead` bounds the characters typed and not yet read: at
less than `BUFSIZ` the line buffer never fills, and the properties hold; at
`BUFSIZ` they do not (see Findings). The model ends when `TtyTask` does, because
the task function returns, to address 0. A close comes between two calls, never
between the two steps of one.

### Sched, Queue and Mutex

The state of the scheduler is one record, `sched`, and each function of
`tasks.c` and `list.c` an operator from such a record to the next:
`AddCurrentTaskToDelayedList`, `xTaskRemoveFromEventList`, `xTaskResumeAll`,
`IncrementTick`, `vTaskSwitchContext` and so on. A ready list is circular and
contains `xListEnd`; it is kept as a sequence cut behind the item that `pxIndex`
points to. Only `cur` takes steps, and interrupts come between them. Ticks are
counted modulo `TickMax + 1`; `Now` is the time since boot, which the code does
not keep and the properties compare with. At most one tick comes while an
interrupt handler runs: with two, the tick handler overwrites
`xNeedRescheduleTask`, and `HighestRuns` fails. Every handler here takes far less
than a tick.

`Queue` splits `xQueueGenericSend` and `xQueueReceive` where the code leaves a
critical section: the first look (`Send`, `Receive`), `SuspendAll`, `LockQueue`
with `xTaskCheckForTimeOut`, `Check`, the unlocking of either side, `Resume`,
`Yield`, `Recheck`. In between, ticks come and the handler of an input device
injects a group of events, one `xQueueSendFromISR` at a time, after it has looked
once whether there is room for all. A locked queue counts what arrives, and the
unlocking wakes a task for each. Items are numbered, so that order and loss can
be told.

`Mutex` has several mutexes, which tasks take with time-outs and give back in
any order, nested as `Nesting` allows. To inherit a priority moves the holder to
another ready list; giving up a wait, and giving back the last mutex, undo it.
`Wait` is the part of a take under a suspended scheduler, with `xTaskCheckForTimeOut`:
of a time-out that is over `NothingLeft`, and `Take` is the critical section that
follows if the mutex is free again. When it is not, and the task has lent its
priority, `configASSERT` fails there, and "panic" is where the machine stops.

### Floppy and Drive

The steps of the task are the stretches between two waits. `FloppyReadWrite` cuts
a request at the end of the disk, in the client's context. Reading or writing a
track is `MoveTo` (motor, side, direction), `Travel` for each step of the heads,
`Transfer`, and its end. All waits in between are for one bit, which the timer
and the disk interrupt raise. They have no time-out, so that any other bit ends
them (see Findings), and there is one such notification: the first request may be
put into the port, and announced by `DoMsg`, while the task brings the heads to
track 0. `cut` says that this has ended the wait the task is in; the timer then
counts on, the next delay sets it again (`WaitTimerSleep`), and the drive may lose
a step pulse that comes before the time is over (`Pulse`). A request that comes later
finds the task in the wait for requests: the task has the highest priority of those
that use the drive (`FLOPPY_TASK_PRIO`), and the port has room for one message,
which stays there until it is answered. `missed` remembers that the timer has run out
while the task did not sleep for it, and `TransferOff` is what the controller may have
done by the time it is turned off, since a stray `NB_IRQ` may end the wait for a
transfer early. `WaitTimerSleep` is one step here: what a timer does that runs out
between the steps of setting it, and in particular a handler that finds no task to
notify, is in `Cia`. `drive` is the hardware, `fd` what the driver believes of it.
The buffer is a function from sector numbers to sectors: the encoding of a track is left
out. `MoveTab` changes the write protection at any
time, and `refused` remembers that a write met a protected disk, since the
driver then loses data without a word (see Findings).

`Drive` is an array of bytes and requests that move consecutive bytes one way or
the other. The refinement mapping `Content` is what a reader would find at each
place: the cached sector if it is decoded, and the disk otherwise.

### Cia

`icr` and `mask` are registers of the chips, `pending` holds the flags that
`SampleICR` has read and nobody has asked for, `latch` is the chip's flag in
`INTREQ`. The handler of a chip goes along its `chain`, one server a step (`rest`
are those still to be called), and that of chip B may interrupt that of chip A. The
keyboard's server starts a timer and spins on the same register inside the
handler, reading flags that belong to others. Tasks acquire one of four timers,
link its server, sleep and release it. `TurnOff`, `Load`, `SetWaiter`, `TurnOn` and
`NotifyWait` are the steps of `WaitTimerSleep`, between which anything may happen, and
for as long as it likes: a timer may run out before its waiter is noted. `NotifyOther`
is a notification with another bit, which ends the wait as well. The task then goes
on with the timer counting, the interrupt on and itself noted; it may start the next
delay or release the timer. `stray` remembers that a timer has run out while no
task slept for it, or at the very end of a sleep that something else had ended.

### Devices

`CreateQueue`, `AddServer` and `OpenAgain` are `FileOpen` with `DevOpen` and the
open routine of keyboard or mouse; `Drop`, `CloseLast`, `RemServer` and
`DeleteQueue` the close of a file. A user reads with blocking. A listener asks
for `NB_EVENT` with `EventMonitor`, sleeps, and reads until the queue is empty.
`Interrupt` injects a group of events and notifies the list. `DevOpen` suspends
the scheduler; `DevClose` drops the use count and goes on with the scheduler
running, and others may open or close in between. `raced` remembers that one did so in
a way that breaks the device (`Races`): an open that found the count at 0, or a close
that brought it there, while another close was on its way.

## Runs

| Run | Question | Instance | States |
|---|---|---|---|
| `msgport` | are calls answered once, are frames safe, is every call answered? | clients above and below the owners, terminal and floppy with one port each | 34 000 |
| `notify` | does a finite wait keep its bits and its deadline? | timeouts 0, 1, 3; two masks; 7 ticks | 59 000 |
| `memory` | do blocks, tags, list and counters stay consistent? | two tasks, regions of 4 and 1 units, requests of 1 to 3 | 515 000 |
| `serial` | is order kept, and does nobody sleep over data? | a reader, a writer, rings of 2, lost interrupts | 317 000 |
| `serial_live` | does transmission always go on? | a writer that other events disturb | 57 000 |
| `tty` | are lines whole, in order, and does the terminal never stall? | buffers of 3, two characters typed ahead, a text longer than the buffer | 461 000 |
| `queue` | are the scheduler's lists and choices right, are wake-ups, groups, time-outs and order kept? | two readers, a writer, the idle task, a queue of 2, groups of 2, a counter that wraps at 4 | 1 125 000 |
| `mutex` | are priorities inherited and given back, whoever gives up, is nobody stranded? | five tasks, a mutex three of them use alone, two that the others nest, time-outs and polls, 5 ticks | 263 000 |
| `floppy` | does the drive store bytes, does the driver know its heads, is everyone served? | two cylinders, 2 sectors of 2 bytes, two clients, three requests, the first at any time | 263 000 |
| `cia` | do flags and waiters stay where handlers find them, is a delay a full one, does it end? | two tasks with two delays each, which other notifications end, two keys | 227 000 |
| `devices` | is the device set up exactly while it is used, is an event overlooked? | two users, two listeners, a queue of 3, groups of 1 and 2 | 283 000 |
| `tty_full` | what if the line buffer fills? | three characters typed ahead, a buffer of 3 | violated |

What the properties say, one line each:

* `AnsweredOnReturn`, `MessageLive`: `DoMsg` returns with its answer, and nobody
  touches a message whose frame is gone. `NoEmptyWakeup`: the owner of a drive,
  woken by a bit, finds a message. `Answered`: every call is answered.
* `NoSleepOnBit`, `BitsConsumedOnce`, `DeadlineKept`, `ZeroOnlyAfterTimeout`: the
  promises of `NotifyWait`.
* `WellTagged`: walking an arena by its tags meets well-formed blocks that cover
  it. `Accounted`: the free list, the count of free bytes and the blocks tasks
  own agree with the tags.
* `WriteComplete`, `NobodyStranded`, `InOrder`, `Transmitted`: a blocking write is
  complete, nobody sleeps over bytes unless an interrupt was lost, both
  directions are byte streams, transmission goes on.
* `NoStall`, `EolMarksLine`, `RemovedOnlyProcessed`, `CallsAnswered`: `TtyTask`
  sleeps only if something will wake it for what it leaves undone; `eol` and
  `done` stay with their characters; every call is answered.
* `Scheduled`: every task is in exactly one list, and the one that runs has the
  highest priority of those ready, unless a switch is due. `Punctual`: wake times
  are right across a wrap. `NoLostWakeup`: there is never an item and a sleeping
  reader without somebody awake to take it, and the same for places and senders.
  `GroupsWhole`: no group is cut in two. `NeverEarly`: no call gives up before
  its time. `DeliversInOrder`: the queue is a `ByteStream`.
* `Restored`, `NoMutexStranded`: priorities come back, a free mutex has a taker awake.
  `Inherited`: the holder of a mutex has the priority of those who wait for it, if the
  tasks that use it use no other one (`Alone`); they may sleep, poll, give up and take
  it again as they like.
* `HeadsKnown`, `NoStrayWakeup`, `WrittenThrough`, `Served`: `headTrk` is where the
  heads are whenever a track is transferred; no notification is left over for a later
  wait, and only the first request ends one with something else, before any track has
  been read; an answered write is on the disk; every request is answered. All of this,
  and `ImplementsDrive`, up to the moment the timer runs out while no delay waits for it.
* `TimersSound`, `FullDelay`, `Wakes`: flags reach the server that waits for them
  and the server finds its task; a delay that no other notification ends lasts until its
  timer has run out, whatever became of earlier ones; every delay ends. All of this up to
  the moment a timer runs out while no task sleeps for it.
* `SetUpWhileUsed`, `NothingOverlooked`: handler and queue exist exactly while a
  file refers to the device; no listener sleeps over an event. Both unless an open or a
  close has overlapped the last close (`Races`).
* `Implements...`: the module implements the abstract one.

More configurations, for looking at what the runs above leave out on purpose:

| Configuration | Shows |
|---|---|
| `MCMsgPortWide` | the safety of message ports for three clients and every safety property of the module, 471 000 states, no violation |
| `NotifyWaitForever` | an endless wait returns 0: `ZeroOnlyAfterTimeout` violated |
| `MCMemoryLast` | a block grown over the last free one is no longer marked last: `LastMarked` violated |
| `MCMemoryEnd` | the word behind an arena taken for a free block: `TotalFreeExact` violated |
| `MCTtyOutput` | the echo overwrites the output queue: `OutputFits` violated |
| `MCMutexYield` | a task that holds two mutexes, with a task waiting for each, gives both and goes on below the one the first give woke: `SwitchAfterLastGive` violated |
| `MCMutexChain` | a time-out takes the holder below a task that still waits, since the one in front of it has lost its priority: `OnlyDownToWaiting` violated |
| `MCMutexOvertake` | five tasks, each holding one mutex at most: one that is disinherited without a switch takes another mutex ahead of a woken task, and others of a higher priority wait for it: `AlwaysInherited`, which is `Inherited` for all mutexes, violated |
| `MCMutexTimeout` | four tasks and one mutex: one that has lent its priority, timed out, and found the mutex free loses it before it can take it, and fails the assertion of `queue.c:1508`: `NoTimeLeftNoInheritance` violated. Without that property the 199 000 states, the failed assertions among them, satisfy `Restored`, `Inherited` and `NoMutexStranded` |
| `MCFloppyEarly` | the timer of a homing delay that the first request cut short runs out later, and the transfer is given up before it is over: `TransferFinished` violated |
| `CiaCut` | another notification ends a delay, and the timer counts on: `AlwaysFullDelay` violated |
| `CiaLate` | a timer runs out for nobody, and a handler finds no task to notify: `WaiterKnown` violated |
| `DevicesRace` | a close or an open during a close: `SetUp`, which is `SetUpWhileUsed` without its condition, violated |

The runs `floppy`, `cia` and `devices` have a CONSTRAINT (`NoneMissed`, `NoStray`,
`Unraced`): TLC checks the states beyond it and does not go on from them. Nothing is lost
by that. `missed`, `stray` and `raced` are never taken back, and each property of these
runs says nothing, or is fulfilled, once its one is set; that is also where what is
known of the code ends, as the configurations above show. The constraints keep the
instances finite: `headTrk`, for one, counts on for ever when steps are taken that the
drive did not make. The theorems are about all states.

Why these bounds are enough. Message ports: two clients on either side of an
owner's priority make both preemptions happen, and every owner kind occurs; the
wide configuration has two senders blocked on one port, in both orders. Notify:
the longest timeout is interrupted several times before it ends, and no two of the
timeouts are multiples of each other. Memory: four units are enough for a free
block on either side of a used one, exact fits, splits and merges with one or
both neighbours, the second region for requests that overflow the first.
Serial: a ring of two wraps, fills and empties, a write of three does not fit,
and the transmit side holds two more bytes in the hardware. Terminal: two
characters are enough for a line with the next one begun, two lines, and a line
that is not finished; the text needs more than the whole output buffer, with a
line feed that may meet a single free place; requests are shorter and longer
than a line. Queue: the counter wraps within the ticks that are counted, waits
reach over the wrap, two readers and two senders can sleep at once, and two
events come while the queue is locked. Mutex: the three tasks that
share one mutex have three priorities, so that one can give up while another goes on
waiting, and one that was woken can find the mutex gone; these are the cases in which
a holder has a priority to lose or a waiter is overtaken. The other two nest two
mutexes: a holder of both, given back in either order, with a task that waits for either.
Longer chains need a task more (see Findings).
Floppy: requests begin and end within a sector and cross the ends of a sector, a
track, a cylinder and the disk; both sides and both directions of the heads occur.
The first request comes before, in and after each of the homing delays, whichever
position the heads start from. Cia: a task's timer on the chip of the keyboard and, once that chip has none
left, on the other one; the second delay shows what the first has left behind, a timer
that still counts, a waiter or a mask.
Devices: two queues are created, so that the device is torn down and set up again.

Fairness. `msgport`: each task's steps are strongly fair, because a task
runs for microseconds while the only thing that can hold it up for long, a
client of higher priority that keeps calling, is excluded by the premise of
`Answered`; input keeps arriving. Nothing is assumed of clients making calls.
`serial_live`: the shift register runs (weak), an interrupt that is unmasked
again and again is taken and its handler comes to an end, the vertical blank
comes every frame (strong, since the masks open and close), and critical
sections end (weak). Losing interrupts is always possible. `tty`: the task runs
when it can, the console sends what it holds, and a client in the middle of a
call goes on (all weak; the task has a priority above that of ordinary clients).
`CallsAnswered` supposes that the user stops typing, because the echo of endless
typing may take all the room in the output queue; nothing is assumed of clients.
`floppy`: the task runs when it can, a timer fires or a transfer ends, and a client
that has made a request gets it into the port when there is room (weak); nothing of
clients making requests or of the tab. `cia`: each timer that counts runs out, a
pending interrupt is taken and its handler goes on, a task that has been notified, with
whatever bit, runs (weak); nothing of keys, of other notifications or of starting delays.

The runs `memory`, `tty`, `queue`, `mutex`, `cia` and `devices` do not check for
deadlock: there the system, or the bounded number of calls, really may end.

## Findings

* `HandleReadReq` tests whether all characters have been processed the wrong way
  round: with both buffers full it hands over and removes characters that were
  not, and `eol` and `done` wrap around (run `tty_full`); otherwise it withholds a
  finished line while the next one is being typed. Reading a full line without
  an end of line makes `eol` wrap around as well.
* `NotifyWait` with `portMAX_DELAY` (all callers but one) returns 0 at the first
  notification with another bit, contrary to `notify.h`, since `end` wraps to
  just before `now`. The terminal task would take that for an order to quit, and a
  blocking `SerialWrite` returns short. The models of message ports and of the
  serial driver contain this behaviour: that clients get no other bits is a
  named assumption of the theorems (`Quiet`), and `WriteComplete` is stated for
  the writers nothing else notifies. Timers and the floppy suffer from it too, below.
* `MemRealloc` that grows a block over all of the last free block drops the mark
  of the last block, which `MemCheck` asserts; `MemFree` of the last block takes
  the uninitialised word behind the arena for a block tag.
* `ProcessInput` looks for room for one character and stores two, which overwrites
  the oldest one in the output queue.
* `TtyTask` returns, although `pxPortInitialiseStack` gives task functions the
  return address 0 and nothing deletes the task. This is read off the code.
* `DevClose` drops the use count with the scheduler running (`devfile.c:199`): an
  open between that and the driver's close routine finds 0, creates a second
  queue and links the interrupt server once more. The list item becomes its own
  successor and `RunIntChain` never ends.
* Giving a mutex that tasks wait for ignores what `xTaskPriorityDisinherit` said
  about a context switch (`queue.c:852` is an `else if`), contrary to the comment at
  `tasks.c:4151`. It matters when the task woken by the give is below one that became
  ready while the giver ran with an inherited priority: by the give of another mutex
  (`MCMutexYield`) or by a time-out. The giver may then take a mutex that
  was given up for a task of higher priority, and hold it below those that wait
  (`MCMutexOvertake`).
* Event lists are not sorted again when the priority of a waiting task changes:
  `xTaskPriorityInherit` and `vTaskPriorityDisinheritAfterTimeout` set the value of the
  item and leave it in its place (`tasks.c:4034`, `4234`). The head of the list is
  then not the one with the highest priority, for which
  `prvGetDisinheritPriorityAfterTimeout` takes it (`queue.c:2061`), and a time-out makes
  the holder fall below a task that still waits (`MCMutexChain`: four tasks that
  take two mutexes in one order). Nor does a holder that inherits while it waits for
  another mutex pass the priority on. A task that holds no other mutex keeps the
  priority it waits with, and among such tasks neither can happen. `InheritedHolds`
  proves, for mutexes whose users use no other one, that the list stays in order and
  that a give without a switch lets nobody be overtaken.
* A floppy write to a protected disk is answered with success: nobody looks at
  `EROFS` (`floppy.c:204`), and the dirty sectors are lost with the next track.
  Changing the disk goes unnoticed.
* `DecodeTrack` asserts `sectorNum <= NSECTORS` where it needs `<`
  (`floppy-mfm.c:83`), and `RealignTrack` takes the sectors to come in order.
* `WaitTimerSleep` takes any notification for the end of its delay: it ignores what
  `NotifyWait(NB_IRQ, portMAX_DELAY)` returns (`cia-timer.c:113`), contrary to
  `cia.h:42`, and leaves the timer counting, its interrupt on and its task noted
  (`CiaCut`). This happens in the floppy driver: `FloppyIoTask` brings the heads to
  track 0 when it starts (`floppy.c:294`), and the first request, which may come by then,
  ends the delay it is in with `NB_MSGPORT`. Steps follow each other too fast then. If it
  was the last of these delays, the task is idle or serves the request while the timer
  counts, and the `NB_IRQ` at its end is taken for that of a later delay, or of a
  transfer (`floppy.c:269`, "Wake up when the transfer finishes"): sectors are handed
  out that have not been read (`MCFloppyEarly`). As a rule all goes well, since the task
  sets the timer again within microseconds; that is what the properties of the
  driver say.
* The timer is started before its waiter is noted (`cia-timer.c:107`): if a
  task is held up for the length of the delay, and another interrupt of the chip comes
  meanwhile, the handler of the timer has `NULL` to notify, which
  `xTaskGenericNotifyFromISR` asserts against (`tasks.c:4904`; `CiaLate`). A cut delay
  leads there as well: if its timer runs out just when the next delay has turned the
  interrupt off, that counts as the end of the next delay, and when this is really over
  nobody is noted any more.
* `configASSERT(xInheritanceOccurred == pdFALSE)` in `xQueueSemaphoreTake`
  (`queue.c:1508`) can fail, which is a panic in this build. The comment above it says
  that "an adjusted timeout cannot become 0, as if it were 0 the function would have
  exited", but `xTaskCheckForTimeOut` sets it to 0 when it is over (`tasks.c:3327`),
  and the function goes on if the mutex is free at that moment (`queue.c:1598`). A task
  that runs in between and takes it makes the assertion fail (`MCMutexTimeout`). The
  programs of the repository all take their mutexes with `portMAX_DELAY`, so that none
  of them meets this yet.
* A file starts with a use count of 0, so that `FileHold` on a fresh file fails
  its assertion (`file.c:13`), which is what `examples/unix/main.c:26` does, and
  `FileClose` of the last reference never frees the `File_t`. `SysDup`
  (`sysent.c:81`) installs a file twice without holding it.
* A key that arrives before the listener has called `EventMonitor` waits for the
  next one to be noticed; a group that does not fit is dropped but still notified;
  a listener that closes without `EV_DELETE` leaves its note in the list.

The run `tty_full` shows the first; the configurations above show those on endless
waits, the allocator, the echo, opening during a close, giving a mutex, event lists,
delays and the timer, the floppy's first request and the assertion on time-outs. The
others are read off the code.

## Proofs

All theorems hold for every value of the constants that satisfies the modules'
assumptions, and the ones named. Each rests on an inductive invariant, as none of
the properties is inductive: they speak of moments (a return, a sleep, an answer),
and what makes these right was done several steps before by somebody else.

`MsgPort_proofs`, on `NotifyWait`: `WaitTypeCorrect`, `NoSleepOnBitHolds` and `BitsConsumedOnceHolds` for
all tick ranges, timeouts and masks; `DeadlineKeptHolds` and
`ZeroOnlyAfterTimeoutHolds` under `Unwrapped`: all waits are finite and the counter
does not wrap, which it does after 2.7 years at 50 Hz. Without it a wait across the
wrap ends at the first notification, and `portMAX_DELAY` always does. `WaitInv`
says that a task in the middle of a wait with no notification has none of its bits
on, `DeadlineInv` that `end` is the time of entry plus the timeout and that the wake
time of a sleeping task is `end`, however often it was woken before.

`MsgPort_proofs`, on `MsgPort`: `TypeCorrect`, `DoMsgIsAnswered`, `MessagesStayLive`,
`NoEmptyWakeupHolds` and `PortsImplementCalls`, that the module implements
`RemoteCall`, under `Quiet` (no driver sends other bits to tasks that call `DoMsg`).
The invariant ties together the three places a message can be in: a message in a
port belongs to a client that waits for that very port and has not been woken up
(`QueueInv`); the message in the hands of `ReplyMsg` is in no port and its sender
is not running, since the scheduler is suspended (`ReplyInv`); and a client that has
been woken up, or has an `NB_MSGPORT` bit on, has been answered (`ClientInv`). The
last part is what fails if a bit is left over from an earlier call. `CallInv` adds
what the refinement needs: the message `ReplyMsg` works on was sent to the port it
was found in. `WakeInv` says that a bit pending for the task of a drive announces a
message that is in its port.

`Memory_proofs`: `WellTaggedHolds`, `AccountedHolds` and `HeapImplemented`, that the
allocator implements `Heap`, for regions of any number and size, any tasks and
requests, under `EndWordUsed` (the word behind an arena, which nobody initialises,
has the USED bit; `MCMemoryEnd` shows what happens otherwise). `ArenaInv` says of one
arena that its tags lie in a chain from the first unit to the end, that footers, the
PREVFREE bits and the canaries agree with the neighbours, no two free blocks touch, the
free list has each free block once, and `totalFree` is the sum of their sizes. One
lemma per way a block can be split, merged, shrunk or grown shows that it is kept,
from how the tags before and behind the place change (`Retiling`) and how the sum does
(`Totalling`). `HeapInv` adds that each used block has one owner, and `CallsInv` what
the pieces of a call remember: the size read by `ar_realloc` is still that of the block,
since only its owner could change it. Sums and chains over an arena are proved by induction on
a set of numbers that contains 0 and with each number the next (`SetInduction`).

`Tty_proofs`, all under `NeverFull` (fewer than `BUFSIZ` characters typed and not yet
read; `tty_full` shows that it is needed): `EolMarksLineHolds` and
`RemovedOnlyProcessedHolds` from `LineInv`, that `eol`, `done` and the length of the
line are in this order and `eol` stands at a line feed; `TerminalImplemented` with
`ViewInv`, that carriage returns are gone from what has been processed and the task
goes on until it is told to quit; `NoStallHolds` with `StallInv`: when the task
sleeps, what is left to store, to echo, to read or to hear of is paired with a
full queue that the console will drain, a line not finished, or a flag already set.

`Serial_proofs`: `TypeCorrect`, `WriteCompleteHolds` and `NobodyStrandedHolds` for
rings and requests of any size and any tasks. The invariant has the rings
well-formed (head, tail and count agree), who is in a critical section
(`ControlInv`), which interrupt is on its way for a byte in the hardware
(`PendingInv`), and that a writer nothing else notifies is woken with `NB_IRQ` and
leaves with nothing left to write (`WriterInv`). What each operation of `Ring` does
to the contents of a ring is a lemma, and from these follows `InOrderHolds`: each
direction is a `ByteStream`.

`Drivers_proofs`, on `Floppy`, for any geometry, clients and requests: `TypeCorrect`,
`HeadsKnownHolds`, `NoStrayWakeupHolds`, `WrittenThroughHolds` and
`DriveImplemented`, with no assumption on when the first request comes or how long the
timer runs. `Core`, types and requests, holds always, and the rest of `IInv` while
nothing has been `missed`, which suffices: a step does not take that back. `WaitInv` says for
each place of the task whether the timer counts, whether its bit is on and whether the
wait may have been cut short: a timer that is left counting is set again before a
transfer begins, or runs out unawaited. `RequestInv` keeps what is left of a request on the disk, from where the task has
got to; `HeadInv` says that `headTrk` counts what the heads do and that each step
brings them nearer; `CacheInv` says which sectors may be dirty and that the others are
what the disk has. For the refinement `BufferInv` says that what was not decoded is
what the disk has also after a refused write, and `ServedInv` that the bytes copied so
far are those from the request's first place to the task's position. The rest is
arithmetic: a place is one byte of one sector of one track and no other
(`PlaceUnique`, `Places`), so that copying part of a sector changes the bytes the
request names (`CopyTransfers`), and every other step leaves `Content` alone.

`Drivers_proofs`, on `Cia`: `FullDelayHolds` and `TimersSoundHolds`, for any tasks, with
no assumption on how long they are held up or what notifies them. The invariant
`CalmInv` speaks of the time before a timer has run out for nobody; that every step,
whatever it does after that, keeps `stray` is `StrayStays`. `ChainInv` and `OwnerInv` say which servers a chain may hold and who
owns which timer; `DelayInv` says that a flag is up only while its task sleeps and is
noted, that a timer which counts has its task noted from `SetWaiter` on, and that a task
which is notified finds its timer at rest; a delay that was cut short may leave a timer
counting in any stage of the next one, or without an owner; `KeyInv` says the same of
the handshake. `MaskInv`, `FlagInv`, `SpinInv` and `CallInv` say that the flag of a server that is due is in the chip or in
the cache and that the chain is going to reach it.

`Drivers_proofs`, on `Devices`: `SetUpWhileUsedHolds` and `NothingOverlookedHolds` for any
tasks and any overlap of opens and closes but the one `raced` remembers (`UnracedInv`).
`CountInv` equates the use count with the number of tasks that use the
device, a cardinality; `AloneInv` says that while this is 0 one task at most is
opening or closing;
`SetUpInv` and `ListenInv` what is set up and who is listed in each state.

`Sched_proofs` has what each operator of the scheduler does to its lists, its clock and
the choice of the running task, for any tasks, priorities and event lists, in three
parts. `Lists`: each task is in one state list, once, and in one event list or on
`xPendingReadyList` only while it is in no ready list. `OnTime`: the two delayed lists
are in the order of their wake times, all of which lie ahead of the tick counter, those
of the second list after its next wrap, and `xNextTaskUnblockTime` is not after the
first; without the last, `Punctual` is not inductive. `Chosen`: a task of a higher
priority than the current one is ready only inside an interrupt, where
`xNeedRescheduleTask` is up, and also `xYieldPending` as long as no tick has come: that
is what the tick handler, which overwrites the first flag, takes it from. The loops of
`xTaskIncrementTick`, `xTaskResumeAll` and `prvUnlockQueue` are recursive functions; that
they keep the three parts is shown by induction on a set, as above (`LoopKeeps`).

`Queue_proofs`, for any tasks, programs, priorities, queue length and range of the tick
counter: `ScheduledHolds`, `PunctualHolds`, `GroupsWholeHolds`, `NeverEarlyHolds`,
`NoLostWakeupHolds` and `DeliversInOrderHolds`, that a queue implements `ByteStream`. All stand on `Core`: the three parts (`Settled`);
`Phase`, that the scheduler is suspended exactly while the current task is at one of the
steps between `vTaskSuspendAll` and `xTaskResumeAll`, that nobody else is, that wake-ups
are held back only then, and at which steps a task may have left the ready list;
`InCalls`, what the local variables of a call can be at each step; `Locked`, that the lock
counts count; and `Injecting`, that the events the handler has still to send fit. The
order of the items follows from how two places of the ring move (`Shift`, `Ring`).

Two properties of calls need an invariant of their own on top of `Core`. `NeverEarlyHolds`
stands on `TimeInv`: `Keeps` says that what `xTaskCheckForTimeOut` leaves to wait never ends
before the ticks of the call are over, counted in unbounded time although the code sees
only the counter and the number of its overflows, and `Over` that a call that has expired
has waited that long. `NoLostWakeupHolds` stands on `Awaited`. `WaitInv`: a task on an event list is
in the loop of a call that the list is for. `CoverInv`: while the list is not empty, no
more items (or places) are there than tasks that look plus wake-ups counted in the lock.
A task that has given up (a send that expired returns without looking again) is not counted
among those that look; with it the invariant would not be inductive. A step either
leaves amount and lookers alone (`CoverSame`), or takes an item and at most one looker
(`CoverLess`), or brings an item and wakes the first task of the list (`CoverMore`), or
leaves nothing to look for (`CoverNone`); `UnlockTxAwaited` is the one that wakes as many
tasks as the lock counted.

`Mutex_proofs`, for any tasks, priorities, programs and finite set of mutexes, the idle
task calling nothing: `RestoredHolds`, `NoMutexStrandedHolds` and `InheritedHolds`. The scheduler is that
of `Sched_proofs`, whose lemmas carry over but for one thing: inheriting and giving up a
priority moves a task between ready lists, and a task may then run that is not the
highest ready one (see Findings), so `Chosen` is not kept and the invariant `Core` has
`Sane` (`Lists`, `OnTime`) without it. `Core` further says that the current task is ready
but for the moment between falling asleep and its yield (`Runs`); that a task on the event
list of a mutex is in a take of that very mutex and looks again when woken (`Queued`);
that a mutex is free exactly if it has no holder, and that `uxMutexesHeld` is the number
of mutexes whose holder the task is, a cardinality (`Owned`). `OwnPriority`, which is
`Restored`, is not inductive without `Owned`: a count that has drifted would restore a
priority too early or never, and a holder that is no longer one would be raised for good.
A task at the failed assertion of `queue.c:1508` keeps what it had: all three theorems
cover the states in which that has happened.
`NoMutexStrandedHolds` follows step by step from `Core`: a task that finds the mutex
taken stops looking, and a give wakes the first of the list, which is then one that looks
(`StrandedStep`, `GiveStranded`).

`InheritedHolds` is about each mutex that is `Alone`. A task that takes one holds no
other, so that it waits with its own priority, and has that again with the give (`Legit`,
`HoldsOne`). `Kept` has four parts. `InOrder`: the event list is in the order of the
priorities; `Sched_proofs` shows that `vTaskPlaceOnEventList` inserts so (`InsertDescends`)
and that all else keeps the order of those that stay (`Pairs`). `Raised`, which is
`Inherited`: a task that joins raises the holder, and one that gives up leaves it what
the head of the list has, which is the most since the list is in order. Giving a mutex
makes neither of these true for the next holder, since the mutex is free
until somebody looks. `Attended`: one of those that are ready to look has a priority not
below any that still waits. `Guarded`: nor has the current task, if it ever takes this
mutex. A switch keeps `Guarded` because it picks no task below the one that is to look
(`SwitchGuards`), and a give that goes on without a switch because the giver is left with
its own priority, below which the woken task is not (`GivenKept`). `SwitchGuards` needs
that users of a free mutex run with their own priority: in `MCMutexOvertake` one is
chosen for what it has inherited through another mutex, loses that with a give that
does not switch, and takes this one ahead of those above it.

Only model-checked: liveness, and with it everything that uses fairness (`Answered`,
`Transmitted`, `CallsAnswered`, `Served`, `Wakes`). Every other property of a run that
passes is stated by a theorem.

## Not modelled, and why

Graphics (blitter, copper, sprites, bitmaps, palettes, the drawing part of the
display) programs hardware registers sequentially. The MFM encoding, the hunk
loader, the tables of keys and formatting are sequential data conversions. `libc`,
the boot loader, the examples and the build tools are outside the kernel.

Of the vendored FreeRTOS, which is most of the repository's lines, only what the
kernel and the programs use is modelled. Software timers, counting and recursive
semaphores, queue sets and changing priorities are off in `FreeRTOSConfig.h` or
never called; `stream_buffer.c`, `event_groups.c`, `timers.c` and `croutine.c` are
used by nothing. Its headers are declarations and documentation.

Processes and descriptors: the only program that starts a process stops at an
assertion before the process runs (see Findings), and most system calls are
stubs; `pipe.c` is one as well. A model of them would have no state the program can
be in. The line and frame counters of the CIA chips are used by no program; their
code looks unfinished (an alarm beyond 24 bits never comes, and a stray
notification leaves an item of the waiter's stack in the list).

Within the modelled parts: creating and deleting ports, `SerialOpen` and
`SerialClose`, attaching and detaching drivers, changing disks, deleting and
suspending tasks, `vTaskDelayUntil`. Byte arithmetic near 2^32 in the allocator,
and a tick counter that wraps in the middle of a wait of `NotifyWait`, are out of
the instances' range.

## Plan

Done, in this order: notifications, message ports, the allocator, ring buffers,
the serial driver's data path, the terminal; the scheduler with queues and with
mutexes; the floppy driver against an abstract drive; CIA timers, interrupt
registers and chains with the keyboard's handshake; device files and events.

Left, with what each would ask:

| Part | Question |
|---|---|
| `SerialOpen`, `SerialClose` | bytes still in the ring when the buffers are freed; closing while a task waits |
| `vTaskDelayUntil`, `vTaskDelete` | periods across a wrap; a task deleted while it holds a mutex or waits |
| Line and frame counters | alarms set in the past, two waiters for one alarm |
| Files and descriptors | once a fresh file can be held: does a descriptor outlive its file? |
