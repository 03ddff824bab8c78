------------------------------ MODULE Devices ------------------------------
(* Files, device files and an input device behind them: kernel/file.c,        *)
(* kernel/devfile.c, kernel/event.c and the open, close, read and interrupt   *)
(* routines that drivers/keyboard.c and drivers/mouse.c share.                *)
(*                                                                            *)
(* The first open of the device creates its event queue and adds its server   *)
(* to an interrupt chain, the last close takes both away.  Tasks come in two  *)
(* kinds: users open, read with blocking and close (the shell of              *)
(* examples/console/main.c); listeners ask for NB_EVENT and read without      *)
(* blocking until the queue is empty (examples/console/console.c).  An event  *)
(* is identified by the listeners that were notified of it.  Opening for      *)
(* writing is refused before anything changes and is not modelled.            *)
EXTENDS Integers, FiniteSets, Sequences

CONSTANTS
  Users,       \* tasks that read with blocking
  Listeners,   \* tasks that wait for NB_EVENT
  QueueSize,   \* EVENTQUEUE_SIZE
  Group,       \* sizes of the groups of events a handler injects
  MaxQueues,   \* how often a queue is created in a behaviour: bounds the model
  Nil

ASSUME DevicesAssumption ==
  /\ Users \cap Listeners = {} /\ IsFiniteSet(Users \cup Listeners)
  /\ Nil \notin Users \cup Listeners \cup Seq(SUBSET Listeners)
  /\ QueueSize \in Nat \ {0} /\ MaxQueues \in Nat \ {0}
  /\ Group \subseteq Nat \ {0}

Tasks == Users \cup Listeners

VARIABLES
  usecnt,      \* DevFile_t::usecnt
  linked,      \* how often the interrupt server is linked into its chain
  eventQ,      \* KeyboardDev_t::eventQ: the number of a queue
  queues,      \* contents of the queues created so far, Nil once deleted
  notes,       \* the event wait list: how many notes each listener has in it
  suspended,   \* the task that has suspended the scheduler, or Nil
  doing,       \* where each task is
  reading,     \* the queue each task's read was given
  event,       \* who has NB_EVENT on
  raced        \* whether an open or a close has overlapped the last close

deviceVars ==
  <<usecnt, linked, eventQ, queues, notes, suspended, doing, reading, event,
    raced>>

DevicesInit ==
  /\ usecnt = 0 /\ linked = 0 /\ eventQ = 0
  /\ queues = <<>>
  /\ notes = [l \in Listeners |-> 0]
  /\ suspended = Nil
  /\ doing = [t \in Tasks |-> "idle"]
  /\ reading = [t \in Tasks |-> 0]
  /\ event = {} /\ raced = FALSE

Live(q) == q \in DOMAIN queues /\ queues[q] # Nil

Runs(t) == suspended \in {Nil, t}

Does(t, label) == Runs(t) /\ doing[t] = label

GoesOn(t, label) == doing' = [doing EXCEPT ![t] = label]

(* where a task is while it has the device open ...                           *)
Using == {"open", "waiting", "draining", "reading"}

(* ... and while it opens or closes it                                        *)
Changing == {"opening", "dropped", "closing", "removed"}

Closing == {t \in Tasks : doing[t] \in {"dropped", "closing", "removed"}}

(* An open that finds the device unused, or a close that leaves it unused,    *)
(* while another close is still on its way.  The others overlap as they like  *)
Races(count) == count = 0 /\ Closing # {}

-----------------------------------------------------------------------------
(* Opening: OpenDevFile runs with the scheduler suspended, but an interrupt   *)
(* may come between the steps of the driver's open routine.                   *)

(* An open of a device in use only counts                                     *)
OpenAgain(t) ==
  /\ Does(t, "idle")
  /\ usecnt # 0
  /\ usecnt' = usecnt + 1
  /\ GoesOn(t, "open")
  /\ UNCHANGED <<linked, eventQ, queues, notes, suspended, reading,
                 event, raced>>

(* The first open starts with a new queue ...                                 *)
CreateQueue(t) ==
  /\ Does(t, "idle")
  /\ usecnt = 0
  /\ Len(queues) < MaxQueues
  /\ queues' = Append(queues, <<>>)
  /\ eventQ' = Len(queues')
  /\ suspended' = t
  /\ raced' = (raced \/ Races(usecnt))
  /\ GoesOn(t, "opening")
  /\ UNCHANGED <<usecnt, linked, notes, reading, event>>

(* ... and goes on with the interrupt server, which makes events flow         *)
AddServer(t) ==
  /\ Does(t, "opening")
  /\ linked' = linked + 1
  /\ usecnt' = usecnt + 1
  /\ suspended' = Nil
  /\ GoesOn(t, "open")
  /\ UNCHANGED <<eventQ, queues, notes, reading, event, raced>>

-----------------------------------------------------------------------------
(* Closing, which nothing holds together: other tasks may run between any two *)
(* of its steps.                                                              *)

(* FileClose and DevClose: one file less refers to the device.  The use count *)
(* of a file starts at 0, so that the first close always gets here            *)
Drop(t) ==
  /\ Does(t, "open") \/ Does(t, "waiting")
  /\ usecnt' = usecnt - 1
  /\ raced' = (raced \/ Races(usecnt - 1))
  /\ GoesOn(t, "dropped")
  /\ UNCHANGED <<linked, eventQ, queues, notes, suspended, reading, event>>

(* Definitions named Fault... are plausible slips in the code they stand      *)
(* beside.  No specification uses them.                                       *)

(* Fault: the last but one takes the device away                              *)
FaultCloseLast(t) ==
  /\ Does(t, "dropped")
  /\ GoesOn(t, IF usecnt <= 1 THEN "closing" ELSE "idle")
  /\ UNCHANGED <<usecnt, linked, eventQ, queues, notes, suspended, reading,
                 event, raced>>

(* The driver's close routine looks whether that was the last one             *)
CloseLast(t) ==
  /\ Does(t, "dropped")
  /\ GoesOn(t, IF usecnt = 0 THEN "closing" ELSE "idle")
  /\ UNCHANGED <<usecnt, linked, eventQ, queues, notes, suspended, reading,
                 event, raced>>

RemServer(t) ==
  /\ Does(t, "closing")
  /\ linked > 0   \* else it is in no chain, and what happens is undefined
  /\ linked' = linked - 1
  /\ GoesOn(t, "removed")
  /\ UNCHANGED <<usecnt, eventQ, queues, notes, suspended, reading,
                 event, raced>>

DeleteQueue(t) ==
  /\ Does(t, "removed")
  /\ queues' = [queues EXCEPT ![eventQ] = Nil]
  /\ GoesOn(t, "idle")
  /\ UNCHANGED <<usecnt, linked, eventQ, notes, suspended, reading,
                 event, raced>>

-----------------------------------------------------------------------------
(* Events *)

(* Fault: any note will do                                                    *)
FaultListed(t) == \E l \in Listeners : notes[l] # 0

(* LookupNote *)
Listed(t) == notes[t] # 0

(* EventMonitor: asking twice is an error and changes nothing                 *)
MonitorAdd(t) ==
  /\ Does(t, "open") /\ t \in Listeners
  /\ notes' = IF Listed(t) THEN notes ELSE [notes EXCEPT ![t] = @ + 1]
  /\ GoesOn(t, "waiting")
  /\ UNCHANGED <<usecnt, linked, eventQ, queues, suspended, reading,
                 event, raced>>

MonitorDelete(t) ==
  /\ Does(t, "waiting")
  /\ notes' = IF Listed(t) THEN [notes EXCEPT ![t] = @ - 1] ELSE notes
  /\ GoesOn(t, "open")
  /\ UNCHANGED <<usecnt, linked, eventQ, queues, suspended, reading,
                 event, raced>>

(* The server injects a group of events, all of them or none, and notifies    *)
(* the listeners either way.  It can do so while it is linked                 *)
Interrupt(n) ==
  /\ linked > 0 /\ Live(eventQ)
  /\ LET listening == {t \in Listeners : doing[t] \in {"waiting", "draining"}}
         fits == n <= QueueSize - Len(queues[eventQ])
     IN  queues' = IF fits
                   THEN [queues EXCEPT ![eventQ] =
                           @ \o [i \in 1 .. n |-> listening]]
                   ELSE queues
  /\ event' = event \cup {l \in Listeners : Listed(l)}
  /\ UNCHANGED <<usecnt, linked, eventQ, notes, suspended, doing,
                 reading, raced>>

(* NotifyWait(NB_EVENT) *)
Wake(t) ==
  /\ Does(t, "waiting") /\ t \in event
  /\ event' = event \ {t}
  /\ GoesOn(t, "draining")
  /\ UNCHANGED <<usecnt, linked, eventQ, queues, notes, suspended,
                 reading, raced>>

(* FileRead without blocking, until there is nothing left                     *)
Drain(t) ==
  /\ Does(t, "draining")
  /\ IF queues[eventQ] = <<>>
     THEN /\ GoesOn(t, "waiting")
          /\ UNCHANGED queues
     ELSE /\ queues' = [queues EXCEPT ![eventQ] = Tail(@)]
          /\ UNCHANGED doing
  /\ UNCHANGED <<usecnt, linked, eventQ, notes, suspended, reading,
                 event, raced>>

(* FileRead with blocking: the queue is looked up, and then waited for        *)
Read(t) ==
  /\ Does(t, "open") /\ t \in Users
  /\ reading' = [reading EXCEPT ![t] = eventQ]
  /\ GoesOn(t, "reading")
  /\ UNCHANGED <<usecnt, linked, eventQ, queues, notes, suspended,
                 event, raced>>

Receive(t) ==
  /\ Does(t, "reading") /\ queues[reading[t]] # <<>>
  /\ queues' = [queues EXCEPT ![reading[t]] = Tail(@)]
  /\ reading' = [reading EXCEPT ![t] = 0]
  /\ GoesOn(t, "open")
  /\ UNCHANGED <<usecnt, linked, eventQ, notes, suspended, event, raced>>

DevicesNext ==
  \/ \E t \in Tasks : \/ OpenAgain(t) \/ CreateQueue(t) \/ AddServer(t)
                      \/ Drop(t) \/ CloseLast(t)
                      \/ RemServer(t) \/ DeleteQueue(t)
                      \/ MonitorAdd(t) \/ MonitorDelete(t)
                      \/ Wake(t) \/ Drain(t) \/ Read(t) \/ Receive(t)
  \/ \E n \in Group : Interrupt(n)

DevicesSpec == DevicesInit /\ [][DevicesNext]_deviceVars

-----------------------------------------------------------------------------
(* Properties *)

DevicesTypeOK ==
  /\ usecnt \in Int /\ linked \in Nat
  /\ queues \in Seq({Nil} \cup Seq(SUBSET Listeners))
  /\ \A q \in DOMAIN queues : Live(q) => Len(queues[q]) <= QueueSize
  /\ eventQ \in 0 .. Len(queues)
  /\ notes \in [Listeners -> {0, 1}]
  /\ suspended \in Tasks \cup {Nil}
  /\ doing \in [Tasks -> Using \cup Changing \cup {"idle"}]
  /\ reading \in [Tasks -> 0 .. Len(queues)]
  /\ event \subseteq Listeners

(* The interrupt handler is linked once at most - twice would make the list   *)
(* item its own successor and RunIntChain endless - and never without a queue *)
(* to put events in, in the middle of an open and of a close as well.         *)
HandlerHasQueue ==
  linked \in {0, 1} /\ (linked = 1 => Live(eventQ))

(* A device is set up for as long as files refer to it: whoever has it open   *)
(* finds its server linked and its queue alive, and so does whoever waits for *)
(* an event in a queue it was given earlier.  When nobody has it open, or is  *)
(* about to, no queue and no server is left behind (devfile.c, and the open   *)
(* and close routines of keyboard.c and mouse.c).                             *)
SetUp ==
  /\ DevicesTypeOK /\ HandlerHasQueue
  /\ \A t \in Tasks :
       doing[t] \in Using => linked = 1 /\ Live(eventQ)
  /\ \A t \in Tasks : doing[t] = "reading" => Live(reading[t])
  /\ (\A t \in Tasks : doing[t] = "idle")
       => linked = 0 /\ \A q \in DOMAIN queues : ~ Live(q)

(* So it is until an open or a close comes in the way of the last close:      *)
(* however the other opens and closes overlap.  Without this condition it is  *)
(* not, see DevicesRace.cfg                                                   *)
SetUpWhileUsed == ~ raced => SetUp

Unraced == ~ raced

(* A listener that sleeps has not overlooked an event: whatever arrived since *)
(* it began to listen has been read, by itself or by somebody else, until     *)
(* that happens (event.c, EventNotifyFromISR after InputEventInjectFromISR).  *)
NothingOverlooked ==
  \A t \in Listeners :
    ~ raced /\ doing[t] = "waiting" /\ t \notin event /\ Live(eventQ)
      => \A i \in DOMAIN queues[eventQ] : t \notin queues[eventQ][i]
=============================================================================
