------------------------------ MODULE MsgPort ------------------------------
(* Message ports (kernel/msgport.c) over FreeRTOS queues of length one and    *)
(* direct-to-task notifications (kernel/notify.c).  A client calls DoMsg on a *)
(* port; the task that owns the port wakes up, peeks at the message and       *)
(* replies when it has served it.  A message is a compound literal in the     *)
(* frame of DoMsg's caller, so it is named by the client that sent it: the    *)
(* frame is live while that client is inside DoMsg.                           *)
(*                                                                            *)
(* One action is one critical section, or one piece of code between two       *)
(* points where another task can run.  The tick counter is not zero.          *)
EXTENDS Naturals, Sequences, SequencesExt

CONSTANTS
  Clients,   \* tasks that call DoMsg
  Owners,    \* tasks that own ports
  Ports,
  None,
  Owner,     \* [Ports -> Owners], MsgPort::owner
  Prio,      \* [Clients \cup Owners -> Nat], a larger number is more urgent
  Deferred,  \* ports whose requests wait for input from a device (tty reads)
  Timed,     \* owners that wait with a timeout (the floppy i/o task)
  Noisy      \* tasks that interrupts notify with NB_IRQ as well

NB == {"NB_MSGPORT", "NB_EVENT", "NB_IRQ"}
Tasks == Clients \cup Owners

ASSUME SortsAssumption ==
  /\ Clients \cap Owners = {}
  /\ None \notin Tasks
  /\ Owner \in [Ports -> Owners]
  /\ Prio \in [Tasks -> Nat]
  /\ Deferred \subseteq Ports
  /\ Timed \subseteq {s \in Owners : \A p \in Deferred : Owner[p] # s}
  /\ Noisy \subseteq Tasks

ASSUME NoneAssumption == None \notin Ports \X Clients

VARIABLES
  pc,        \* where each task is
  tcb,       \* its notification fields
  delayed,   \* tasks blocked in xTaskNotifyWait
  suspended, \* the task that called vTaskSuspendAll, or None
  queue,     \* the message each port's queue holds, or None
  sendq,     \* tasks blocked in xQueueSend, as xTasksWaitingToSend orders them
  target,    \* the port of a client's call
  task,      \* Msg::task of a client's message
  todo,      \* ports an owner has still to look at since it woke up
  reply,     \* <<port, msg>> of the ReplyMsg an owner is in, or None
  input      \* whether a deferred port's request can be completed

vars == <<pc, tcb, delayed, suspended, queue, sendq, target, task, todo, reply,
          input>>

TN == INSTANCE TaskNotify

TypeOK ==
  /\ pc \in [Tasks -> {"idle", "send", "block", "sendwait", "notify", "wait",
                       "waiting", "done", "scan", "reply", "clear", "exited"}]
  /\ tcb \in [Tasks -> TN!TCB]
  /\ delayed \in SUBSET Tasks
  /\ suspended \in Owners \cup {None}
  /\ queue \in [Ports -> Clients \cup {None}]
  /\ sendq \in [Ports -> Seq(Clients)]
  /\ target \in [Clients -> Ports \cup {None}]
  /\ task \in [Clients -> Clients \cup {None}]
  /\ todo \in [Owners -> SUBSET Ports]
  /\ reply \in [Owners -> (Ports \X Clients) \cup {None}]
  /\ input \in [Ports -> BOOLEAN]

PortsOf(s) == {p \in Ports : Owner[p] = s}

(* the bits a task waits for: DoMsg and the floppy task NB_MSGPORT, a task    *)
(* that also monitors files NB_EVENT too                                      *)
Mask(t) ==
  IF t \in Clients \cup Timed THEN {"NB_MSGPORT"} ELSE {"NB_MSGPORT", "NB_EVENT"}

Init ==
  /\ pc = [t \in Tasks |-> IF t \in Clients THEN "idle" ELSE "wait"]
  /\ tcb = [t \in Tasks |-> TN!FreshTCB]
  /\ delayed = {}
  /\ suspended = None
  /\ queue = [p \in Ports |-> None]
  /\ sendq = [p \in Ports |-> <<>>]
  /\ target = [c \in Clients |-> None]
  /\ task = [c \in Clients |-> None]
  /\ todo = [s \in Owners |-> {}]
  /\ reply = [s \in Owners |-> None]
  /\ input = [p \in Ports |-> FALSE]

----------------------------------------------------------------------------
(* The preemptive scheduler: with the scheduler running, a task that executes *)
(* has the highest priority of all ready tasks; otherwise it is the one that  *)
(* suspended it.  An idle client is doing something else and never holds the  *)
(* processor.                                                                 *)

Ready(t) ==
  t \notin delayed /\ pc[t] \notin {"idle", "sendwait", "exited"}

CanRun(t) ==
  \/ suspended = t
  \/ /\ suspended = None
     /\ \A u \in Tasks : Ready(u) => Prio[u] <= Prio[t]

(* NotifySend: set bits, make the task ready if it was waiting for any bits   *)
Notify(t, bits) ==
  /\ tcb' = [tcb EXCEPT ![t] = TN!Notified(@, bits)]
  /\ delayed' = delayed \ {t}

(* vListInsert into an event list: by priority, and behind its equals         *)
EventListInsert(list, c) ==
  LET n == Cardinality({i \in DOMAIN list : Prio[list[i]] >= Prio[c]})
  IN  InsertAt(list, n + 1, c)

(* NotifyWait on entry: take a bit that is already there, or else block       *)
NotifyWaitEnter(t, takenPc) ==
  LET taken == tcb[t].value \cap Mask(t) # {}
      polled == TN!Polled(tcb[t], Mask(t))
  IN  /\ pc[t] = "wait"
      /\ CanRun(t)
      /\ tcb' = [tcb EXCEPT ![t] = IF taken THEN polled ELSE TN!Blocked(polled)]
      /\ delayed' = IF taken THEN delayed ELSE delayed \cup {t}
      /\ pc' = [pc EXCEPT ![t] = IF taken THEN takenPc ELSE "waiting"]

(* Definitions named Fault... are plausible slips in the code they stand      *)
(* beside.  No specification uses them.                                       *)

(* Fault: any bit counts, not just the awaited ones                           *)
FaultAnyBit(t, takenPc, emptyPc) ==
  /\ pc[t] = "waiting"
  /\ t \notin delayed
  /\ CanRun(t)
  /\ tcb' = [tcb EXCEPT ![t] = TN!Resumed(@, Mask(t))]
  /\ pc' = [pc EXCEPT ![t] = IF tcb[t].value # {} THEN takenPc ELSE emptyPc]
  /\ UNCHANGED delayed

(* NotifyWait after it blocked.  With portMAX_DELAY `end` lies behind `now`   *)
(* as soon as the tick counter is not zero, so the first wake-up ends the     *)
(* loop whichever bit caused it; with a finite timeout an early wake-up with  *)
(* no awaited bit blocks again                                                *)
NotifyWaitResume(t, takenPc, emptyPc) ==
  LET taken == tcb[t].state = "received" /\ tcb[t].value \cap Mask(t) # {}
      resumed == TN!Resumed(tcb[t], Mask(t))
  IN  /\ pc[t] = "waiting"
      /\ t \notin delayed
      /\ CanRun(t)
      /\ \/ /\ tcb' = [tcb EXCEPT ![t] = resumed]
            /\ pc' = [pc EXCEPT ![t] = IF taken THEN takenPc ELSE emptyPc]
            /\ UNCHANGED delayed
         \/ /\ t \in Timed /\ tcb[t].state = "received" /\ ~taken
            /\ tcb' = [tcb EXCEPT ![t] = TN!Blocked(resumed)]
            /\ delayed' = delayed \cup {t}
            /\ UNCHANGED pc

----------------------------------------------------------------------------
(* DoMsg.  A client that becomes ready calls it when it is scheduled.         *)

DoMsg(c, p) ==
  /\ pc[c] = "idle"
  /\ CanRun(c)
  /\ pc' = [pc EXCEPT ![c] = "send"]
  /\ target' = [target EXCEPT ![c] = p]
  /\ task' = [task EXCEPT ![c] = c]
  /\ UNCHANGED <<tcb, delayed, suspended, queue, sendq, todo, reply, input>>

(* Fault: the message overwrites the one in the slot                          *)
FaultOverwrite(c) ==
  /\ pc[c] = "send"
  /\ CanRun(c)
  /\ queue' = [queue EXCEPT ![target[c]] = c]
  /\ pc' = [pc EXCEPT ![c] = "notify"]
  /\ UNCHANGED <<tcb, delayed, suspended, sendq, target, task, todo, reply,
                 input>>

(* xQueueSend: copy the message if the slot is free                           *)
QueueSend(c) ==
  LET p == target[c] IN
  /\ pc[c] = "send"
  /\ CanRun(c)
  /\ IF queue[p] = None
       THEN /\ queue' = [queue EXCEPT ![p] = c]
            /\ pc' = [pc EXCEPT ![c] = "notify"]
       ELSE /\ pc' = [pc EXCEPT ![c] = "block"]
            /\ UNCHANGED queue
  /\ UNCHANGED <<tcb, delayed, suspended, sendq, target, task, todo, reply,
                 input>>

(* xQueueSend: with the scheduler suspended, look again before blocking       *)
QueueBlock(c) ==
  LET p == target[c] IN
  /\ pc[c] = "block"
  /\ CanRun(c)
  /\ IF queue[p] # None
       THEN /\ sendq' = [sendq EXCEPT ![p] = EventListInsert(@, c)]
            /\ pc' = [pc EXCEPT ![c] = "sendwait"]
       ELSE /\ pc' = [pc EXCEPT ![c] = "send"]
            /\ UNCHANGED sendq
  /\ UNCHANGED <<tcb, delayed, suspended, queue, target, task, todo, reply,
                 input>>

(* Fault: the owner is notified with a bit it does not wait for               *)
FaultWrongBit(c) ==
  /\ pc[c] = "notify"
  /\ CanRun(c)
  /\ Notify(Owner[target[c]], {"NB_IRQ"})
  /\ pc' = [pc EXCEPT ![c] = "wait"]
  /\ UNCHANGED <<suspended, queue, sendq, target, task, todo, reply, input>>

(* NotifySend(mp->owner, NB_MSGPORT)                                          *)
NotifyOwner(c) ==
  /\ pc[c] = "notify"
  /\ CanRun(c)
  /\ Notify(Owner[target[c]], {"NB_MSGPORT"})
  /\ pc' = [pc EXCEPT ![c] = "wait"]
  /\ UNCHANGED <<suspended, queue, sendq, target, task, todo, reply, input>>

ClientWait(c) ==
  /\ NotifyWaitEnter(c, "done") \/ NotifyWaitResume(c, "done", "done")
  /\ UNCHANGED <<suspended, queue, sendq, target, task, todo, reply, input>>

(* the caller of DoMsg uses the answer and drops the frame with the message   *)
Return(c) ==
  /\ pc[c] = "done"
  /\ CanRun(c)
  /\ pc' = [pc EXCEPT ![c] = "idle"]
  /\ target' = [target EXCEPT ![c] = None]
  /\ task' = [task EXCEPT ![c] = None]
  /\ UNCHANGED <<tcb, delayed, suspended, queue, sendq, todo, reply, input>>

----------------------------------------------------------------------------
(* The owner of ports: wait, then look at every port and reply where the      *)
(* request can be completed.                                                  *)

OwnerWait(s) ==
  /\ \/ NotifyWaitEnter(s, "scan")
     \/ NotifyWaitResume(s, "scan", IF s \in Timed THEN "wait" ELSE "exited")
  /\ todo' = [todo EXCEPT ![s] = IF pc'[s] = "scan" THEN PortsOf(s) ELSE {}]
  /\ UNCHANGED <<suspended, queue, sendq, target, task, reply, input>>

(* a wait with a timeout ends: the task is made ready with nothing received   *)
Timeout(s) ==
  /\ s \in Timed \cap delayed
  /\ delayed' = delayed \ {s}
  /\ UNCHANGED <<pc, tcb, suspended, queue, sendq, target, task, todo, reply,
                 input>>

(* GetMsgData peeks at the port.  A request that cannot be completed yet      *)
(* stays in the port                                                          *)
CanServe(p) == queue[p] # None /\ (p \in Deferred => input[p])

Skip(s, p) ==
  /\ pc[s] = "scan"
  /\ CanRun(s)
  /\ p \in todo[s]
  /\ ~CanServe(p)
  /\ todo' = [todo EXCEPT ![s] = @ \ {p}]
  /\ UNCHANGED <<pc, tcb, delayed, suspended, queue, sendq, target, task,
                 reply, input>>

Rescan(s) ==
  /\ pc[s] = "scan"
  /\ CanRun(s)
  /\ todo[s] = {}
  /\ pc' = [pc EXCEPT ![s] = "wait"]
  /\ UNCHANGED <<tcb, delayed, suspended, queue, sendq, target, task, todo,
                 reply, input>>

(* Fault: reply while other tasks may run                                     *)
FaultReplyPreempted(s, p) ==
  /\ pc[s] = "scan"
  /\ CanRun(s)
  /\ p \in todo[s]
  /\ CanServe(p)
  /\ reply' = [reply EXCEPT ![s] = <<p, queue[p]>>]
  /\ queue' = [queue EXCEPT ![p] = None]
  /\ sendq' = [sendq EXCEPT ![p] = <<>>]
  /\ pc' = [t \in Tasks |->
              IF t = s THEN "reply"
              ELSE IF t \in ToSet(sendq[p]) THEN "send" ELSE pc[t]]
  /\ todo' = [todo EXCEPT ![s] = @ \ {p}]
  /\ input' = [input EXCEPT ![p] = FALSE]
  /\ UNCHANGED <<tcb, delayed, suspended, target, task>>

(* ReplyMsg: vTaskSuspendAll, then xQueueReceive, which moves the first       *)
(* blocked sender to the ready list                                           *)
ReplyMsg(s, p) ==
  /\ pc[s] = "scan"
  /\ CanRun(s)
  /\ p \in todo[s]
  /\ CanServe(p)
  /\ suspended' = s
  /\ reply' = [reply EXCEPT ![s] = <<p, queue[p]>>]
  /\ queue' = [queue EXCEPT ![p] = None]
  /\ IF sendq[p] # <<>>
       THEN /\ sendq' = [sendq EXCEPT ![p] = Tail(@)]
            /\ pc' = [pc EXCEPT ![s] = "reply", ![Head(sendq[p])] = "send"]
       ELSE /\ pc' = [pc EXCEPT ![s] = "reply"]
            /\ UNCHANGED sendq
  /\ todo' = [todo EXCEPT ![s] = @ \ {p}]
  /\ input' = [input EXCEPT ![p] = FALSE]
  /\ UNCHANGED <<tcb, delayed, target, task>>

(* ReplyMsg: NotifySend(msg->task, NB_MSGPORT)                                *)
NotifySender(s) ==
  /\ pc[s] = "reply"
  /\ CanRun(s)
  /\ Notify(task[reply[s][2]], {"NB_MSGPORT"})
  /\ pc' = [pc EXCEPT ![s] = "clear"]
  /\ UNCHANGED <<suspended, queue, sendq, target, task, todo, reply, input>>

(* ReplyMsg: msg->task = NULL and xTaskResumeAll                              *)
ClearTask(s) ==
  /\ pc[s] = "clear"
  /\ CanRun(s)
  /\ task' = [task EXCEPT ![reply[s][2]] = None]
  /\ reply' = [reply EXCEPT ![s] = None]
  /\ suspended' = None
  /\ pc' = [pc EXCEPT ![s] = "scan"]
  /\ UNCHANGED <<tcb, delayed, queue, sendq, target, todo, input>>

----------------------------------------------------------------------------
(* Interrupts, which also come while the scheduler is suspended.              *)

(* EventNotifyFromISR: the device behind a deferred port has data             *)
InputFromISR(p) ==
  /\ p \in Deferred
  /\ ~input[p]
  /\ input' = [input EXCEPT ![p] = TRUE]
  /\ Notify(Owner[p], {"NB_EVENT"})
  /\ UNCHANGED <<pc, suspended, queue, sendq, target, task, todo, reply>>

(* NotifySendFromISR of a driver the task has not waited for with DoMsg       *)
OtherIRQ(t) ==
  /\ t \in Noisy
  /\ Notify(t, {"NB_IRQ"})
  /\ UNCHANGED <<pc, suspended, queue, sendq, target, task, todo, reply, input>>

----------------------------------------------------------------------------
ClientStep(c) ==
  \/ QueueSend(c) \/ QueueBlock(c) \/ NotifyOwner(c)
  \/ ClientWait(c) \/ Return(c)

OwnerStep(s) ==
  \/ OwnerWait(s) \/ Rescan(s) \/ NotifySender(s) \/ ClearTask(s)
  \/ \E p \in Ports : Skip(s, p) \/ ReplyMsg(s, p)

Next ==
  \/ \E c \in Clients : ClientStep(c) \/ \E p \in Ports : DoMsg(c, p)
  \/ \E s \in Owners : OwnerStep(s) \/ Timeout(s)
  \/ \E p \in Ports : InputFromISR(p)
  \/ \E t \in Tasks : OtherIRQ(t)

Spec == Init /\ [][Next]_vars

(* A step of a task takes microseconds, a timeout of the floppy task one      *)
(* second: a task that can run again and again does run.  Nothing is assumed  *)
(* of clients starting calls, and input keeps arriving.                       *)
Fairness ==
  /\ \A c \in Clients : SF_vars(ClientStep(c))
  /\ \A s \in Owners : SF_vars(OwnerStep(s))
  /\ \A p \in Deferred : WF_vars(InputFromISR(p))

FairSpec == Spec /\ Fairness

----------------------------------------------------------------------------
(* Properties *)

(* DoMsg returns to its caller only after ReplyMsg has finished with the      *)
(* caller's message (msgport.h: Msg::task is NULL when done): the answer is   *)
(* there, and nobody writes to the frame afterwards                           *)
AnsweredOnReturn ==
  \A c \in Clients : pc[c] = "done" => task[c] = None

(* A message that a port holds, or that ReplyMsg still reads and writes, lies *)
(* in the frame of a client that is waiting for it inside DoMsg               *)
MessageLive ==
  LET inUse == {queue[p] : p \in Ports}
               \cup {reply[s][2] : s \in {o \in Owners : reply[o] # None}}
  IN  \A c \in inUse \ {None} :
        pc[c] \in {"notify", "wait", "waiting"} /\ task[c] = c

(* An owner of one port that waits for nothing but its messages finds one     *)
(* whenever NotifyWait returns bits (Assert(io != NULL) of FloppyIoTask)      *)
NoEmptyWakeup ==
  \A p \in Ports :
    LET s == Owner[p] IN
    s \in Timed /\ PortsOf(s) = {p} /\ pc[s] = "scan" /\ todo[s] # {}
      => queue[p] # None

(* No owner sleeps over a request that it could serve: if it is blocked, the  *)
(* sender has yet to notify it                                                *)
NoSleepOnMessage ==
  \A p \in Ports :
    Owner[p] \in delayed /\ CanServe(p) => pc[queue[p]] = "notify"

(* No client stays in the queue of blocked senders of an empty port unless    *)
(* another client has been woken up to use it                                 *)
SenderNotForgotten ==
  \A p \in Ports :
    sendq[p] # <<>> /\ queue[p] = None
      => \E c \in Clients : pc[c] = "send" /\ target[c] = p

(* When clients stop making new calls, as a task that runs below a busy       *)
(* client of higher priority needs, every call that was started is answered   *)
(* and its caller goes on: no message, wake-up or reply gets lost             *)
NoNewCalls == \A c \in Clients : pc[c] = "idle" => pc'[c] = "idle"

Answered ==
  <>[][NoNewCalls]_vars
    => \A c \in Clients : (pc[c] # "idle") ~> (pc[c] = "done")

(* Message ports implement remote calls.  A call leaves the port when         *)
(* ReplyMsg is through with its message                                       *)
InService(p) ==
  IF reply[Owner[p]] # None /\ reply[Owner[p]][1] = p
    THEN reply[Owner[p]][2]
    ELSE queue[p]

Phase ==
  [c \in Clients |->
    IF pc[c] = "idle" THEN "idle"
    ELSE IF task[c] = None THEN "answered" ELSE "calling"]

Serving == [p \in Ports |-> InService(p)]

RC == INSTANCE RemoteCall WITH phase <- Phase, serving <- Serving

ImplementsRemoteCall == RC!Spec
=============================================================================
