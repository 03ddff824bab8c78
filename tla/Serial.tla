------------------------------- MODULE Serial -------------------------------
(* The serial port driver (drivers/serial.c) with the interrupts that drive   *)
(* it.  One action is one stretch of code that nothing can interrupt, or one  *)
(* thing the hardware does.  A critical section masks every interrupt and is  *)
(* the task's own: it ends when the task blocks in NotifyWait and begins      *)
(* again when the task runs on.                                               *)
(*                                                                            *)
(* The UART is the code's view of it: reading SERDATR hands over a received   *)
(* byte, a byte written to SERDAT moves into the shift register as soon as    *)
(* that is empty, and then the data register asks for the next one.  SetUp    *)
(* has been done: the file is open.                                           *)
EXTENDS Naturals, Sequences, FiniteSets

CONSTANTS
  Readers, Writers,  \* the tasks that call SerialRead, SerialWrite
  ReadLens, WriteLens, \* the lengths of their requests
  Noisy,             \* tasks that also get NB_EVENT from files they monitor
  BufLen,            \* BUFLEN
  Bytes,             \* bytes are numbered as they come, modulo Bytes
  Lossy,             \* whether INTREQ can drop INTF_TBE (the BUG comment)
  None

Byte == 0 .. Bytes - 1
Tasks == Readers \cup Writers
NB == {"NB_MSGPORT", "NB_EVENT", "NB_IRQ"}

ASSUME SerialAssumption ==
  /\ Readers \cap Writers = {}
  /\ ReadLens \cup WriteLens \subseteq Nat \ {0}
  /\ Noisy \subseteq Tasks
  /\ BufLen \in Nat \ {0}
  /\ Bytes \in Nat \ {0}
  /\ Lossy \in BOOLEAN
  /\ None \notin Tasks \cup Byte

VARIABLES
  rxBuf, txBuf,    \* the ring buffers
  rxData,          \* received byte SERDATR holds, or None
  txData, txShift, \* SERDAT and the shift register behind it, or None
  intreq,          \* pending interrupts
  isr,             \* how far each interrupt handler is
  critical,        \* the task in its critical section, or None
  pc, tcb,
  left,            \* IoReq::left
  nonblock,        \* whether IoReq::flags has F_NONBLOCK
  rxTask, txTask,  \* the task inside SerialRead, SerialWrite, or None
  wire, got,       \* the byte that left last, the bytes read last
  lost             \* an INTF_TBE was dropped after the last one handled

hardware == <<rxData, txData, txShift, wire>>
buffers == <<rxBuf, txBuf>>
users == <<rxTask, txTask>>
request == <<left, nonblock>>
vars == <<buffers, hardware, intreq, isr, critical, pc, tcb, request, users,
          got, lost>>

TN == INSTANCE TaskNotify
R == INSTANCE Ring WITH Size <- BufLen

IntLevel == [TBE |-> 1, VERTB |-> 3, RBF |-> 5]
Interrupts == {"TBE", "RBF"}

Init ==
  /\ rxBuf = R!RingAlloc([i \in 0 .. BufLen - 1 |-> 0])
  /\ txBuf = R!RingAlloc([i \in 0 .. BufLen - 1 |-> 0])
  /\ rxData = None /\ txData = None /\ txShift = None
  /\ intreq = {}
  /\ isr = [i \in Interrupts |-> "off"]
  /\ critical = None
  /\ pc = [t \in Tasks |-> "idle"]
  /\ tcb = [t \in Tasks |-> TN!FreshTCB]
  /\ left = [t \in Tasks |-> 0]
  /\ nonblock = [t \in Tasks |-> FALSE]
  /\ rxTask = None /\ txTask = None
  /\ wire = None /\ got = <<>>
  /\ lost = FALSE

(* the number the next byte put into a buffer gets *)
NextByte(buf) ==
  (buf.data[IF buf.head = 0 THEN BufLen - 1 ELSE buf.head - 1] + 1) % Bytes

Numbered(buf, n) == [i \in 1 .. n |-> (NextByte(buf) + i - 1) % Bytes]

----------------------------------------------------------------------------
(* The UART *)

(* Another byte arrives.  The one before it is gone if nobody read SERDATR    *)
Arrive ==
  /\ rxData' = NextByte(rxBuf)
  /\ intreq' = intreq \cup {"RBF"}
  /\ UNCHANGED <<buffers, txData, txShift, wire, isr, critical, pc, tcb,
                 request, users, got, lost>>

(* The shift register has sent its byte and takes the next one *)
ShiftOut ==
  /\ txShift # None
  /\ wire' = txShift
  /\ txShift' = txData
  /\ txData' = None
  /\ intreq' = IF txData = None THEN intreq ELSE intreq \cup {"TBE"}
  /\ UNCHANGED <<buffers, rxData, isr, critical, pc, tcb, request, users, got,
                 lost>>

(* INTF_TBE is set but does not trigger an interrupt *)
LoseTBE ==
  /\ Lossy
  /\ "TBE" \in intreq
  /\ intreq' = intreq \ {"TBE"}
  /\ lost' = TRUE
  /\ UNCHANGED <<buffers, hardware, isr, critical, pc, tcb, request, users,
                 got>>

----------------------------------------------------------------------------
(* Serial transmission: SerialTransmit as a step on the transmit side and one *)
(* on the receive side, which do not affect each other                        *)

(* SERDATR is read: the byte goes into rxBuf, or nowhere when that is full    *)
Receive(buf) ==
  /\ rxData' = None
  /\ rxBuf' = IF rxData # None /\ ~R!RingFull(buf)
                THEN R!RingPutByte(buf, rxData) ELSE buf

(* The loop feeds SERDAT while it is empty.  The first byte of an idle line   *)
(* moves on at once, so that a second one can follow                          *)
Feed(buf) ==
  LET one == R!RingConsume(buf, 1)
      two == R!RingConsume(one, 1)
  IN  IF txData # None \/ R!RingEmpty(buf)
        THEN txBuf' = buf /\ UNCHANGED <<txData, txShift, intreq>>
      ELSE IF txShift # None
        THEN /\ txBuf' = one
             /\ txData' = R!RingGetByte(buf)
             /\ UNCHANGED <<txShift, intreq>>
      ELSE /\ txShift' = R!RingGetByte(buf)
           /\ IF R!RingEmpty(one)
                THEN txBuf' = one /\ UNCHANGED txData
                ELSE txBuf' = two /\ txData' = R!RingGetByte(one)
           /\ intreq' = intreq \cup {"TBE"}

SerialTransmit(tx) ==
  /\ Receive(rxBuf) /\ Feed(tx)
  /\ UNCHANGED wire

NotifySendFromISR(t, bits) ==
  /\ tcb' = [tcb EXCEPT ![t] = TN!Notified(@, bits)]
  /\ pc' = IF pc[t] = "waiting" THEN [pc EXCEPT ![t] = "ready"] ELSE pc

----------------------------------------------------------------------------
(* Interrupts.  A handler runs when no task is in a critical section and no   *)
(* handler of its level or above is active                                    *)

Unmasked(i) ==
  /\ critical = None
  /\ \A j \in Interrupts : isr[j] # "off" => IntLevel[j] < IntLevel[i]

Running(i) ==
  \A j \in Interrupts : isr[j] # "off" => IntLevel[j] <= IntLevel[i]

(* EnterIntr clears the request, then jumps to the handler                    *)
EnterIntr(i) ==
  /\ i \in intreq
  /\ Unmasked(i)
  /\ intreq' = intreq \ {i}
  /\ isr' = [isr EXCEPT ![i] = "entered"]
  /\ lost' = IF i = "TBE" THEN FALSE ELSE lost
  /\ UNCHANGED <<buffers, hardware, critical, pc, tcb, request, users, got>>

(* SendIntHandler, which the receive and vertical blank interrupts can        *)
(* interrupt once SerialTransmit is through                                   *)
SendTransmit ==
  /\ isr["TBE"] = "entered"
  /\ Running("TBE")
  /\ SerialTransmit(txBuf)
  /\ isr' = [isr EXCEPT !["TBE"] = "sent"]
  /\ UNCHANGED <<critical, pc, tcb, request, users, got, lost>>

(* Without a writer it tells those who monitor the file, which does nothing   *)
(* to the driver                                                              *)
SendNotify ==
  /\ isr["TBE"] = "sent"
  /\ Running("TBE")
  /\ isr' = [isr EXCEPT !["TBE"] = "off"]
  /\ IF R!RingEmpty(txBuf) /\ txTask # None
       THEN NotifySendFromISR(txTask, {"NB_IRQ"})
       ELSE UNCHANGED <<pc, tcb>>
  /\ UNCHANGED <<buffers, hardware, intreq, critical, request, users, got, lost>>

(* Definitions named Fault... are plausible slips in the code they stand      *)
(* beside.  No specification uses them.                                       *)

(* Fault: whether there is something to read is looked at before SERDATR is   *)
FaultLookFirst ==
  /\ isr["RBF"] = "entered"
  /\ Feed(txBuf)
  /\ Receive(rxBuf)
  /\ isr' = [isr EXCEPT !["RBF"] = "off"]
  /\ IF ~R!RingEmpty(rxBuf) /\ rxTask # None
       THEN NotifySendFromISR(rxTask, {"NB_IRQ"})
       ELSE UNCHANGED <<pc, tcb>>
  /\ UNCHANGED <<wire, critical, request, users, got, lost>>

(* RecvIntHandler, which nothing interrupts                                   *)
RecvIntHandler ==
  /\ isr["RBF"] = "entered"
  /\ Feed(txBuf)
  /\ Receive(rxBuf)
  /\ isr' = [isr EXCEPT !["RBF"] = "off"]
  /\ IF ~R!RingEmpty(rxBuf') /\ rxTask # None
       THEN NotifySendFromISR(rxTask, {"NB_IRQ"})
       ELSE UNCHANGED <<pc, tcb>>
  /\ UNCHANGED <<wire, critical, request, users, got, lost>>

(* Fault: recovery is attempted only when txBuf is full                       *)
FaultRecoverFull ==
  /\ Unmasked("VERTB")
  /\ R!RingFull(txBuf)
  /\ SerialTransmit(txBuf)
  /\ UNCHANGED <<isr, critical, pc, tcb, request, users, got, lost>>

(* RecoverIntHandler, all of it, at the vertical blank                        *)
RecoverIntHandler ==
  /\ Unmasked("VERTB")
  /\ SerialTransmit(txBuf)
  /\ UNCHANGED <<isr, critical, pc, tcb, request, users, got, lost>>

----------------------------------------------------------------------------
(* Tasks.  The mutexes rxLock and txLock let one task at a time into          *)
(* SerialRead, into SerialWrite; a task that waits for one has not called yet *)

CanRun(t) ==
  /\ critical \in {None, t}
  /\ \A i \in Interrupts : isr[i] = "off"

(* NotifyWait(NB_IRQ, portMAX_DELAY) by a task with these notification        *)
(* fields: take the bit if it is on and look again, or sleep                  *)
NotifyWait(t, fields) ==
  LET taken == "NB_IRQ" \in fields.value
      polled == TN!Polled(fields, {"NB_IRQ"})
  IN  /\ tcb' = [tcb EXCEPT ![t] = IF taken THEN polled ELSE TN!Blocked(polled)]
      /\ pc' = [pc EXCEPT ![t] = IF taken THEN "loop" ELSE "waiting"]
      /\ critical' = IF taken THEN t ELSE None

Return(t, fields) ==
  /\ tcb' = [tcb EXCEPT ![t] = fields]
  /\ pc' = [pc EXCEPT ![t] = "idle"]
  /\ critical' = None

(* Fault: a write that has made some progress returns                         *)
FaultShortWrite(t, n, nb, fields) ==
  LET written == R!RingWrite(txBuf, Numbered(txBuf, n))
      rest == Len(written.left)
  IN  /\ SerialTransmit(written.buf)
      /\ IF rest < n \/ nb
           THEN Return(t, fields) /\ txTask' = None
           ELSE NotifyWait(t, fields) /\ txTask' = t
      /\ left' = [left EXCEPT ![t] = rest]
      /\ nonblock' = [nonblock EXCEPT ![t] = nb]
      /\ UNCHANGED <<isr, rxTask, got, lost>>

(* One iteration of SerialWrite with n bytes left.  What a nonblocking write  *)
(* leaves undone is not kept                                                  *)
WriteLoop(t, n, nb, fields) ==
  LET written == R!RingWrite(txBuf, Numbered(txBuf, n))
      rest == Len(written.left)
  IN  /\ SerialTransmit(written.buf)
      /\ IF rest = 0 \/ nb
           THEN /\ Return(t, fields)
                /\ txTask' = None
                /\ left' = [left EXCEPT ![t] = 0]
                /\ nonblock' = [nonblock EXCEPT ![t] = FALSE]
           ELSE /\ NotifyWait(t, fields)
                /\ txTask' = t
                /\ left' = [left EXCEPT ![t] = rest]
                /\ nonblock' = [nonblock EXCEPT ![t] = nb]
      /\ UNCHANGED <<isr, rxTask, got, lost>>

(* One iteration of SerialRead, with RingRead when there is something to read *)
ReadLoop(t, n, nb, fields) ==
  LET read == R!RingRead(rxBuf, n)
  IN  /\ IF ~R!RingEmpty(rxBuf)
           THEN rxBuf' = read.buf /\ got' = read.bytes
           ELSE UNCHANGED <<rxBuf, got>>
      /\ IF ~R!RingEmpty(rxBuf) \/ nb
           THEN /\ Return(t, fields)
                /\ rxTask' = None
                /\ left' = [left EXCEPT ![t] = 0]
                /\ nonblock' = [nonblock EXCEPT ![t] = FALSE]
           ELSE /\ NotifyWait(t, fields)
                /\ rxTask' = t
                /\ left' = [left EXCEPT ![t] = n]
                /\ nonblock' = [nonblock EXCEPT ![t] = nb]
      /\ UNCHANGED <<txBuf, hardware, intreq, isr, txTask, lost>>

SerialRead(t, n, nb) ==
  /\ pc[t] = "idle" /\ CanRun(t)
  /\ rxTask = None
  /\ ReadLoop(t, n, nb, tcb[t])

SerialWrite(t, n, nb) ==
  /\ pc[t] = "idle" /\ CanRun(t)
  /\ txTask = None
  /\ WriteLoop(t, n, nb, tcb[t])

(* A task whose NotifyWait took a bit at once is still in the critical        *)
(* section; one that slept begins it again.  The first wake-up ends the wait, *)
(* whichever bit it brought, but then only NB_IRQ makes NotifyWait return     *)
(* something other than 0                                                     *)
GoOn(t) ==
  \/ pc[t] = "loop"
  \/ pc[t] = "ready" /\ CanRun(t)

Fields(t) ==
  IF pc[t] = "ready" THEN TN!Resumed(tcb[t], {"NB_IRQ"}) ELSE tcb[t]

ReadOn(t) ==
  /\ GoOn(t)
  /\ ReadLoop(t, left[t], nonblock[t], Fields(t))

(* on 0 SerialWrite gives up and returns with what it has written             *)
WriteOn(t) ==
  /\ GoOn(t)
  /\ IF pc[t] = "loop" \/ "NB_IRQ" \in tcb[t].value
       THEN WriteLoop(t, left[t], nonblock[t], Fields(t))
       ELSE /\ Return(t, Fields(t))
            /\ txTask' = None
            /\ UNCHANGED <<buffers, hardware, intreq, isr, request, rxTask, got,
                           lost>>

(* another file a task monitors has news *)
OtherEvent(t) ==
  /\ t \in Noisy
  /\ NotifySendFromISR(t, {"NB_EVENT"})
  /\ UNCHANGED <<buffers, hardware, intreq, isr, critical, request, users, got,
                 lost>>

TaskStep(t) ==
  \/ t \in Readers /\ ReadOn(t)
  \/ t \in Writers /\ WriteOn(t)

Next ==
  \/ Arrive \/ ShiftOut \/ LoseTBE
  \/ \E i \in Interrupts : EnterIntr(i)
  \/ SendTransmit \/ SendNotify \/ RecvIntHandler \/ RecoverIntHandler
  \/ \E t \in Readers, n \in ReadLens, nb \in BOOLEAN : SerialRead(t, n, nb)
  \/ \E t \in Writers, n \in WriteLens, nb \in BOOLEAN : SerialWrite(t, n, nb)
  \/ \E t \in Tasks : TaskStep(t) \/ OtherEvent(t)

Spec == Init /\ [][Next]_vars

(* The hardware runs, the vertical blank comes at every frame, an interrupt   *)
(* that is unmasked again and again is taken, handlers and critical sections  *)
(* come to an end                                                             *)
FairSpec ==
  /\ Spec
  /\ WF_vars(ShiftOut)
  /\ SF_vars(EnterIntr("TBE")) /\ SF_vars(EnterIntr("RBF"))
  /\ SF_vars(SendTransmit) /\ SF_vars(SendNotify)
  /\ WF_vars(RecvIntHandler) /\ SF_vars(RecoverIntHandler)
  /\ \A t \in Tasks : WF_vars(pc[t] = "loop" /\ TaskStep(t))

----------------------------------------------------------------------------
(* Properties *)

TypeOK ==
  /\ rxBuf \in R!Buffer /\ txBuf \in R!Buffer
  /\ {rxData, txData, txShift, wire} \subseteq Byte \cup {None}
  /\ txData # None => txShift # None
  /\ intreq \subseteq Interrupts
  /\ isr \in [Interrupts -> {"off", "entered", "sent"}]
  /\ critical \in Tasks \cup {None}
  /\ pc \in [Tasks -> {"idle", "loop", "waiting", "ready"}]
  /\ tcb \in [Tasks -> TN!TCB]
  /\ left \in [Tasks -> Nat] /\ nonblock \in [Tasks -> BOOLEAN]
  /\ rxTask \in Readers \cup {None} /\ txTask \in Writers \cup {None}
  /\ got \in Seq(Byte)
  /\ lost \in BOOLEAN

One(x) == IF x = None THEN <<>> ELSE <<x>>
TxPending == One(txShift) \o One(txData) \o R!Contents(txBuf)

(* Whatever the handlers and writers interleave to, the bytes put into txBuf  *)
(* leave the wire in that order and each of them once                         *)
Tx == INSTANCE ByteStream WITH
  pending <- TxPending, out <- One(wire), Capacity <- BufLen + 2
TxInOrder == Tx!Spec

(* The bytes that made it into rxBuf reach the readers in order and once      *)
Rx == INSTANCE ByteStream WITH
  pending <- R!Contents(rxBuf), out <- got, Capacity <- BufLen
RxInOrder == Rx!Spec

(* Both ways at once, with rings that stay well-formed                        *)
InOrder == []TypeOK /\ TxInOrder /\ RxInOrder

(* A blocking write puts all its bytes into txBuf before it returns, if       *)
(* nothing but serial interrupts notifies the writer                          *)
WriteComplete ==
  \A t \in Writers \ Noisy :
    pc[t] = "idle" => left[t] = 0

(* A writer sleeps only while a transmit interrupt is on its way that will    *)
(* wake it, if none was lost                                                  *)
StrandedOnlyByLoss ==
  \A t \in Writers : pc[t] = "waiting" =>
    lost \/ "TBE" \in intreq \/ isr["TBE"] # "off" \/ txData # None

(* A reader does not sleep on data: every handler can move a byte into rxBuf, *)
(* yet the receive interrupt that wakes the reader is still to come           *)
ReaderAwake ==
  \A t \in Readers : pc[t] = "waiting" =>
    R!RingEmpty(rxBuf) \/ "RBF" \in intreq \/ isr["RBF"] # "off"

(* Nobody sleeps although no interrupt is on its way to end it                *)
NobodyStranded == StrandedOnlyByLoss /\ ReaderAwake

(* A byte leaves the wire                                                     *)
Shifted ==
  TxPending # <<>> /\ (TxPending' = <<>> \/ Head(TxPending') # Head(TxPending))

(* The recovery mechanism: as long as there are bytes in the driver one after *)
(* the other leaves the wire, however many transmit interrupts are lost       *)
Transmitted == []<>(TxPending = <<>>) \/ []<><<Shifted>>_vars
=============================================================================
