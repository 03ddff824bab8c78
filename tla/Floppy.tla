------------------------------- MODULE Floppy -------------------------------
(* The floppy drive and its driver (drivers/floppy.c).  Clients send their    *)
(* requests to the task of the driver, which copies sectors between them and  *)
(* the cache of one track, moves the heads, and lets the disk controller      *)
(* transfer whole tracks.  The task sleeps while the heads move and settle,   *)
(* while a track is transferred and when nobody asks for anything; the timer  *)
(* and the controller wake it with the same notification bit, NB_IRQ.  The    *)
(* first request may come while the heads are still brought to track 0: its   *)
(* notification, NB_MSGPORT, ends the delay the task is in, and the timer     *)
(* goes on counting.                                                          *)
(*                                                                            *)
(* The encoding of a track (floppy-mfm.c) is left out: the buffer is the      *)
(* sectors in it, by their numbers.  How a message gets into the port and     *)
(* back is MsgPort's; how a timer is set and runs out is Cia's, and here      *)
(* WaitTimerSleep sets it in one step.                                        *)
EXTENDS Integers, Sequences, FiniteSets

CONSTANTS
  NTRACKS,      \* tracks of a disk: even ones are on the lower side
  NSECTORS,     \* sectors of a track
  SECTOR_SIZE,  \* bytes of a sector
  Clients,
  Requests,     \* what clients ask for: offset, left and write of an IoReq_t
  MaxCalls,     \* bound on the requests; each one writes its own number
  None

Track == 0 .. NTRACKS - 1
Sector == 0 .. NSECTORS - 1
Byte == 0 .. MaxCalls
TRACK_SIZE == NSECTORS * SECTOR_SIZE
FLOPPY_SIZE == NTRACKS * TRACK_SIZE
Cylinders == NTRACKS \div 2
Heads == [cylinder : 0 .. Cylinders - 1, side : 0 .. 1, inwards : BOOLEAN]

(* An IoReq_t on its way; `value` stands for the bytes of a write, `buf` for   *)
(* those that have been copied                                                *)
Request ==
  [offset : Nat, left : Nat, write : BOOLEAN, value : Byte, buf : Seq(Byte)]

ASSUME FloppyAssumption ==
  /\ Cylinders \in Nat \ {0} /\ NTRACKS = 2 * Cylinders
  /\ NSECTORS \in Nat \ {0} /\ SECTOR_SIZE \in Nat \ {0} /\ MaxCalls \in Nat
  /\ Requests \subseteq [offset : Nat, left : Nat, write : BOOLEAN]
  /\ None \notin Clients \cup Request

VARIABLES
  req,      \* the request each client waits for, or None
  port,     \* whose request is in the port, or None
  io,       \* where the task is and its local variables
  fd,       \* FloppyDev_t: track, motorOn, headDir, headTrk
  state,    \* sectorState: DECODED, DIRTY
  raw,      \* rawSector: the cached sectors
  buffer,   \* diskTrack, by sector
  drive,    \* the hardware: position of the heads, the direction they step in
  disk,     \* what is on the disk
  protect,  \* whether the disk is write protected
  timer,    \* whether the timer is running
  dma,      \* "off", the transfer under way, or "done"
  irq,      \* whether NB_IRQ is pending for the task
  cut,      \* whether another notification has ended the wait for NB_IRQ
  missed,   \* whether the timer has run out while no delay waited for it
  refused,  \* whether a write has ever met a protected disk
  calls

media == <<state, raw, buffer, disk, protect, refused>>
waiting == <<timer, irq, cut, missed>>
vars == <<req, port, io, fd, drive, dma, calls, waiting, media>>

Blank == [o \in 0 .. SECTOR_SIZE - 1 |-> 0]
READ == "read"
WRITE == "write"

Init ==
  /\ req = [c \in Clients |-> None]
  /\ io = [pc |-> "start", client |-> None, track |-> 0, sector |-> 0,
           offset |-> 0, needWrite |-> FALSE, cmd |-> READ]
  /\ fd = [track |-> -1, motorOn |-> FALSE, headDir |-> 0, headTrk |-> 0]
  /\ state = [s \in Sector |-> {}]
  /\ raw = [s \in Sector |-> Blank]
  /\ buffer = [s \in Sector |-> Blank]
  /\ drive \in Heads
  /\ disk = [t \in Track |-> [s \in Sector |-> Blank]]
  /\ protect = FALSE /\ refused = FALSE
  /\ port = None
  /\ timer = FALSE /\ dma = "off"
  /\ irq = FALSE /\ cut = FALSE /\ missed = FALSE
  /\ calls = 0

----------------------------------------------------------------------------
(* The hardware                                                               *)

Under == 2 * drive.cylinder + drive.side   \* the track under the heads
HeadsAtTrack0 == drive.cylinder = 0
WriteProtected == protect

(* The heads stop at either end                                               *)
Pulsed ==
  [drive EXCEPT !.cylinder =
     IF drive.inwards THEN IF @ = Cylinders - 1 THEN @ ELSE @ + 1
     ELSE IF @ = 0 THEN @ ELSE @ - 1]

(* Where the task waits for the timer, and where that is to bring the heads   *)
(* to track 0                                                                 *)
HomeDelays == {"turned out", "stepped out", "home"}
Delays == HomeDelays \cup {"turned", "stepped", "settle", "written"}

TimerFires ==
  /\ timer
  /\ timer' = FALSE /\ irq' = TRUE
  /\ missed' = (missed \/ io.pc \notin Delays)
  /\ UNCHANGED <<req, port, io, fd, drive, dma, cut, calls, media>>

(* The controller has transferred some sectors of the track under the heads   *)
Transferred(some) ==
  LET onto(old, new) == [s \in Sector |-> IF s \in some THEN new[s] ELSE old[s]]
  IN  /\ buffer' = IF dma = READ THEN onto(buffer, disk[Under]) ELSE buffer
      /\ disk' = IF dma = WRITE /\ ~ protect
                 THEN [disk EXCEPT ![Under] = onto(@, buffer)] ELSE disk
      /\ refused' = (refused \/ (dma = WRITE /\ protect))

(* It transfers all of them and interrupts                                    *)
TrackTransferDone ==
  /\ dma \in {READ, WRITE}
  /\ dma' = "done" /\ irq' = TRUE
  /\ Transferred(Sector)
  /\ UNCHANGED <<req, port, io, fd, drive, timer, cut, missed, calls,
                 state, raw, protect>>

(* The user moves the tab of the disk                                         *)
MoveTab ==
  /\ protect' = ~ protect
  /\ UNCHANGED <<req, port, io, fd, drive, dma, calls, waiting,
                 state, raw, buffer, disk, refused>>

----------------------------------------------------------------------------
(* Waiting                                                                    *)

(* Definitions named Fault... are plausible slips in the code they stand      *)
(* beside.  No specification uses them.                                       *)

(* The end of a NotifyWait(NB_IRQ, portMAX_DELAY), whose result nobody looks  *)
(* at                                                                         *)
WaitEnds == (irq \/ cut) /\ cut' = FALSE

(* Fault: the wait leaves the bit set                                         *)
FaultWoken == WaitEnds /\ UNCHANGED <<irq, missed>>

(* It clears the bit                                                          *)
Woken == WaitEnds /\ irq' = FALSE /\ UNCHANGED missed

(* WaitTimerSleep sets the timer and waits.  If the timer still counts it may *)
(* run out before it is set again, and the wait is over when it begins        *)
WaitTimerSleep(pending) ==
  /\ timer' = TRUE
  /\ \E out \in {FALSE, timer} :
       irq' = (pending \/ out) /\ missed' = (missed \/ out)

(* One delay after another                                                    *)
NextDelay == WaitEnds /\ WaitTimerSleep(FALSE)

(* The controller is turned off.  A transfer that is not over stops, or ends  *)
(* just now and leaves its notification behind                                *)
TransferOff ==
  /\ dma' = "off"
  /\ \E some \in SUBSET Sector :
       /\ Transferred(some)
       /\ irq' \in {FALSE, (dma # "done" /\ some = Sector)}

----------------------------------------------------------------------------
(* The heads                                                                  *)

(* A pulse that comes before the delay for the last one is over may be lost   *)
Pulse == drive' = Pulsed \/ (timer /\ UNCHANGED drive)

(* Fault: a step is counted as one track, not as a cylinder of two            *)
FaultHeadsStepDirection(f, inwards) ==
  [f EXCEPT !.headDir = IF inwards THEN 1 ELSE -1]

HeadsStepDirection(f, inwards) ==
  [f EXCEPT !.headDir = IF inwards THEN 2 ELSE -2]

(* Fault: a step is not counted                                               *)
FaultStepped(pc) == fd

(* StepHeads has slept when it adds headDir; at `pc` the step was made        *)
Stepped(pc) ==
  IF io.pc = pc THEN [fd EXCEPT !.headTrk = @ + fd.headDir] ELSE fd

ChangeDiskSide(f, upper) ==
  [f EXCEPT !.headTrk = IF upper = 1 THEN @ + 1 ELSE @ - 1]

(* FloppyHeadToTrack0: the motor on, outwards to the first cylinder, then the *)
(* direction is reversed and the lower side selected                          *)
Start ==
  /\ io.pc = "start"
  /\ fd' = HeadsStepDirection([fd EXCEPT !.motorOn = TRUE], FALSE)
  /\ drive' = [drive EXCEPT !.inwards = FALSE]
  /\ WaitTimerSleep(irq)
  /\ io' = [io EXCEPT !.pc = "turned out"]
  /\ UNCHANGED <<req, port, dma, cut, calls, media>>

Outwards ==
  /\ io.pc \in {"turned out", "stepped out"} /\ NextDelay
  /\ IF HeadsAtTrack0
     THEN /\ fd' = HeadsStepDirection(Stepped("stepped out"), TRUE)
          /\ drive' = [drive EXCEPT !.inwards = TRUE]
          /\ io' = [io EXCEPT !.pc = "home"]
     ELSE /\ fd' = Stepped("stepped out")
          /\ Pulse
          /\ io' = [io EXCEPT !.pc = "stepped out"]
  /\ UNCHANGED <<req, port, dma, calls, media>>

Home ==
  /\ io.pc = "home" /\ Woken
  /\ fd' = [fd EXCEPT !.headTrk = 0]
  /\ drive' = [drive EXCEPT !.side = 0]
  /\ io' = [io EXCEPT !.pc = "idle"]
  /\ UNCHANGED <<req, port, timer, dma, calls, media>>

----------------------------------------------------------------------------
(* FloppyReadWriteTrack                                                       *)

(* The motor, the side and the direction                                      *)
MoveTo(cmd) ==
  LET on == [fd EXCEPT !.motorOn = TRUE]
      upper == io.track % 2
      sided == IF (io.track - fd.headTrk) % 2 = 1
               THEN ChangeDiskSide(on, upper) ELSE on
      inwards == io.track > sided.headTrk
      there == io.track = sided.headTrk
  IN  /\ fd' = IF there THEN sided ELSE HeadsStepDirection(sided, inwards)
      /\ drive' = [drive EXCEPT
            !.side = IF (io.track - fd.headTrk) % 2 = 1 THEN upper ELSE @,
            !.inwards = IF there THEN @ ELSE inwards]
      /\ io' = [io EXCEPT !.cmd = cmd,
                          !.pc = IF there THEN "settle" ELSE "turned"]
      /\ WaitTimerSleep(irq)

ReadTrack ==
  /\ io.pc = "serve" /\ req[io.client].left > 0 /\ io.sector < NSECTORS
  /\ fd.track # io.track
  /\ MoveTo(READ)
  /\ UNCHANGED <<req, port, dma, cut, calls, media>>

(* A protected disk is not written, which the caller does not look at.        *)
(* Otherwise the sectors that were modified are encoded                       *)
WriteTrack ==
  /\ io.pc = "serve" /\ io.needWrite
  /\ io.sector = NSECTORS \/ req[io.client].left = 0
  /\ IF WriteProtected
     THEN /\ refused' = TRUE
          /\ io' = [io EXCEPT !.needWrite = FALSE]
          /\ UNCHANGED <<fd, drive, timer, irq, missed, buffer, state>>
     ELSE /\ buffer' = [s \in Sector |->
               IF "DIRTY" \in state[s] THEN raw[s] ELSE buffer[s]]
          /\ state' = [s \in Sector |-> state[s] \ {"DIRTY"}]
          /\ MoveTo(WRITE)
          /\ UNCHANGED refused
  /\ UNCHANGED <<req, port, dma, cut, calls, raw, disk, protect>>

Travel ==
  /\ io.pc \in {"turned", "stepped"} /\ NextDelay
  /\ fd' = Stepped("stepped")
  /\ IF io.track # fd'.headTrk
     THEN Pulse /\ io' = [io EXCEPT !.pc = "stepped"]
     ELSE drive' = drive /\ io' = [io EXCEPT !.pc = "settle"]
  /\ UNCHANGED <<req, port, dma, calls, media>>

Transfer ==
  /\ io.pc = "settle" /\ Woken
  /\ dma' = io.cmd
  /\ io' = [io EXCEPT !.pc = "transfer"]
  /\ UNCHANGED <<req, port, fd, drive, timer, calls, media>>

(* Fault: the states of the sectors outlive their track                       *)
FaultForget == state

Forget == [s \in Sector |-> {}]

TransferRead ==
  /\ io.pc = "transfer" /\ io.cmd = READ /\ WaitEnds
  /\ TransferOff
  /\ fd' = [fd EXCEPT !.track = io.track]
  /\ state' = Forget
  /\ io' = [io EXCEPT !.pc = "serve"]
  /\ UNCHANGED <<req, port, drive, timer, missed, calls, raw, protect>>

(* The heads stay where they are for WRITE_SETTLE                             *)
TransferWritten ==
  /\ io.pc = "transfer" /\ io.cmd = WRITE /\ NextDelay
  /\ io' = [io EXCEPT !.pc = "written"]
  /\ UNCHANGED <<req, port, fd, drive, dma, calls, media>>

Written ==
  /\ io.pc = "written" /\ WaitEnds
  /\ TransferOff
  /\ io' = [io EXCEPT !.pc = "serve", !.needWrite = FALSE]
  /\ UNCHANGED <<req, port, fd, drive, timer, missed, calls, state, raw, protect>>

----------------------------------------------------------------------------
(* FloppyIoTask, and FloppyReadWrite of its clients                           *)

(* A request is cut at the end of the disk; what is empty or lies beyond is   *)
(* answered at once, which changes nothing                                    *)
FloppyReadWrite(c) ==
  \E r \in Requests :
    LET rest == FLOPPY_SIZE - r.offset
        left == IF r.left > rest THEN rest ELSE r.left
    IN  /\ req[c] = None /\ calls < MaxCalls
        /\ r.offset < FLOPPY_SIZE /\ left # 0
        /\ calls' = calls + 1
        /\ req' = [req EXCEPT ![c] =
             [offset |-> r.offset, left |-> left, write |-> r.write,
              value |-> calls', buf |-> <<>>]]
        /\ UNCHANGED <<port, io, fd, drive, dma, waiting, media>>

(* The message is in the port and its notification reaches the task.  It ends *)
(* a delay the task sleeps in, unless it comes before the task sleeps or the  *)
(* delay began at tick 0 (see NotifyWait.tla).  The task has the highest      *)
(* priority: it sleeps, and that can only be when it is idle or for the first *)
(* delays, when a client gets this far                                        *)
DoMsg(c) ==
  /\ req[c] # None /\ port = None
  /\ port' = c
  /\ cut' \in BOOLEAN /\ (cut' => io.pc \in HomeDelays)
  /\ UNCHANGED <<req, io, fd, drive, dma, timer, irq, missed, calls, media>>

GetMsg(c) ==
  /\ io.pc = "idle" /\ port = c
  /\ io' = [io EXCEPT !.pc = "serve", !.client = c, !.needWrite = FALSE,
            !.track = req[c].offset \div TRACK_SIZE,
            !.sector = (req[c].offset \div SECTOR_SIZE) % NSECTORS,
            !.offset = req[c].offset % SECTOR_SIZE]
  /\ UNCHANGED <<req, port, fd, drive, dma, calls, waiting, media>>

(* No request has come for a second                                           *)
FloppyMotorOff ==
  /\ io.pc = "idle" /\ fd.motorOn /\ port = None
  /\ fd' = [fd EXCEPT !.motorOn = FALSE]
  /\ UNCHANGED <<req, port, io, drive, dma, calls, waiting, media>>

(* Fault: a modified sector is not marked                                     *)
FaultMarks(write) == {"DECODED"}

Marks(write) == {"DECODED"} \cup (IF write THEN {"DIRTY"} ELSE {})

(* One sector, or the part of it that is asked for, of the cached track       *)
CopySector ==
  LET r == req[io.client]
      s == io.sector
      room == SECTOR_SIZE - io.offset
      n == IF r.left < room THEN r.left ELSE room
      old == IF "DECODED" \in state[s] THEN raw[s] ELSE buffer[s]
      new == [o \in DOMAIN old |->
                IF r.write /\ o \in io.offset .. io.offset + n - 1
                THEN r.value ELSE old[o]]
      moved == [i \in 1 .. n |-> new[io.offset + i - 1]]
  IN  /\ io.pc = "serve" /\ r.left > 0 /\ s < NSECTORS /\ fd.track = io.track
      /\ raw' = [raw EXCEPT ![s] = new]
      /\ state' = [state EXCEPT ![s] = @ \cup Marks(r.write)]
      /\ req' = [req EXCEPT ![io.client].left = @ - n,
                            ![io.client].buf = @ \o moved]
      /\ io' = [io EXCEPT !.offset = 0, !.sector = @ + 1,
                          !.needWrite = @ \/ r.write]
      /\ UNCHANGED <<port, fd, drive, dma, calls, waiting, buffer, disk, protect,
                     refused>>

(* The end of a track, which has been written if it had to be                 *)
NextTrack ==
  /\ io.pc = "serve" /\ io.sector = NSECTORS /\ ~ io.needWrite
  /\ io' = [io EXCEPT !.sector = 0, !.track = @ + 1]
  /\ UNCHANGED <<req, port, fd, drive, dma, calls, waiting, media>>

(* The client has its answer; io->error is 0 whatever happened                *)
ReplyMsg ==
  /\ io.pc = "serve" /\ io.sector < NSECTORS /\ ~ io.needWrite
  /\ req[io.client].left = 0
  /\ req' = [req EXCEPT ![io.client] = None]
  /\ port' = None
  /\ io' = [io EXCEPT !.pc = "idle", !.client = None]
  /\ UNCHANGED <<fd, drive, dma, calls, waiting, media>>

IoTask ==
  \/ Start \/ Outwards \/ Home
  \/ \E c \in Clients : GetMsg(c)
  \/ FloppyMotorOff
  \/ ReadTrack \/ WriteTrack \/ Travel
  \/ Transfer \/ TransferRead \/ TransferWritten \/ Written
  \/ CopySector \/ NextTrack \/ ReplyMsg

Hardware == TimerFires \/ TrackTransferDone

Next ==
  \/ \E c \in Clients : FloppyReadWrite(c) \/ DoMsg(c)
  \/ IoTask
  \/ Hardware
  \/ MoveTab

(* The task has the highest priority but for the interrupts and is not kept   *)
(* from running; a timer that runs fires, and a transfer ends; a client whose *)
(* request the port has room for runs when the task sleeps                    *)
Spec ==
  /\ Init /\ [][Next]_vars
  /\ WF_vars(IoTask) /\ WF_vars(Hardware)
  /\ WF_vars(\E c \in Clients : DoMsg(c))

----------------------------------------------------------------------------
(* Properties                                                                 *)

Homing == io.pc = "start" \/ io.pc \in HomeDelays
Moving == io.pc \in {"turned", "stepped"}
Label == Delays \cup {"start", "idle", "serve", "transfer"}
Data == [0 .. SECTOR_SIZE - 1 -> Byte]
Locals ==
  [pc : Label, client : Clients \cup {None}, track : 0 .. NTRACKS,
   sector : 0 .. NSECTORS, offset : 0 .. SECTOR_SIZE - 1,
   needWrite : BOOLEAN, cmd : {READ, WRITE}]
Device ==
  [track : Track \cup {-1}, motorOn : BOOLEAN, headDir : {-2, 0, 2},
   headTrk : Int]

TypeOK ==
  /\ req \in [Clients -> Request \cup {None}]
  /\ io \in Locals /\ fd \in Device /\ drive \in Heads
  /\ state \in [Sector -> SUBSET {"DECODED", "DIRTY"}]
  /\ raw \in [Sector -> Data] /\ buffer \in [Sector -> Data]
  /\ disk \in [Track -> [Sector -> Data]]
  /\ protect \in BOOLEAN /\ refused \in BOOLEAN
  /\ port \in Clients \cup {None}
  /\ {timer, irq, cut, missed} \subseteq BOOLEAN
  /\ dma \in {"off", READ, WRITE, "done"}
  /\ calls \in 0 .. MaxCalls

(* Once the heads have been brought to track 0 the driver knows where they    *)
(* are: no pulse lost on the way there, no sequence of steps and changes of   *)
(* side and direction makes headTrk differ from the track under them, and a   *)
(* track is transferred only when it is that one, with the motor on and       *)
(* nothing moving.  This is so until the timer runs out while no delay waits  *)
(* for it                                                                     *)
HeadsKnown ==
  ~ missed =>
    /\ ~ Homing => Stepped("stepped").headTrk = Under
    /\ dma \in {READ, WRITE} =>
         /\ Under = io.track /\ fd.motorOn
         /\ ~ timer /\ io.pc = "transfer"

(* NB_IRQ stands for a delay and for a transfer.  Only the first request ends *)
(* a wait for it with something else: a delay while the heads are brought to  *)
(* track 0.  The timer, which then counts on, is set again before it can be   *)
(* taken for another delay or a transfer, and no notification is left over    *)
(* for the next wait, unless the timer runs out in between                    *)
NoStrayWakeup ==
  ~ missed =>
    /\ irq => ~ timer /\ dma \notin {READ, WRITE}
    /\ ~ (timer /\ dma \in {READ, WRITE})
    /\ io.pc \in {"idle", "serve", "start"} => ~ irq /\ dma = "off"
    /\ cut \/ (timer /\ io.pc \notin Delays) => port # None /\ fd.track = -1

NoneMissed == ~ missed

(* "Wake up when the transfer finishes" (floppy.c:269), without the condition *)
(* of the other properties.  It is not so, see MCFloppyEarly.cfg              *)
TransferFinished ==
  [][io.pc = "transfer" /\ io'.pc # "transfer" => dma = "done"]_vars

(* A write that has been answered is on the disk, unless a write has met a    *)
(* protected disk: nothing stays behind in the cache (DIRTY, needWrite)       *)
WrittenThrough ==
  io.pc = "idle" /\ ~ refused /\ ~ missed =>
    /\ \A s \in Sector : "DIRTY" \notin state[s]
    /\ fd.track # -1 =>
         /\ buffer = disk[fd.track]
         /\ \A s \in Sector :
              "DECODED" \in state[s] => raw[s] = disk[fd.track][s]

(* What a reader finds at a place: the cache stands before the disk           *)
Content ==
  [p \in 0 .. FLOPPY_SIZE - 1 |->
    LET t == p \div TRACK_SIZE
        s == (p \div SECTOR_SIZE) % NSECTORS
        o == p % SECTOR_SIZE
    IN  IF t = fd.track /\ "DECODED" \in state[s] THEN raw[s][o]
        ELSE disk[t][s][o]]

D == INSTANCE Drive WITH
  Size <- FLOPPY_SIZE, content <- Content, call <- req, broken <- missed

(* The cache, the sector states and the moves of the heads are invisible: the *)
(* clients see a drive in which each byte is what was last written there, up  *)
(* to the time the timer runs out while no delay waits for it                 *)
ImplementsDrive == D!Spec

(* Every request is answered, on whatever track, from wherever the heads are  *)
Served == \A c \in Clients : req[c] # None ~> req[c] = None \/ missed
=============================================================================
